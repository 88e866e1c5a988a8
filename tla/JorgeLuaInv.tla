---------------------------- MODULE JorgeLuaInv -----------------------------
(* The inductive invariant behind UnsharedResponse, FaultNeedsOverlap and  *)
(* NoLeak: what jData and the heap look like to a thread that shares       *)
(* jlua_interpret with nobody, at each point of its code.                  *)
EXTENDS JorgeLua

Body(t)   == built[t].body
Head0(t)  == built[t].header
Len0(t)   == Len(Body(t))

\* The nodes Body(t)[i..n] are live and linked in this order.
Chain(t, i, n) ==
  \A k \in i..n :
    /\ Body(t)[k] \in DOMAIN next
    /\ next[Body(t)[k]] = IF k < n THEN Body(t)[k + 1] ELSE NULL

First(t, i, n) == IF i <= n THEN Body(t)[i] ELSE NULL

\* Thread t's live nodes are among Body(t)[i..Len], no other.
OwnNodes(t, i) ==
  \A x \in DOMAIN next : x[1] = t => \E k \in i..Len0(t) : x = Body(t)[k]

List(t, n) ==
  /\ jData.response_body = First(t, 1, n)
  /\ Chain(t, 1, n)
  /\ OwnNodes(t, 1)

FullList(t) == List(t, Len0(t))

NoOwnHeader(t) == \A x \in strings : x[1] # t

HeaderLive(t) ==
  /\ jData.response_header = Head0(t)
  /\ Head0(t) # NULL => Head0(t) \in strings
  /\ \A x \in strings : x[1] = t => x = Head0(t)

\* Every block of the response is this thread's, and no chunk is there twice.
OwnBlocks(t) ==
  /\ \A k \in 1..Len0(t) : Body(t)[k][1] = t /\ Body(t)[k][2] <= mallocs[t]
  /\ \A k, l \in 1..Len0(t) : Body(t)[k] = Body(t)[l] => k = l

SentHeader(t) == IF Head0(t) = NULL THEN <<>> ELSE <<Head0(t)>>
Sent(t, n) ==
  out[t] = SentHeader(t) \o (IF scriptError[t] THEN <<>> ELSE SubSeq(Body(t), 1, n))

Echoing(t) ==
  /\ Len0(t) > 0
  /\ Body(t)[Len0(t)] = Newest(t)
  /\ Newest(t) \in DOMAIN next
  /\ next[Newest(t)] = NULL
  /\ List(t, Len0(t) - 1)
  /\ HeaderLive(t)

Solo(t) ==
  /\ jData.connection = fd[t]
  /\ OwnBlocks(t)
  /\ pc[t] \in {"init_body", "init_header", "load"} =>
       /\ built[t] = Empty
       /\ OwnNodes(t, 1)
       /\ NoOwnHeader(t)
  /\ pc[t] \in {"init_header", "load"} => jData.response_body = NULL
  /\ pc[t] = "load" => jData.response_header = NULL
  /\ pc[t] \in {"run", "hdr_free", "err_header", "send_check", "send_header"} =>
       FullList(t) /\ HeaderLive(t)
  /\ pc[t] \in {"echo_check", "echo_head", "echo_walk", "echo_link", "echo_first"} =>
       Echoing(t)
  /\ pc[t] \in {"echo_head", "echo_walk", "echo_link"} => Len0(t) > 1
  /\ pc[t] = "echo_first" => Len0(t) = 1
  /\ pc[t] = "echo_walk" => \E k \in 1..Len0(t) - 1 : cur[t] = Body(t)[k]
  /\ pc[t] = "echo_link" => cur[t] = Body(t)[Len0(t) - 1]
  /\ pc[t] = "hdr_dup" => FullList(t) /\ NoOwnHeader(t)
  /\ pc[t] = "hdr_len" => FullList(t) /\ HeaderLive(t) /\ Head0(t) # NULL
  /\ pc[t] = "err_head" => FullList(t) /\ NoOwnHeader(t)
  /\ pc[t] = "err_node" =>
       /\ NoOwnHeader(t)
       /\ \E i \in 1..Len0(t) + 1 :
            /\ cur[t] = First(t, i, Len0(t))
            /\ Chain(t, i, Len0(t))
            /\ OwnNodes(t, i)
  /\ pc[t] \in {"err_clear", "err_load"} =>
       /\ NoOwnHeader(t)
       /\ OwnNodes(t, Len0(t) + 1)
       /\ jData.response_body = NULL
  /\ pc[t] = "err_load" => jData.response_header = NULL
  /\ pc[t] = "send_header" => Head0(t) # NULL
  /\ pc[t] = "send_free" => FullList(t) /\ HeaderLive(t) /\ Sent(t, 0)
  /\ pc[t] = "send_head" => FullList(t) /\ NoOwnHeader(t) /\ Sent(t, 0)
  /\ pc[t] = "send_node" =>
       /\ NoOwnHeader(t)
       /\ \E i \in 1..Len0(t) + 1 :
            /\ cur[t] = First(t, i, Len0(t))
            /\ Chain(t, i, Len0(t))
            /\ OwnNodes(t, i)
            /\ Sent(t, i - 1)
  /\ pc[t] = "free_node" =>
       /\ NoOwnHeader(t)
       /\ \E i \in 1..Len0(t) :
            /\ cur[t] = First(t, i, Len0(t))
            /\ Chain(t, i, Len0(t))
            /\ OwnNodes(t, i)
            /\ Sent(t, i)
  /\ pc[t] \notin {"send_free", "send_head", "send_node", "free_node"} => out[t] = <<>>

\* A thread that has not entered yet owns nothing and was sent nothing.
Fresh(t) ==
  /\ built[t] = Empty
  /\ out[t] = <<>>
  /\ \A x \in DOMAIN next \cup strings : x[1] # t

Settled(t) ==
  /\ out[t] = Response(t)
  /\ \A x \in DOMAIN next \cup strings : x[1] # t

\* A connection that is still being read is safe from the threads inside.
Reading(t) ==
  /\ Fresh(t)
  /\ Inside # {} => jData.connection # fd[t]

\* Open connections have descriptors of their own.
FdsDistinct ==
  \A t \in Open : fd[t] # NULL /\ \A u \in Open : fd[t] = fd[u] => t = u

\* The inductive invariant: a thread that has overlapped nobody is alone in
\* jlua_interpret, and what it sees is as Solo says.
IInv ==
  /\ TypeOK
  /\ FdsDistinct
  /\ FaultNeedsOverlap
  /\ \A t \in Threads :
       /\ pc[t] = "new" => Fresh(t)
       /\ t \notin shared =>
            /\ pc[t] = "reading" => Reading(t)
            /\ t \in Inside => Inside = {t} /\ (fault = NULL => Solo(t))
            /\ pc[t] = "closed" => Settled(t)
=============================================================================
