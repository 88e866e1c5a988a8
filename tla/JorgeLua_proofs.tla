------------------------------ MODULE JorgeLua_proofs -------------------------------
(* Theorems about the Lua subsystem, for any threads and any scripts: its  *)
(* types, what a request that never shares jlua_interpret is guaranteed,   *)
(* and the invariant of JorgeLuaInv with what follows from it.             *)
EXTENDS JorgeLuaInv, SequenceTheorems, TLAPS

\* The steps several paths share keep the types, wherever they stand.
LEMMA ClearType ==
  ASSUME TypeOK, NEW t \in Threads, NEW here, NEW to \in Locations,
         NEW field \in {"response_body", "response_header"}, Clear(t, here, field, to)
  PROVE  TypeOK'
<1>1. jData' \in [connection: Fds \cup {NULL}, response_body: Ptr, response_header: Ptr]
  <2>1. CASE field = "response_body"
    <3>1. jData' = [jData EXCEPT !.response_body = NULL]
      BY <2>1 DEF Clear
    <3>2. QED BY <3>1 DEF TypeOK, Ptr
  <2>2. CASE field = "response_header"
    <3>1. jData' = [jData EXCEPT !.response_header = NULL]
      BY <2>2 DEF Clear
    <3>2. QED BY <3>1 DEF TypeOK, Ptr
  <2>3. QED BY <2>1, <2>2
<1>2. QED BY <1>1 DEF Clear, Goto, TypeOK, heap, locals, aux, Ptr

LEMMA TakeHeadType ==
  ASSUME TypeOK, NEW t \in Threads, NEW here, NEW to \in Locations, TakeHead(t, here, to)
  PROVE  TypeOK'
  BY DEF TakeHead, Goto, TypeOK, heap, locals, aux

LEMMA FaultType ==
  ASSUME TypeOK, NEW t \in Threads, Fault(t)
  PROVE  TypeOK'
  BY DEF Fault, TypeOK, heap, locals, aux

LEMMA FreeHeaderType ==
  ASSUME TypeOK, NEW t \in Threads, NEW here, NEW to \in Locations, FreeHeader(t, here, to)
  PROVE  TypeOK'
<1>1. CASE Fault(t)
  BY <1>1, FaultType
<1>2. CASE ~Fault(t)
  BY <1>2 DEF FreeHeader, Goto, TypeOK, heap, locals, aux
<1>3. QED BY <1>1, <1>2

LEMMA FreeNodeType ==
  ASSUME TypeOK, NEW t \in Threads, NEW here, NEW to \in Locations, FreeNode(t, here, to)
  PROVE  TypeOK'
<1>1. CASE Fault(t)
  BY <1>1, FaultType
<1>2. CASE ~Fault(t)
  <2>1. cur[t] \in DOMAIN next
    BY <1>2 DEF FreeNode
  <2>2. /\ DOMAIN next' \subseteq Block
        /\ next' \in [DOMAIN next' -> Ptr]
    BY <2>1 DEF FreeNode, Restrict, TypeOK
  <2>3. next[cur[t]] \in Ptr
    BY <2>1 DEF TypeOK
  <2>4. cur' \in [Threads -> Ptr]
    BY <2>1, <2>3 DEF FreeNode, TypeOK
  <2>5. QED
    BY <2>1, <2>2, <2>4, ZenonT(60) DEF FreeNode, Goto, TypeOK, heap, locals, aux
<1>3. QED BY <1>1, <1>2

LEMMA MallocType ==
  ASSUME TypeOK, NEW t \in Threads, Malloc(t)
  PROVE  mallocs' \in [Threads -> Nat] /\ Newest(t)' \in Block
  BY DEF TypeOK, Malloc, Newest, Block

LEMMA CallsType ==
  ASSUME TypeOK, NEW t \in Threads, NEW op, Calls(t, op)
  PROVE  prog' \in [Threads -> Seq(Op)]
<1>1. prog[t] \in Seq(Op) /\ prog[t] # <<>>
  BY DEF TypeOK, Calls
<1>2. Tail(prog[t]) \in Seq(Op)
  BY <1>1, HeadTailProperties
<1>3. QED BY <1>2 DEF TypeOK, Calls

LEMMA ScriptType ==
  ASSUME TypeOK, NEW t \in Threads,
         LoadScript(t) \/ ScriptReturns(t) \/ ScriptFails(t) \/ LoadRescue(t)
  PROVE  TypeOK'
<1> USE DEF Goto, heap, locals, aux
<1>1. CASE LoadScript(t)
  <2>1. fault' \in Threads \cup {NULL}
    BY <1>1 DEF LoadScript, TypeOK
  <2>2. prog' \in [Threads -> Seq(Op)]
    BY <1>1, ScriptAssumption DEF LoadScript, TypeOK
  <2>3. scriptError' \in [Threads -> BOOLEAN]
    BY <1>1 DEF LoadScript, TypeOK
  <2>4. pc' \in [Threads -> Locations]
    BY <1>1 DEF LoadScript, TypeOK, Locations
  <2>5. QED
    BY <1>1, <2>1, <2>2, <2>3, <2>4 DEF LoadScript, TypeOK
<1>2. CASE ScriptReturns(t)
  BY <1>2 DEF ScriptReturns, TypeOK, Locations
<1>3. CASE ScriptFails(t)
  <2>1. prog' \in [Threads -> Seq(Op)]
    BY <1>3, CallsType DEF ScriptFails
  <2>2. pc' \in [Threads -> Locations]
    BY <1>3 DEF ScriptFails, TypeOK, Locations
  <2>3. QED
    BY <1>3, <2>1, <2>2 DEF ScriptFails, TypeOK
<1>4. CASE LoadRescue(t)
  <2>1. prog' \in [Threads -> Seq(Op)]
    BY <1>4, ScriptAssumption DEF LoadRescue, TypeOK
  <2>2. pc' \in [Threads -> Locations]
    BY <1>4 DEF LoadRescue, TypeOK, Locations
  <2>3. built' \in [Threads -> [header: Ptr, body: Seq(Block)]]
    <3>1. Empty \in [header: Ptr, body: Seq(Block)]
      BY DEF Empty, Ptr
    <3>2. QED BY <1>4, <3>1 DEF LoadRescue, TypeOK
  <2>4. QED
    BY <1>4, <2>1, <2>2, <2>3 DEF LoadRescue, TypeOK
<1>5. QED BY <1>1, <1>2, <1>3, <1>4

LEMMA EchoType ==
  ASSUME TypeOK, NEW t \in Threads, Echo(t)
  PROVE  TypeOK'
<1> USE DEF Goto, heap, locals, aux
<1>1. CASE EchoAlloc(t)
  <2>1. mallocs' \in [Threads -> Nat] /\ Newest(t)' \in Block
    BY <1>1, MallocType DEF EchoAlloc
  <2>2. prog' \in [Threads -> Seq(Op)]
    BY <1>1, CallsType DEF EchoAlloc
  <2>3. /\ DOMAIN next' \subseteq Block
        /\ next' \in [DOMAIN next' -> Ptr]
    BY <1>1, <2>1 DEF EchoAlloc, TypeOK, Ptr
  <2>4. built' \in [Threads -> [header: Ptr, body: Seq(Block)]]
    <3>1. Append(built[t].body, Newest(t)') \in Seq(Block)
      BY <2>1, AppendProperties DEF TypeOK
    <3>2. QED BY <1>1, <3>1 DEF EchoAlloc, TypeOK
  <2>5. pc' \in [Threads -> Locations]
    BY <1>1 DEF EchoAlloc, TypeOK, Locations
  <2>6. QED
    BY <1>1, <2>1, <2>2, <2>3, <2>4, <2>5 DEF EchoAlloc, TypeOK
<1>2. CASE EchoCheck(t)
  BY <1>2 DEF EchoCheck, TypeOK, Locations
<1>3. CASE EchoFirst(t)
  <2>1. Newest(t) \in Ptr
    BY DEF Newest, TypeOK, Ptr, Block
  <2>2. jData' \in [connection: Fds \cup {NULL}, response_body: Ptr, response_header: Ptr]
    BY <1>3, <2>1 DEF EchoFirst, TypeOK
  <2>3. pc' \in [Threads -> Locations]
    BY <1>3 DEF EchoFirst, TypeOK, Locations
  <2>4. QED
    BY <1>3, <2>2, <2>3 DEF EchoFirst, TypeOK
<1>4. CASE TakeHead(t, "echo_head", "echo_walk")
  BY <1>4, TakeHeadType DEF Locations
<1>5. CASE EchoWalk(t)
  <2>1. CASE Fault(t)
    BY <2>1, FaultType
  <2>2. CASE ~Fault(t)
    <3>1. cur[t] \in DOMAIN next /\ next[cur[t]] \in Ptr
      BY <1>5, <2>2 DEF EchoWalk, TypeOK
    <3>2. cur' \in [Threads -> Ptr] /\ pc' \in [Threads -> Locations]
      BY <1>5, <2>2, <3>1 DEF EchoWalk, TypeOK, Locations
    <3>3. QED BY <1>5, <2>2, <3>2 DEF EchoWalk, TypeOK
  <2>3. QED BY <2>1, <2>2
<1>6. CASE EchoLink(t)
  <2>1. CASE Fault(t)
    BY <2>1, FaultType
  <2>2. CASE ~Fault(t)
    <3>1. Newest(t) \in Ptr
      BY DEF Newest, TypeOK, Ptr, Block
    <3>2. /\ DOMAIN next' \subseteq Block
          /\ next' \in [DOMAIN next' -> Ptr]
      BY <1>6, <2>2, <3>1 DEF EchoLink, TypeOK
    <3>3. pc' \in [Threads -> Locations]
      BY <1>6, <2>2 DEF EchoLink, TypeOK, Locations
    <3>4. QED BY <1>6, <2>2, <3>2, <3>3 DEF EchoLink, TypeOK
  <2>3. QED BY <2>1, <2>2
<1>7. QED BY <1>1, <1>2, <1>3, <1>4, <1>5, <1>6 DEF Echo

LEMMA HeaderType ==
  ASSUME TypeOK, NEW t \in Threads, Header(t)
  PROVE  TypeOK'
<1> USE DEF Goto, heap, locals, aux
<1>1. CASE SetHeader(t)
  <2>1. prog' \in [Threads -> Seq(Op)]
    BY <1>1, CallsType DEF SetHeader
  <2>2. pc' \in [Threads -> Locations]
    BY <1>1 DEF SetHeader, TypeOK, Locations
  <2>3. QED BY <1>1, <2>1, <2>2 DEF SetHeader, TypeOK
<1>2. CASE FreeHeader(t, "hdr_free", "hdr_dup")
  BY <1>2, FreeHeaderType DEF Locations
<1>3. CASE HeaderDup(t)
  <2>1. mallocs' \in [Threads -> Nat] /\ Newest(t)' \in Block
    BY <1>3, MallocType DEF HeaderDup
  <2>2. Newest(t)' \in Ptr
    BY <2>1 DEF Ptr
  <2>3. jData' \in [connection: Fds \cup {NULL}, response_body: Ptr, response_header: Ptr]
    BY <1>3, <2>2 DEF HeaderDup, TypeOK
  <2>4. built' \in [Threads -> [header: Ptr, body: Seq(Block)]]
    BY <1>3, <2>2 DEF HeaderDup, TypeOK
  <2>5. pc' \in [Threads -> Locations]
    BY <1>3 DEF HeaderDup, TypeOK, Locations
  <2>6. strings' \subseteq Block
    BY <1>3, <2>1 DEF HeaderDup, TypeOK
  <2>7. QED BY <1>3, <2>1, <2>3, <2>4, <2>5, <2>6 DEF HeaderDup, TypeOK
<1>4. CASE HeaderLen(t)
  <2>1. CASE Fault(t)
    BY <2>1, FaultType
  <2>2. CASE ~Fault(t)
    BY <1>4, <2>2 DEF HeaderLen, TypeOK, Locations
  <2>3. QED BY <2>1, <2>2
<1>5. QED BY <1>1, <1>2, <1>3, <1>4 DEF Header

LEMMA SendType ==
  ASSUME TypeOK, NEW t \in Threads, Send(t)
  PROVE  TypeOK'
<1> USE DEF Goto, heap, locals, aux
<1>1. ASSUME NEW b \in Block, Deliver(b) PROVE out' \in [Threads -> Seq(Block)]
  <2>1. \A c \in Threads : Append(out[c], b) \in Seq(Block)
    BY AppendProperties DEF TypeOK
  <2>2. QED BY <1>1, <2>1 DEF Deliver, TypeOK
<1>2. CASE SendCheck(t)
  BY <1>2 DEF SendCheck, TypeOK, Locations
<1>3. CASE SendHeader(t)
  <2>1. CASE Fault(t)
    BY <2>1, FaultType
  <2>2. CASE ~Fault(t)
    <3>1. out' \in [Threads -> Seq(Block)]
      BY <1>1, <1>3, <2>2 DEF SendHeader, TypeOK
    <3>2. pc' \in [Threads -> Locations]
      BY <1>3, <2>2 DEF SendHeader, TypeOK, Locations
    <3>3. QED BY <1>3, <2>2, <3>1, <3>2 DEF SendHeader, TypeOK
  <2>3. QED BY <2>1, <2>2
<1>4. CASE FreeHeader(t, "send_free", "send_head")
  BY <1>4, FreeHeaderType DEF Locations
<1>5. CASE TakeHead(t, "send_head", "send_node")
  BY <1>5, TakeHeadType DEF Locations
<1>6. CASE SendNode(t)
  <2>1. CASE Fault(t)
    BY <2>1, FaultType
  <2>2. CASE ~Fault(t)
    <3>1. out' \in [Threads -> Seq(Block)]
      BY <1>1, <1>6, <2>2 DEF SendNode, TypeOK
    <3>2. pc' \in [Threads -> Locations]
      BY <1>6, <2>2 DEF SendNode, TypeOK, Locations
    <3>3. QED BY <1>6, <2>2, <3>1, <3>2 DEF SendNode, TypeOK
  <2>3. QED BY <2>1, <2>2
<1>7. CASE FreeNode(t, "free_node", "send_node")
  BY <1>7, FreeNodeType DEF Locations
<1>8. CASE Close(t)
  BY <1>8 DEF Close, TypeOK, Locations
<1>9. QED BY <1>2, <1>3, <1>4, <1>5, <1>6, <1>7, <1>8 DEF Send

LEMMA InitType == Init => TypeOK
  BY NullAssumption DEF Init, TypeOK, Empty, Ptr, Locations

LEMMA TypeStep == TypeOK /\ [Next]_vars => TypeOK'
<1> SUFFICES ASSUME TypeOK, [Next]_vars PROVE TypeOK'
  OBVIOUS
<1>1. CASE UNCHANGED vars
  BY <1>1 DEF vars, heap, locals, aux, TypeOK
<1>2. ASSUME NEW t \in Threads, Accept(t) \/ NoRequest(t) \/ Enter(t) PROVE TypeOK'
  <2>1. CASE Accept(t)
    BY <2>1 DEF Accept, Goto, Locations, TypeOK, heap
  <2>2. CASE NoRequest(t)
    BY <2>2 DEF NoRequest, Goto, Locations, TypeOK, heap, locals, aux
  <2>3. CASE Enter(t)
    BY <2>3 DEF Enter, Goto, Open, Inside, Locations, TypeOK, heap, locals
  <2>4. QED BY <1>2, <2>1, <2>2, <2>3
<1>3. ASSUME NEW t \in Threads, InitStores(t) PROVE TypeOK'
  BY <1>3, ClearType DEF InitStores, Locations
<1>4. ASSUME NEW t \in Threads, ErrorCleanup(t) PROVE TypeOK'
  BY <1>4, ClearType, FreeHeaderType, TakeHeadType, FreeNodeType DEF ErrorCleanup, Locations
<1>5. QED
  BY <1>1, <1>2, <1>3, <1>4, ScriptType, EchoType, HeaderType, SendType DEF Next, Step

\* Type correctness: every pointer is NULL or a block malloc returned, every
\* thread is at a point of its code, in every reachable state.
THEOREM TypeCorrect == Spec => []TypeOK
  BY InitType, TypeStep, PTL DEF Spec

-----------------------------------------------------------------------------
(* The steps of a request that is alone in jlua_interpret.                 *)

\* Steps that only move a thread on keep all it knows of jData and the heap.
LEMMA SoloSame ==
  ASSUME NEW t \in Threads, UNCHANGED <<jData, next, strings, mallocs, built>>
  PROVE  /\ OwnBlocks(t)' = OwnBlocks(t)
         /\ FullList(t)' = FullList(t)
         /\ NoOwnHeader(t)' = NoOwnHeader(t)
         /\ HeaderLive(t)' = HeaderLive(t)
         /\ Echoing(t)' = Echoing(t)
         /\ Len0(t)' = Len0(t) /\ Head0(t)' = Head0(t) /\ Body(t)' = Body(t)
  BY DEF OwnBlocks, FullList, List, Chain, First, OwnNodes, NoOwnHeader, HeaderLive, Echoing,
     Len0, Head0, Body, Newest

LEMMA BodyType ==
  ASSUME TypeOK, NEW t \in Threads
  PROVE  /\ Body(t) \in Seq(Block) /\ Len0(t) \in Nat
         /\ \A k \in 1..Len0(t) : Body(t)[k] \in Block /\ Body(t)[k] # NULL
         /\ Head0(t) \in Ptr
         /\ \A b \in Block : b # NULL /\ b[1] \in Threads
<1>1. Body(t) \in Seq(Block) /\ Head0(t) \in Ptr
  BY DEF TypeOK, Body, Head0
<1>2. Len0(t) \in Nat /\ \A k \in 1..Len0(t) : Body(t)[k] \in Block
  BY <1>1, ElementOfSeq, LenProperties DEF Len0
<1>3. QED BY <1>1, <1>2, NullAssumption DEF Block

\* Before the first node is sent, the client has the header at most.
LEMMA SentNone ==
  ASSUME TypeOK, NEW t \in Threads
  PROVE  Sent(t, 0) <=> out[t] = SentHeader(t)
<1>1. Body(t) \in Seq(Block) /\ SentHeader(t) \in Seq(Ptr)
  BY BodyType DEF SentHeader
<1>2. SubSeq(Body(t), 1, 0) = <<>>
  BY <1>1, SubSeqEmpty
<1>3. SentHeader(t) \o <<>> = SentHeader(t)
  BY <1>1, ConcatEmptySeq
<1>4. QED BY <1>2, <1>3 DEF Sent

LEMMA SoloCheck ==
  ASSUME TypeOK, NEW t \in Threads, Solo(t), 
         EchoCheck(t) \/ SendCheck(t) \/ ScriptReturns(t)
  PROVE  Solo(t)' /\ fault' = fault /\ pc'[t] # "closed"
<1> USE DEF At, Goto, heap, locals, aux
<1>0. UNCHANGED <<fd, jData, next, strings, mallocs, built, out, cur, scriptError, fault>>
  BY DEF EchoCheck, SendCheck, ScriptReturns
<1>1. CASE EchoCheck(t)
  <2>1. Echoing(t) /\ Len0(t) \in Nat /\ (jData.response_body # NULL <=> Len0(t) > 1)
    BY <1>1, BodyType DEF EchoCheck, Solo, Echoing, List, First
  <2>2. QED BY <1>0, <1>1, <2>1, SoloSame DEF EchoCheck, Solo, TypeOK, Echoing
<1>2. CASE SendCheck(t)
  <2>1. FullList(t) /\ HeaderLive(t) /\ out[t] = <<>>
    BY <1>2 DEF SendCheck, Solo
  <2>2. ASSUME Head0(t) = NULL PROVE NoOwnHeader(t) /\ Sent(t, 0)
    <3>1. NoOwnHeader(t)
      BY <2>1, <2>2, BodyType DEF HeaderLive, NoOwnHeader, TypeOK
    <3>2. Sent(t, 0)
      BY <2>1, <2>2, SentNone DEF SentHeader
    <3>3. QED BY <3>1, <3>2
  <2>3. Sent(t, 0)' = Sent(t, 0)
    BY <1>0, SoloSame DEF Sent, SentHeader
  <2>4. pc'[t] = IF Head0(t) # NULL THEN "send_header" ELSE "send_head"
    BY <1>2, <2>1 DEF SendCheck, HeaderLive, TypeOK
  <2>5. QED BY <1>0, <1>2, <2>1, <2>2, <2>3, <2>4, SoloSame DEF Solo, TypeOK
<1>3. CASE ScriptReturns(t)
  BY <1>0, <1>3, SoloSame DEF ScriptReturns, Solo, TypeOK
<1>4. QED BY <1>1, <1>2, <1>3

\* What depends on the blocks alone, and not on jData.
LEMMA HeapSame ==
  ASSUME NEW t \in Threads, NEW i, NEW n, UNCHANGED <<next, strings, mallocs, built>>
  PROVE  /\ OwnBlocks(t)' = OwnBlocks(t)
         /\ OwnNodes(t, i)' = OwnNodes(t, i)
         /\ Chain(t, i, n)' = Chain(t, i, n)
         /\ First(t, i, n)' = First(t, i, n)
         /\ NoOwnHeader(t)' = NoOwnHeader(t)
         /\ Len0(t)' = Len0(t) /\ Head0(t)' = Head0(t) /\ Body(t)' = Body(t)
         /\ Newest(t)' = Newest(t)
  BY DEF OwnBlocks, Chain, First, OwnNodes, NoOwnHeader, Len0, Head0, Body, Newest

\* A store of NULL to one of the two pointers of jData.
LEMMA ClearEffect ==
  ASSUME TypeOK, NEW t \in Threads, NEW here, NEW to, Solo(t),
         NEW field \in {"response_body", "response_header"}, Clear(t, here, field, to)
  PROVE  /\ pc[t] = here /\ pc'[t] = to /\ fault' = fault
         /\ UNCHANGED <<fd, next, strings, mallocs, built, out, scriptError>>
         /\ jData'.connection = fd'[t]
         /\ field = "response_body" =>
              jData'.response_body = NULL /\ jData'.response_header = jData.response_header
         /\ field = "response_header" =>
              jData'.response_header = NULL /\ jData'.response_body = jData.response_body
<1>1. pc[t] = here /\ pc'[t] = to /\ UNCHANGED <<fd, next, strings, mallocs, built, out, scriptError, fault>>
  BY DEF Clear, At, Goto, TypeOK, heap, locals, aux
<1>2. jData.connection = fd[t]
  BY DEF Solo
<1>3. jData \in [connection: Fds \cup {NULL}, response_body: Ptr, response_header: Ptr]
  BY DEF TypeOK
<1>4. CASE field = "response_body"
  <2>1. jData' = [jData EXCEPT !.response_body = NULL]
    BY <1>4 DEF Clear
  <2>2. QED BY <1>1, <1>2, <1>3, <1>4, <2>1
<1>5. CASE field = "response_header"
  <2>1. jData' = [jData EXCEPT !.response_header = NULL]
    BY <1>5 DEF Clear
  <2>2. QED BY <1>1, <1>2, <1>3, <1>5, <2>1
<1>6. QED BY <1>4, <1>5

LEMMA SoloInit ==
  ASSUME TypeOK, NEW t \in Threads, Solo(t), InitStores(t)
  PROVE  Solo(t)' /\ fault' = fault /\ pc'[t] # "closed"
<1>1. CASE Clear(t, "init_body", "response_body", "init_header")
  <2>1. /\ pc[t] = "init_body" /\ pc'[t] = "init_header" /\ fault' = fault
        /\ UNCHANGED <<fd, next, strings, mallocs, built, out>>
        /\ jData'.connection = fd'[t] /\ jData'.response_body = NULL
    BY <1>1, ClearEffect
  <2>2. OwnBlocks(t)' /\ OwnNodes(t, 1)' /\ NoOwnHeader(t)' /\ built'[t] = Empty /\ out'[t] = <<>>
    BY <2>1, HeapSame DEF Solo
  <2>3. QED BY <2>1, <2>2 DEF Solo
<1>2. CASE Clear(t, "init_header", "response_header", "load")
  <2>1. /\ pc[t] = "init_header" /\ pc'[t] = "load" /\ fault' = fault
        /\ UNCHANGED <<fd, next, strings, mallocs, built, out>>
        /\ jData'.connection = fd'[t] /\ jData'.response_header = NULL
        /\ jData'.response_body = jData.response_body
    BY <1>2, ClearEffect
  <2>2. OwnBlocks(t)' /\ OwnNodes(t, 1)' /\ NoOwnHeader(t)' /\ built'[t] = Empty /\ out'[t] = <<>>
    BY <2>1, HeapSame DEF Solo
  <2>3. jData.response_body = NULL
    BY <2>1 DEF Solo
  <2>4. QED BY <2>1, <2>2, <2>3 DEF Solo
<1>3. QED BY <1>1, <1>2 DEF InitStores

\* A response nothing was written to yet.
LEMMA EmptyBody ==
  ASSUME NEW t \in Threads, built[t] = Empty
  PROVE  Body(t) = <<>> /\ Len0(t) = 0 /\ Head0(t) = NULL
  BY DEF Body, Len0, Head0, Empty

LEMMA EmptyResponse ==
  ASSUME TypeOK, NEW t \in Threads, built[t] = Empty, OwnNodes(t, 1), NoOwnHeader(t),
         jData.response_body = NULL, jData.response_header = NULL
  PROVE  FullList(t) /\ HeaderLive(t)
  BY EmptyBody DEF FullList, List, First, Chain, HeaderLive, NoOwnHeader

LEMMA SoloLoad ==
  ASSUME TypeOK, NEW t \in Threads, Solo(t), LoadScript(t)
  PROVE  /\ Solo(t)' /\ pc'[t] # "closed"
         /\ fault' # NULL => fault' = t /\ scriptError'[t]
<1> USE DEF LoadScript, At, Goto, heap, locals, aux
<1>0. UNCHANGED <<fd, jData, next, strings, mallocs, built, out>>
  OBVIOUS
<1>1. FullList(t) /\ HeaderLive(t) /\ OwnBlocks(t) /\ out[t] = <<>> /\ jData.connection = fd[t]
  BY EmptyResponse DEF Solo
<1>2. FullList(t)' /\ HeaderLive(t)' /\ OwnBlocks(t)' /\ out'[t] = <<>> /\ jData'.connection = fd'[t]
  BY <1>0, <1>1, SoloSame
<1>3. pc'[t] \in {"run", "err_header"}
  BY DEF TypeOK
<1>4. fault' # NULL => fault' = t /\ scriptError'[t]
  BY DEF TypeOK
<1>5. QED BY <1>2, <1>3, <1>4 DEF Solo

LEMMA SoloFails ==
  ASSUME TypeOK, NEW t \in Threads, Solo(t), ScriptFails(t) \/ SetHeader(t)
  PROVE  Solo(t)' /\ fault' = fault /\ pc'[t] # "closed"
<1> USE DEF ScriptFails, SetHeader, Calls, At, Goto, heap, locals, aux
<1>0. UNCHANGED <<fd, jData, next, strings, mallocs, built, out, fault>>
  OBVIOUS
<1>1. FullList(t)' /\ HeaderLive(t)' /\ OwnBlocks(t)' /\ out'[t] = <<>> /\ jData'.connection = fd'[t]
  BY <1>0, SoloSame DEF Solo
<1>2. pc'[t] \in {"send_check", "err_header", "hdr_free"}
  BY DEF TypeOK
<1>3. QED BY <1>0, <1>1, <1>2 DEF Solo

\* A malloc by thread t returns a block that nothing of t's refers to yet.
LEMMA FreshBlock ==
  ASSUME TypeOK, NEW t \in Threads, OwnBlocks(t), Malloc(t)
  PROVE  /\ mallocs[t] \in Nat /\ mallocs'[t] = mallocs[t] + 1
         /\ Newest(t)' = <<t, mallocs[t] + 1>>
         /\ Newest(t)' \in Block /\ Newest(t)' # NULL
         /\ \A k \in 1..Len0(t) : Body(t)[k] # Newest(t)' /\ Body(t)[k][2] <= mallocs'[t]
<1>1. mallocs[t] \in Nat /\ mallocs'[t] = mallocs[t] + 1
  BY DEF TypeOK, Malloc
<1>2. Newest(t)' = <<t, mallocs[t] + 1>> /\ Newest(t)' \in Block
  BY <1>1 DEF Newest, Block
<1>3. Newest(t)' # NULL
  BY <1>2, NullAssumption
<1>4. ASSUME NEW k \in 1..Len0(t)
      PROVE  Body(t)[k] # Newest(t)' /\ Body(t)[k][2] <= mallocs'[t]
  <2>1. Body(t)[k] \in Block /\ Body(t)[k][2] <= mallocs[t]
    BY BodyType DEF OwnBlocks
  <2>2. QED BY <1>1, <1>2, <2>1 DEF Block
<1>5. QED BY <1>1, <1>2, <1>3, <1>4

LEMMA SoloAlloc ==
  ASSUME TypeOK, NEW t \in Threads, Solo(t), EchoAlloc(t)
  PROVE  Solo(t)' /\ fault' = fault /\ pc'[t] # "closed"
<1> DEFINE b == Newest(t)'
<1>0. PICK n \in Nat : n = Len0(t)
  BY BodyType
<1>1. /\ pc[t] = "run" /\ pc'[t] = "echo_check" /\ Malloc(t)
      /\ UNCHANGED <<fd, jData, strings, scriptError, out, fault>>
      /\ built' = [built EXCEPT ![t].body = Append(@, b)]
      /\ next' = [x \in DOMAIN next \cup {b} |-> IF x = b THEN NULL ELSE next[x]]
  BY DEF EchoAlloc, Calls, At, Goto, TypeOK, heap, locals, aux
<1>2. /\ jData.connection = fd[t] /\ OwnBlocks(t) /\ FullList(t) /\ HeaderLive(t) /\ out[t] = <<>>
  BY <1>1 DEF Solo
<1>3. /\ n \in Nat /\ Body(t) \in Seq(Block)
      /\ \A k \in 1..n : Body(t)[k] \in Block /\ Body(t)[k] # NULL
  BY <1>0, BodyType
<1>4. /\ b \in Block /\ b # NULL /\ b[1] = t /\ b[2] = mallocs'[t]
      /\ mallocs'[t] \in Nat
      /\ \A k \in 1..n : Body(t)[k] # b /\ Body(t)[k][2] <= mallocs'[t]
  BY <1>0, <1>1, <1>2, FreshBlock
<1>5. Body(t)' = Append(Body(t), b) /\ Head0(t)' = Head0(t)
  BY <1>1 DEF TypeOK, Body, Head0
<1>6. /\ Len0(t)' = n + 1 /\ Body(t)'[n + 1] = b
      /\ \A k \in 1..n : Body(t)'[k] = Body(t)[k]
  BY <1>0, <1>3, <1>4, <1>5, AppendProperties DEF Len0
<1>7. b \notin DOMAIN next
  BY <1>0, <1>2, <1>4 DEF FullList, List, OwnNodes
<1>8. OwnBlocks(t)'
  <2>1. \A k \in 1..n + 1 : k \in 1..n \/ k = n + 1
    BY <1>3
  <2>2. \A k \in 1..n + 1 : Body(t)'[k][1] = t /\ Body(t)'[k][2] <= mallocs'[t]
    BY <1>0, <1>2, <1>4, <1>6, <2>1 DEF OwnBlocks
  <2>3. \A k, l \in 1..n + 1 : Body(t)'[k] = Body(t)'[l] => k = l
    BY <1>0, <1>2, <1>4, <1>6, <2>1 DEF OwnBlocks
  <2>4. QED BY <1>6, <2>2, <2>3 DEF OwnBlocks
<1>9. List(t, Len0(t) - 1)'
  <2>1. Len0(t)' - 1 = n
    BY <1>3, <1>6
  <2>2. jData'.response_body = First(t, 1, n)'
    BY <1>0, <1>1, <1>2, <1>3, <1>6 DEF FullList, List, First
  <2>3. ASSUME NEW k \in 1..n
        PROVE  /\ Body(t)'[k] \in DOMAIN next'
               /\ next'[Body(t)'[k]] = IF k < n THEN Body(t)'[k + 1] ELSE NULL
    <3>1. Body(t)[k] \in DOMAIN next /\ next[Body(t)[k]] = IF k < n THEN Body(t)[k + 1] ELSE NULL
      BY <1>0, <1>2 DEF FullList, List, Chain
    <3>2. k < n => k + 1 \in 1..n
      BY <1>3
    <3>3. QED BY <1>1, <1>4, <1>6, <3>1, <3>2
  <2>4. ASSUME NEW x \in DOMAIN next', x[1] = t
        PROVE  \E k \in 1..n + 1 : x = Body(t)'[k]
    <3>1. CASE x = b
      BY <1>3, <1>6, <3>1
    <3>2. CASE x \in DOMAIN next
      <4>1. PICK k \in 1..n : x = Body(t)[k]
        BY <1>0, <1>2, <2>4, <3>2 DEF FullList, List, OwnNodes
      <4>2. k \in 1..n + 1 /\ x = Body(t)'[k]
        BY <1>3, <1>6, <4>1
      <4>3. QED BY <4>2
    <3>3. QED BY <1>1, <3>1, <3>2
  <2>5. Chain(t, 1, n)' /\ OwnNodes(t, 1)'
    BY <1>6, <2>3, <2>4 DEF Chain, OwnNodes
  <2>6. QED BY <1>6, <2>1, <2>2, <2>5 DEF List
<1>10. Echoing(t)'
  <2>1. HeaderLive(t)'
    BY <1>1, <1>2, <1>5 DEF HeaderLive
  <2>2. b \in DOMAIN next' /\ next'[b] = NULL
    BY <1>1
  <2>3. QED BY <1>3, <1>6, <1>9, <2>1, <2>2 DEF Echoing
<1>11. QED BY <1>1, <1>2, <1>8, <1>10 DEF Solo

\* At any point of jluaf_echo after its malloc.
LEMMA EchoingFacts ==
  ASSUME TypeOK, NEW t \in Threads, Solo(t),
         pc[t] \in {"echo_head", "echo_walk", "echo_link", "echo_first"}
  PROVE  /\ jData.connection = fd[t] /\ OwnBlocks(t) /\ Echoing(t) /\ out[t] = <<>>
         /\ jData.response_body = First(t, 1, Len0(t) - 1)
         /\ Chain(t, 1, Len0(t) - 1) /\ OwnNodes(t, 1) /\ HeaderLive(t)
         /\ Body(t)[Len0(t)] = Newest(t) /\ Newest(t) \in DOMAIN next /\ next[Newest(t)] = NULL
         /\ Len0(t) \in Nat /\ Len0(t) > 0
         /\ \A k \in 1..Len0(t) : Body(t)[k] \in Block /\ Body(t)[k] # NULL
  BY BodyType DEF Solo, Echoing, List

LEMMA SoloFirst ==
  ASSUME TypeOK, NEW t \in Threads, Solo(t), EchoFirst(t)
  PROVE  Solo(t)' /\ fault' = fault /\ pc'[t] # "closed"
<1>1. /\ pc[t] = "echo_first" /\ pc'[t] = "run"
      /\ UNCHANGED <<fd, next, strings, mallocs, built, scriptError, out, fault>>
      /\ jData' = [jData EXCEPT !.response_body = Newest(t)]
  BY DEF EchoFirst, At, Goto, TypeOK, heap, locals, aux
<1>2. Len0(t) = 1
  BY <1>1 DEF Solo
<1>3. /\ jData.connection = fd[t] /\ OwnBlocks(t) /\ OwnNodes(t, 1) /\ HeaderLive(t) /\ out[t] = <<>>
      /\ Body(t)[1] = Newest(t) /\ Newest(t) \in DOMAIN next /\ next[Newest(t)] = NULL
  BY <1>1, <1>2, EchoingFacts
<1>4. jData'.connection = fd'[t] /\ jData'.response_body = Newest(t)
      /\ jData'.response_header = jData.response_header
  BY <1>1, <1>3 DEF TypeOK
<1>5. OwnBlocks(t)' /\ OwnNodes(t, 1)' /\ Len0(t)' = 1 /\ Body(t)' = Body(t) /\ Head0(t)' = Head0(t)
  BY <1>1, <1>2, <1>3, HeapSame
<1>6. FullList(t)'
  BY <1>1, <1>3, <1>4, <1>5 DEF FullList, List, First, Chain
<1>7. HeaderLive(t)'
  BY <1>1, <1>3, <1>4, <1>5 DEF HeaderLive
<1>8. QED BY <1>1, <1>3, <1>4, <1>5, <1>6, <1>7 DEF Solo

LEMMA SoloWalk ==
  ASSUME TypeOK, NEW t \in Threads, Solo(t), 
         TakeHead(t, "echo_head", "echo_walk") \/ EchoWalk(t)
  PROVE  Solo(t)' /\ fault' = fault /\ pc'[t] # "closed"
<1>1. pc[t] \in {"echo_head", "echo_walk"} /\ cur \in [Threads -> Ptr] /\ pc \in [Threads -> Locations]
  BY DEF TakeHead, EchoWalk, At, TypeOK
<1>2. Len0(t) > 1 /\ Len0(t) \in Nat
  BY <1>1, BodyType DEF Solo
<1>3. CASE TakeHead(t, "echo_head", "echo_walk")
  <2>1. /\ UNCHANGED <<fd, jData, next, strings, mallocs, built, out, fault>>
        /\ pc[t] = "echo_head" /\ pc'[t] = "echo_walk" /\ cur'[t] = jData.response_body
    BY <1>1, <1>3 DEF TakeHead, At, Goto, heap, locals, aux
  <2>2. cur'[t] = Body(t)[1]
    BY <1>2, <2>1, EchoingFacts DEF First
  <2>3. 1 \in 1..Len0(t) - 1
    BY <1>2
  <2>4. OwnBlocks(t)' /\ Echoing(t)' /\ out'[t] = <<>> /\ Len0(t)' = Len0(t) /\ Body(t)' = Body(t)
        /\ jData'.connection = fd'[t]
    BY <2>1, EchoingFacts, SoloSame
  <2>5. \E k \in 1..Len0(t)' - 1 : cur'[t] = Body(t)'[k]
    BY <2>2, <2>3, <2>4
  <2>6. QED BY <1>2, <2>1, <2>4, <2>5 DEF Solo
<1>4. CASE EchoWalk(t)
  <2>1. pc[t] = "echo_walk"
    BY <1>4 DEF EchoWalk, At
  <2>2. PICK k \in 1..Len0(t) - 1 : cur[t] = Body(t)[k]
    BY <2>1 DEF Solo
  <2>3. cur[t] \in DOMAIN next /\ next[cur[t]] = IF k < Len0(t) - 1 THEN Body(t)[k + 1] ELSE NULL
    BY <2>1, <2>2, EchoingFacts DEF Chain
  <2>4. k < Len0(t) - 1 => k + 1 \in 1..Len0(t) - 1 /\ Body(t)[k + 1] # NULL
    BY <1>2, <2>1, EchoingFacts
  <2>5. /\ UNCHANGED <<fd, jData, next, strings, mallocs, built, out, fault>>
        /\ \/ pc'[t] = "echo_walk" /\ k < Len0(t) - 1 /\ cur'[t] = Body(t)[k + 1]
           \/ pc'[t] = "echo_link" /\ k = Len0(t) - 1 /\ cur'[t] = cur[t]
    BY <1>1, <1>2, <1>4, <2>1, <2>3, <2>4 DEF EchoWalk, At, Goto, heap, locals, aux
  <2>6. OwnBlocks(t)' /\ Echoing(t)' /\ out'[t] = <<>> /\ Len0(t)' = Len0(t) /\ Body(t)' = Body(t)
        /\ jData'.connection = fd'[t]
    BY <2>1, <2>5, EchoingFacts, SoloSame
  <2>7. CASE pc'[t] = "echo_walk"
    <3>1. \E j \in 1..Len0(t)' - 1 : cur'[t] = Body(t)'[j]
      BY <2>4, <2>5, <2>6, <2>7
    <3>2. QED BY <1>2, <2>5, <2>6, <2>7, <3>1 DEF Solo
  <2>8. CASE pc'[t] = "echo_link"
    <3>1. cur'[t] = Body(t)'[Len0(t)' - 1]
      BY <2>2, <2>5, <2>6, <2>8
    <3>2. QED BY <1>2, <2>5, <2>6, <2>8, <3>1 DEF Solo
  <2>9. QED BY <2>5, <2>7, <2>8
<1>5. QED BY <1>3, <1>4

LEMMA SoloLink ==
  ASSUME TypeOK, NEW t \in Threads, Solo(t), EchoLink(t)
  PROVE  Solo(t)' /\ fault' = fault /\ pc'[t] # "closed"
<1>0. PICK n \in Nat : n = Len0(t)
  BY BodyType
<1>1. pc[t] = "echo_link"
  BY DEF EchoLink, At
<1>2. cur[t] = Body(t)[n - 1] /\ n > 1
  BY <1>0, <1>1 DEF Solo
<1>3. /\ jData.connection = fd[t] /\ OwnBlocks(t) /\ HeaderLive(t) /\ out[t] = <<>>
      /\ jData.response_body = First(t, 1, n - 1) /\ Chain(t, 1, n - 1) /\ OwnNodes(t, 1)
      /\ Body(t)[n] = Newest(t) /\ Newest(t) \in DOMAIN next /\ next[Newest(t)] = NULL
      /\ \A k \in 1..n : Body(t)[k] \in Block
  BY <1>0, <1>1, EchoingFacts
<1>4. n - 1 \in 1..n - 1 /\ cur[t] \in DOMAIN next
  BY <1>2, <1>3 DEF Chain
<1>5. /\ UNCHANGED <<fd, jData, strings, mallocs, built, scriptError, out, fault>>
      /\ next' = [next EXCEPT ![cur[t]] = Newest(t)]
      /\ pc'[t] = "run"
  BY <1>1, <1>4 DEF EchoLink, At, Goto, TypeOK, heap, locals, aux
<1>6. Len0(t)' = n /\ Body(t)' = Body(t) /\ Head0(t)' = Head0(t) /\ OwnBlocks(t)' /\ DOMAIN next' = DOMAIN next
  BY <1>0, <1>3, <1>5 DEF Len0, Body, Head0, OwnBlocks
<1>7. ASSUME NEW k \in 1..n
      PROVE  Body(t)[k] \in DOMAIN next /\ next'[Body(t)[k]] = IF k < n THEN Body(t)[k + 1] ELSE NULL
  <2>1. CASE k < n - 1
    <3>1. k \in 1..n - 1 /\ n - 1 \in 1..n
      BY <1>2, <2>1
    <3>2. Body(t)[k] # Body(t)[n - 1]
      BY <1>0, <1>3, <2>1, <3>1 DEF OwnBlocks
    <3>3. Body(t)[k] \in DOMAIN next /\ next[Body(t)[k]] = Body(t)[k + 1]
      BY <1>3, <2>1, <3>1 DEF Chain
    <3>4. QED BY <1>2, <1>5, <2>1, <3>1, <3>2, <3>3
  <2>2. CASE k = n - 1
    BY <1>2, <1>3, <1>4, <1>5, <2>2
  <2>3. CASE k = n
    <3>1. n - 1 \in 1..n /\ n \in 1..n
      BY <1>2
    <3>2. Body(t)[n] # Body(t)[n - 1]
      BY <1>0, <1>3, <3>1 DEF OwnBlocks
    <3>3. QED BY <1>2, <1>3, <1>5, <2>3, <3>2
  <2>4. QED BY <2>1, <2>2, <2>3
<1>8. FullList(t)'
  <2>1. Chain(t, 1, n)'
    BY <1>6, <1>7 DEF Chain
  <2>2. OwnNodes(t, 1)'
    BY <1>0, <1>3, <1>6 DEF OwnNodes
  <2>3. jData'.response_body = First(t, 1, n)'
    BY <1>2, <1>3, <1>5, <1>6 DEF First
  <2>4. QED BY <1>6, <2>1, <2>2, <2>3 DEF FullList, List
<1>9. HeaderLive(t)'
  BY <1>3, <1>5, <1>6 DEF HeaderLive
<1>10. QED BY <1>3, <1>5, <1>6, <1>8, <1>9 DEF Solo

\* free(response_header) of a thread that is alone frees its own live header.
LEMMA FreeHeaderEffect ==
  ASSUME TypeOK, NEW t \in Threads, NEW here, NEW to, Solo(t), HeaderLive(t),
         FreeHeader(t, here, to)
  PROVE  /\ pc[t] = here /\ pc'[t] = to /\ fault' = fault
         /\ UNCHANGED <<fd, jData, next, mallocs, built, scriptError, cur, out>>
         /\ FullList(t)' = FullList(t) /\ OwnBlocks(t)' = OwnBlocks(t)
         /\ Body(t)' = Body(t) /\ Head0(t)' = Head0(t)
         /\ NoOwnHeader(t)'
<1>1. jData.response_header \in strings \cup {NULL}
  BY DEF HeaderLive
<1>2. /\ pc[t] = here /\ pc'[t] = to
      /\ UNCHANGED <<fd, jData, next, mallocs, built, scriptError, cur, out, fault>>
      /\ strings' = strings \ {jData.response_header}
  BY <1>1 DEF FreeHeader, At, Goto, TypeOK, heap, locals, aux
<1>3. NoOwnHeader(t)'
  BY <1>2 DEF HeaderLive, NoOwnHeader
<1>4. QED BY <1>2, <1>3 DEF FullList, List, First, Chain, OwnNodes, OwnBlocks, Body, Head0, Len0

LEMMA SoloFreeHeader ==
  ASSUME TypeOK, NEW t \in Threads, Solo(t),
         \/ FreeHeader(t, "hdr_free", "hdr_dup")
         \/ FreeHeader(t, "err_header", "err_head")
         \/ FreeHeader(t, "send_free", "send_head")
  PROVE  Solo(t)' /\ fault' = fault /\ pc'[t] # "closed"
<1>1. /\ pc[t] \in {"hdr_free", "err_header", "send_free"}
      /\ FullList(t) /\ HeaderLive(t) /\ OwnBlocks(t) /\ jData.connection = fd[t]
      /\ pc[t] = "send_free" => Sent(t, 0)
      /\ pc[t] # "send_free" => out[t] = <<>>
  BY DEF FreeHeader, At, Solo
<1>2. /\ fault' = fault /\ UNCHANGED <<fd, jData, built, scriptError, out>>
      /\ FullList(t)' /\ OwnBlocks(t)' /\ NoOwnHeader(t)' /\ Body(t)' = Body(t) /\ Head0(t)' = Head0(t)
      /\ \/ pc[t] = "hdr_free" /\ pc'[t] = "hdr_dup"
         \/ pc[t] = "err_header" /\ pc'[t] = "err_head"
         \/ pc[t] = "send_free" /\ pc'[t] = "send_head"
  BY <1>1, FreeHeaderEffect
<1>3. Sent(t, 0)' = Sent(t, 0)
  BY <1>2 DEF Sent, SentHeader
<1>4. QED BY <1>1, <1>2, <1>3 DEF Solo

LEMMA SoloDup ==
  ASSUME TypeOK, NEW t \in Threads, Solo(t), HeaderDup(t)
  PROVE  Solo(t)' /\ fault' = fault /\ pc'[t] # "closed"
<1> DEFINE b == Newest(t)'
<1>1. /\ pc[t] = "hdr_dup" /\ pc'[t] = "hdr_len" /\ Malloc(t)
      /\ UNCHANGED <<fd, next, scriptError, out, fault>>
      /\ strings' = strings \cup {b}
      /\ jData' = [jData EXCEPT !.response_header = b]
      /\ built' = [built EXCEPT ![t].header = b]
  BY DEF HeaderDup, At, Goto, TypeOK, heap, locals, aux
<1>2. jData.connection = fd[t] /\ OwnBlocks(t) /\ FullList(t) /\ NoOwnHeader(t) /\ out[t] = <<>>
  BY <1>1 DEF Solo
<1>3. /\ b # NULL /\ mallocs'[t] \in Nat
      /\ \A k \in 1..Len0(t) : Body(t)[k][2] <= mallocs'[t]
  BY <1>1, <1>2, FreshBlock
<1>4. /\ jData'.connection = fd'[t] /\ jData'.response_body = jData.response_body
      /\ jData'.response_header = b
  BY <1>1, <1>2 DEF TypeOK
<1>5. Body(t)' = Body(t) /\ Len0(t)' = Len0(t) /\ Head0(t)' = b
  BY <1>1 DEF TypeOK, Body, Len0, Head0
<1>6. OwnBlocks(t)'
  BY <1>2, <1>3, <1>5 DEF OwnBlocks
<1>7. FullList(t)'
  BY <1>1, <1>2, <1>4, <1>5 DEF FullList, List, First, Chain, OwnNodes
<1>8. HeaderLive(t)'
  BY <1>1, <1>2, <1>4, <1>5 DEF HeaderLive, NoOwnHeader
<1>9. QED BY <1>1, <1>2, <1>3, <1>4, <1>5, <1>6, <1>7, <1>8 DEF Solo

LEMMA SoloLen ==
  ASSUME TypeOK, NEW t \in Threads, Solo(t), HeaderLen(t)
  PROVE  Solo(t)' /\ fault' = fault /\ pc'[t] # "closed"
<1>1. pc[t] = "hdr_len"
  BY DEF HeaderLen, At
<1>2. FullList(t) /\ HeaderLive(t) /\ OwnBlocks(t) /\ jData.connection = fd[t] /\ out[t] = <<>>
      /\ jData.response_header \in strings
  BY <1>1 DEF Solo, HeaderLive
<1>3. UNCHANGED <<fd, jData, next, strings, mallocs, built, out, fault>> /\ pc'[t] = "run"
  BY <1>2 DEF HeaderLen, Goto, TypeOK, heap, locals, aux
<1>4. QED BY <1>2, <1>3, SoloSame DEF Solo

-----------------------------------------------------------------------------
\* Freeing the node under the walker leaves the rest of the list.
LEMMA FreeNodeEffect ==
  ASSUME TypeOK, NEW t \in Threads, NEW here, NEW to, OwnBlocks(t), NEW i \in Nat \ {0},
         i <= Len0(t) + 1, cur[t] = First(t, i, Len0(t)), Chain(t, i, Len0(t)), OwnNodes(t, i),
         FreeNode(t, here, to)
  PROVE  /\ pc[t] = here /\ pc'[t] = to /\ fault' = fault
         /\ UNCHANGED <<fd, jData, strings, mallocs, built, scriptError, out>>
         /\ i <= Len0(t) /\ cur'[t] = First(t, i + 1, Len0(t))
         /\ Chain(t, i + 1, Len0(t))' /\ OwnNodes(t, i + 1)'
         /\ Len0(t)' = Len0(t) /\ Body(t)' = Body(t) /\ Head0(t)' = Head0(t) /\ OwnBlocks(t)'
<1>0. PICK n \in Nat : n = Len0(t)
  BY BodyType
<1>1. pc[t] = here /\ cur[t] # NULL /\ cur \in [Threads -> Ptr] /\ pc \in [Threads -> Locations]
  BY DEF FreeNode, At, TypeOK
<1>2. i <= n /\ cur[t] = Body(t)[i] /\ i \in i..n /\ i \in 1..n
  BY <1>0, <1>1 DEF First
<1>3. cur[t] \in DOMAIN next /\ next[cur[t]] = IF i < n THEN Body(t)[i + 1] ELSE NULL
  BY <1>0, <1>2 DEF Chain
<1>4. /\ UNCHANGED <<fd, jData, strings, mallocs, built, scriptError, out, fault>>
      /\ pc'[t] = to /\ cur'[t] = next[cur[t]]
      /\ next' = Restrict(next, DOMAIN next \ {cur[t]})
  BY <1>1, <1>3 DEF FreeNode, Goto, heap, locals, aux
<1>5. next' = [x \in DOMAIN next \ {cur[t]} |-> next[x]]
  BY <1>4 DEF Restrict
<1>6. cur'[t] = First(t, i + 1, n)
  BY <1>2, <1>3, <1>4 DEF First
<1>7. Len0(t)' = n /\ Body(t)' = Body(t) /\ Head0(t)' = Head0(t) /\ OwnBlocks(t)'
  BY <1>0, <1>4 DEF Len0, Body, Head0, OwnBlocks
<1>8. ASSUME NEW k \in i + 1..n
      PROVE  Body(t)[k] \in DOMAIN next' /\ next'[Body(t)[k]] = IF k < n THEN Body(t)[k + 1] ELSE NULL
  <2>1. k \in i..n /\ k \in 1..n /\ k # i
    OBVIOUS
  <2>2. Body(t)[k] # cur[t]
    BY <1>0, <1>2, <2>1 DEF OwnBlocks
  <2>3. Body(t)[k] \in DOMAIN next /\ next[Body(t)[k]] = IF k < n THEN Body(t)[k + 1] ELSE NULL
    BY <1>0, <2>1 DEF Chain
  <2>4. QED BY <1>5, <2>2, <2>3
<1>9. ASSUME NEW x \in DOMAIN next', x[1] = t
      PROVE  \E k \in i + 1..n : x = Body(t)[k]
  <2>1. x \in DOMAIN next /\ x # cur[t]
    BY <1>5
  <2>2. PICK k \in i..n : x = Body(t)[k]
    BY <1>0, <1>9, <2>1 DEF OwnNodes
  <2>3. k \in i + 1..n
    BY <1>2, <2>1, <2>2
  <2>4. QED BY <2>2, <2>3
<1>10. Chain(t, i + 1, Len0(t))' /\ OwnNodes(t, i + 1)'
  BY <1>7, <1>8, <1>9 DEF Chain, OwnNodes
<1>11. QED BY <1>0, <1>1, <1>2, <1>4, <1>6, <1>7, <1>10

\* Where the walkers of the error and send loops start, and where they end.
LEMMA WalkStart ==
  ASSUME TypeOK, NEW t \in Threads, FullList(t), NEW here, NEW to, TakeHead(t, here, to)
  PROVE  /\ pc[t] = here /\ pc'[t] = to /\ fault' = fault
         /\ UNCHANGED <<fd, jData, next, strings, mallocs, built, scriptError, out>>
         /\ cur'[t] = First(t, 1, Len0(t)) /\ Chain(t, 1, Len0(t)) /\ OwnNodes(t, 1)
         /\ 1 \in 1..Len0(t) + 1
<1>1. /\ pc[t] = here /\ pc'[t] = to /\ cur'[t] = jData.response_body
      /\ UNCHANGED <<fd, jData, next, strings, mallocs, built, scriptError, out, fault>>
  BY DEF TakeHead, At, Goto, TypeOK, heap, locals, aux
<1>2. Len0(t) \in Nat
  BY BodyType
<1>3. QED BY <1>1, <1>2 DEF FullList, List

LEMMA WalkEnd ==
  ASSUME TypeOK, NEW t \in Threads, NEW i \in 1..Len0(t) + 1, cur[t] = NULL,
         cur[t] = First(t, i, Len0(t))
  PROVE  i = Len0(t) + 1
  BY BodyType DEF First

LEMMA SoloCleanup ==
  ASSUME TypeOK, NEW t \in Threads, Solo(t), ErrorCleanup(t)
  PROVE  Solo(t)' /\ fault' = fault /\ pc'[t] # "closed"
<1>0. PICK n \in Nat : n = Len0(t)
  BY BodyType
<1>1. CASE FreeHeader(t, "err_header", "err_head")
  BY <1>1, SoloFreeHeader
<1>2. CASE TakeHead(t, "err_head", "err_node")
  <2>1. pc[t] = "err_head"
    BY <1>2 DEF TakeHead, At
  <2>2. FullList(t) /\ NoOwnHeader(t) /\ OwnBlocks(t) /\ jData.connection = fd[t] /\ out[t] = <<>>
    BY <2>1 DEF Solo
  <2>3. /\ pc'[t] = "err_node" /\ fault' = fault
        /\ UNCHANGED <<fd, jData, next, strings, mallocs, built, scriptError, out>>
        /\ cur'[t] = First(t, 1, n) /\ Chain(t, 1, n) /\ OwnNodes(t, 1)
        /\ 1 \in 1..n + 1
    BY <1>0, <1>2, <2>2, WalkStart
  <2>4. /\ OwnBlocks(t)' /\ NoOwnHeader(t)' /\ Len0(t)' = n
        /\ First(t, 1, n)' = First(t, 1, n) /\ Chain(t, 1, n)' /\ OwnNodes(t, 1)'
    BY <1>0, <2>2, <2>3, HeapSame
  <2>5. cur'[t] = First(t, 1, n)'
    BY <2>3, <2>4
  <2>6. \E i \in 1..Len0(t)' + 1 :
           cur'[t] = First(t, i, Len0(t))' /\ Chain(t, i, Len0(t))' /\ OwnNodes(t, i)'
    BY <2>3, <2>4, <2>5
  <2>7. QED BY <2>2, <2>3, <2>4, <2>6 DEF Solo
<1>3. CASE FreeNode(t, "err_node", "err_node")
  <2>1. pc[t] = "err_node"
    BY <1>3 DEF FreeNode, At
  <2>2. OwnBlocks(t) /\ NoOwnHeader(t) /\ jData.connection = fd[t] /\ out[t] = <<>>
    BY <2>1 DEF Solo
  <2>3. PICK i \in 1..n + 1 : cur[t] = First(t, i, Len0(t)) /\ Chain(t, i, Len0(t)) /\ OwnNodes(t, i)
    BY <1>0, <2>1 DEF Solo
  <2>4. /\ pc'[t] = "err_node" /\ fault' = fault
        /\ UNCHANGED <<fd, jData, strings, mallocs, built, scriptError, out>>
        /\ i <= n /\ cur'[t] = First(t, i + 1, n)
        /\ Chain(t, i + 1, Len0(t))' /\ OwnNodes(t, i + 1)'
        /\ Len0(t)' = n /\ Body(t)' = Body(t) /\ OwnBlocks(t)'
    BY <1>0, <1>3, <2>2, <2>3, FreeNodeEffect
  <2>5. cur'[t] = First(t, i + 1, Len0(t))' /\ NoOwnHeader(t)' /\ i + 1 \in 1..Len0(t)' + 1
    BY <1>0, <2>2, <2>4 DEF First, NoOwnHeader
  <2>6. \E k \in 1..Len0(t)' + 1 :
           cur'[t] = First(t, k, Len0(t))' /\ Chain(t, k, Len0(t))' /\ OwnNodes(t, k)'
    BY <2>4, <2>5
  <2>7. QED BY <2>2, <2>4, <2>5, <2>6 DEF Solo
<1>4. CASE cur[t] = NULL /\ Clear(t, "err_node", "response_body", "err_clear")
  <2>1. /\ pc[t] = "err_node" /\ pc'[t] = "err_clear" /\ fault' = fault
        /\ UNCHANGED <<fd, next, strings, mallocs, built, out>>
        /\ jData'.connection = fd'[t] /\ jData'.response_body = NULL
    BY <1>4, ClearEffect
  <2>2. OwnBlocks(t) /\ NoOwnHeader(t) /\ jData.connection = fd[t] /\ out[t] = <<>> /\ OwnNodes(t, n + 1)
    BY <1>0, <1>4, <2>1, WalkEnd DEF Solo
  <2>3. OwnBlocks(t)' /\ NoOwnHeader(t)' /\ OwnNodes(t, n + 1)' /\ Len0(t)' = n
    BY <1>0, <2>1, <2>2, HeapSame
  <2>4. OwnNodes(t, Len0(t) + 1)'
    BY <2>3
  <2>5. QED BY <2>1, <2>2, <2>3, <2>4 DEF Solo
<1>5. CASE Clear(t, "err_clear", "response_header", "err_load")
  <2>1. /\ pc[t] = "err_clear" /\ pc'[t] = "err_load" /\ fault' = fault
        /\ UNCHANGED <<fd, next, strings, mallocs, built, out>>
        /\ jData'.connection = fd'[t] /\ jData'.response_header = NULL
        /\ jData'.response_body = jData.response_body
    BY <1>5, ClearEffect
  <2>2. /\ OwnBlocks(t) /\ NoOwnHeader(t) /\ out[t] = <<>> /\ OwnNodes(t, n + 1)
        /\ jData.response_body = NULL
    BY <1>0, <2>1 DEF Solo
  <2>3. OwnBlocks(t)' /\ NoOwnHeader(t)' /\ OwnNodes(t, n + 1)' /\ Len0(t)' = n
    BY <1>0, <2>1, <2>2, HeapSame
  <2>4. OwnNodes(t, Len0(t) + 1)'
    BY <2>3
  <2>5. QED BY <2>1, <2>2, <2>3, <2>4 DEF Solo
<1>6. QED BY <1>1, <1>2, <1>3, <1>4, <1>5 DEF ErrorCleanup

LEMMA SoloRescue ==
  ASSUME TypeOK, NEW t \in Threads, Solo(t), LoadRescue(t)
  PROVE  Solo(t)' /\ fault' = fault /\ pc'[t] # "closed"
<1>1. /\ pc[t] = "err_load" /\ pc'[t] \in {"run", "send_check"} /\ fault' = fault
      /\ UNCHANGED <<fd, jData, next, strings, mallocs, out>> /\ built'[t] = Empty
  BY DEF LoadRescue, At, Goto, TypeOK, heap
<1>2. /\ NoOwnHeader(t) /\ OwnNodes(t, Len0(t) + 1) /\ jData.connection = fd[t] /\ out[t] = <<>>
      /\ jData.response_body = NULL /\ jData.response_header = NULL
  BY <1>1 DEF Solo
<1>3. \A x \in DOMAIN next : x[1] # t
  BY <1>2, BodyType DEF OwnNodes
<1>4. Body(t)' = <<>> /\ Len0(t)' = 0 /\ Head0(t)' = NULL
  BY <1>1 DEF Body, Len0, Head0, Empty
<1>5. FullList(t)'
  BY <1>1, <1>2, <1>3, <1>4 DEF FullList, List, First, Chain, OwnNodes
<1>6. HeaderLive(t)'
  BY <1>1, <1>2, <1>4 DEF HeaderLive, NoOwnHeader
<1>7. OwnBlocks(t)'
  BY <1>4 DEF OwnBlocks
<1>8. QED BY <1>1, <1>2, <1>5, <1>6, <1>7 DEF Solo

-----------------------------------------------------------------------------
\* One more block sent is one more block of the sequence sent.
LEMMA SentMore ==
  ASSUME NEW S, NEW s \in Seq(S), NEW h \in Seq(S), NEW i \in 1..Len(s)
  PROVE  Append(h \o SubSeq(s, 1, i - 1), s[i]) = h \o SubSeq(s, 1, i)
<1>1. \A k \in 1..Len(s) : s[k] \in S
  BY ElementOfSeq
<1>2. i \in 1..Len(s) /\ 1 \in 1..Len(s) /\ Len(s) \in Nat /\ i - 1 \in Int /\ s[i] \in S
  BY <1>1, LenProperties
<1>3. SubSeq(s, 1, i - 1) \in Seq(S)
  BY <1>1, <1>2, SubSeqProperties
<1>4. SubSeq(s, 1, i) = SubSeq(s, 1, i - 1) \o <<s[i]>>
  BY <1>2, SubSeqRecursiveSecond
<1>5. h \o SubSeq(s, 1, i - 1) \in Seq(S) /\ <<s[i]>> \in Seq(S)
  BY <1>2, <1>3, ConcatProperties
<1>6. Append(h \o SubSeq(s, 1, i - 1), s[i]) = (h \o SubSeq(s, 1, i - 1)) \o <<s[i]>>
  BY <1>2, <1>5, AppendIsConcat
<1>7. (h \o SubSeq(s, 1, i - 1)) \o <<s[i]>> = h \o (SubSeq(s, 1, i - 1) \o <<s[i]>>)
  <2>1. PICK b \in Seq(S) : b = SubSeq(s, 1, i - 1)
    BY <1>3
  <2>2. PICK c \in Seq(S) : c = <<s[i]>>
    BY <1>5
  <2>3. (h \o b) \o c = h \o (b \o c)
    OBVIOUS
  <2>4. QED BY <2>1, <2>2, <2>3, Zenon
<1>8. QED BY <1>4, <1>6, <1>7

\* A thread that owns jData.connection delivers to its own client.
LEMMA DeliverOwn ==
  ASSUME TypeOK, NEW t \in Threads, jData.connection = fd[t], t \in Open, NEW b, Deliver(b)
  PROVE  out'[t] = Append(out[t], b)
  BY DEF Deliver

LEMMA SoloSendHeader ==
  ASSUME TypeOK, NEW t \in Threads, Solo(t), SendHeader(t)
  PROVE  Solo(t)' /\ fault' = fault /\ pc'[t] # "closed"
<1>1. pc[t] = "send_header"
  BY DEF SendHeader, At
<1>2. /\ FullList(t) /\ HeaderLive(t) /\ OwnBlocks(t) /\ jData.connection = fd[t] /\ out[t] = <<>>
      /\ Head0(t) # NULL /\ jData.response_header = Head0(t) /\ Head0(t) \in strings
  BY <1>1 DEF Solo, HeaderLive
<1>3. /\ UNCHANGED <<fd, jData, next, strings, mallocs, built, scriptError, fault>>
      /\ pc'[t] = "send_free" /\ Deliver(Head0(t))
  BY <1>2 DEF SendHeader, Goto, TypeOK, heap, locals, aux
<1>4. out'[t] = <<Head0(t)>>
  <2>1. out'[t] = Append(<<>>, Head0(t))
    BY <1>1, <1>2, <1>3, DeliverOwn DEF Open
  <2>2. QED BY <2>1
<1>5. SentHeader(t) \in Seq(Ptr) /\ Body(t) \in Seq(Block) /\ SubSeq(Body(t), 1, 0) = <<>>
  BY BodyType, SubSeqEmpty DEF SentHeader
<1>6. out'[t] = SentHeader(t) \o (IF scriptError[t] THEN <<>> ELSE SubSeq(Body(t), 1, 0))
  BY <1>2, <1>4, <1>5, ConcatEmptySeq DEF SentHeader
<1>7. Sent(t, 0)'
  BY <1>3, <1>6 DEF Sent, SentHeader, Body, Head0
<1>8. FullList(t)' /\ HeaderLive(t)' /\ OwnBlocks(t)'
  BY <1>2, <1>3, SoloSame
<1>9. QED BY <1>2, <1>3, <1>7, <1>8 DEF Solo

LEMMA SoloSendNode ==
  ASSUME TypeOK, NEW t \in Threads, Solo(t), SendNode(t)
  PROVE  Solo(t)' /\ fault' = fault /\ pc'[t] # "closed"
<1>0. PICK n \in Nat : n = Len0(t)
  BY BodyType
<1>1. pc[t] = "send_node" /\ cur[t] # NULL
  BY DEF SendNode, At
<1>2. OwnBlocks(t) /\ NoOwnHeader(t) /\ jData.connection = fd[t]
  BY <1>1 DEF Solo
<1>3. PICK i \in 1..n + 1 : /\ cur[t] = First(t, i, Len0(t)) /\ Chain(t, i, Len0(t))
                            /\ OwnNodes(t, i) /\ Sent(t, i - 1)
  BY <1>0, <1>1 DEF Solo
<1>4. i \in 1..n /\ i \in i..n /\ cur[t] = Body(t)[i]
  BY <1>0, <1>1, <1>3 DEF First
<1>5. cur[t] \in DOMAIN next
  BY <1>0, <1>3, <1>4 DEF Chain
<1>6. /\ UNCHANGED <<fd, jData, next, strings, mallocs, built, scriptError, cur, fault>>
      /\ pc'[t] = "free_node"
      /\ IF scriptError[t] THEN out' = out ELSE Deliver(Body(t)[i])
  BY <1>4, <1>5 DEF SendNode, Goto, TypeOK, heap, locals, aux
<1>7. Len0(t)' = n /\ Body(t)' = Body(t) /\ Head0(t)' = Head0(t) /\ OwnBlocks(t)'
      /\ NoOwnHeader(t)' /\ Chain(t, i, n)' /\ OwnNodes(t, i)' /\ First(t, i, n)' = First(t, i, n)
  BY <1>0, <1>2, <1>3, <1>6, HeapSame
<1>8. Sent(t, i)'
  <2>1. Body(t) \in Seq(Ptr) /\ SentHeader(t) \in Seq(Ptr) /\ i \in 1..Len(Body(t))
    <3>1. Body(t) \in Seq(Block) /\ Head0(t) \in Ptr
      BY BodyType
    <3>2. Body(t) \in Seq(Ptr)
      BY <3>1 DEF Ptr
    <3>3. SentHeader(t) \in Seq(Ptr)
      BY <3>1 DEF SentHeader
    <3>4. QED BY <1>0, <1>4, <3>2, <3>3 DEF Len0
  <2>2. CASE scriptError[t]
    BY <1>3, <1>6, <1>7, <2>2 DEF Sent, SentHeader
  <2>3. CASE ~scriptError[t]
    <3>1. out'[t] = Append(out[t], Body(t)[i])
      BY <1>1, <1>2, <1>6, <2>3, DeliverOwn DEF Open
    <3>2. out[t] = SentHeader(t) \o SubSeq(Body(t), 1, i - 1)
      BY <1>3, <2>3 DEF Sent
    <3>3. out'[t] = SentHeader(t) \o SubSeq(Body(t), 1, i)
      BY <2>1, <3>1, <3>2, SentMore
    <3>4. QED BY <1>6, <1>7, <2>3, <3>3 DEF Sent, SentHeader
  <2>4. QED BY <2>2, <2>3
<1>9. cur'[t] = First(t, i, Len0(t))' /\ Chain(t, i, Len0(t))'
  BY <1>0, <1>3, <1>6, <1>7
<1>10. \E k \in 1..Len0(t)' : /\ cur'[t] = First(t, k, Len0(t))' /\ Chain(t, k, Len0(t))'
                              /\ OwnNodes(t, k)' /\ Sent(t, k)'
  BY <1>4, <1>7, <1>8, <1>9
<1>11. QED BY <1>2, <1>6, <1>7, <1>10 DEF Solo

LEMMA SoloFreeSent ==
  ASSUME TypeOK, NEW t \in Threads, Solo(t), FreeNode(t, "free_node", "send_node")
  PROVE  Solo(t)' /\ fault' = fault /\ pc'[t] # "closed"
<1>0. PICK n \in Nat : n = Len0(t)
  BY BodyType
<1>1. pc[t] = "free_node"
  BY DEF FreeNode, At
<1>2. OwnBlocks(t) /\ NoOwnHeader(t) /\ jData.connection = fd[t]
  BY <1>1 DEF Solo
<1>3. PICK i \in 1..n : /\ cur[t] = First(t, i, Len0(t)) /\ Chain(t, i, Len0(t))
                        /\ OwnNodes(t, i) /\ Sent(t, i)
  BY <1>0, <1>1 DEF Solo
<1>4. /\ pc'[t] = "send_node" /\ fault' = fault
      /\ UNCHANGED <<fd, jData, strings, mallocs, built, scriptError, out>>
      /\ cur'[t] = First(t, i + 1, n)
      /\ Chain(t, i + 1, Len0(t))' /\ OwnNodes(t, i + 1)'
      /\ Len0(t)' = n /\ Body(t)' = Body(t) /\ Head0(t)' = Head0(t) /\ OwnBlocks(t)'
  BY <1>0, <1>2, <1>3, FreeNodeEffect
<1>5. cur'[t] = First(t, i + 1, Len0(t))' /\ NoOwnHeader(t)' /\ i + 1 \in 1..Len0(t)' + 1
  BY <1>2, <1>4 DEF First, NoOwnHeader
<1>6. Sent(t, (i + 1) - 1)'
  BY <1>3, <1>4 DEF Sent, SentHeader
<1>7. \E k \in 1..Len0(t)' + 1 : /\ cur'[t] = First(t, k, Len0(t))' /\ Chain(t, k, Len0(t))'
                                 /\ OwnNodes(t, k)' /\ Sent(t, k - 1)'
  BY <1>4, <1>5, <1>6
<1>8. QED BY <1>2, <1>4, <1>5, <1>7 DEF Solo

LEMMA SoloSendHead ==
  ASSUME TypeOK, NEW t \in Threads, Solo(t), TakeHead(t, "send_head", "send_node")
  PROVE  Solo(t)' /\ fault' = fault /\ pc'[t] # "closed"
<1>0. PICK n \in Nat : n = Len0(t)
  BY BodyType
<1>1. pc[t] = "send_head"
  BY DEF TakeHead, At
<1>2. FullList(t) /\ NoOwnHeader(t) /\ OwnBlocks(t) /\ jData.connection = fd[t] /\ Sent(t, 0)
  BY <1>1 DEF Solo
<1>3. /\ pc'[t] = "send_node" /\ fault' = fault
      /\ UNCHANGED <<fd, jData, next, strings, mallocs, built, scriptError, out>>
      /\ cur'[t] = First(t, 1, n) /\ Chain(t, 1, n) /\ OwnNodes(t, 1)
      /\ 1 \in 1..n + 1
  BY <1>0, <1>2, WalkStart
<1>4. /\ OwnBlocks(t)' /\ NoOwnHeader(t)' /\ Len0(t)' = n /\ Body(t)' = Body(t) /\ Head0(t)' = Head0(t)
      /\ First(t, 1, n)' = First(t, 1, n) /\ Chain(t, 1, n)' /\ OwnNodes(t, 1)'
  BY <1>0, <1>2, <1>3, HeapSame
<1>5. cur'[t] = First(t, 1, Len0(t))' /\ Chain(t, 1, Len0(t))'
  BY <1>3, <1>4
<1>6. Sent(t, 1 - 1)'
  BY <1>2, <1>3, <1>4 DEF Sent, SentHeader
<1>7. \E k \in 1..Len0(t)' + 1 : /\ cur'[t] = First(t, k, Len0(t))' /\ Chain(t, k, Len0(t))'
                                 /\ OwnNodes(t, k)' /\ Sent(t, k - 1)'
  BY <1>3, <1>4, <1>5, <1>6
<1>8. QED BY <1>2, <1>3, <1>4, <1>7 DEF Solo

\* When the last node is sent, the client has the whole response, and nothing is left.
LEMMA SoloClose ==
  ASSUME TypeOK, NEW t \in Threads, Solo(t), Close(t)
  PROVE  Settled(t)' /\ fault' = fault /\ pc'[t] = "closed"
<1>1. /\ pc[t] = "send_node" /\ cur[t] = NULL /\ pc'[t] = "closed"
      /\ UNCHANGED <<fd, jData, next, strings, mallocs, built, scriptError, out, fault>>
  BY DEF Close, At, Goto, TypeOK, heap, locals, aux
<1>2. PICK i \in 1..Len0(t) + 1 : cur[t] = First(t, i, Len0(t)) /\ OwnNodes(t, i) /\ Sent(t, i - 1)
  BY <1>1 DEF Solo
<1>3. i = Len0(t) + 1 /\ Len0(t) \in Nat /\ NoOwnHeader(t)
  BY <1>1, <1>2, WalkEnd, BodyType DEF Solo
<1>4. SubSeq(Body(t), 1, Len0(t)) = Body(t)
  BY BodyType, SubSeqFull DEF Len0
<1>5. out[t] = Response(t)
  <2>1. i - 1 = Len0(t)
    BY <1>3
  <2>2. QED BY <1>2, <1>4, <2>1 DEF Sent, SentHeader, Response, Body, Head0
<1>6. \A x \in DOMAIN next \cup strings : x[1] # t
  BY <1>2, <1>3 DEF OwnNodes, NoOwnHeader
<1>7. QED BY <1>1, <1>5, <1>6 DEF Settled, Response

\* A step of a thread that is alone keeps what Solo says of it.
LEMMA SoloStep ==
  ASSUME TypeOK, NEW t \in Threads, fault = NULL, Solo(t), Step(t)
  PROVE  /\ pc'[t] # "closed" => Solo(t)'
         /\ pc'[t] = "closed" => Settled(t)'
         /\ fault' # NULL => fault' = t /\ scriptError'[t]
<1>1. CASE InitStores(t)    BY <1>1, SoloInit
<1>2. CASE LoadScript(t)    BY <1>2, SoloLoad
<1>3. CASE ScriptReturns(t) BY <1>3, SoloCheck
<1>4. CASE ScriptFails(t)   BY <1>4, SoloFails
<1>5. CASE Echo(t)
  BY <1>5, SoloAlloc, SoloCheck, SoloFirst, SoloWalk, SoloLink DEF Echo
<1>6. CASE Header(t)
  BY <1>6, SoloFails, SoloFreeHeader, SoloDup, SoloLen DEF Header
<1>7. CASE ErrorCleanup(t)  BY <1>7, SoloCleanup
<1>8. CASE LoadRescue(t)    BY <1>8, SoloRescue
<1>9. CASE Send(t)
  BY <1>9, SoloCheck, SoloSendHeader, SoloFreeHeader, SoloSendHead, SoloSendNode,
     SoloFreeSent, SoloClose DEF Send
<1>10. QED BY <1>1, <1>2, <1>3, <1>4, <1>5, <1>6, <1>7, <1>8, <1>9 DEF Step

-----------------------------------------------------------------------------
(* What a step does to the other requests, and the invariant.              *)

Outside == {"new", "reading", "closed"}

\* What a step of thread t leaves alone, as every other thread sees it.
Frame(t) ==
  /\ fault = NULL /\ fault' \in {NULL, t} /\ shared' = shared /\ fd' = fd
  /\ pc[t] \notin Outside /\ pc'[t] \notin {"new", "reading"}
  /\ jData'.connection = jData.connection
  /\ \A x \in DOMAIN next' \cup strings' : x[1] = t \/ x \in DOMAIN next \cup strings
  /\ \A u \in Threads \ {t} :
       /\ pc'[u] = pc[u] /\ built'[u] = built[u] /\ scriptError'[u] = scriptError[u]
       /\ u \notin Open \/ fd[u] # jData.connection => out'[u] = out[u]

LEMMA FrameFault ==
  ASSUME TypeOK, NEW t \in Threads, NEW here, At(t, here), here \notin Outside, Fault(t)
  PROVE  Frame(t)
  BY DEF Outside, Frame, Fault, At, heap, locals, aux

LEMMA FrameClear ==
  ASSUME TypeOK, NEW t \in Threads, NEW here \in Locations \ Outside,
         NEW to \in Locations \ {"new", "reading"}, 
         NEW field \in {"response_body", "response_header"}, Clear(t, here, field, to)
  PROVE  Frame(t)
<1>1. jData'.connection = jData.connection
  <2>1. jData \in [connection: Fds \cup {NULL}, response_body: Ptr, response_header: Ptr]
    BY DEF TypeOK
  <2>2. CASE field = "response_body"
    <3>1. jData' = [jData EXCEPT !.response_body = NULL]
      BY <2>2 DEF Clear
    <3>2. QED BY <2>1, <3>1
  <2>3. CASE field = "response_header"
    <3>1. jData' = [jData EXCEPT !.response_header = NULL]
      BY <2>3 DEF Clear
    <3>2. QED BY <2>1, <3>1
  <2>4. QED BY <2>2, <2>3
<1>2. QED BY <1>1 DEF Outside, Frame, Clear, At, Goto, TypeOK, heap, locals, aux

LEMMA FrameTake ==
  ASSUME TypeOK, NEW t \in Threads, NEW here \in Locations \ Outside,
         NEW to \in Locations \ {"new", "reading"}, TakeHead(t, here, to)
  PROVE  Frame(t)
  BY DEF Outside, Frame, TakeHead, At, Goto, TypeOK, heap, locals, aux

LEMMA FrameFreeHeader ==
  ASSUME TypeOK, NEW t \in Threads, NEW here \in Locations \ Outside,
         NEW to \in Locations \ {"new", "reading"}, FreeHeader(t, here, to)
  PROVE  Frame(t)
<1>1. CASE Fault(t)
  BY <1>1, FrameFault DEF FreeHeader, Outside
<1>2. CASE ~Fault(t)
  BY <1>2 DEF Outside, Frame, FreeHeader, At, Goto, TypeOK, heap, locals, aux
<1>3. QED BY <1>1, <1>2

LEMMA FrameFreeNode ==
  ASSUME TypeOK, NEW t \in Threads, NEW here \in Locations \ Outside,
         NEW to \in Locations \ {"new", "reading"}, FreeNode(t, here, to)
  PROVE  Frame(t)
<1>1. CASE Fault(t)
  BY <1>1, FrameFault DEF FreeNode, Outside
<1>2. CASE ~Fault(t)
  <2>1. next' = [x \in DOMAIN next \ {cur[t]} |-> next[x]]
    BY <1>2 DEF FreeNode, Restrict
  <2>2. QED BY <1>2, <2>1 DEF Outside, Frame, FreeNode, At, Goto, TypeOK, heap, locals, aux
<1>3. QED BY <1>1, <1>2

LEMMA FrameScript ==
  ASSUME TypeOK, NEW t \in Threads,
         LoadScript(t) \/ ScriptReturns(t) \/ ScriptFails(t) \/ LoadRescue(t) \/ SetHeader(t)
  PROVE  Frame(t)
<1> USE DEF Outside, Frame, Calls, At, Goto, TypeOK, heap, locals, aux
<1>1. CASE LoadScript(t)    BY <1>1 DEF LoadScript
<1>2. CASE ScriptReturns(t) BY <1>2 DEF ScriptReturns
<1>3. CASE ScriptFails(t)   BY <1>3 DEF ScriptFails
<1>4. CASE LoadRescue(t)    BY <1>4 DEF LoadRescue
<1>5. CASE SetHeader(t)     BY <1>5 DEF SetHeader
<1>6. QED BY <1>1, <1>2, <1>3, <1>4, <1>5

LEMMA FrameEcho ==
  ASSUME TypeOK, NEW t \in Threads, Echo(t)
  PROVE  Frame(t)
<1> USE DEF Calls, At, Goto, heap, locals, aux
<1>1. CASE EchoAlloc(t)
  <2>1. Newest(t)'[1] = t
    BY DEF Newest
  <2>2. QED BY <1>1, <2>1 DEF EchoAlloc, Outside, Frame, TypeOK
<1>2. CASE EchoCheck(t) BY <1>2 DEF EchoCheck, Outside, Frame, TypeOK
<1>3. CASE EchoFirst(t) BY <1>3 DEF EchoFirst, Outside, Frame, TypeOK
<1>4. CASE TakeHead(t, "echo_head", "echo_walk")
  BY <1>4, FrameTake DEF Locations, Outside
<1>5. CASE EchoWalk(t)
  <2>1. CASE Fault(t)  BY <1>5, <2>1, FrameFault DEF EchoWalk, Outside
  <2>2. CASE ~Fault(t) BY <1>5, <2>2 DEF EchoWalk, Outside, Frame, TypeOK
  <2>3. QED BY <2>1, <2>2
<1>6. CASE EchoLink(t)
  <2>1. CASE Fault(t)  BY <1>6, <2>1, FrameFault DEF EchoLink, Outside
  <2>2. CASE ~Fault(t) BY <1>6, <2>2 DEF EchoLink, Outside, Frame, TypeOK
  <2>3. QED BY <2>1, <2>2
<1>7. QED BY <1>1, <1>2, <1>3, <1>4, <1>5, <1>6 DEF Echo

LEMMA FrameHeader ==
  ASSUME TypeOK, NEW t \in Threads, Header(t)
  PROVE  Frame(t)
<1>1. CASE SetHeader(t) BY <1>1, FrameScript
<1>2. CASE FreeHeader(t, "hdr_free", "hdr_dup")
  BY <1>2, FrameFreeHeader DEF Locations, Outside
<1>3. CASE HeaderDup(t)
  <2>1. Newest(t)'[1] = t
    BY DEF Newest
  <2>2. QED BY <1>3, <2>1 DEF HeaderDup, Outside, Frame, At, Goto, TypeOK, heap, locals, aux
<1>4. CASE HeaderLen(t)
  <2>1. CASE Fault(t)  BY <1>4, <2>1, FrameFault DEF HeaderLen, Outside
  <2>2. CASE ~Fault(t) BY <1>4, <2>2 DEF HeaderLen, Outside, Frame, At, Goto, TypeOK, heap, locals, aux
  <2>3. QED BY <2>1, <2>2
<1>5. QED BY <1>1, <1>2, <1>3, <1>4 DEF Header

\* A chunk reaches the thread jData names, and nobody who is closed.
LEMMA FrameDeliver ==
  ASSUME TypeOK, NEW b, Deliver(b)
  PROVE  \A u \in Threads : u \notin Open \/ fd[u] # jData.connection => out'[u] = out[u]
  BY DEF Deliver, TypeOK

LEMMA FrameSend ==
  ASSUME TypeOK, NEW t \in Threads, Send(t)
  PROVE  Frame(t)
<1> USE DEF At, Goto, heap, locals, aux
<1>1. CASE SendCheck(t) BY <1>1 DEF SendCheck, Outside, Frame, TypeOK
<1>2. CASE SendHeader(t)
  <2>1. CASE Fault(t)  BY <1>2, <2>1, FrameFault DEF SendHeader, Outside
  <2>2. CASE ~Fault(t) BY <1>2, <2>2, FrameDeliver DEF SendHeader, Outside, Frame, TypeOK
  <2>3. QED BY <2>1, <2>2
<1>3. CASE FreeHeader(t, "send_free", "send_head")
  BY <1>3, FrameFreeHeader DEF Locations, Outside
<1>4. CASE TakeHead(t, "send_head", "send_node")
  BY <1>4, FrameTake DEF Locations, Outside
<1>5. CASE SendNode(t)
  <2>1. CASE Fault(t)  BY <1>5, <2>1, FrameFault DEF SendNode, Outside
  <2>2. CASE ~Fault(t) BY <1>5, <2>2, FrameDeliver DEF SendNode, Outside, Frame, TypeOK
  <2>3. QED BY <2>1, <2>2
<1>6. CASE FreeNode(t, "free_node", "send_node")
  BY <1>6, FrameFreeNode DEF Locations, Outside
<1>7. CASE Close(t) BY <1>7 DEF Close, Outside, Frame, TypeOK
<1>8. QED BY <1>1, <1>2, <1>3, <1>4, <1>5, <1>6, <1>7 DEF Send

LEMMA StepFrame ==
  ASSUME TypeOK, NEW t \in Threads, Step(t)
  PROVE  Frame(t)
<1>1. CASE InitStores(t)
  BY <1>1, FrameClear DEF InitStores, Locations, Outside
<1>2. CASE ErrorCleanup(t)
  BY <1>2, FrameFreeHeader, FrameTake, FrameFreeNode, FrameClear DEF ErrorCleanup, Locations, Outside
<1>3. QED BY <1>1, <1>2, FrameScript, FrameEcho, FrameHeader, FrameSend DEF Step

-----------------------------------------------------------------------------
LEMMA IInvInit == Init => IInv
<1> SUFFICES ASSUME Init PROVE IInv
  OBVIOUS
<1>1. TypeOK
  BY InitType
<1>2. FaultNeedsOverlap
  BY DEF Init, FaultNeedsOverlap
<1>3. \A t \in Threads : pc[t] = "new" /\ Fresh(t)
  BY NullAssumption DEF Init, Fresh
<1>4. FdsDistinct
  BY <1>3 DEF FdsDistinct, Open
<1>5. QED BY <1>1, <1>2, <1>3, <1>4 DEF IInv, Inside, Open

\* Steps elsewhere that touch neither jData nor the heap keep Solo.
LEMMA SoloKept ==
  ASSUME NEW t \in Threads, Solo(t), pc'[t] = pc[t], fd'[t] = fd[t],
         UNCHANGED <<jData, next, strings, mallocs, built, out, scriptError, cur>>
  PROVE  Solo(t)'
<1>1. ASSUME NEW i
      PROVE  /\ First(t, i, Len0(t))' = First(t, i, Len0(t))
             /\ Chain(t, i, Len0(t))' = Chain(t, i, Len0(t))
             /\ OwnNodes(t, i)' = OwnNodes(t, i)
             /\ Sent(t, i)' = Sent(t, i) /\ Sent(t, i - 1)' = Sent(t, i - 1)
  BY DEF First, Chain, OwnNodes, Sent, SentHeader, Len0, Head0, Body
<1>2. OwnNodes(t, Len0(t) + 1)' = OwnNodes(t, Len0(t) + 1)
  BY DEF OwnNodes, Len0, Body
<1>3. /\ jData'.connection = fd'[t] /\ OwnBlocks(t)' /\ UNCHANGED <<built, out, cur, jData>>
      /\ Len0(t)' = Len0(t) /\ Body(t)' = Body(t) /\ Head0(t)' = Head0(t)
      /\ FullList(t)' = FullList(t) /\ HeaderLive(t)' = HeaderLive(t)
      /\ NoOwnHeader(t)' = NoOwnHeader(t) /\ Echoing(t)' = Echoing(t)
  BY SoloSame DEF Solo
<1>4. QED BY <1>1, <1>2, <1>3 DEF Solo

\* A new connection gets a descriptor jData does not name, or counts as shared.
LEMMA IInvAccept ==
  ASSUME IInv, TypeOK', NEW t \in Threads, Accept(t)
  PROVE  IInv'
<1>1. PICK f \in Fds \ {fd[u] : u \in Open} : fd' = [fd EXCEPT ![t] = f]
  BY DEF Accept
<1>2. /\ fault = NULL /\ fault' = NULL /\ pc[t] = "new" /\ pc' = [pc EXCEPT ![t] = "reading"]
      /\ shared' = IF Inside \cap shared = {} THEN shared ELSE shared \cup {t}
      /\ UNCHANGED <<jData, next, strings, mallocs, scriptError, cur, built, out>>
  BY DEF Accept, At, Goto, heap
<1>3. /\ pc \in [Threads -> Locations] /\ fd \in [Threads -> Fds \cup {NULL}]
      /\ pc'[t] = "reading" /\ fd'[t] = f /\ f # NULL
      /\ \A u \in Threads \ {t} : pc'[u] = pc[u] /\ fd'[u] = fd[u]
  BY <1>1, <1>2, NullAssumption DEF IInv, TypeOK
<1>4. Inside' = Inside /\ Open' = Open \cup {t} /\ t \notin Open
  BY <1>2, <1>3 DEF Inside, Open
<1>5. FdsDistinct'
  BY <1>1, <1>3, <1>4 DEF IInv, FdsDistinct, Open
<1>6. ASSUME NEW u \in Threads, pc'[u] = "new" PROVE Fresh(u)'
  BY <1>2, <1>3, <1>6 DEF IInv, Fresh
<1>7. ASSUME NEW u \in Threads \ shared', pc'[u] = "reading" PROVE Reading(u)'
  <2>1. CASE u # t
    BY <1>2, <1>3, <1>4, <1>7, <2>1 DEF IInv, Reading, Fresh
  <2>2. CASE u = t
    <3>1. Fresh(t)'
      BY <1>2 DEF IInv, Fresh
    <3>2. ASSUME NEW w \in Inside PROVE jData'.connection # fd'[t]
      <4>1. w \notin shared /\ w \in Threads /\ w \in Open
        BY <1>2, <1>7, <2>2 DEF Inside, Open
      <4>2. Solo(w)
        BY <1>2, <4>1 DEF IInv
      <4>3. QED BY <1>1, <1>2, <1>3, <4>1, <4>2 DEF Solo
    <3>3. QED BY <1>4, <2>2, <3>1, <3>2 DEF Reading
  <2>3. QED BY <2>1, <2>2
<1>8. ASSUME NEW u \in Inside' \ shared' PROVE Inside' = {u} /\ Solo(u)'
  <2>1. u \in Threads /\ u \in Inside /\ u \notin shared /\ u # t
    BY <1>2, <1>4, <1>8 DEF Inside, Open
  <2>2. Inside = {u} /\ Solo(u)
    BY <1>2, <2>1 DEF IInv
  <2>3. QED BY <1>2, <1>3, <1>4, <2>1, <2>2, SoloKept
<1>9. ASSUME NEW u \in Threads \ shared', pc'[u] = "closed" PROVE Settled(u)'
  BY <1>2, <1>3, <1>9 DEF IInv, Settled, Response
<1>10. FaultNeedsOverlap'
  BY <1>2 DEF FaultNeedsOverlap
<1>11. QED BY <1>5, <1>6, <1>7, <1>8, <1>9, <1>10 DEF IInv

LEMMA IInvNoRequest ==
  ASSUME IInv, TypeOK', NEW t \in Threads, NoRequest(t)
  PROVE  IInv'
<1>1. /\ fault = NULL /\ fault' = NULL /\ pc[t] = "reading" /\ pc' = [pc EXCEPT ![t] = "closed"]
      /\ UNCHANGED <<fd, jData, next, strings, mallocs, scriptError, cur, built, out, shared>>
  BY DEF NoRequest, At, Goto, heap, locals, aux
<1>2. pc'[t] = "closed" /\ \A u \in Threads \ {t} : pc'[u] = pc[u]
  BY <1>1 DEF IInv, TypeOK
<1>3. Inside' = Inside /\ Open' = Open \ {t}
  BY <1>1, <1>2 DEF Inside, Open
<1>4. FdsDistinct'
  BY <1>1, <1>3 DEF IInv, FdsDistinct
<1>5. ASSUME NEW u \in Threads, pc'[u] = "new" PROVE Fresh(u)'
  BY <1>1, <1>2, <1>5 DEF IInv, Fresh
<1>6. ASSUME NEW u \in Threads \ shared', pc'[u] = "reading" PROVE Reading(u)'
  BY <1>1, <1>2, <1>3, <1>6 DEF IInv, Reading, Fresh
<1>7. ASSUME NEW u \in Inside' \ shared' PROVE Inside' = {u} /\ Solo(u)'
  <2>1. u \in Threads /\ u \in Inside /\ u \notin shared /\ u # t
    BY <1>1, <1>3, <1>7 DEF Inside, Open
  <2>2. Inside = {u} /\ Solo(u)
    BY <1>1, <2>1 DEF IInv
  <2>3. QED BY <1>1, <1>2, <1>3, <2>1, <2>2, SoloKept
<1>8. ASSUME NEW u \in Threads \ shared', pc'[u] = "closed" PROVE Settled(u)'
  <2>1. CASE u = t
    <3>1. Fresh(t)
      BY <1>1, <1>8, <2>1 DEF IInv, Reading
    <3>2. Response(t) = <<>>
      BY <3>1 DEF Fresh, Response, Empty
    <3>3. QED BY <1>1, <2>1, <3>1, <3>2 DEF Fresh, Settled, Response
  <2>2. CASE u # t
    BY <1>1, <1>2, <1>8, <2>2 DEF IInv, Settled, Response
  <2>3. QED BY <2>1, <2>2
<1>9. FaultNeedsOverlap'
  BY <1>1 DEF FaultNeedsOverlap
<1>10. QED BY <1>4, <1>5, <1>6, <1>7, <1>8, <1>9 DEF IInv

\* A request that enters an empty jlua_interpret has jData to itself.
LEMMA IInvEnter ==
  ASSUME IInv, TypeOK', NEW t \in Threads, Enter(t)
  PROVE  IInv'
<1>1. /\ fault = NULL /\ fault' = NULL /\ pc[t] = "reading" /\ pc' = [pc EXCEPT ![t] = "init_body"]
      /\ jData' = [jData EXCEPT !.connection = fd[t]]
      /\ shared' = IF Inside = {} THEN shared ELSE shared \cup Inside \cup {t}
      /\ UNCHANGED <<fd, next, strings, mallocs, scriptError, built, out>>
  BY DEF Enter, At, Goto, heap, locals
<1>2. /\ pc'[t] = "init_body" /\ \A u \in Threads \ {t} : pc'[u] = pc[u]
      /\ jData'.connection = fd[t]
  BY <1>1 DEF IInv, TypeOK
<1>3. Inside' = Inside \cup {t} /\ t \notin Inside /\ Open' = Open /\ t \in Open
  BY <1>1, <1>2 DEF Inside, Open
<1>4. FaultNeedsOverlap' /\ FdsDistinct'
  BY <1>1, <1>3 DEF IInv, FaultNeedsOverlap, FdsDistinct
<1>5. ASSUME NEW u \in Threads, pc'[u] = "new" PROVE Fresh(u)'
  BY <1>1, <1>2, <1>5 DEF IInv, Fresh
<1>6. ASSUME NEW u \in Threads \ shared', pc'[u] = "reading" PROVE Reading(u)'
  <2>1. u # t /\ pc[u] = "reading" /\ u \notin shared /\ u \in Open
    BY <1>1, <1>2, <1>6 DEF Open
  <2>2. Fresh(u) /\ fd[u] # fd[t]
    BY <1>3, <2>1 DEF IInv, Reading, FdsDistinct
  <2>3. QED BY <1>1, <1>2, <2>2 DEF Reading, Fresh
<1>7. ASSUME NEW u \in Inside' \ shared' PROVE Inside' = {u} /\ Solo(u)'
  <2>1. Inside = {} /\ u = t /\ t \notin shared
    BY <1>1, <1>3, <1>7
  <2>2. Fresh(t)
    BY <1>1, <2>1 DEF IInv, Reading
  <2>3. built'[t] = Empty /\ out'[t] = <<>> /\ OwnNodes(t, 1)' /\ NoOwnHeader(t)'
    BY <1>1, <2>2 DEF Fresh, OwnNodes, NoOwnHeader
  <2>4. OwnBlocks(t)'
    BY <2>3 DEF OwnBlocks, Len0, Body, Empty
  <2>5. Solo(t)'
    BY <1>1, <1>2, <2>3, <2>4 DEF Solo
  <2>6. QED BY <1>3, <2>1, <2>5
<1>8. ASSUME NEW u \in Threads \ shared', pc'[u] = "closed" PROVE Settled(u)'
  BY <1>1, <1>2, <1>8 DEF IInv, Settled, Response
<1>9. QED BY <1>4, <1>5, <1>6, <1>7, <1>8 DEF IInv

LEMMA IInvStep ==
  ASSUME IInv, TypeOK', NEW t \in Threads, Step(t)
  PROVE  IInv'
<1>1. TypeOK /\ Frame(t) /\ pc \in [Threads -> Locations] /\ pc' \in [Threads -> Locations]
  BY StepFrame DEF IInv, TypeOK
<1>2. fault = NULL /\ t \in Inside /\ fault' \in {NULL, t} /\ shared' = shared /\ fd' = fd
  BY <1>1 DEF Outside, Frame, Inside, Open
<1>3. t \notin shared => Inside = {t} /\ Solo(t)
  BY <1>2 DEF IInv
<1>4. t \notin shared => /\ pc'[t] # "closed" => Solo(t)'
                         /\ pc'[t] = "closed" => Settled(t)'
                         /\ fault' # NULL => scriptError'[t]
  BY <1>1, <1>2, <1>3, SoloStep
<1>5. Inside' \subseteq Inside /\ Open' \subseteq Open
  BY <1>1, <1>2 DEF Outside, Frame, Inside, Open
<1>6. FaultNeedsOverlap' /\ FdsDistinct'
  BY <1>2, <1>4, <1>5 DEF IInv, FaultNeedsOverlap, FdsDistinct
<1>7. ASSUME NEW u \in Threads, pc'[u] = "new" PROVE Fresh(u)'
  <2>1. u # t /\ pc[u] = "new" /\ u \notin Open /\ Fresh(u)
    BY <1>1, <1>7 DEF Outside, Frame, IInv, Open
  <2>2. QED BY <1>1, <2>1 DEF Outside, Frame, Fresh
<1>8. ASSUME NEW u \in Threads \ shared', pc'[u] = "reading" PROVE Reading(u)'
  <2>1. u # t /\ pc[u] = "reading" /\ u \notin shared
    BY <1>1, <1>2, <1>8 DEF Frame
  <2>2. Fresh(u) /\ jData.connection # fd[u]
    BY <1>2, <2>1 DEF IInv, Reading
  <2>3. Fresh(u)'
    BY <1>1, <2>1, <2>2 DEF Outside, Frame, Fresh
  <2>4. QED BY <1>1, <1>2, <2>2, <2>3 DEF Outside, Frame, Reading
<1>9. ASSUME NEW u \in Inside' \ shared' PROVE Inside' = {u} /\ (fault' = NULL => Solo(u)')
  <2>1. u \in Threads /\ u \in Inside /\ u \notin shared
    BY <1>2, <1>5, <1>9 DEF Inside, Open
  <2>2. Inside = {u} /\ u = t
    BY <1>2, <2>1 DEF IInv
  <2>3. pc'[t] # "closed"
    BY <1>9, <2>2 DEF Inside, Open
  <2>4. QED BY <1>2, <1>4, <1>5, <1>9, <2>1, <2>2, <2>3
<1>10. ASSUME NEW u \in Threads \ shared', pc'[u] = "closed" PROVE Settled(u)'
  <2>1. CASE u = t
    BY <1>2, <1>4, <1>10, <2>1
  <2>2. CASE u # t
    <3>1. pc[u] = "closed" /\ u \notin Open /\ Settled(u)
      BY <1>1, <1>2, <1>10, <2>2 DEF Outside, Frame, IInv, Open
    <3>2. QED BY <1>1, <2>2, <3>1 DEF Outside, Frame, Settled, Response
  <2>3. QED BY <2>1, <2>2
<1>11. QED BY <1>6, <1>7, <1>8, <1>9, <1>10 DEF IInv

\* The inductive invariant holds in every reachable state.
THEOREM Invariance == Spec => []IInv
<1>1. Init => IInv
  BY IInvInit
<1>2. IInv /\ [Next]_vars => IInv'
  <2> SUFFICES ASSUME IInv, [Next]_vars PROVE IInv'
    OBVIOUS
  <2>1. TypeOK'
    BY TypeStep DEF IInv
  <2>2. CASE Next
    BY <2>1, <2>2, IInvAccept, IInvNoRequest, IInvEnter, IInvStep DEF Next
  <2>3. CASE UNCHANGED vars
    <3>1. UNCHANGED <<fd, jData, next, strings, mallocs, pc, cur, scriptError, fault, out, built, shared>>
      BY <2>3 DEF vars, heap, locals, aux
    <3>2. ASSUME NEW t \in Threads, Solo(t) PROVE Solo(t)'
      BY <3>1, <3>2, SoloKept
    <3>3. Inside' = Inside /\ Open' = Open
      BY <3>1 DEF Inside, Open
    <3>4. FdsDistinct' /\ FaultNeedsOverlap'
      BY <3>1, <3>3 DEF IInv, FdsDistinct, FaultNeedsOverlap
    <3>5. ASSUME NEW t \in Threads
          PROVE  Fresh(t)' = Fresh(t) /\ Reading(t)' = Reading(t) /\ Settled(t)' = Settled(t)
      BY <3>1, <3>3 DEF Fresh, Reading, Settled, Response
    <3>6. QED BY <2>1, <3>1, <3>2, <3>3, <3>4, <3>5 DEF IInv
  <2>4. QED BY <2>2, <2>3
<1>3. QED BY <1>1, <1>2, PTL DEF Spec

\* jlua_interpret, send part: a request that overlapped no other gets exactly
\* the header and the chunks its own script produced, in order.
THEOREM UnsharedResponseHolds == Spec => []UnsharedResponse
<1>1. IInv => UnsharedResponse
  BY DEF IInv, UnsharedResponse, Settled
<1>2. QED BY <1>1, Invariance, PTL

\* jlua_interpret: only a thread that overlapped another, or found no script
\* at all, ever uses a dead block.
THEOREM FaultNeedsOverlapHolds == Spec => []FaultNeedsOverlap
<1>1. IInv => FaultNeedsOverlap
  BY DEF IInv
<1>2. QED BY <1>1, Invariance, PTL

\* jlua_interpret: a request that overlapped no other leaves no block behind.
THEOREM NoLeakHolds == Spec => []NoLeak
<1>1. IInv => NoLeak
  <2> SUFFICES ASSUME IInv, NEW b \in DOMAIN next \cup strings
               PROVE  b[1] \in shared \/ pc[b[1]] # "closed"
    BY DEF NoLeak
  <2>1. b[1] \in Threads
    BY DEF IInv, TypeOK, Block
  <2>2. QED BY <2>1 DEF IInv, Settled
<1>2. QED BY <1>1, Invariance, PTL
=============================================================================
