------------------------------ MODULE RecvLoop ------------------------------
(* jnet_read_request (jorgeNetwork.cpp), the receiving half: non-blocking  *)
(* reads into a linked list of buffers until the waiting limits are        *)
(* exceeded, then one contiguous copy of the list.                         *)
(*                                                                         *)
(* Time is counted in ticks, one tick being one usleep; JNET_RECV_TIMEEXTRA*)
(* is less than a tick.  A client that closes the connection is one that   *)
(* sends no more: recv() returns 0 or -1 and the loop treats both alike.   *)
(* The clock is assumed not to be set while a request is read.             *)
EXTENDS Naturals, Sequences, SequencesExt, FiniteSetsExt

CONSTANTS
  Byte,       \* what a message is made of
  Messages,   \* what clients would send
  Nul,
  BuffSize,   \* JNET_REQ_BUFF_SIZE
  Timeout,    \* JNET_RECV_TIMEOUT in ticks
  MaxLate     \* bound: how often the thread may lose the CPU for a tick or more

ASSUME SizeAssumption == BuffSize \in Nat \ {0, 1} /\ Timeout \in Nat /\ MaxLate \in Nat
ASSUME MessageAssumption == Messages \subseteq Seq(Byte)

VARIABLES
  message,   \* what this client would send
  rest,      \* what of it is not sent yet
  sock,      \* what the connection holds, unread
  pc,
  nodes,     \* the buffers: nodes[i].next is nodes[i + 1]
  last,      \* the node last_buffer points to
  total,     \* totalBytes
  elapsed,   \* ticks since begin
  request,   \* what has been copied into *request
  late,      \* how often the thread lost the CPU
  unread,    \* history: what the connection held when the loop ended
  prompt     \* history: all of message was there at the first recv()

network == <<rest, sock>>
list    == <<nodes, last, total>>
history == <<late, unread, prompt>>
vars    == <<message, network, pc, list, elapsed, request, history>>

Init ==
  /\ message \in Messages
  /\ rest = message /\ sock = <<>>
  /\ pc = "check"
  /\ nodes = << <<>> >> /\ last = 1 /\ total = 0
  /\ elapsed = 0
  /\ request = <<>>
  /\ late = 0 /\ unread = <<>> /\ prompt = FALSE

-----------------------------------------------------------------------------
(* The client and the machine. *)

Arrive ==
  /\ \E n \in 1..Len(rest) : /\ sock' = sock \o SubSeq(rest, 1, n)
                             /\ rest' = SubSeq(rest, n + 1, Len(rest))
  /\ UNCHANGED <<pc, list, elapsed, request, history>>

LoseCPU ==
  /\ pc \in {"check", "recv"} /\ late < MaxLate /\ elapsed <= Timeout
  /\ elapsed' = elapsed + 1
  /\ late' = late + 1
  /\ UNCHANGED <<network, pc, list, request, unread, prompt>>

-----------------------------------------------------------------------------
(* The loop. *)

\* Make sure there is a buffer after this one, then call recv().
TryReceive ==
  /\ nodes' = IF last = Len(nodes) THEN Append(nodes, <<>>) ELSE nodes
  /\ pc' = "recv"
  /\ UNCHANGED <<network, last, total, elapsed, request, history>>

\* Mutant: once there is data, the loop is left without another look.
GaveUpAtOnce == total > 0 \/ elapsed > Timeout

\* Mutant: the short limit applies from the start.
GaveUpEarly == elapsed > 0

GaveUp == (total > 0 /\ elapsed > 0) \/ elapsed > Timeout

Check ==
  /\ pc = "check"
  /\ \/ ~GaveUp /\ TryReceive
     \/ /\ GaveUp
        /\ pc' = "copy"
        /\ unread' = sock
        /\ UNCHANGED <<network, list, elapsed, request, late, prompt>>

\* Mutant: recv() is given the whole buffer, and the NUL lands behind it.
ReceivedFull == Min({BuffSize, Len(sock)})

Received == Min({BuffSize - 1, Len(sock)})

\* Mutant: the buffer is written again, the next one never used.
TakeInPlace(n) ==
  /\ nodes' = [nodes EXCEPT ![last] = SubSeq(sock, 1, n)]
  /\ last' = last
  /\ total' = total + n

\* recv() fills the buffer last_buffer points to; the walk goes on to the next.
Take(n) ==
  /\ nodes' = [nodes EXCEPT ![last] = SubSeq(sock, 1, n)]
  /\ last' = last + 1
  /\ total' = total + n

Receive ==
  /\ pc = "recv"
  /\ sock # <<>>
  /\ Take(Received)
  /\ sock' = SubSeq(sock, Received + 1, Len(sock))
  /\ elapsed' = 0
  /\ prompt' = (prompt \/ (total = 0 /\ rest = <<>>))
  /\ pc' = "check"
  /\ UNCHANGED <<rest, request, late, unread>>

\* usleep(100000), after which the limits are checked before the next read.
Nothing ==
  /\ pc = "recv" /\ sock = <<>>
  /\ pc' = "asleep"
  /\ UNCHANGED <<network, list, elapsed, request, history>>

Wake ==
  /\ pc = "asleep"
  /\ elapsed' = elapsed + 1
  /\ pc' = "check"
  /\ UNCHANGED <<network, list, request, history>>

-----------------------------------------------------------------------------
(* The copy: strcpy() stops at the first NUL of every buffer.              *)

Text(data) ==
  LET nuls == {i \in DOMAIN data : data[i] = Nul}
  IN  IF nuls = {} THEN data ELSE SubSeq(data, 1, Min(nuls) - 1)

\* Mutant: every buffer is copied to the front of the request.
CopyToFront ==
  /\ pc = "copy"
  /\ nodes # <<>>
  /\ request' = Text(Head(nodes)) \o request
  /\ nodes' = Tail(nodes)
  /\ UNCHANGED <<network, pc, last, total, elapsed, history>>

Copy ==
  /\ pc = "copy"
  /\ nodes # <<>>
  /\ request' = request \o Text(Head(nodes))
  /\ nodes' = Tail(nodes)
  /\ UNCHANGED <<network, pc, last, total, elapsed, history>>

Return ==
  /\ pc = "copy"
  /\ nodes = <<>>
  /\ pc' = "done"
  /\ UNCHANGED <<network, list, elapsed, request, history>>

Step == Check \/ Receive \/ Nothing \/ Wake \/ Copy \/ Return
Next == (Arrive \/ LoseCPU \/ Step) /\ UNCHANGED message

Spec == Init /\ [][Next]_vars

-----------------------------------------------------------------------------
(* Properties *)

Bytes == {message[i] : i \in DOMAIN message}

\* The list is never empty before the copy, the node that is read into has a
\* successor, and no buffer holds more than fits beside its NUL.
TypeOK ==
  /\ message \in Messages
  /\ rest \in Seq(Bytes) /\ sock \in Seq(Bytes) /\ request \in Seq(Bytes) /\ unread \in Seq(Bytes)
  /\ pc \in {"check", "recv", "asleep", "copy", "done"}
  /\ nodes \in Seq(Seq(Bytes)) /\ \A i \in DOMAIN nodes : Len(nodes[i]) < BuffSize
  /\ pc \in {"check", "recv", "asleep"} => last \in DOMAIN nodes
  /\ pc = "recv" => last + 1 \in DOMAIN nodes
  /\ total \in 0..Len(message)
  /\ elapsed \in 0..Timeout + 1 + MaxLate /\ late \in 0..MaxLate /\ prompt \in BOOLEAN

\* Until the copy begins, no byte the client sent is lost, repeated or moved:
\* the buffers, the connection and what is to come make up the message; then
\* the copy and its final NUL fit the totalBytes + 1 bytes that were allocated.
NothingLost ==
  /\ pc \in {"check", "recv", "asleep"} =>
       /\ FlattenSeq(nodes) \o sock \o rest = message
       /\ total = Len(FlattenSeq(nodes))
  /\ pc \in {"copy", "done"} => Len(request) + Len(FlattenSeq(nodes)) <= total

\* A request that was all there at the first recv() is returned whole however
\* many buffers it takes, if the thread was not kept from reading it.
PromptRequestWhole ==
  pc = "done" /\ prompt /\ late = 0 /\ Nul \notin Bytes => request = message

\* "if you got no data at all, wait timeout" (jorgeNetwork.cpp:47): an empty
\* request is returned only when nothing came for the whole timeout.
EmptyAfterTimeout ==
  pc = "done" /\ total = 0 => elapsed > Timeout

\* jnet_read_request is a RequestReader.
Reader == INSTANCE RequestReader WITH
  sent   <- Len(message) - Len(rest),
  result <- IF pc = "done" THEN {request} ELSE {}
ReadsInOrder == Reader!Spec

\* "if you got some data, then wait a little more time" (jorgeNetwork.cpp:45):
\* what came during that wait is part of the request.
ExtraWaitRead ==
  pc \in {"copy", "done"} /\ total > 0 => unread = <<>>
=============================================================================
