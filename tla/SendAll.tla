------------------------------ MODULE SendAll ------------------------------
(* jnet_send_all (jorgeNetwork.cpp) as jlua_interpret calls it: once for   *)
(* the header and once for each chunk of the body, over a connection that  *)
(* takes as much as it has room for, and whose client may be gone.         *)
(*                                                                         *)
(* The callers do not look at what jnet_send_all returns: after a failed   *)
(* block they send the next one.  On a connection that was reset the first *)
(* send() fails and the next, or already that one, raises SIGPIPE, which   *)
(* nobody handles.  MSG_MORE only delays when bytes travel, and every step *)
(* of the connection may be as late as it likes here.                      *)
EXTENDS Naturals, Sequences, SequencesExt, FiniteSetsExt

CONSTANT SndBuf  \* how many bytes the connection holds on their way

VARIABLES
  blocks,     \* the blocks not dealt with yet; buffer is the first
  bytesSent,  \* how much of it send() has taken
  inflight,   \* what the connection holds: sent, not read by the client
  got,        \* what the client has read
  peer,       \* "open", "left": the client closed, "reset": the kernel knows,
              \* "broken": send() has reported it
  down        \* SIGPIPE has ended the process

vars == <<blocks, bytesSent, inflight, got, peer, down>>

Buffer    == Head(blocks)
Sending   == ~down /\ blocks # <<>>
Remaining == Len(Buffer) - bytesSent

\* Mutant: send() is given the start of the buffer every time.
TransmitAgain(n) ==
  /\ inflight' = IF peer = "open" THEN inflight \o SubSeq(Buffer, 1, n) ELSE inflight
  /\ bytesSent' = bytesSent + n

Transmit(n) ==
  /\ inflight' = IF peer = "open" THEN inflight \o SubSeq(Buffer, bytesSent + 1, bytesSent + n)
                 ELSE inflight
  /\ bytesSent' = bytesSent + n

\* send() takes a part of what is left, and waits while there is no room at all.
SendSome ==
  /\ Sending /\ Remaining > 0
  /\ peer \in {"open", "left"}
  /\ Len(inflight) < SndBuf
  /\ \E n \in 1..Min({SndBuf - Len(inflight), Remaining}) : Transmit(n)
  /\ UNCHANGED <<blocks, got, peer, down>>

NextBlock == blocks' = Tail(blocks) /\ bytesSent' = 0

\* Mutant: the loop goes on while bytesSent <= *length.
ReturnNever ==
  /\ Sending /\ Remaining < 0
  /\ NextBlock
  /\ UNCHANGED <<inflight, got, peer, down>>

Return ==
  /\ Sending /\ Remaining = 0
  /\ NextBlock
  /\ UNCHANGED <<inflight, got, peer, down>>

\* bytesNow is -1: the rest of this block is given up.
SendFails ==
  /\ Sending /\ Remaining > 0
  /\ peer = "reset" /\ peer' = "broken"
  /\ NextBlock
  /\ UNCHANGED <<inflight, got, down>>

SigPipe ==
  /\ Sending /\ Remaining > 0
  /\ peer \in {"reset", "broken"}
  /\ down' = TRUE
  /\ UNCHANGED <<blocks, bytesSent, inflight, got, peer>>

Send == SendSome \/ Return \/ SendFails \/ SigPipe

-----------------------------------------------------------------------------
(* The client and the connection. *)

Read ==
  /\ peer = "open"
  /\ \E n \in 1..Len(inflight) : /\ got' = got \o SubSeq(inflight, 1, n)
                                 /\ inflight' = SubSeq(inflight, n + 1, Len(inflight))
  /\ UNCHANGED <<blocks, bytesSent, peer, down>>

Leave ==
  /\ peer = "open" /\ peer' = "left"
  /\ inflight' = <<>>
  /\ UNCHANGED <<blocks, bytesSent, got, down>>

Reset ==
  /\ peer = "left" /\ peer' = "reset"
  /\ UNCHANGED <<blocks, bytesSent, inflight, got, down>>

-----------------------------------------------------------------------------
\* What the connection, the block being sent and the blocks to come hold.
ToCome ==
  inflight \o (IF blocks = <<>> THEN <<>>
               ELSE SubSeq(Buffer, bytesSent + 1, Len(Buffer)) \o FlattenSeq(Tail(blocks)))
=============================================================================
