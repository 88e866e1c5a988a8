------------------------------ MODULE Exchange ------------------------------
(* One connection from its first byte to its end (req_thread in main.cpp): *)
(* RecvLoop reads the request, jlua_interpret's blocks are sent by SendAll,*)
(* the connection is closed.  What a script answers is any of Responses.   *)
(*                                                                         *)
(* The two halves meet in TCP: a connection that is closed while it holds  *)
(* bytes nobody read, or that gets some afterwards, is reset, and what of  *)
(* the response has not reached the client by then may be lost.            *)
EXTENDS RecvLoop

CONSTANTS
  Responses,  \* the blocks a script may have jlua_interpret send
  SndBuf      \* how many bytes the connection holds on their way to the client

ASSUME ExchangeAssumption == SndBuf \in Nat \ {0} /\ Responses \subseteq Seq(Seq(Byte))

VARIABLES
  stage,     \* of req_thread: "read", "answer", "closed"
  response,  \* history: the blocks of this request's response
  aborted,   \* history: the server's close() became a reset
  blocks, bytesSent, inflight, got, peer, down

Sender == INSTANCE SendAll

progress     == <<stage, response, aborted>>
sending      == <<blocks, bytesSent, inflight, got, peer, down>>
exchangeVars == <<vars, progress, sending>>

ExchangeInit ==
  /\ Init
  /\ stage = "read" /\ response = <<>> /\ aborted = FALSE
  /\ blocks = <<>> /\ bytesSent = 0
  /\ inflight = <<>> /\ got = <<>>
  /\ peer = "open" /\ down = FALSE

-----------------------------------------------------------------------------
(* The client and the connection. *)

Abort == aborted' = TRUE /\ \E n \in 0..Len(inflight) : inflight' = SubSeq(inflight, 1, n)

ClientSends ==
  /\ peer = "open" /\ ~aborted
  /\ Arrive
  /\ IF stage = "closed" THEN Abort ELSE UNCHANGED <<aborted, inflight>>
  /\ UNCHANGED <<message, stage, response, blocks, bytesSent, got, peer, down>>

ClientReads == (Sender!Read \/ Sender!Leave \/ Sender!Reset) /\ UNCHANGED <<vars, progress>>

-----------------------------------------------------------------------------
(* req_thread. *)

Reading == stage = "read" /\ Step /\ UNCHANGED <<message, progress, sending>>

\* Without a verb nothing is interpreted; there is none in an empty request.
Interpret ==
  /\ stage = "read" /\ pc = "done"
  /\ response' \in {<<>>} \cup (IF request = <<>> THEN {} ELSE Responses)
  /\ blocks' = response'
  /\ stage' = "answer"
  /\ UNCHANGED <<vars, aborted, bytesSent, inflight, got, peer, down>>

Sending == stage = "answer" /\ Sender!Send /\ UNCHANGED <<vars, progress>>

Close ==
  /\ stage = "answer" /\ ~down /\ blocks = <<>>
  /\ stage' = "closed"
  /\ IF sock # <<>> THEN Abort ELSE UNCHANGED <<aborted, inflight>>
  /\ UNCHANGED <<vars, response, blocks, bytesSent, got, peer, down>>

Thread == Reading \/ Interpret \/ Sending \/ Close

ExchangeNext ==
  \/ ClientSends \/ ClientReads
  \/ LoseCPU /\ UNCHANGED <<message, progress, sending>>
  \/ Thread

ExchangeSpec == ExchangeInit /\ [][ExchangeNext]_exchangeVars

\* The thread is scheduled, and a client that stays reads what it is sent.
FairExchange ==
  ExchangeSpec /\ WF_exchangeVars(Thread)
               /\ WF_exchangeVars(Sender!Read /\ UNCHANGED <<vars, progress>>)

-----------------------------------------------------------------------------
(* Properties *)

\* However send() cuts the blocks up, a client that stays is sent the response
\* with nothing missing, repeated or moved; one that leaves has seen its front.
ResponseInOrder ==
  LET whole == FlattenSeq(response)
  IN  /\ IsPrefix(got, whole)
      /\ peer = "open" /\ ~aborted => got \o Sender!ToCome = whole

\* A client whose request was all there at the first recv(), and whose thread
\* was not kept from reading it, has it read whole; if it stays it gets the whole
\* response: the loop leaves nothing unread that would turn close() into a reset.
PromptExchangeWhole ==
  /\ PromptRequestWhole
  /\ stage = "closed" /\ prompt /\ late = 0 /\ peer = "open" /\ inflight = <<>> =>
       got = FlattenSeq(response)

\* A thread is held neither by its client nor by the connection: it comes to
\* close(), unless a client that left has brought the process down.
ExchangeEnds == <>(stage = "closed" \/ (down /\ peer # "open"))
=============================================================================
