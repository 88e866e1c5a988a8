-------------------------- MODULE Exchange_proofs ---------------------------
(* Theorems about one connection from its first byte to its end, for any   *)
(* message, any response and any size of the connection's buffers.         *)
EXTENDS Exchange, RecvLoop_proofs

\* What of the blocks has not been given to the connection yet.
Ahead ==
  IF blocks = <<>> THEN <<>>
  ELSE SubSeq(Head(blocks), bytesSent + 1, Len(Head(blocks))) \o FlattenSeq(Tail(blocks))

\* How far the connection is, and what may not have happened yet.
Staged ==
  /\ stage \in {"read", "answer", "closed"}
  /\ response \in Seq(Seq(Byte)) /\ blocks \in Seq(Seq(Byte))
  /\ inflight \in Seq(Byte) /\ got \in Seq(Byte)
  /\ bytesSent \in Nat
  /\ IF blocks = <<>> THEN bytesSent = 0 ELSE bytesSent <= Len(Head(blocks))
  /\ stage = "read" => response = <<>> /\ blocks = <<>> /\ inflight = <<>> /\ got = <<>>
  /\ stage # "read" => pc = "done"
  /\ stage = "closed" => blocks = <<>>
  /\ aborted => stage = "closed" /\ ~(prompt /\ late = 0)

FrontOf(s, w) == \E u \in Seq(Byte) : s \o u = w

\* What the client has and is about to get is the front of the response.
Delivered ==
  /\ FrontOf(got, FlattenSeq(response))
  /\ peer = "open" => FrontOf(got \o inflight, FlattenSeq(response))
  /\ peer = "open" /\ ~aborted => got \o (inflight \o Ahead) = FlattenSeq(response)

EInv == RInv /\ Staged /\ Delivered

\* A step of the connection is one of jnet_read_request or leaves it alone.
LEMMA ReadsOrStutters == [ExchangeNext]_exchangeVars => [Next]_vars
BY DEF ExchangeNext, ClientSends, ClientReads, Thread, Reading, Interpret, Sending, Close, Next,
   exchangeVars

\* Within a whole connection jnet_read_request behaves as it does alone, so that all
\* that is proved of it in RecvLoop_proofs holds of the connection.
THEOREM ExchangeReads == ExchangeSpec => Spec
BY ReadsOrStutters, PTL DEF ExchangeSpec, ExchangeInit, Spec

\* A front, in the sense of IsPrefix.
LEMMA FrontPrefix == \A s, w \in Seq(Byte) : FrontOf(s, w) => IsPrefix(s, w)
<1> TAKE s, w \in Seq(Byte)
<1> HAVE FrontOf(s, w)
<1>1. PICK u \in Seq(Byte) : s \o u = w
  BY DEF FrontOf
<1>2. Len(w) = Len(s) + Len(u) /\ Len(s) \in Nat /\ Len(u) \in Nat /\ Len(w) \in Nat
      /\ \A i \in 1..Len(s) + Len(u) : w[i] = IF i <= Len(s) THEN s[i] ELSE u[i - Len(s)]
  BY <1>1, ConcatProperties
<1>3. \A i \in 1..Len(s) : w[i] = s[i] /\ s[i] \in Byte
  BY <1>2
<1>4. SubSeq(w, 1, Len(s)) \in Seq(Byte) /\ Len(SubSeq(w, 1, Len(s))) = Len(s)
  BY <1>2, SplitAt
<1>5. SubSeq(s, 1, Len(s)) = s
  BY <1>2
<1>6. \A i \in 1..Len(s) : SubSeq(w, 1, Len(s))[i] = s[i]
  BY <1>2, <1>3
<1>7. SubSeq(w, 1, Len(s)) = s
  BY <1>2, <1>4, <1>6, SeqEqual
<1> QED  BY <1>2, <1>5, <1>7 DEF IsPrefix

\* A front of a front is a front.
LEMMA FrontOfFront ==
  \A s, i, w \in Seq(Byte) : FrontOf(s \o i, w) => FrontOf(s, w)
<1> TAKE s, i, w \in Seq(Byte)
<1> HAVE FrontOf(s \o i, w)
<1>1. PICK u \in Seq(Byte) : (s \o i) \o u = w
  BY DEF FrontOf
<1>2. (s \o i) \o u = s \o (i \o u)
  OBVIOUS
<1>3. i \o u \in Seq(Byte)
  BY ConcatProperties
<1> QED  BY <1>1, <1>2, <1>3 DEF FrontOf

\* The first two of three parts are a front of the whole.
LEMMA FrontByParts ==
  \A s, i, a, w \in Seq(Byte) : s \o (i \o a) = w => FrontOf(s \o i, w)
<1> TAKE s, i, a, w \in Seq(Byte)
<1>0. (s \o i) \o a = s \o (i \o a)
  OBVIOUS
<1>1. s \o (i \o a) = w => (s \o i) \o a = w
  BY <1>0
<1> QED  BY <1>1 DEF FrontOf

\* And whether p is sent behind i, or is still ahead with q and f.
SentApart(s, i, p, q, f) ==
  s \o ((i \o p) \o (q \o f)) = s \o (i \o ((p \o q) \o f))

\* Sending leaves the whole of what the client has and will get as it was.
LEMMA SendMoves == \A s, i, p, q, f \in Seq(Byte) : SentApart(s, i, p, q, f)
<1> TAKE s, i, p, q, f \in Seq(Byte)
<1>1. PICK e \in Seq(Byte) : e = q \o f
  BY ConcatProperties
<1>2. (i \o p) \o e = i \o (p \o e)
  OBVIOUS
<1>3. p \o (q \o f) = (p \o q) \o f
  OBVIOUS
<1> QED  BY <1>1, <1>2, <1>3 DEF SentApart

\* It is the same whether p is read before q and a, or they are still together.
ReadApart(s, p, q, a) ==
  /\ (s \o p) \o (q \o a) = s \o ((p \o q) \o a)
  /\ (s \o p) \o q = s \o (p \o q)

\* And so does reading.
LEMMA ReadMoves == \A s, p, q, a \in Seq(Byte) : ReadApart(s, p, q, a)
<1> TAKE s, p, q, a \in Seq(Byte)
<1>1. PICK e \in Seq(Byte) : e = q \o a
  BY ConcatProperties
<1>2. (s \o p) \o e = s \o (p \o e)
  OBVIOUS
<1>3. p \o (q \o a) = (p \o q) \o a
  OBVIOUS
<1>4. (s \o p) \o q = s \o (p \o q)
  OBVIOUS
<1> QED  BY <1>1, <1>2, <1>3, <1>4 DEF ReadApart

\* What is ahead is bytes.
LEMMA AheadType == Staged => Ahead \in Seq(Byte) /\ FlattenSeq(response) \in Seq(Byte)
<1> SUFFICES ASSUME Staged PROVE Ahead \in Seq(Byte) /\ FlattenSeq(response) \in Seq(Byte)
  OBVIOUS
<1>1. FlattenSeq(response) \in Seq(Byte)
  BY FlattenType DEF Staged
<1>2. CASE blocks = <<>>
  <2>1. Ahead = <<>>
    BY <1>2 DEF Ahead
  <2> QED  BY <1>1, <2>1, EmptySeq
<1>3. CASE blocks # <<>>
  <2>1. /\ Head(blocks) \in Seq(Byte) /\ Tail(blocks) \in Seq(Seq(Byte))
        /\ bytesSent \in 0..Len(Head(blocks))
    BY <1>3, HeadTailProperties DEF Staged
  <2>2. SubSeq(Head(blocks), bytesSent + 1, Len(Head(blocks))) \in Seq(Byte)
    BY <2>1, SplitAt
  <2>3. FlattenSeq(Tail(blocks)) \in Seq(Byte)
    BY <2>1, FlattenType
  <2> QED  BY <1>1, <1>3, <2>2, <2>3, ConcatProperties DEF Ahead
<1> QED  BY <1>2, <1>3

\* Before any of the first block has been sent, the blocks are ahead as they are.
LEMMA AheadAtFirst ==
  ASSUME NEW bs \in Seq(Seq(Byte))
  PROVE  FlattenSeq(bs) = IF bs = <<>> THEN <<>>
                          ELSE SubSeq(Head(bs), 0 + 1, Len(Head(bs))) \o FlattenSeq(Tail(bs))
<1>1. CASE bs = <<>>
  BY <1>1, FlattenEmpty
<1>2. CASE bs # <<>>
  <2>1. Len(bs) # 0
    BY <1>2, EmptySeq
  <2>2. Head(bs) \in Seq(Byte)
    BY <1>2, HeadTailProperties
  <2>3. SubSeq(Head(bs), 0 + 1, Len(Head(bs))) = Head(bs)
    BY <2>2
  <2> QED  BY <1>2, <2>1, <2>3, FlattenHead
<1> QED  BY <1>1, <1>2

\* The invariant holds when the connection has been accepted.
LEMMA ExchangeInitEInv == ExchangeInit => EInv
<1> SUFFICES ASSUME ExchangeInit PROVE EInv
  OBVIOUS
<1>1. RInv
  BY InitRInv DEF ExchangeInit
<1>2. <<>> \in Seq(Byte) /\ <<>> \in Seq(Seq(Byte))
  BY EmptySeq
<1>3. Staged
  BY <1>2 DEF ExchangeInit, Staged, Init
<1>4. <<>> \o (<<>> \o <<>>) = <<>> /\ <<>> \o <<>> = <<>>
  BY <1>2, ConcatEmptySeq
<1>5. FrontOf(<<>>, <<>>) /\ FrontOf(<<>> \o <<>>, <<>>)
  BY <1>2, <1>4 DEF FrontOf
<1>6. Delivered
  BY <1>4, <1>5, FlattenEmpty DEF ExchangeInit, Delivered, Ahead
<1> QED  BY <1>1, <1>3, <1>6 DEF EInv

\* What the client gets depends on nothing else.
LEMMA SameDelivered == Delivered /\ UNCHANGED <<response, aborted, sending>> => Delivered'
<1> SUFFICES ASSUME Delivered, UNCHANGED <<response, aborted, sending>> PROVE Delivered'
  OBVIOUS
<1>1. /\ got' = got /\ inflight' = inflight /\ peer' = peer /\ response' = response
      /\ aborted' = aborted /\ blocks' = blocks /\ bytesSent' = bytesSent
  BY DEF sending
<1>2. Ahead' = Ahead
  BY <1>1 DEF Ahead
<1>3. /\ FrontOf(got, FlattenSeq(response))'
      /\ (peer = "open" => FrontOf(got \o inflight, FlattenSeq(response)))'
  BY <1>1 DEF Delivered, FrontOf
<1> QED  BY <1>1, <1>2, <1>3 DEF Delivered

\* What a reset leaves in the connection is still a front of the response.
LEMMA FrontCut ==
  \A g, i, w \in Seq(Byte) : \A n \in 0..Len(i) :
    SubSeq(i, 1, n) \in Seq(Byte) /\ (FrontOf(g \o i, w) => FrontOf(g \o SubSeq(i, 1, n), w))
<1> TAKE g, i, w \in Seq(Byte)
<1> TAKE n \in 0..Len(i)
<1>1. PICK p \in Seq(Byte) : p = SubSeq(i, 1, n)
  BY SplitAt
<1>2. PICK q \in Seq(Byte) : q = SubSeq(i, n + 1, Len(i))
  BY SplitAt
<1>3. p \o q = i
  BY <1>1, <1>2, SplitAt
<1>4. (g \o p) \o q = g \o (p \o q)
  BY SMTT(40)
<1>5. PICK e \in Seq(Byte) : e = g \o p
  BY ConcatProperties
<1>6. FrontOf(e \o q, w) => FrontOf(e, w)
  BY FrontOfFront
<1> QED  BY <1>1, <1>3, <1>4, <1>5, <1>6

\* A reset takes the end of what the connection holds, and leaves a front of the response.
LEMMA AbortKeeps ==
  Staged /\ Delivered /\ Abort =>
    inflight' \in Seq(Byte) /\ (peer = "open" => FrontOf(got \o inflight', FlattenSeq(response)))
<1> SUFFICES ASSUME Staged, Delivered, Abort
             PROVE  inflight' \in Seq(Byte)
                    /\ (peer = "open" => FrontOf(got \o inflight', FlattenSeq(response)))
  OBVIOUS
<1>1. PICK n \in 0..Len(inflight) : inflight' = SubSeq(inflight, 1, n)
  BY DEF Abort
<1>2. got \in Seq(Byte) /\ inflight \in Seq(Byte) /\ FlattenSeq(response) \in Seq(Byte)
  BY AheadType DEF Staged
<1>3. PICK w \in Seq(Byte) : w = FlattenSeq(response)
  BY <1>2
<1>4. SubSeq(inflight, 1, n) \in Seq(Byte)
      /\ (FrontOf(got \o inflight, w) => FrontOf(got \o SubSeq(inflight, 1, n), w))
  BY <1>2, FrontCut
<1>5. peer = "open" => FrontOf(got \o inflight, w)
  BY <1>3 DEF Delivered
<1> QED  BY <1>1, <1>3, <1>4, <1>5

\* Bytes that come after close() turn it into a reset: the request was not prompt.
LEMMA ClientSendsKeeps == EInv /\ ClientSends => Staged' /\ Delivered'
<1> SUFFICES ASSUME EInv, ClientSends PROVE Staged' /\ Delivered'
  OBVIOUS
<1>0. RInv /\ Staged /\ Delivered
  BY DEF EInv
<1>1. pc' = pc /\ prompt' = prompt /\ late' = late /\ stage' = stage /\ response' = response
      /\ blocks' = blocks /\ bytesSent' = bytesSent /\ got' = got /\ peer' = peer /\ down' = down
      /\ peer = "open" /\ ~aborted
  BY DEF ClientSends, Arrive, history
<1>2. ~prompt
  <2>1. Len(rest) # 0
    <3>1. rest \in Seq(Bytes)
      BY <1>0 DEF RInv, Typed
    <3>2. PICK n \in 1..Len(rest) : TRUE
      BY DEF ClientSends, Arrive
    <3> QED  BY <3>1, <3>2
  <2>2. rest # <<>>
    BY <2>1
  <2> QED  BY <1>0, <2>2 DEF RInv, Prompt
<1>3. CASE stage = "closed" /\ Abort
  <2>1. inflight' \in Seq(Byte) /\ FrontOf(got \o inflight', FlattenSeq(response))
    BY <1>0, <1>1, <1>3, AbortKeeps
  <2>2. aborted'
    BY <1>3 DEF Abort
  <2>3. Staged'
    BY <1>0, <1>1, <1>2, <1>3, <2>1 DEF Staged
  <2>4. Delivered'
    BY <1>0, <1>1, <2>1, <2>2 DEF Delivered, FrontOf
  <2> QED  BY <2>3, <2>4
<1>4. CASE UNCHANGED <<aborted, inflight>>
  <2>1. Staged'
    BY <1>0, <1>1, <1>4 DEF Staged
  <2>2. Delivered'
    BY <1>0, <1>1, <1>4, SameDelivered DEF sending
  <2> QED  BY <2>1, <2>2
<1> QED  BY <1>3, <1>4 DEF ClientSends

\* What the client reads moves from the connection to the client.
LEMMA ReadKeeps == EInv /\ Sender!Read /\ UNCHANGED <<vars, progress>> => Staged' /\ Delivered'
<1> SUFFICES ASSUME EInv, Sender!Read, UNCHANGED <<vars, progress>> PROVE Staged' /\ Delivered'
  OBVIOUS
<1>0. Staged /\ Delivered
  BY DEF EInv
<1>1. PICK n \in 1..Len(inflight) :
        got' = got \o SubSeq(inflight, 1, n) /\ inflight' = SubSeq(inflight, n + 1, Len(inflight))
  BY DEF Sender!Read
<1>2. /\ peer = "open" /\ peer' = peer /\ blocks' = blocks /\ bytesSent' = bytesSent
      /\ pc' = pc /\ prompt' = prompt /\ late' = late
      /\ stage' = stage /\ response' = response /\ aborted' = aborted
  BY DEF Sender!Read, vars, history, progress
<1>3. /\ got \in Seq(Byte) /\ inflight \in Seq(Byte) /\ Len(inflight) \in Nat /\ n \in 0..Len(inflight)
      /\ Len(inflight) # 0
  <2>1. got \in Seq(Byte) /\ inflight \in Seq(Byte)
    BY <1>0 DEF Staged
  <2> QED  BY <2>1
<1>4. PICK p \in Seq(Byte) : p = SubSeq(inflight, 1, n)
  BY <1>3, SplitAt
<1>5. PICK q \in Seq(Byte) : q = SubSeq(inflight, n + 1, Len(inflight))
  BY <1>3, SplitAt
<1>6. p \o q = inflight
  BY <1>3, <1>4, <1>5, SplitAt
<1>7. PICK w \in Seq(Byte) : w = FlattenSeq(response)
  BY <1>0, AheadType
<1>8. PICK a \in Seq(Byte) : a = Ahead
  BY <1>0, AheadType
<1>9. got' = got \o p /\ inflight' = q /\ got' \in Seq(Byte)
  <2>1. got \o p \in Seq(Byte)
    BY <1>3, ConcatProperties
  <2> QED  BY <1>1, <1>4, <1>5, <2>1
<1>10. Staged'
  <2>1. stage # "read"
    BY <1>0, <1>3 DEF Staged
  <2> QED  BY <1>0, <1>2, <1>9, <2>1 DEF Staged
<1>11. ReadApart(got, p, q, a)
  BY <1>3, ReadMoves
<1>12. (got \o p) \o (q \o a) = got \o ((p \o q) \o a) /\ (got \o p) \o q = got \o (p \o q)
  BY <1>11 DEF ReadApart
<1>13. FrontOf(got' \o inflight', w)
  BY <1>0, <1>2, <1>6, <1>7, <1>9, <1>12 DEF Delivered
<1>14. FrontOf(got', w)
  BY <1>9, <1>13, FrontOfFront
<1>15. ~aborted => got' \o (inflight' \o a) = w
  BY <1>0, <1>2, <1>6, <1>7, <1>8, <1>9, <1>12 DEF Delivered
<1>16. Ahead' = a
  BY <1>2, <1>8 DEF Ahead
<1>17. FlattenSeq(response)' = w
  BY <1>2, <1>7
<1>18. Delivered'
  BY <1>2, <1>13, <1>14, <1>15, <1>16, <1>17 DEF Delivered, FrontOf
<1> QED  BY <1>10, <1>18

\* A client that leaves has what it has.
LEMMA LeavingKeeps ==
  EInv /\ (Sender!Leave \/ Sender!Reset) /\ UNCHANGED <<vars, progress>> => Staged' /\ Delivered'
<1> SUFFICES ASSUME EInv, Sender!Leave \/ Sender!Reset, UNCHANGED <<vars, progress>>
             PROVE  Staged' /\ Delivered'
  OBVIOUS
<1>0. Staged /\ Delivered
  BY DEF EInv
<1>1. /\ blocks' = blocks /\ bytesSent' = bytesSent /\ got' = got
      /\ inflight' \in {inflight, <<>>} /\ peer' # "open"
      /\ pc' = pc /\ prompt' = prompt /\ late' = late
      /\ stage' = stage /\ response' = response /\ aborted' = aborted
  BY DEF Sender!Leave, Sender!Reset, vars, history, progress
<1>2. <<>> \in Seq(Byte)
  BY EmptySeq
<1>3. Staged'
  BY <1>0, <1>1, <1>2 DEF Staged
<1>4. Delivered'
  BY <1>0, <1>1 DEF Delivered, FrontOf
<1> QED  BY <1>3, <1>4

\* While the request is read nothing has been answered.
LEMMA ReadingKeeps ==
  EInv /\ (Reading \/ (LoseCPU /\ UNCHANGED <<message, progress, sending>>)) => Staged' /\ Delivered'
<1> SUFFICES ASSUME EInv, Reading \/ (LoseCPU /\ UNCHANGED <<message, progress, sending>>)
             PROVE  Staged' /\ Delivered'
  OBVIOUS
<1>0. Staged /\ Delivered
  BY DEF EInv
<1>1. stage = "read" /\ ~aborted
  BY <1>0 DEF Reading, LoseCPU, Staged
<1>2. UNCHANGED <<progress, sending>>
  BY DEF Reading
<1>3. Staged'
  BY <1>0, <1>1, <1>2 DEF Staged, progress, sending
<1>4. Delivered'
  BY <1>0, <1>2, SameDelivered DEF progress
<1> QED  BY <1>3, <1>4

\* The response begins with all of it ahead.
LEMMA InterpretKeeps == EInv /\ Interpret => Staged' /\ Delivered'
<1> SUFFICES ASSUME EInv, Interpret PROVE Staged' /\ Delivered'
  OBVIOUS
<1>0. Staged /\ Delivered
  BY DEF EInv
<1>1. /\ response' \in Seq(Seq(Byte)) /\ blocks' = response' /\ bytesSent' = 0
      /\ stage' = "answer" /\ pc = "done" /\ pc' = "done"
      /\ inflight' = <<>> /\ got' = <<>> /\ ~aborted /\ aborted' = aborted /\ peer' = peer
  <2>1. <<>> \in Seq(Seq(Byte))
    BY EmptySeq
  <2> QED  BY <1>0, <2>1, ExchangeAssumption DEF Interpret, Staged, vars
<1>2. <<>> \in Seq(Byte)
  BY EmptySeq
<1>3. Staged'
  <2>1. blocks' # <<>> => 0 <= Len(Head(blocks'))
    <3>1. blocks' # <<>> => Head(blocks') \in Seq(Byte)
      BY <1>1, HeadTailProperties
    <3> QED  BY <3>1
  <2> QED  BY <1>1, <1>2, <2>1 DEF Staged
<1>4. PICK w \in Seq(Byte) : w = FlattenSeq(response')
  BY <1>1, FlattenType
<1>5. Ahead' = w
  BY <1>1, <1>4, AheadAtFirst DEF Ahead
<1>6. <<>> \o (<<>> \o w) = w /\ <<>> \o w = w /\ <<>> \o <<>> = <<>>
  BY <1>2, ConcatEmptySeq
<1>7. FrontOf(<<>>, w) /\ FrontOf(<<>> \o <<>>, w)
  BY <1>6 DEF FrontOf
<1>8. FlattenSeq(response)' = w
  BY <1>4
<1>9. Delivered'
  BY <1>1, <1>5, <1>6, <1>7, <1>8 DEF Delivered, FrontOf
<1> QED  BY <1>3, <1>9

\* send() moves the next bytes of the block to the end of what the connection holds.
LEMMA SendSomeKeeps ==
  EInv /\ stage = "answer" /\ Sender!SendSome /\ UNCHANGED <<vars, progress>> => Staged' /\ Delivered'
<1> SUFFICES ASSUME EInv, stage = "answer", Sender!SendSome, UNCHANGED <<vars, progress>>
             PROVE  Staged' /\ Delivered'
  OBVIOUS
<1>0. Staged /\ Delivered
  BY DEF EInv
<1>1. /\ blocks # <<>> /\ blocks' = blocks /\ got' = got /\ peer' = peer
      /\ pc' = pc /\ prompt' = prompt /\ late' = late
      /\ stage' = stage /\ response' = response /\ aborted' = aborted /\ ~aborted
  BY <1>0 DEF Sender!SendSome, Sender!Sending, vars, history, progress, Staged
<1>2. PICK b : b = Head(blocks)
  OBVIOUS
<1>3. /\ b \in Seq(Byte) /\ Len(b) \in Nat /\ bytesSent \in Nat /\ bytesSent <= Len(b)
      /\ Tail(blocks) \in Seq(Seq(Byte)) /\ got \in Seq(Byte)
      /\ inflight \in Seq(Byte) /\ Len(inflight) \in Nat
  <2>1. b \in Seq(Byte) /\ Tail(blocks) \in Seq(Seq(Byte))
    BY <1>0, <1>1, <1>2, HeadTailProperties DEF Staged
  <2> QED  BY <1>0, <1>1, <1>2, <2>1 DEF Staged
<1>4. PICK n \in 1..Len(b) - bytesSent :
        /\ bytesSent' = bytesSent + n
        /\ inflight' = IF peer = "open" THEN inflight \o SubSeq(b, bytesSent + 1, bytesSent + n)
                       ELSE inflight
  <2>1. PICK n \in 1..Min({SndBuf - Len(inflight), Len(b) - bytesSent}) : Sender!Transmit(n)
    BY <1>2 DEF Sender!SendSome, Sender!Remaining, Sender!Buffer, Sender!Min, Min
  <2>2. Min({SndBuf - Len(inflight), Len(b) - bytesSent}) <= Len(b) - bytesSent
    <3>1. SndBuf - Len(inflight) \in Nat /\ Len(b) - bytesSent \in Nat
      BY <1>2, <1>3, ExchangeAssumption DEF Sender!SendSome, Sender!Remaining, Sender!Buffer
    <3>2. Min({SndBuf - Len(inflight), Len(b) - bytesSent}) =
            IF SndBuf - Len(inflight) <= Len(b) - bytesSent THEN SndBuf - Len(inflight)
            ELSE Len(b) - bytesSent
      BY <3>1, MinTwo
    <3> QED  BY <3>1, <3>2
  <2>3. n \in 1..Len(b) - bytesSent
    <3>1. SndBuf - Len(inflight) \in Nat /\ Len(b) - bytesSent \in Nat
      BY <1>2, <1>3, ExchangeAssumption DEF Sender!SendSome, Sender!Remaining, Sender!Buffer
    <3>2. Min({SndBuf - Len(inflight), Len(b) - bytesSent}) \in Nat
      BY <3>1, MinTwo
    <3> QED  BY <2>2, <3>1, <3>2
  <2> QED  BY <1>2, <2>1, <2>3 DEF Sender!Transmit, Sender!Buffer
<1>5. PICK r \in Seq(Byte) : r = SubSeq(b, bytesSent + 1, Len(b))
  <2>1. bytesSent \in 0..Len(b)
    BY <1>3
  <2>2. SubSeq(b, bytesSent + 1, Len(b)) \in Seq(Byte)
    BY <1>3, <2>1, SplitAt
  <2> QED  BY <2>2
<1>6. PICK p \in Seq(Byte) : p = SubSeq(b, bytesSent + 1, bytesSent + n)
  <2>1. /\ \A i \in bytesSent + 1..bytesSent + n : b[i] \in Byte
        /\ bytesSent + 1 \in Int /\ bytesSent + n \in Int
    BY <1>3, <1>4, SMTT(40)
  <2>2. SubSeq(b, bytesSent + 1, bytesSent + n) \in Seq(Byte)
    BY <2>1, SubSeqProperties
  <2> QED  BY <2>2
<1>7. PICK q \in Seq(Byte) : q = SubSeq(b, bytesSent + n + 1, Len(b))
  <2>1. bytesSent + n \in 0..Len(b)
    BY <1>3, <1>4
  <2>2. SubSeq(b, bytesSent + n + 1, Len(b)) \in Seq(Byte)
    BY <1>3, <2>1, SplitAt
  <2> QED  BY <2>2
<1>8. p \o q = r
  <2>1. /\ bytesSent + 1 \in 1..Len(b) + 1 /\ bytesSent + n \in (bytesSent + 1) - 1..Len(b)
        /\ Len(b) \in bytesSent + n..Len(b)
    BY <1>3, <1>4
  <2> QED  BY <1>3, <1>5, <1>6, <1>7, <2>1, ConcatAdjacentSubSeq
<1>9. PICK f \in Seq(Byte) : f = FlattenSeq(Tail(blocks))
  BY <1>3, FlattenType
<1>10. PICK w \in Seq(Byte) : w = FlattenSeq(response)
  BY <1>0, AheadType
<1>11. Ahead = (p \o q) \o f
  BY <1>1, <1>2, <1>5, <1>8, <1>9 DEF Ahead
<1>12. Ahead' = q \o f
  BY <1>1, <1>2, <1>4, <1>7, <1>9 DEF Ahead
<1>13. inflight' = IF peer = "open" THEN inflight \o p ELSE inflight
  BY <1>4, <1>6
<1>14. Staged'
  <2>1. inflight \o p \in Seq(Byte)
    BY <1>3, ConcatProperties
  <2>2. inflight' \in Seq(Byte)
    BY <1>3, <1>13, <2>1
  <2>3. bytesSent' \in Nat /\ bytesSent' <= Len(b)
    BY <1>3, <1>4
  <2> QED  BY <1>0, <1>1, <1>2, <2>2, <2>3 DEF Staged
<1>15. SentApart(got, inflight, p, q, f)
  BY <1>3, SendMoves
<1>16. ASSUME peer = "open" PROVE got' \o (inflight' \o Ahead') = w
  <2>1. got \o (inflight \o ((p \o q) \o f)) = w
    BY <1>0, <1>1, <1>10, <1>11, <1>16 DEF Delivered
  <2> QED  BY <1>1, <1>12, <1>13, <1>15, <1>16, <2>1 DEF SentApart
<1>17. ASSUME peer = "open" PROVE FrontOf(got' \o inflight', w)
  <2>1. PICK a \in Seq(Byte) : a = Ahead'
    <3>1. q \o f \in Seq(Byte)
      BY ConcatProperties
    <3> QED  BY <1>12, <3>1
  <2>2. PICK g \in Seq(Byte) : g = got'
    BY <1>1, <1>3
  <2>3. PICK i \in Seq(Byte) : i = inflight'
    BY <1>14 DEF Staged
  <2>4. g \o (i \o a) = w
    BY <1>16, <1>17, <2>1, <2>2, <2>3
  <2>5. FrontOf(g \o i, w)
    BY <2>4, FrontByParts
  <2> QED  BY <2>2, <2>3, <2>5
<1>18. FlattenSeq(response)' = w
  BY <1>1, <1>10
<1>19. FrontOf(got', w)
  BY <1>0, <1>1, <1>10 DEF Delivered
<1>20. Delivered'
  BY <1>1, <1>16, <1>17, <1>18, <1>19 DEF Delivered, FrontOf
<1> QED  BY <1>14, <1>20

\* A block that was sent is done with; one that was given up has no client.
LEMMA EndBlockKeeps ==
  EInv /\ stage = "answer" /\ (Sender!Return \/ Sender!SendFails) /\ UNCHANGED <<vars, progress>> =>
    Staged' /\ Delivered'
<1> SUFFICES ASSUME EInv, stage = "answer", Sender!Return \/ Sender!SendFails,
                    UNCHANGED <<vars, progress>>
             PROVE  Staged' /\ Delivered'
  OBVIOUS
<1>0. Staged /\ Delivered
  BY DEF EInv
<1>1. /\ blocks # <<>> /\ blocks' = Tail(blocks) /\ bytesSent' = 0 /\ got' = got /\ inflight' = inflight
      /\ pc' = pc /\ prompt' = prompt /\ late' = late
      /\ stage' = stage /\ response' = response /\ aborted' = aborted /\ ~aborted
      /\ peer' = "open" => peer = "open" /\ Len(Head(blocks)) - bytesSent = 0
  BY <1>0 DEF Sender!Return, Sender!SendFails, Sender!Sending, Sender!NextBlock, Sender!Remaining,
              Sender!Buffer, vars, history, progress, Staged
<1>2. /\ Head(blocks) \in Seq(Byte) /\ Len(Head(blocks)) \in Nat /\ bytesSent \in Nat
      /\ Tail(blocks) \in Seq(Seq(Byte))
  <2>1. Head(blocks) \in Seq(Byte) /\ Tail(blocks) \in Seq(Seq(Byte))
    BY <1>0, <1>1, HeadTailProperties DEF Staged
  <2> QED  BY <1>0, <2>1 DEF Staged
<1>3. Staged'
  <2>1. Tail(blocks) # <<>> => 0 <= Len(Head(Tail(blocks)))
    <3>1. Tail(blocks) # <<>> => Head(Tail(blocks)) \in Seq(Byte)
      BY <1>2, HeadTailProperties
    <3> QED  BY <3>1
  <2> QED  BY <1>0, <1>1, <1>2, <2>1 DEF Staged
<1>4. Ahead' = FlattenSeq(Tail(blocks))
  BY <1>1, <1>2, AheadAtFirst DEF Ahead
<1>5. ASSUME peer' = "open" PROVE Ahead' = Ahead
  <2>1. bytesSent = Len(Head(blocks))
    BY <1>1, <1>2, <1>5
  <2>2. SubSeq(Head(blocks), bytesSent + 1, Len(Head(blocks))) = <<>>
    BY <1>2, <2>1, SubSeqEmpty
  <2>3. FlattenSeq(Tail(blocks)) \in Seq(Byte)
    BY <1>2, FlattenType
  <2>4. <<>> \o FlattenSeq(Tail(blocks)) = FlattenSeq(Tail(blocks))
    BY <2>3, ConcatEmptySeq
  <2> QED  BY <1>1, <1>4, <2>2, <2>4 DEF Ahead
<1>6. FrontOf(got', FlattenSeq(response'))
  BY <1>0, <1>1 DEF Delivered
<1>7. peer' = "open" => FrontOf(got' \o inflight', FlattenSeq(response'))
  BY <1>0, <1>1 DEF Delivered
<1>8. peer' = "open" => got' \o (inflight' \o Ahead') = FlattenSeq(response')
  BY <1>0, <1>1, <1>5 DEF Delivered
<1>9. Delivered'
  BY <1>6, <1>7, <1>8 DEF Delivered, FrontOf
<1> QED  BY <1>3, <1>9

\* jnet_send_all keeps the invariant.
LEMMA SendingKeeps == EInv /\ Sending => Staged' /\ Delivered'
<1> SUFFICES ASSUME EInv, Sending PROVE Staged' /\ Delivered'
  OBVIOUS
<1>1. CASE Sender!SigPipe
  <2>1. Staged /\ Delivered
    BY DEF EInv
  <2>2. /\ blocks' = blocks /\ bytesSent' = bytesSent /\ inflight' = inflight
        /\ got' = got /\ peer' = peer /\ pc' = pc /\ prompt' = prompt /\ late' = late
        /\ stage' = stage /\ response' = response /\ aborted' = aborted /\ peer # "open"
    BY <1>1 DEF Sender!SigPipe, Sending, vars, history, progress
  <2>3. Staged'
    BY <2>1, <2>2 DEF Staged
  <2>4. Delivered'
    BY <2>1, <2>2 DEF Delivered, FrontOf
  <2> QED  BY <2>3, <2>4
<1> QED  BY <1>1, SendSomeKeeps, EndBlockKeeps DEF Sending, Sender!Send

\* close() becomes a reset only when something is unread, which a prompt request excludes.
LEMMA CloseKeeps == EInv /\ Close => Staged' /\ Delivered'
<1> SUFFICES ASSUME EInv, Close PROVE Staged' /\ Delivered'
  OBVIOUS
<1>0. RInv /\ Staged /\ Delivered
  BY DEF EInv
<1>1. /\ stage = "answer" /\ blocks = <<>> /\ stage' = "closed"
      /\ pc' = pc /\ pc = "done" /\ prompt' = prompt /\ late' = late /\ response' = response
      /\ blocks' = blocks /\ bytesSent' = bytesSent /\ got' = got /\ peer' = peer /\ ~aborted
  BY <1>0 DEF Close, vars, history, Staged
<1>2. CASE sock # <<>> /\ Abort
  <2>1. ~(prompt /\ late = 0)
    BY <1>0, <1>1, <1>2 DEF RInv, Prompt
  <2>2. inflight' \in Seq(Byte) /\ (peer = "open" => FrontOf(got \o inflight', FlattenSeq(response)))
    BY <1>0, <1>2, AbortKeeps
  <2>3. aborted'
    BY <1>2 DEF Abort
  <2>4. Staged'
    BY <1>0, <1>1, <2>1, <2>2 DEF Staged
  <2>5. Delivered'
    BY <1>0, <1>1, <2>2, <2>3 DEF Delivered, FrontOf
  <2> QED  BY <2>4, <2>5
<1>3. CASE UNCHANGED <<aborted, inflight>>
  <2>1. Staged'
    BY <1>0, <1>1, <1>3 DEF Staged
  <2>2. UNCHANGED <<response, aborted, sending>>
    BY <1>1, <1>3 DEF Close, sending
  <2> QED  BY <1>0, <2>1, <2>2, SameDelivered
<1> QED  BY <1>2, <1>3 DEF Close

\* Every step of the client, the connection and the thread keeps the invariant.
LEMMA NextKeepsEInv == EInv /\ [ExchangeNext]_exchangeVars => EInv'
<1> SUFFICES ASSUME EInv, [ExchangeNext]_exchangeVars PROVE EInv'
  OBVIOUS
<1>1. RInv'
  BY ReadsOrStutters, NextKeepsRInv DEF EInv
<1>2. CASE UNCHANGED exchangeVars
  <2>1. UNCHANGED <<response, aborted, sending>>
    BY <1>2 DEF exchangeVars, progress
  <2>2. Staged'
    BY <1>2 DEF EInv, Staged, exchangeVars, vars, history, progress, sending
  <2> QED  BY <1>1, <2>1, <2>2, SameDelivered DEF EInv
<1>3. CASE ExchangeNext
  <2>1. Staged' /\ Delivered'
    BY <1>3, ClientSendsKeeps, ReadKeeps, LeavingKeeps, ReadingKeeps, InterpretKeeps, SendingKeeps,
       CloseKeeps DEF ExchangeNext, ClientReads, Thread
  <2> QED  BY <1>1, <2>1 DEF EInv
<1> QED  BY <1>2, <1>3

\* EInv is an invariant of the connection.
THEOREM ExchangeInvariance == ExchangeSpec => []EInv
BY ExchangeInitEInv, NextKeepsEInv, PTL DEF ExchangeSpec

\* The response is delivered in order.
LEMMA InOrder == EInv => ResponseInOrder
<1> SUFFICES ASSUME EInv PROVE ResponseInOrder
  OBVIOUS
<1>0. Staged /\ Delivered
  BY DEF EInv
<1>1. got \in Seq(Byte) /\ FlattenSeq(response) \in Seq(Byte)
  BY <1>0, AheadType DEF Staged
<1>2. FrontOf(got, FlattenSeq(response))
  BY <1>0 DEF Delivered
<1>3. IsPrefix(got, FlattenSeq(response))
  BY <1>1, <1>2, FrontPrefix
<1>4. Sender!ToCome = inflight \o Ahead
  BY DEF Sender!ToCome, Sender!Buffer, Ahead, Sender!FlattenSeq, FlattenSeq
<1> QED  BY <1>0, <1>3, <1>4 DEF Delivered, ResponseInOrder

\* And whole, where nothing was left unread.
LEMMA WholeWhenPrompt == EInv => PromptExchangeWhole
<1> SUFFICES ASSUME EInv PROVE PromptExchangeWhole
  OBVIOUS
<1>0. RInv /\ Staged /\ Delivered
  BY DEF EInv
<1>1. PromptRequestWhole
  BY <1>0, ReadsPromptWhole
<1>2. ASSUME stage = "closed", prompt, late = 0, peer = "open", inflight = <<>>
      PROVE  got = FlattenSeq(response)
  <2>1. Ahead = <<>> /\ ~aborted
    BY <1>0, <1>2 DEF Staged, Ahead
  <2>2. got \in Seq(Byte) /\ <<>> \in Seq(Byte)
    BY <1>0, EmptySeq DEF Staged
  <2>3. <<>> \o <<>> = <<>> /\ got \o <<>> = got
    BY <2>2, ConcatEmptySeq
  <2> QED  BY <1>0, <1>2, <2>1, <2>3 DEF Delivered
<1> QED  BY <1>1, <1>2 DEF PromptExchangeWhole

\* However send() cuts the blocks up, a client that stays is sent the response with
\* nothing missing, repeated or moved, and one that leaves has seen its front.
THEOREM ResponseInOrderHolds == ExchangeSpec => []ResponseInOrder
BY ExchangeInvariance, InOrder, PTL

\* A client whose text was all there at the first recv() has it read whole and, if it
\* stays, gets the whole response: close() does not become a reset.
THEOREM PromptExchangeWholeHolds == ExchangeSpec => []PromptExchangeWhole
BY ExchangeInvariance, WholeWhenPrompt, PTL
=============================================================================
