------------------------ MODULE RequestParser_proofs ------------------------
(* For every string the receive loop may return: the parser's decisions    *)
(* stay inside it, and index.lua is written inside its block; it is parsed *)
(* to a body exactly if it is well formed; and a script is given what      *)
(* HttpRequest says such a request says.                                   *)
EXTENDS RequestParser, FiniteSetTheorems, SequenceTheorems, WellFoundedInduction, TLAPS

\* Until the parser halts the string ends with its NUL, and the parser has not
\* passed it in any state that goes on reading.
Bounded ==
  state # "halt" => /\ text \in Seq(Char) /\ text # <<>>
                    /\ text[Len(text)] = Nul
                    /\ at \in Nat \ {0}
                    /\ state # "err" => at <= Len(text)

\* No character class the parser goes on from contains the NUL.
LEMMA NulStops ==
  /\ Nul \notin Blank \cup Letter \cup PathChar \cup FieldChar \cup ValueStart \cup ValueChar
  /\ Nul \notin {CR, LF, "/", ":", "outside"}
  /\ \A i \in 1..10 : Nul \notin VersionLine[i]
<1>1. Nul \notin Blank \cup Letter \cup Digit
  BY DEF Nul, Blank, Letter, Digit
<1>2. Nul \notin PathChar \cup FieldChar \cup ValueStart \cup ValueChar
  BY <1>1 DEF Nul, PathChar, FieldChar, ValueStart, ValueChar, LF
<1>3. Nul \notin {CR, LF, "/", ":", "outside"}
  BY DEF Nul, CR, LF
<1>4. ASSUME NEW i \in 1..10 PROVE Nul \notin VersionLine[i]
  <2>1. \/ i = 1 \/ i = 2 \/ i = 3 \/ i = 4 \/ i = 5 \/ i = 6 \/ i = 7 \/ i = 8 \/ i = 9 \/ i = 10
    OBVIOUS
  <2>2. QED BY <2>1 DEF VersionLine, Nul, CR, LF
<1>5. QED BY <1>1, <1>2, <1>3, <1>4

\* What agrees with the version up to its n-th character lies inside the string.
LEMMA AgreesInside ==
  ASSUME text \in Seq(Char), text[Len(text)] = Nul, at \in 1..Len(text),
         NEW n \in 1..10, Agrees(n)
  PROVE  at + n <= Len(text)
<1>1. SUFFICES ASSUME at + n > Len(text) PROVE FALSE
  BY DEF Agrees
<1> DEFINE i == Len(text) - at + 1
<1>2. i \in 1..n /\ i \in 1..10 /\ at + i - 1 = Len(text)
  BY <1>1
<1>3. Byte(at + i - 1) = Nul
  BY <1>2 DEF Byte
<1>4. Byte(at + i - 1) \in VersionLine[i]
  BY <1>2 DEF Agrees
<1>5. QED BY <1>2, <1>3, <1>4, NulStops

\* A NUL written before the last byte leaves the string as long and ended as it was.
LEMMA CutInside ==
  ASSUME text \in Seq(Char), text[Len(text)] = Nul, at \in 1..Len(text), at + 1 <= Len(text), Cut
  PROVE  text' \in Seq(Char) /\ Len(text') = Len(text) /\ text'[Len(text')] = Nul
<1>1. Nul \in Char
  BY DEF Char
<1>2. text' = [text EXCEPT ![at] = Nul]
  BY DEF Cut
<1>3. text' \in Seq(Char) /\ Len(text') = Len(text)
  BY <1>1, <1>2
<1>4. text'[Len(text)] = text[Len(text)]
  BY <1>2
<1>5. QED BY <1>3, <1>4

LEMMA BoundedInit == Init => Bounded
<1> SUFFICES ASSUME Init PROVE Bounded
  OBVIOUS
<1>1. request \in Seq(Char)
  BY RequestAssumption DEF Init
<1>2. Nul \in Char
  BY DEF Char
<1>3. QED BY <1>1, <1>2 DEF Init, Bounded

\* A step that looked at a character other than the NUL may go on to the next.
LEMMA BoundedStep == Bounded /\ [Next]_vars => Bounded'
<1> SUFFICES ASSUME Bounded, [Next]_vars PROVE Bounded'
  OBVIOUS
<1> USE NulStops
<1>1. CASE VerbBegin
  BY <1>1 DEF VerbBegin, Bounded, Move, Here, Byte
<1>2. CASE VerbEnd
  <2>1. text \in Seq(Char) /\ text # <<>> /\ text[Len(text)] = Nul /\ at \in 1..Len(text)
    BY <1>2 DEF VerbEnd, Bounded
  <2>2. Here \in Blank \cup Letter => at + 1 <= Len(text)
    BY <2>1 DEF Here, Byte
  <2>3. CASE Cut
    BY <1>2, <2>1, <2>2, <2>3, CutInside DEF VerbEnd, Bounded, Move
  <2>4. CASE UNCHANGED text
    BY <1>2, <2>1, <2>2, <2>4 DEF VerbEnd, Bounded, Move
  <2>5. QED BY <1>2, <2>3, <2>4 DEF VerbEnd
<1>3. CASE PathBegin
  BY <1>3 DEF PathBegin, Bounded, Move, Here, Byte
<1>4. CASE PathEnd
  <2>1. text \in Seq(Char) /\ text # <<>> /\ text[Len(text)] = Nul /\ at \in 1..Len(text)
    BY <1>4 DEF PathEnd, Bounded
  <2>2. Here \in Blank \cup PathChar => at + 1 <= Len(text)
    BY <2>1 DEF Here, Byte
  <2>3. CASE Cut
    BY <1>4, <2>1, <2>2, <2>3, CutInside DEF PathEnd, Bounded, Move
  <2>4. CASE UNCHANGED text
    BY <1>4, <2>1, <2>2, <2>4 DEF PathEnd, Bounded, Move
  <2>5. QED BY <1>4, <2>3, <2>4 DEF PathEnd
<1>5. CASE ReadVersion
  <2>1. text \in Seq(Char) /\ text # <<>> /\ text[Len(text)] = Nul /\ at \in 1..Len(text)
    BY <1>5 DEF ReadVersion, Bounded
  <2>2. Agrees(10) => at + 10 <= Len(text)
    BY <2>1, AgreesInside
  <2>3. Here \in Blank => at + 1 <= Len(text)
    BY <2>1 DEF Here, Byte
  <2>4. QED BY <1>5, <2>1, <2>2, <2>3 DEF ReadVersion, Bounded, Move
<1>6. CASE FieldBegin
  BY SMTT(40), <1>6 DEF FieldBegin, Bounded, Move, Here, Byte
<1>7. CASE FieldEnd
  <2>1. text \in Seq(Char) /\ text # <<>> /\ text[Len(text)] = Nul /\ at \in 1..Len(text)
    BY <1>7 DEF FieldEnd, Bounded
  <2>2. Here \in Blank \cup FieldChar \cup {":"} => at + 1 <= Len(text)
    BY <2>1 DEF Here, Byte
  <2>3. CASE Cut
    BY <1>7, <2>1, <2>2, <2>3, CutInside DEF FieldEnd, Bounded, Move
  <2>4. CASE UNCHANGED text
    BY <1>7, <2>1, <2>2, <2>4 DEF FieldEnd, Bounded, Move
  <2>5. QED BY <1>7, <2>3, <2>4 DEF FieldEnd
<1>8. CASE ValueBegin
  BY <1>8 DEF ValueBegin, Bounded, Move, Here, Byte
<1>9. CASE ValueEnd
  <2>1. text \in Seq(Char) /\ text # <<>> /\ text[Len(text)] = Nul /\ at \in 1..Len(text)
    BY <1>9 DEF ValueEnd, Bounded
  <2>2. EndOfLine => at + 2 <= Len(text)
    BY <2>1 DEF EndOfLine, Byte
  <2>3. Here \in ValueChar => at + 1 <= Len(text)
    BY <2>1 DEF Here, Byte
  <2>4. CASE EndOfLine
    <3>1. Cut /\ at + 1 <= Len(text)
      BY <1>9, <2>1, <2>2, <2>4 DEF ValueEnd
    <3>2. QED BY <1>9, <2>1, <2>2, <2>4, <3>1, CutInside DEF ValueEnd, Bounded, Move
  <2>5. CASE ~EndOfLine
    BY <1>9, <2>1, <2>3, <2>5 DEF ValueEnd, Bounded, Move
  <2>6. QED BY <2>4, <2>5
<1>10. CASE Error
  BY <1>10 DEF Error, Bounded
<1>11. CASE Dispatch
  BY <1>11 DEF Dispatch, NoVerb, NoPath, Interpret, Bounded
<1>12. CASE UNCHANGED vars
  BY <1>12 DEF vars, reqData, lua, Bounded
<1>13. QED
  BY <1>1, <1>2, <1>3, <1>4, <1>5, <1>6, <1>7, <1>8, <1>9, <1>10, <1>11, <1>12 DEF Next, Parse

LEMMA BoundedReads == Bounded => ReadsInside
<1> SUFFICES ASSUME Bounded, state \notin {"halt", "err"} PROVE Looks \subseteq 1..Len(text)
  BY DEF ReadsInside
<1>1. text \in Seq(Char) /\ text[Len(text)] = Nul /\ at \in 1..Len(text)
  BY DEF Bounded
<1>2. Here = CR => at + 1 <= Len(text)
  BY <1>1, NulStops DEF Here, Byte
<1>3. \A n \in 1..9 : Agrees(n) => at + n <= Len(text)
  BY <1>1, AgreesInside
<1>4. QED BY <1>1, <1>2, <1>3 DEF Looks

\* Whatever the request, and wherever it breaks off, the parser decides on no
\* byte behind the string the receive loop returned (jorgeNetwork.cpp:109-303).
THEOREM ReadsInsideHolds == Spec => []ReadsInside
<1>1. Spec => []Bounded
  BY BoundedInit, BoundedStep, PTL DEF Spec
<1>2. QED BY <1>1, BoundedReads, PTL
-----------------------------------------------------------------------------
(* index.lua.                                                              *)

LEMMA MinOfNats ==
  ASSUME NEW S \in SUBSET Nat, S # {}
  PROVE  Min(S) \in S /\ \A x \in S : Min(S) <= x
<1>1. PICK m \in S : \A x \in S : m <= x
  <2> DEFINE R == {ss \in Nat \X Nat : ss[1] < ss[2]}
  <2>1. IsWellFoundedOn(R, Nat)
    BY NatLessThanWellFounded DEF OpToRel
  <2> HIDE DEF R
  <2>2. PICK m \in S : \A x \in S : ~(<<x, m>> \in R)
    BY <2>1, WFMin
  <2>3. ASSUME NEW x \in S PROVE m <= x
    <3>1. ~(x < m)
      BY <2>2 DEF R
    <3>2. QED BY <3>1
  <2>4. QED BY <2>3
<1>2. QED BY <1>1 DEF Min

\* There is a path, and it ends at the latest at place n.
Slot(n) == path \in Nat \ {0} /\ \E q \in path..n : text[q] = Nul

AfterVersion == {"field_begin", "field_end", "value_begin", "value_end"}

\* Behind the end of the path there are ten characters of version line before
\* the parser's place.
RoomInv ==
  /\ state # "halt" => body = 0 /\ phase = "parse"
  /\ state = "path_end" => path \in 1..at - 1
  /\ state = "version" => Slot(at - 1)
  /\ state \in AfterVersion => Slot(at - 11)

LEMMA SlotMoves ==
  ASSUME NEW n \in Int, NEW m \in Int, n <= m, Slot(n), UNCHANGED <<path, text>>
  PROVE  Slot(m)'
BY DEF Slot

LEMMA SlotCut ==
  ASSUME NEW n \in Int, NEW m \in Int, n <= m, Slot(n), text \in Seq(Char), at \in 1..Len(text),
         n <= Len(text), Cut, UNCHANGED path
  PROVE  Slot(m)'
<1>1. PICK q \in path..n : text[q] = Nul
  BY DEF Slot
<1>2. text'[q] = Nul
  BY <1>1 DEF Cut, Slot
<1>3. QED BY <1>1, <1>2 DEF Slot

\* The path ends at the first NUL, or with the string.
LEMMA EndOfPath ==
  ASSUME text \in Seq(Char), path \in 1..Len(text)
  PROVE  PathEndsAt \in path..Len(text) + 1
<1> DEFINE N == {i \in path..Len(text) : text[i] = Nul} \cup {Len(text) + 1}
<1>2. path \in Nat \ {0} /\ Len(text) \in Nat /\ path <= Len(text)
  OBVIOUS
<1>3. N \in SUBSET Nat /\ N # {}
  BY <1>2
<1>4. Min(N) \in N
  BY <1>3, MinOfNats
<1>5. Min(N) \in path..Len(text) + 1
  BY <1>2, <1>4
<1> HIDE DEF N
<1>6. Str(text, path) = SubSeq(text, path, Min(N) - 1)
  BY <1>2 DEF Str, N
<1>7. Len(SubSeq(text, path, Min(N) - 1)) = Min(N) - path
  BY <1>2, <1>5
<1>8. QED BY <1>2, <1>5, <1>6, <1>7 DEF PathEndsAt

LEMMA RoomInit == Init => RoomInv
BY DEF Init, RoomInv, Parsed, AfterVersion

LEMMA RoomStep == Bounded /\ RoomInv /\ [Next]_vars => RoomInv'
<1> SUFFICES ASSUME Bounded, RoomInv, [Next]_vars PROVE RoomInv'
  OBVIOUS
<1>0. state # "halt" =>
        /\ body = 0 /\ phase = "parse" /\ text \in Seq(Char) /\ at \in Nat \ {0}
        /\ Len(text) \in Nat
        /\ state # "err" => at \in 1..Len(text)
  BY DEF Bounded, RoomInv
<1>1. CASE VerbBegin
  BY <1>0, <1>1 DEF VerbBegin, RoomInv, Move, Parsed, AfterVersion
<1>2. CASE VerbEnd
  BY <1>0, <1>2 DEF VerbEnd, RoomInv, Move, Parsed, AfterVersion, reqData
<1>3. CASE PathBegin
  BY <1>0, <1>3 DEF PathBegin, RoomInv, Move, Parsed, AfterVersion
<1>4. CASE PathEnd
  <2>1. path \in 1..at - 1 /\ at \in 1..Len(text) /\ UNCHANGED <<path, body>>
    BY <1>0, <1>4 DEF PathEnd, RoomInv, reqData
  <2>2. CASE Here \in Blank
    <3>1. text' = [text EXCEPT ![at] = Nul] /\ state' = "version" /\ at' = at + 1
      BY <1>4, <2>2 DEF PathEnd, Move, Cut
    <3>2. text'[at] = Nul
      BY <1>0, <1>4, <2>1, <3>1 DEF PathEnd
    <3>3. Slot(at - 1)'
      BY <2>1, <3>1, <3>2 DEF Slot
    <3>4. QED BY <1>0, <1>4, <2>1, <3>1, <3>3 DEF PathEnd, RoomInv, Parsed, AfterVersion
  <2>3. CASE Here \notin Blank
    BY <1>0, <1>4, <2>1, <2>3 DEF PathEnd, RoomInv, Move, Parsed, AfterVersion
  <2>4. QED BY <2>2, <2>3
<1>5. CASE ReadVersion
  <2>0. PICK n \in Int : n = at
    BY <1>0, <1>5 DEF ReadVersion
  <2>1. Slot(at - 1) /\ at \in 1..Len(text) /\ UNCHANGED <<path, text, body>>
    BY <1>0, <1>5 DEF ReadVersion, RoomInv
  <2>2. /\ state' \in {"version", "field_begin", "err"}
        /\ state' = "version" => at' = at + 1
        /\ state' = "field_begin" => at' = at + 10
    BY <1>5 DEF ReadVersion, Move
  <2>3. Slot(n - 1)'
    BY <2>0, <2>1, SlotMoves
  <2>4. (state' = "version" => Slot(at - 1)') /\ (state' = "field_begin" => Slot(at - 11)')
    BY <2>0, <2>2, <2>3 DEF Slot
  <2>5. QED BY <1>0, <1>5, <2>1, <2>2, <2>4 DEF ReadVersion, RoomInv, Parsed, AfterVersion
<1>6. CASE FieldBegin
  <2>0. PICK n \in Int : n = at
    BY <1>0, <1>6 DEF FieldBegin
  <2>1. Slot(at - 11) /\ at \in 1..Len(text) /\ UNCHANGED <<path, text, phase>>
    BY <1>0, <1>6 DEF FieldBegin, RoomInv, AfterVersion
  <2>2. CASE EndOfLine
    <3>1. state' = "halt"
      BY <1>6, <2>2 DEF FieldBegin, Move
    <3>2. QED
      BY <3>1 DEF RoomInv, AfterVersion
  <2>3. CASE ~EndOfLine
    <3>1. state' \in {"field_begin", "field_end", "err"} /\ at' = at + 1 /\ body' = 0
      BY <1>0, <1>6, <2>3 DEF FieldBegin, Move
    <3>2. Slot(n - 11)'
      BY <2>0, <2>1, SlotMoves
    <3>3. Slot(at - 11)'
      BY <2>0, <3>1, <3>2 DEF Slot
    <3>4. state # "halt"
      BY <1>6 DEF FieldBegin
    <3>5. QED BY <1>0, <2>1, <3>1, <3>3, <3>4 DEF RoomInv, Parsed, AfterVersion
  <2>4. QED BY <2>2, <2>3
<1>7. CASE FieldEnd
  <2>0. PICK n \in Int : n = at
    BY <1>0, <1>7 DEF FieldEnd
  <2>1. Slot(at - 11) /\ at \in 1..Len(text) /\ UNCHANGED <<path, body>>
    BY <1>0, <1>7 DEF FieldEnd, RoomInv, AfterVersion, reqData
  <2>2. state' \in {"value_begin", "field_end", "err"} /\ at' = at + 1
    BY <1>7 DEF FieldEnd, Move
  <2>3. Slot(n - 11)'
    BY <1>0, <1>7, <2>0, <2>1, SlotMoves, SlotCut DEF FieldEnd
  <2>4. Slot(at - 11)'
    BY <2>0, <2>2, <2>3 DEF Slot
  <2>5. QED BY <1>0, <1>7, <2>1, <2>2, <2>4 DEF FieldEnd, RoomInv, Parsed, AfterVersion
<1>8. CASE ValueBegin
  <2>0. PICK n \in Int : n = at
    BY <1>0, <1>8 DEF ValueBegin
  <2>1. Slot(at - 11) /\ at \in 1..Len(text) /\ UNCHANGED <<path, text, body>>
    BY <1>0, <1>8 DEF ValueBegin, RoomInv, AfterVersion
  <2>2. state' \in {"value_begin", "value_end", "err"} /\ at' = at + 1
    BY <1>8 DEF ValueBegin, Move
  <2>3. Slot(n - 11)'
    BY <1>0, <1>8, <2>0, <2>1, SlotMoves
  <2>4. Slot(at - 11)'
    BY <2>0, <2>2, <2>3 DEF Slot
  <2>5. QED BY <1>0, <1>8, <2>1, <2>2, <2>4 DEF ValueBegin, RoomInv, Parsed, AfterVersion
<1>9. CASE ValueEnd
  <2>0. PICK n \in Int : n = at
    BY <1>0, <1>9 DEF ValueEnd
  <2>1. Slot(at - 11) /\ at \in 1..Len(text) /\ UNCHANGED <<path, body>>
    BY <1>0, <1>9 DEF ValueEnd, RoomInv, AfterVersion, reqData
  <2>2. state' \in {"field_begin", "value_end", "err"} /\ at' \in {at + 1, at + 2}
    BY <1>9 DEF ValueEnd, Move
  <2>3. PICK m \in Int : m = at' /\ n <= m
    BY <2>0, <2>2
  <2>4. Slot(m - 11)'
    <3>1. text \in Seq(Char)
      BY <1>0, <1>9 DEF ValueEnd
    <3>2. CASE Cut
      BY <2>0, <2>1, <2>3, <3>1, <3>2, SlotCut
    <3>3. CASE UNCHANGED text
      BY <2>0, <2>1, <2>3, <3>3, SlotMoves
    <3>4. QED BY <1>9, <3>2, <3>3 DEF ValueEnd
  <2>5. Slot(at - 11)'
    BY <2>3, <2>4 DEF Slot
  <2>6. QED BY <1>0, <1>9, <2>1, <2>2, <2>5 DEF ValueEnd, RoomInv, Parsed, AfterVersion
<1>10. CASE Error
  BY <1>0, <1>10 DEF Error, RoomInv, Parsed, AfterVersion, reqData
<1>11. CASE NoVerb \/ NoPath
  BY <1>11 DEF NoVerb, NoPath, RoomInv, Parsed, AfterVersion, reqData, Slot
<1>12. CASE Interpret
  <2>1. phase' # "parse"
    BY <1>12 DEF Interpret, Complete
  <2>2. state = "halt" /\ state' = "halt"
    BY <1>12 DEF Interpret
  <2>3. QED BY <2>1, <2>2 DEF RoomInv, AfterVersion
<1>13. CASE UNCHANGED vars
  BY <1>13 DEF vars, reqData, lua, RoomInv, Parsed, AfterVersion, Slot
<1>14. QED
  BY <1>1, <1>2, <1>3, <1>4, <1>5, <1>6, <1>7, <1>8, <1>9, <1>10, <1>11, <1>12, <1>13
  DEF Next, Parse, Dispatch

-----------------------------------------------------------------------------
(* Types.                                                                  *)

\* A value is read for a header that has been allocated.
Allocated == state \in {"field_end", "value_begin"} => header # <<>>

TypeInv == TypeOK /\ Allocated

LEMMA StrType ==
  ASSUME NEW s \in Seq(Char), NEW p \in 0..Len(s)
  PROVE  Str(s, p) \in Seq(Char)
<1> DEFINE N == {i \in p..Len(s) : s[i] = Nul} \cup {Len(s) + 1}
<1>1. N \in SUBSET Nat /\ N # {}
  OBVIOUS
<1>2. Min(N) \in N
  BY <1>1, MinOfNats
<1>3. Min(N) - 1 \in Int /\ Min(N) - 1 <= Len(s)
  BY <1>2
<1> HIDE DEF N
<1>4. CASE p = 0
  BY <1>4 DEF Str, None, Char
<1>5. CASE p # 0
  <2>1. Str(s, p) = SubSeq(s, p, Min(N) - 1)
    BY <1>5 DEF Str, N
  <2>2. SubSeq(s, p, Min(N) - 1) \in Seq(Char)
    BY <1>3, <1>5
  <2>3. QED BY <2>1, <2>2
<1>6. QED BY <1>4, <1>5

\* What a step of the parser leaves of the string's type.
LEMMA CutType ==
  ASSUME text \in Seq(Char), at \in 1..Len(text), Cut
  PROVE  text' \in Seq(Char) /\ Len(text') = Len(text)
<1>1. Nul \in Char
  BY DEF Char
<1>2. text' = [text EXCEPT ![at] = Nul]
  BY DEF Cut
<1>3. text' \in [1..Len(text) -> Char] /\ Len(text) \in Nat
  BY <1>1, <1>2
<1>4. QED BY <1>3

LEMMA MaxOfTwo ==
  ASSUME NEW m \in Nat, NEW n \in Nat
  PROVE  Max({m, n}) = IF m < n THEN n ELSE m
<1>1. \E x \in {m, n} : \A y \in {m, n} : x >= y
  OBVIOUS
<1>2. Max({m, n}) \in {m, n} /\ \A y \in {m, n} : Max({m, n}) >= y
  BY <1>1 DEF Max
<1>3. Max({m, n}) >= m /\ Max({m, n}) >= n /\ (Max({m, n}) = m \/ Max({m, n}) = n)
  BY <1>2
<1>4. QED BY <1>3

\* Completing the path writes characters, and none outside the block.
LEMMA CompleteType ==
  ASSUME text \in Seq(Char), Block \in Nat, NEW end \in 1..Len(text) + 1, Complete(end)
  PROVE  /\ text' \in Seq(Char) /\ phase' \in {"closed", "fault"}
         /\ Len(text) <= Len(text') /\ (Len(text') = Len(text) \/ Len(text') <= Block)
<1>1. Index \in Seq(Char) /\ Len(Index) = 10
  <2>1. \A c \in Letter \cup {".", Nul} : c \in Char
    BY DEF Char, PathChar
  <2>2. IndexName \in Seq(Letter \cup {"."}) /\ Len(IndexName) = 9
    BY DEF IndexName, Letter
  <2>3. IndexName \in Seq(Char) /\ <<Nul>> \in Seq(Char) /\ Len(<<Nul>>) = 1
    BY <2>1, <2>2
  <2>4. Index \in Seq(Char) /\ Len(Index) = 10
    <3> DEFINE one == <<Nul>>
    <3>1. one \in Seq(Char) /\ Len(one) = 1 /\ IndexName \in Seq(Char) /\ Index = IndexName \o one
      BY <2>3 DEF Index
    <3> HIDE DEF one
    <3>2. IndexName \o one \in Seq(Char) /\ Len(IndexName \o one) = Len(IndexName) + Len(one)
      BY <3>1, ConcatProperties, Zenon
    <3>3. QED BY <3>1, <3>2, <2>2
  <2>5. QED BY <2>4
<1> DEFINE last == end + Len(Index) - 1
<1>2. last = end + 9 /\ end \in Nat /\ last \in Nat /\ Len(text) \in Nat
  BY <1>1
<1>3. CASE last > Block
  BY <1>2, <1>3 DEF Complete
<1>4. CASE ~(last > Block)
  <2>0. PICK m \in Nat : m = Max({Len(text), last}) /\ m = IF Len(text) < last THEN last ELSE Len(text)
    BY <1>2, MaxOfTwo
  <2>1. text' = [i \in 1..m |-> IF i \in end..end + 9 THEN Index[i - end + 1] ELSE text[i]]
        /\ phase' = "closed"
    BY <1>2, <1>4, <2>0 DEF Complete
  <2>2. \A i \in end..end + 9 : i - end + 1 \in 1..10
    OBVIOUS
  <2>3. \A i \in end..end + 9 : Index[i - end + 1] \in Char
    BY <1>1, <2>2, ElementOfSeq
  <2>4. \A i \in 1..m : i \notin end..end + 9 => i \in 1..Len(text)
    BY <1>2, <2>0
  <2>5. \A i \in 1..Len(text) : text[i] \in Char
    OBVIOUS
  <2>6. \A i \in 1..m : (IF i \in end..end + 9 THEN Index[i - end + 1] ELSE text[i]) \in Char
    BY <2>3, <2>4, <2>5
  <2>7. text' \in [1..m -> Char]
    BY <2>1, <2>6
  <2>8. text' \in Seq(Char) /\ Len(text') = m
    BY <2>7
  <2>9. m = Len(text) \/ m <= Block
    BY <1>2, <1>4, <2>0
  <2>10. QED BY <1>2, <1>4, <2>0, <2>1, <2>8, <2>9
<1>5. QED BY <1>3, <1>4

LEMMA TypeInit == Init => TypeInv
<1> SUFFICES ASSUME Init PROVE TypeInv
  OBVIOUS
<1>1. request \in Seq(Char \ {Nul}) /\ request \in Seq(Char)
  BY RequestAssumption DEF Init
<1>2. Nul \in Char
  BY DEF Char
<1>3. text \in Seq(Char) /\ Len(text) = Len(request) + 1 /\ Len(request) \in Nat
  BY <1>1, <1>2 DEF Init
<1>4. None \in Seq(Char)
  BY <1>2 DEF None
<1>5. Len(text) \in Len(request) + 1 .. Block
  BY <1>3 DEF Block
<1>6. QED BY <1>1, <1>3, <1>4, <1>5 DEF Init, TypeInv, TypeOK, Allocated

\* A step of the parser writes a NUL, a place, a header or the version.
LEMMA TypeParse ==
  ASSUME TypeInv, Bounded, RoomInv, Parse
  PROVE  TypeInv'
<1>0. /\ TypeOK /\ Len(text) \in Nat /\ state # "halt" /\ phase = "parse"
      /\ state # "err" => at \in 1..Len(text) /\ text[Len(text)] = Nul
  <2>1. state # "halt"
    BY DEF Parse, VerbBegin, VerbEnd, PathBegin, PathEnd,
           ReadVersion, FieldBegin, FieldEnd, ValueBegin, ValueEnd, Error
  <2>2. TypeOK /\ text \in Seq(Char)
    BY DEF TypeInv, TypeOK
  <2>3. Len(text) \in Nat
    BY <2>2
  <2>4. phase = "parse"
    BY <2>1 DEF RoomInv
  <2>5. state # "err" => at \in 1..Len(text) /\ text[Len(text)] = Nul
    BY <2>1, <2>3 DEF Bounded
  <2> QED  BY <2>1, <2>2, <2>3, <2>4, <2>5
<1>a. request' = request => Block' = Block
  BY DEF Block
<1> USE NulStops, <1>a
<1>1. CASE VerbBegin
  <2>1. at \in 1..Len(text)
    BY <1>0, <1>1 DEF VerbBegin
  <2>2. at' = at + 1 /\ state' \in {"verb_begin", "verb_end", "err"} /\ verb' \in {verb, at}
    BY <1>1 DEF VerbBegin, Move
  <2>3. at' \in 1..Len(text') + 2 /\ verb' \in 0..Len(text') /\ Allocated'
    BY <1>0, <1>1, <2>1, <2>2 DEF VerbBegin, TypeOK, Allocated
  <2>4. QED BY <1>0, <1>1, <2>2, <2>3 DEF VerbBegin, TypeInv, TypeOK, lua
<1>2. CASE VerbEnd
  <2>1. text' \in Seq(Char) /\ Len(text') = Len(text)
    BY <1>0, <1>2, CutType DEF VerbEnd, TypeOK
  <2>2. QED BY <1>0, <1>2, <2>1 DEF VerbEnd, Move, TypeInv, TypeOK, Allocated, lua, reqData
<1>3. CASE PathBegin
  <2>1. at \in 1..Len(text)
    BY <1>0, <1>3 DEF PathBegin
  <2>2. at' = at + 1 /\ state' \in {"path_begin", "path_end", "err"} /\ path' \in {path, at}
    BY <1>3 DEF PathBegin, Move
  <2>3. at' \in 1..Len(text') + 2 /\ path' \in 0..Len(text') /\ Allocated'
    BY <1>0, <1>3, <2>1, <2>2 DEF PathBegin, TypeOK, Allocated
  <2>4. QED BY <1>0, <1>3, <2>2, <2>3 DEF PathBegin, TypeInv, TypeOK, lua
<1>4. CASE PathEnd
  <2>1. text' \in Seq(Char) /\ Len(text') = Len(text)
    BY <1>0, <1>4, CutType DEF PathEnd, TypeOK
  <2>2. QED BY <1>0, <1>4, <2>1 DEF PathEnd, Move, TypeInv, TypeOK, Allocated, lua, reqData
<1>5. CASE ReadVersion
  <2>1. at' \in 1..Len(text) + 2 /\ version' \in Digit \cup {Nul}
    <3>1. at \in 1..Len(text) /\ text \in Seq(Char)
      BY <1>0, <1>5 DEF ReadVersion, TypeOK
    <3>2. CASE Agrees(10)
      <4>1. at + 10 <= Len(text)
        BY <1>0, <1>5, <3>1, <3>2, AgreesInside DEF ReadVersion
      <4>2. Byte(at + 7) \in VersionLine[8]
        BY <3>2, <3>1 DEF Agrees
      <4>3. Byte(at + 7) \in Digit
        BY <4>2 DEF VersionLine, Digit
      <4>4. at' \in {at + 1, at + 10} /\ version' \in {version, Byte(at + 7)}
        BY <1>5 DEF ReadVersion, Move
      <4>5. at' \in 1..Len(text) + 2
        BY <1>0, <3>1, <4>1, <4>4
      <4>6. QED BY <1>0, <4>3, <4>4, <4>5 DEF TypeOK
    <3>3. CASE ~Agrees(10)
      <4>1. at' = at + 1 /\ version' = version
        BY <1>5, <3>3 DEF ReadVersion, Move
      <4>2. QED BY <1>0, <3>1, <4>1 DEF TypeOK
    <3>4. QED BY <3>2, <3>3
  <2>2. state' \in {"version", "field_begin", "err"}
    BY <1>5 DEF ReadVersion, Move
  <2>3. QED BY <1>0, <1>5, <2>1, <2>2 DEF ReadVersion, TypeInv, TypeOK, Allocated, lua
<1>6. CASE FieldBegin
  <2>1. at \in 1..Len(text) /\ text \in Seq(Char) /\ UNCHANGED text
    BY <1>0, <1>6 DEF FieldBegin, TypeOK
  <2>2. EndOfLine => at + 2 <= Len(text)
    BY <1>0, <1>6, <2>1 DEF FieldBegin, EndOfLine, Byte
  <2>3. /\ at' \in 1..Len(text) + 2 /\ body' \in 0..Len(text)
        /\ state' \in {"halt", "field_begin", "field_end", "err"}
    <3>1. CASE EndOfLine
      BY <1>6, <2>1, <2>2, <3>1 DEF FieldBegin, Move
    <3>2. CASE ~EndOfLine
      <4>1. at' = at + 1 /\ body' = body /\ state' \in {"field_begin", "field_end", "err"}
        BY <1>6, <3>2 DEF FieldBegin, Move
      <4>2. body \in 0..Len(text)
        BY <1>0 DEF TypeOK
      <4>3. QED BY <1>0, <2>1, <4>1, <4>2
    <3>3. QED BY <3>1, <3>2
  <2> DEFINE H == [field : 1..Len(text), value : 0..Len(text)]
             h == [field |-> at, value |-> 0]
  <2>a. h \in H
    BY <2>1
  <2>b. header \in Seq(H)
    BY <1>0 DEF TypeOK
  <2>c. IF Here \in FieldChar THEN header' = Append(header, h) ELSE header' = header
    BY <1>6 DEF FieldBegin
  <2>d. state' = "field_end" => Here \in FieldChar
    BY <1>6 DEF FieldBegin, Move
  <2> HIDE DEF h, H
  <2>e. Append(header, h) \in Seq(H) /\ Append(header, h) # <<>>
    BY <2>a, <2>b, AppendProperties
  <2>4. header' \in Seq(H)
    BY <2>b, <2>c, <2>e
  <2>5. state' = "field_end" => header' # <<>>
    BY <2>c, <2>d, <2>e
  <2>6. header' \in Seq([field : 1..Len(text'), value : 0..Len(text')])
    BY <2>1, <2>4 DEF H
  <2>7. QED BY <1>0, <1>6, <2>1, <2>3, <2>5, <2>6 DEF FieldBegin, TypeInv, TypeOK, Allocated, lua
<1>7. CASE FieldEnd
  <2>1. text' \in Seq(Char) /\ Len(text') = Len(text)
    BY <1>0, <1>7, CutType DEF FieldEnd, TypeOK
  <2>2. QED BY <1>0, <1>7, <2>1 DEF FieldEnd, Move, TypeInv, TypeOK, Allocated, lua, reqData
<1>8. CASE ValueBegin
  <2> DEFINE H == [field : 1..Len(text), value : 0..Len(text)]
  <2>1. /\ header \in Seq(H) /\ header # <<>>
        /\ at \in 1..Len(text) /\ Len(text) \in Nat /\ UNCHANGED text
    BY <1>0, <1>8 DEF ValueBegin, TypeOK, TypeInv, Allocated
  <2>2. ASSUME NEW h \in H PROVE [h EXCEPT !.value = at] \in H
    <3>1. h.field \in 1..Len(text) /\ h = [field |-> h.field, value |-> h.value]
      OBVIOUS
    <3>2. at \in 0..Len(text)
      BY <2>1
    <3>3. [h EXCEPT !.value = at] = [field |-> h.field, value |-> at]
      BY <3>1
    <3>4. QED BY <3>1, <3>2, <3>3
  <2>3. header' \in Seq(H) /\ header' # <<>>
    <3> HIDE DEF H
    <3>1. CASE Here \in ValueStart
      <4>1. header' = [header EXCEPT ![Len(header)] = [header[Len(header)] EXCEPT !.value = at]]
        BY <1>8, <3>1 DEF ValueBegin
      <4>2. header[Len(header)] \in H
        BY <2>1
      <4>3. QED BY <2>1, <2>2, <4>1, <4>2
    <3>2. CASE Here \notin ValueStart
      BY <1>8, <2>1, <3>2 DEF ValueBegin
    <3>3. QED BY <3>1, <3>2
  <2>4. at' = at + 1 /\ state' \in {"value_begin", "value_end", "err"}
    BY <1>8 DEF ValueBegin, Move
  <2>5. at' \in 1..Len(text') + 2 /\ Allocated'
    BY <2>1, <2>3, <2>4 DEF Allocated
  <2>6. QED BY <1>0, <1>8, <2>1, <2>3, <2>4, <2>5 DEF ValueBegin, TypeInv, TypeOK, Allocated, lua
<1>9. CASE ValueEnd
  <2>1. text' \in Seq(Char) /\ Len(text') = Len(text)
    BY <1>0, <1>9, CutType DEF ValueEnd, TypeOK
  <2>2. at \in 1..Len(text)
    BY <1>0, <1>9 DEF ValueEnd
  <2>3. at' \in {at + 1, at + 2} /\ state' \in {"field_begin", "value_end", "err"}
    BY <1>9 DEF ValueEnd, Move
  <2>4. at' \in 1..Len(text') + 2 /\ Allocated'
    BY <1>0, <2>1, <2>2, <2>3 DEF Allocated
  <2>5. QED BY <1>0, <1>9, <2>1, <2>3, <2>4 DEF ValueEnd, TypeInv, TypeOK, lua, reqData
<1>10. CASE Error
  BY <1>0, <1>10 DEF Error, TypeInv, TypeOK, Allocated, lua, reqData
<1>11. QED
  BY <1>1, <1>2, <1>3, <1>4, <1>5, <1>6, <1>7, <1>8, <1>9, <1>10 DEF Parse

LEMMA TypeDispatch == ASSUME TypeInv, Dispatch PROVE TypeInv'
<1>0. /\ TypeOK /\ text \in Seq(Char) /\ Len(text) \in Nat /\ Block \in Nat /\ Block' = Block
      /\ verb \in 0..Len(text) /\ path \in 0..Len(text) /\ body \in 0..Len(text)
  <2>1. request' = request /\ request \in Seq(Char \ {Nul})
    BY DEF Dispatch, NoVerb, NoPath, Interpret, TypeInv, TypeOK
  <2>2. Len(request) \in Nat
    BY <2>1
  <2> QED  BY <2>1, <2>2 DEF TypeInv, TypeOK, Block
<1>1. PushGlobals => globals' \in [{"VERB", "PATH", "BODY"} -> Seq(Char)]
  <2>1. Str(text, verb) \in Seq(Char) /\ Str(text, path) \in Seq(Char) /\ Str(text, body) \in Seq(Char)
    BY <1>0, StrType
  <2>2. QED BY <2>1 DEF PushGlobals
<1>2. CASE NoVerb
  BY <1>0, <1>2 DEF NoVerb, TypeInv, TypeOK, Allocated, lua, reqData
<1>3. CASE NoPath
  BY <1>0, <1>1, <1>3 DEF NoPath, TypeInv, TypeOK, Allocated, lua, reqData
<1>4. CASE Interpret
  <2>1. PathEndsAt \in 1..Len(text) + 1
    <3>1. path \in 1..Len(text)
      BY <1>0, <1>4 DEF Interpret
    <3>2. PathEndsAt \in path..Len(text) + 1
      BY <1>0, <3>1, EndOfPath
    <3>3. QED BY <1>0, <3>1, <3>2
  <2>2. /\ text' \in Seq(Char) /\ phase' \in {"closed", "fault"}
        /\ Len(text) <= Len(text') /\ (Len(text') = Len(text) \/ Len(text') <= Block)
    <3>1. CASE Byte(PathEndsAt - 1) = "/"
      <4>1. Complete(PathEndsAt)
        BY <1>4, <3>1 DEF Interpret
      <4>2. QED BY <1>0, <2>1, <4>1, CompleteType
    <3>2. CASE Byte(PathEndsAt - 1) # "/"
      BY <1>0, <1>4, <3>2 DEF Interpret
    <3>3. QED BY <3>1, <3>2
  <2>3. Len(text') \in Nat /\ Len(text') \in Len(request) + 1 .. Block
    <3>1. Len(request) \in Nat /\ Len(text) \in Len(request) + 1 .. Block
      BY <1>0 DEF TypeOK
    <3>2. QED BY <1>0, <2>2, <3>1
  <2>4. Str(text', path) \in Seq(Char)
    BY <1>0, <2>2, <2>3, StrType
  <2>5. /\ at \in 1..Len(text') + 2
        /\ verb \in 0..Len(text') /\ path \in 0..Len(text') /\ body \in 0..Len(text')
    BY SMTT(40), <1>0, <2>2, <2>3 DEF TypeOK
  <2>6. header \in Seq([field : 1..Len(text'), value : 0..Len(text')])
    <3> DEFINE H(n) == [field : 1..n, value : 0..n]
    <3>1. H(Len(text)) \subseteq H(Len(text'))
      BY <1>0, <2>2, <2>3
    <3>2. header \in Seq(H(Len(text)))
      BY <1>0 DEF TypeOK
    <3> HIDE DEF H
    <3>3. header \in Seq(H(Len(text')))
      BY <3>1, <3>2
    <3>4. QED BY <3>3 DEF H
  <2>7. /\ UNCHANGED <<request, at, state, verb, path, version, header, body>>
        /\ script' = Str(text', path)
        /\ globals' \in [{"VERB", "PATH", "BODY"} -> Seq(Char)]
    BY <1>1, <1>4 DEF Interpret, reqData
  <2>8. QED BY <1>0, <2>2, <2>3, <2>4, <2>5, <2>6, <2>7 DEF TypeInv, TypeOK, Allocated
<1>5. QED BY <1>2, <1>3, <1>4 DEF Dispatch

\* Every place the parser keeps lies inside the string, which stays as long as
\* it was received until index.lua is written, and then inside its block; what
\* scripts see are strings of its characters.
THEOREM TypeCorrect == Spec => []TypeOK
<1>1. Bounded /\ RoomInv /\ TypeInv /\ [Next]_vars => TypeInv'
  <2>1. TypeInv /\ UNCHANGED vars => TypeInv'
    BY DEF TypeInv, TypeOK, Block, Allocated, vars, reqData, lua
  <2>2. QED BY <2>1, TypeParse, TypeDispatch DEF Next
<1>2. Spec => []Bounded
  BY BoundedInit, BoundedStep, PTL DEF Spec
<1>3. Spec => []RoomInv
  BY <1>2, RoomInit, RoomStep, PTL DEF Spec
<1>4. TypeInv => TypeOK
  BY DEF TypeInv
<1>5. QED BY <1>1, <1>2, <1>3, <1>4, TypeInit, PTL DEF Spec

\* A path begins behind the verb, so that there is one only in a request of two
\* characters or more: the name that is written behind it has room.
PathBehind ==
  /\ state \notin {"verb_begin", "err", "halt"} => at >= 2
  /\ path # 0 => path >= 2 /\ phase # "fault"

LEMMA PathBehindStep ==
  ASSUME TypeOK, RoomInv, PathBehind, [Next]_vars
  PROVE  PathBehind'
<1>0. at \in Nat /\ at >= 1 /\ path \in Nat
  BY DEF TypeOK
<1>1. CASE Parse
  <2>1. /\ state # "halt" /\ phase' = phase
        /\ path' = path \/ (path' = at /\ state = "path_begin")
        /\ state \notin {"err", "halt"} => at' = at \/ at' = at + 1 \/ at' = at + 2 \/ at' = at + 3 \/ at' = at + 10
        /\ state = "verb_begin" => at' = at + 1
        /\ state = "err" => state' = "halt"
    BY <1>1 DEF Parse, VerbBegin, VerbEnd, PathBegin, PathEnd, ReadVersion, FieldBegin, FieldEnd,
       ValueBegin, ValueEnd, Error, Move, reqData, lua
  <2>2. phase = "parse"
    BY <2>1 DEF RoomInv
  <2>3. QED BY <1>0, <2>1, <2>2 DEF PathBehind
<1>2. CASE NoVerb \/ NoPath
  BY <1>2 DEF NoVerb, NoPath, PathBehind, reqData
<1>3. CASE Interpret
  <2>1. /\ text \in Seq(Char) /\ Len(request) \in Nat /\ Len(text) = Len(request) + 1
        /\ path \in 1..Len(text) /\ path >= 2
    BY <1>3 DEF Interpret, TypeOK, PathBehind
  <2>2. PathEndsAt \in path..Len(text) + 1
    BY <2>1, EndOfPath
  <2>3. Len(Index) = 10
    BY DEF Index, IndexName
  <2>4. ~(PathEndsAt + Len(Index) - 1 > Block)
    BY <2>1, <2>2, <2>3 DEF Block
  <2>5. phase' = "closed" /\ path' = path /\ state' = "halt"
    BY <1>3, <2>4 DEF Interpret, Complete, reqData
  <2>6. QED BY <2>1, <2>5 DEF PathBehind
<1>4. CASE UNCHANGED vars
  BY <1>4 DEF vars, reqData, lua, PathBehind
<1>5. QED BY <1>1, <1>2, <1>3, <1>4 DEF Next, Dispatch

\* Wherever a request breaks off behind the '/' of its path, index.lua is written
\* inside the block of the string (jorgeNetwork.cpp:70, jorgeLua.cpp:129-140).
THEOREM IndexInBlockHolds == Spec => []IndexInBlock
<1>1. Init => PathBehind
  BY DEF Init, PathBehind
<1>2. Spec => []Bounded
  BY BoundedInit, BoundedStep, PTL DEF Spec
<1>3. Spec => []RoomInv
  BY <1>2, RoomInit, RoomStep, PTL DEF Spec
<1>4. Spec => []PathBehind
  BY <1>1, <1>3, TypeCorrect, PathBehindStep, PTL DEF Spec
<1>5. PathBehind => IndexInBlock
  BY DEF PathBehind, IndexInBlock
<1>6. QED BY <1>4, <1>5, PTL
-----------------------------------------------------------------------------
(* A request and its parts: what the definitions of HttpRequest say of a   *)
(* line, a word and a header, by the places of their characters.           *)
\* From place i to before place j every character is in C.
Span(s, i, j, C) == \A k \in i..j - 1 : s[k] \in C

\* What a part of a string is.
LEMMA PartIs ==
  ASSUME NEW S, NEW s \in Seq(S), NEW i \in 1..Len(s) + 1, NEW j \in i..Len(s) + 1
  PROVE  /\ SubSeq(s, i, j - 1) \in Seq(S) /\ Len(SubSeq(s, i, j - 1)) = j - i
         /\ DOMAIN SubSeq(s, i, j - 1) = 1..j - i
         /\ \A k \in 1..j - i : SubSeq(s, i, j - 1)[k] = s[i + k - 1]
<1>1. Len(s) \in Nat /\ i \in Int /\ j - 1 \in Int
  OBVIOUS
<1>2. \A k \in i..j - 1 : s[k] \in S
  <2> SUFFICES ASSUME NEW k \in i..j - 1 PROVE s[k] \in S
    OBVIOUS
  <2>1. k \in 1..Len(s)
    BY <1>1
  <2> QED  BY <2>1, ElementOfSeq
<1> DEFINE u == SubSeq(s, i, j - 1)
<1>3. u \in Seq(S) /\ Len(u) = (IF i <= j - 1 THEN j - 1 - i + 1 ELSE 0)
      /\ \A k \in 1..j - 1 - i + 1 : u[k] = s[i + k - 1]
  <2>1. PICK n \in Int : n = j - 1
    BY <1>1
  <2>2. \A k \in i..n : s[k] \in S
    BY <1>2, <2>1
  <2>3. /\ SubSeq(s, i, n) \in Seq(S) /\ Len(SubSeq(s, i, n)) = (IF i <= n THEN n - i + 1 ELSE 0)
        /\ \A k \in 1..n - i + 1 : SubSeq(s, i, n)[k] = s[i + k - 1]
    BY <1>1, <2>2, SubSeqProperties, SMTT(40)
  <2> QED  BY <2>1, <2>3
<1>4. DOMAIN u = 1..Len(u)
  <2> HIDE DEF u
  <2> QED  BY <1>3, LenProperties
<1> HIDE DEF u
<1>5. Len(u) = j - i /\ j - 1 - i + 1 = j - i
  BY <1>1, <1>3
<1>6. QED  BY <1>3, <1>4, <1>5 DEF u

\* Whether a part of a string has only characters of C.
LEMMA OverPart ==
  ASSUME NEW S, NEW s \in Seq(S), NEW i \in 1..Len(s) + 1, NEW j \in i..Len(s) + 1, NEW C
  PROVE  Over(SubSeq(s, i, j - 1), C) <=> Span(s, i, j, C)
<1>1. /\ DOMAIN SubSeq(s, i, j - 1) = 1..j - i
      /\ \A k \in 1..j - i : SubSeq(s, i, j - 1)[k] = s[i + k - 1]
  BY PartIs
<1>2. Over(SubSeq(s, i, j - 1), C) <=> \A k \in 1..j - i : s[i + k - 1] \in C
  BY <1>1 DEF Over
<1>3. (\A k \in 1..j - i : s[i + k - 1] \in C) => Span(s, i, j, C)
  <2> SUFFICES ASSUME \A k \in 1..j - i : s[i + k - 1] \in C, NEW k \in i..j - 1 PROVE s[k] \in C
    BY DEF Span
  <2>1. k - i + 1 \in 1..j - i /\ i + (k - i + 1) - 1 = k
    OBVIOUS
  <2> QED  BY <2>1
<1>4. Span(s, i, j, C) => \A k \in 1..j - i : s[i + k - 1] \in C
  <2> SUFFICES ASSUME Span(s, i, j, C), NEW k \in 1..j - i PROVE s[i + k - 1] \in C
    OBVIOUS
  <2>1. i + k - 1 \in i..j - 1
    OBVIOUS
  <2> QED  BY <2>1 DEF Span
<1> QED  BY <1>2, <1>3, <1>4

\* A span of a part is a span of the whole.
LEMMA SpanPart ==
  ASSUME NEW S, NEW s \in Seq(S), NEW a \in 1..Len(s) + 1, NEW b \in a..Len(s) + 1, NEW C,
         NEW i \in 1..b - a + 1, NEW j \in 1..b - a + 1
  PROVE  Span(SubSeq(s, a, b - 1), i, j, C) <=> Span(s, a + i - 1, a + j - 1, C)
<1> DEFINE u == SubSeq(s, a, b - 1)
<1>1. \A k \in 1..b - a : u[k] = s[a + k - 1]
  BY PartIs
<1> HIDE DEF u
<1>2. ASSUME Span(u, i, j, C), NEW k \in a + i - 1..a + j - 1 - 1 PROVE s[k] \in C
  <2>1. k - a + 1 \in i..j - 1 /\ k - a + 1 \in 1..b - a /\ a + (k - a + 1) - 1 = k
    OBVIOUS
  <2>2. u[k - a + 1] \in C
    BY <1>2, <2>1 DEF Span
  <2> QED  BY <1>1, <2>1, <2>2
<1>3. ASSUME Span(s, a + i - 1, a + j - 1, C), NEW k \in i..j - 1 PROVE u[k] \in C
  <2>1. k \in 1..b - a /\ a + k - 1 \in a + i - 1..a + j - 1 - 1
    OBVIOUS
  <2> QED  BY <1>1, <1>3, <2>1 DEF Span
<1>4. Span(u, i, j, C) <=> Span(s, a + i - 1, a + j - 1, C)
  BY <1>2, <1>3 DEF Span
<1> QED  BY <1>4 DEF u

\* The line that begins at a and ends at the break b.
Begins(r, a) == a = 1 \/ (a - 2 \in Breaks(r))

\* The greatest and the least element of a set.
LEMMA MaxOfSet ==
  ASSUME NEW T, NEW x \in T, T \subseteq Int, \A y \in T : y <= x
  PROVE  Max(T) = x
<1>1. PICK m \in T : m = Max(T) /\ \A y \in T : m >= y
  BY DEF Max
<1>2. m \in Int /\ x \in Int /\ m >= x /\ m <= x
  BY <1>1
<1> QED  BY <1>1, <1>2

LEMMA MinOfSet ==
  ASSUME NEW T, NEW x \in T, T \subseteq Int, \A y \in T : x <= y
  PROVE  Min(T) = x
<1>1. PICK m \in T : m = Min(T) /\ \A y \in T : m <= y
  BY DEF Min
<1>2. m \in Int /\ x \in Int /\ m >= x /\ m <= x
  BY <1>1
<1> QED  BY <1>1, <1>2

\* Breaks do not overlap.
LEMMA BreakIs ==
  ASSUME NEW r \in Seq(Char), NEW b \in Breaks(r)
  PROVE  /\ b \in 1..Len(r) - 1 /\ b \in Nat \ {0} /\ r[b] = CR /\ r[b + 1] = LF
         /\ b + 1 \notin Breaks(r)
BY DEF Breaks, CR, LF

\* The line that ends at the break b, by the place where it begins.
LEMMA LineIs ==
  ASSUME NEW r \in Seq(Char), NEW b \in Breaks(r), NEW a \in 1..b, Begins(r, a),
         \A k \in Breaks(r) : k < b => k < a
  PROVE  Line(r, b) = SubSeq(r, a, b - 1)
<1> DEFINE T == {j + 2 : j \in {k \in Breaks(r) : k < b}} \cup {1}
<1>1. \A k \in Breaks(r) : k \in Nat \ {0} /\ k + 1 \notin Breaks(r)
  BY BreakIs
<1>a. b \in Nat /\ a \in Nat /\ a <= b
  BY <1>1
<1>2. a \in T
  <2>1. CASE a = 1
    BY <2>1
  <2>2. CASE a # 1
    <3>1. PICK j \in Breaks(r) : j = a - 2
      BY <2>2 DEF Begins
    <3>2. j < b /\ a = j + 2
      BY <1>a, <3>1
    <3> QED  BY <3>2
  <2> QED  BY <2>1, <2>2
<1>3. T \subseteq Int
  BY <1>1
<1>4. \A y \in T : y <= a
  <2> SUFFICES ASSUME NEW k \in Breaks(r), k < b PROVE k + 2 <= a
    OBVIOUS
  <2>1. k < a /\ k \in Nat
    BY <1>1
  <2>2. k # a - 1
    <3>1. a - 1 \in Breaks(r) => a # 1 /\ a - 2 \in Breaks(r)
      BY <1>1, <1>a DEF Begins
    <3>2. a - 2 \in Breaks(r) => (a - 2) + 1 \notin Breaks(r)
      BY <1>1
    <3>3. (a - 2) + 1 = a - 1
      OBVIOUS
    <3> QED  BY <3>1, <3>2, <3>3
  <2> QED  BY <2>1, <2>2
<1>5. Max(T) = a
  <2> HIDE DEF T
  <2> QED  BY <1>2, <1>3, <1>4, MaxOfSet
<1> QED  BY <1>5 DEF Line

\* Which classes of characters share none.
LEMMA Apart ==
  /\ \A c \in Blank : c \notin Letter \cup PathChar \cup FieldChar \cup ValueStart \cup {CR, LF, ":"}
  /\ \A c \in FieldChar \cup Blank : c # ":"
  /\ \A c \in Letter \cup PathChar \cup FieldChar \cup ValueStart \cup ValueChar \cup Blank \cup {":", LF} :
       c # CR
  /\ \A c \in ValueStart : c \in ValueChar
  /\ \A c \in FieldChar : c \in ValueStart
<1>1. \A c \in Blank : c \notin Letter \cup Digit \cup {"/", ".", "+", "-", "=", "?", "~", "%", "*"}
                       /\ c \notin {CR, LF, ":"}
  BY DEF Blank, Letter, Digit, CR, LF
<1>2. \A c \in FieldChar : c \in Letter \cup Digit \cup {"-", ".", "+", "*"}
  BY DEF FieldChar
<1>3. \A c \in ValueStart : c \in Letter \cup Digit \cup {"-", ".", "+", "*", "/", "?"}
  BY DEF FieldChar, ValueStart
<1>4. \A c \in PathChar : c \in Letter \cup Digit \cup {"/", ".", "+", "-", "=", "?", "~", "%"}
  BY DEF PathChar
<1>5. \A c \in Letter \cup Digit : c # ":" /\ c # CR
  BY DEF Letter, Digit, CR
<1>6. \A c \in Blank \cup {":", LF, "=", "%", "&", "(", ")", "_", ";", ",", "-", ".", "+", "*", "/", "?", "~"} : c # CR
  BY DEF Blank, CR, LF
<1>7. \A c \in ValueChar : c \in ValueStart \cup Blank \cup {":", "=", "%", "&", "(", ")", "_", ";", ",", LF}
  BY DEF ValueChar
<1>8. \A c \in Blank : c # ":"
  BY <1>1
<1>9. \A c \in FieldChar : c # ":"
  BY <1>2, <1>5
<1>10. \A c \in Letter \cup PathChar \cup FieldChar \cup ValueStart : c # CR
  BY <1>2, <1>3, <1>4, <1>5, <1>6
<1>11. \A c \in ValueChar : c # CR
  BY <1>6, <1>7, <1>10
<1>12. (\A c \in ValueStart : c \in ValueChar) /\ (\A c \in FieldChar : c \in ValueStart)
  BY DEF ValueStart, ValueChar
<1>13. \A c \in Blank : c \notin Letter \cup PathChar \cup FieldChar \cup ValueStart
  BY <1>1, <1>2, <1>3, <1>4
<1> QED  BY <1>1, <1>6, <1>8, <1>9, <1>10, <1>11, <1>12, <1>13

\* What the end of a string is.
LEMMA TailPartIs ==
  ASSUME NEW S, NEW s \in Seq(S), NEW i \in 1..Len(s) + 1
  PROVE  /\ SubSeq(s, i, Len(s)) \in Seq(S) /\ Len(SubSeq(s, i, Len(s))) = Len(s) - i + 1
         /\ \A k \in 1..Len(s) - i + 1 : SubSeq(s, i, Len(s))[k] = s[i + k - 1]
         /\ \A C : Over(SubSeq(s, i, Len(s)), C) <=> Span(s, i, Len(s) + 1, C)
         /\ \A C : \A n \in 1..Len(s) - i + 2 :
               Span(SubSeq(s, i, Len(s)), 1, n, C) <=> Span(s, i, i + n - 1, C)
<1>1. PICK j \in i..Len(s) + 1 : j = Len(s) + 1 /\ Len(s) \in Nat /\ i \in 1..Len(s) + 1
  OBVIOUS
<1>2. j - 1 = Len(s) /\ j - i = Len(s) - i + 1 /\ j - i + 1 = Len(s) - i + 2
  BY <1>1
<1>3. /\ SubSeq(s, i, j - 1) \in Seq(S) /\ Len(SubSeq(s, i, j - 1)) = j - i
      /\ \A k \in 1..j - i : SubSeq(s, i, j - 1)[k] = s[i + k - 1]
  BY PartIs
<1>4. \A C : Over(SubSeq(s, i, j - 1), C) <=> Span(s, i, j, C)
  BY OverPart
<1>5. ASSUME NEW C, NEW n \in 1..j - i + 1
      PROVE  Span(SubSeq(s, i, j - 1), 1, n, C) <=> Span(s, i, i + n - 1, C)
  <2>1. 1 \in 1..j - i + 1 /\ i + 1 - 1 = i
    BY <1>1
  <2>2. Span(SubSeq(s, i, j - 1), 1, n, C) <=> Span(s, i + 1 - 1, i + n - 1, C)
    BY <2>1, SpanPart
  <2> QED  BY <2>1, <2>2
<1>6. \A C : \A n \in 1..j - i + 1 :
        Span(SubSeq(s, i, j - 1), 1, n, C) <=> Span(s, i, i + n - 1, C)
  BY <1>5
<1> QED  BY <1>1, <1>2, <1>3, <1>4, <1>6

-----------------------------------------------------------------------------
(* What a header line is, by the places of its parts.                      *)

\* A line's field begins at f, its colon is at c, and its value begins at g.
HeaderParts(l, f, c, g) ==
  /\ 1 <= f /\ f < c /\ c < g /\ g <= Len(l)
  /\ Span(l, 1, f, Blank) /\ l[f] \in FieldChar /\ Span(l, f, c, FieldChar \cup Blank)
  /\ l[c] = ":" /\ Span(l, c + 1, g, Blank)
  /\ l[g] \in ValueStart /\ Span(l, g, Len(l) + 1, ValueChar)

\* Where a string begins, but for its blanks.
Starts(s, n) ==
  /\ n \in 1..Len(s) + 1 /\ Span(s, 1, n, Blank)
  /\ n <= Len(s) => s[n] \notin Blank

\* What is left of a string without its leading blanks, found and known.
LEMMA TrimIs ==
  ASSUME NEW S, NEW s \in Seq(S)
  PROVE  \E n \in 1..Len(s) + 1 : Starts(s, n) /\ TrimLeft(s) = SubSeq(s, n, Len(s))
<1> DEFINE T == {i \in DOMAIN s : s[i] \notin Blank} \cup {Len(s) + 1}
<1>0. Len(s) \in Nat /\ DOMAIN s = 1..Len(s)
  BY LenProperties
<1>1. T \in SUBSET Nat /\ T # {} /\ T \subseteq 1..Len(s) + 1
  BY <1>0
<1>2. PICK n \in T : n = Min(T) /\ \A x \in T : n <= x
  <2> HIDE DEF T
  <2> QED  BY <1>1, MinOfNats
<1>3. n \in 1..Len(s) + 1
  <2> HIDE DEF T
  <2> QED  BY <1>1
<1>4. \A i \in 1..n - 1 : s[i] \in Blank
  <2> SUFFICES ASSUME NEW i \in 1..n - 1, s[i] \notin Blank PROVE FALSE
    OBVIOUS
  <2>1. i \in T /\ i < n
    BY <1>0, <1>3
  <2> HIDE DEF T
  <2> QED  BY <1>0, <1>2, <1>3, <2>1
<1>5. n <= Len(s) => s[n] \notin Blank
  BY <1>0, <1>3
<1>6. TrimLeft(s) = SubSeq(s, n, Len(s))
  BY <1>2 DEF TrimLeft
<1> HIDE DEF T
<1> QED  BY <1>3, <1>4, <1>5, <1>6 DEF Starts, Span

LEMMA StartIsOne ==
  ASSUME NEW S, NEW s \in Seq(S), NEW n, NEW m, Starts(s, n), Starts(s, m)
  PROVE  n = m
<1>0. Len(s) \in Nat /\ n \in 1..Len(s) + 1 /\ m \in 1..Len(s) + 1
  BY DEF Starts
<1>1. CASE n < m
  <2>1. n \in 1..m - 1 /\ n <= Len(s)
    BY <1>0, <1>1
  <2> QED  BY <2>1 DEF Starts, Span
<1>2. CASE m < n
  <2>1. m \in 1..n - 1 /\ m <= Len(s)
    BY <1>0, <1>2
  <2> QED  BY <2>1 DEF Starts, Span
<1> QED  BY <1>0, <1>1, <1>2

LEMMA TrimAt ==
  ASSUME NEW S, NEW s \in Seq(S), NEW n, Starts(s, n)
  PROVE  TrimLeft(s) = SubSeq(s, n, Len(s))
BY TrimIs, StartIsOne

\* The colon of a line.
LEMMA ColonAt ==
  ASSUME NEW l \in Seq(Char), NEW c \in 1..Len(l), l[c] = ":", \A i \in 1..c - 1 : l[i] # ":"
  PROVE  Colon(l) = c
<1> DEFINE T == {i \in DOMAIN l : l[i] = ":"}
<1>0. Len(l) \in Nat /\ DOMAIN l = 1..Len(l)
  BY LenProperties
<1>1. c \in T /\ T \subseteq Int
  BY <1>0
<1>2. \A y \in T : c <= y
  <2> SUFFICES ASSUME NEW y \in 1..Len(l), l[y] = ":", ~(c <= y) PROVE FALSE
    BY <1>0
  <2>1. y \in 1..c - 1
    BY <1>0
  <2> QED  BY <2>1
<1>3. Min(T) = c
  <2> HIDE DEF T
  <2> QED  BY <1>1, <1>2, MinOfSet
<1> QED  BY <1>3 DEF Colon

LEMMA ColonFound ==
  ASSUME NEW l \in Seq(Char), \E i \in DOMAIN l : l[i] = ":"
  PROVE  Colon(l) \in 1..Len(l) /\ l[Colon(l)] = ":" /\ \A i \in 1..Colon(l) - 1 : l[i] # ":"
<1> DEFINE T == {i \in DOMAIN l : l[i] = ":"}
<1>0. Len(l) \in Nat /\ DOMAIN l = 1..Len(l)
  BY LenProperties
<1>1. T \in SUBSET Nat /\ T # {} /\ T \subseteq 1..Len(l)
  BY <1>0
<1>2. PICK n \in T : n = Min(T) /\ \A x \in T : n <= x
  <2> HIDE DEF T
  <2> QED  BY <1>1, MinOfNats
<1>3. \A i \in 1..n - 1 : l[i] # ":"
  <2> SUFFICES ASSUME NEW i \in 1..n - 1, l[i] = ":" PROVE FALSE
    OBVIOUS
  <2>1. n \in 1..Len(l)
    BY <1>1
  <2>2. i \in T /\ i < n
    BY <1>0, <2>1
  <2> HIDE DEF T
  <2> QED  BY <1>0, <1>2, <2>1, <2>2
<1>4. n \in 1..Len(l) /\ l[n] = ":"
  BY <1>1
<1> QED  BY <1>2, <1>3, <1>4 DEF Colon

\* What is behind place c.
LEMMA TailAfter ==
  ASSUME NEW S, NEW s \in Seq(S), NEW c \in 0..Len(s)
  PROVE  /\ SubSeq(s, c + 1, Len(s)) \in Seq(S) /\ Len(SubSeq(s, c + 1, Len(s))) = Len(s) - c
         /\ \A k \in 1..Len(s) - c : SubSeq(s, c + 1, Len(s))[k] = s[c + k]
         /\ \A C : Over(SubSeq(s, c + 1, Len(s)), C) <=> Span(s, c + 1, Len(s) + 1, C)
         /\ \A C : \A n \in 1..Len(s) - c + 1 :
               Span(SubSeq(s, c + 1, Len(s)), 1, n, C) <=> Span(s, c + 1, c + n, C)
<1>1. PICK i \in 1..Len(s) + 1 : i = c + 1 /\ Len(s) \in Nat
  OBVIOUS
<1>2. /\ SubSeq(s, i, Len(s)) \in Seq(S) /\ Len(SubSeq(s, i, Len(s))) = Len(s) - i + 1
      /\ \A k \in 1..Len(s) - i + 1 : SubSeq(s, i, Len(s))[k] = s[i + k - 1]
      /\ \A C : Over(SubSeq(s, i, Len(s)), C) <=> Span(s, i, Len(s) + 1, C)
      /\ \A C : \A n \in 1..Len(s) - i + 2 :
            Span(SubSeq(s, i, Len(s)), 1, n, C) <=> Span(s, i, i + n - 1, C)
  BY TailPartIs
<1>3. Len(s) - i + 1 = Len(s) - c /\ Len(s) - i + 2 = Len(s) - c + 1
  BY <1>1
<1>4. /\ SubSeq(s, i, Len(s)) \in Seq(S) /\ Len(SubSeq(s, i, Len(s))) = Len(s) - c
      /\ \A C : Over(SubSeq(s, i, Len(s)), C) <=> Span(s, i, Len(s) + 1, C)
  BY <1>2, <1>3
<1>5. ASSUME NEW k \in 1..Len(s) - c PROVE SubSeq(s, i, Len(s))[k] = s[c + k]
  <2>1. k \in 1..Len(s) - i + 1 /\ i + k - 1 = c + k
    BY <1>1
  <2> QED  BY <1>2, <2>1
<1>6. ASSUME NEW C, NEW n \in 1..Len(s) - c + 1
      PROVE  Span(SubSeq(s, i, Len(s)), 1, n, C) <=> Span(s, i, c + n, C)
  <2>1. n \in 1..Len(s) - i + 2 /\ i + n - 1 = c + n
    BY <1>1
  <2>2. Span(SubSeq(s, i, Len(s)), 1, n, C) <=> Span(s, i, i + n - 1, C)
    BY <1>2, <2>1
  <2> QED  BY <2>1, <2>2
<1>7. i = c + 1
  BY <1>1
<1> HIDE <1>2
<1> QED  BY <1>4, <1>5, <1>6, <1>7, Zenon

\* The two sides of a line, without their blanks.
LEMMA SidesAre ==
  ASSUME NEW l \in Seq(Char), NEW f \in Nat, NEW c \in Nat, NEW g \in Nat,
         1 <= f, f < c, c < g, g <= Len(l), Colon(l) = c,
         Span(l, 1, f, Blank), l[f] \notin Blank, Span(l, c + 1, g, Blank), l[g] \notin Blank
  PROVE  Field(l) = SubSeq(l, f, c - 1) /\ Value(l) = SubSeq(l, g, Len(l))
<1>0. Len(l) \in Nat
  BY LenProperties
<1> DEFINE F == SubSeq(l, 1, c - 1)
           V == SubSeq(l, c + 1, Len(l))
<1>1. F \in Seq(Char) /\ Len(F) = c - 1 /\ \A k \in 1..c - 1 : F[k] = l[1 + k - 1]
  BY <1>0, PartIs
<1>2. /\ V \in Seq(Char) /\ Len(V) = Len(l) - c
      /\ \A k \in 1..Len(l) - c : V[k] = l[c + k]
      /\ \A n \in 1..Len(l) - c + 1 : Span(V, 1, n, Blank) <=> Span(l, c + 1, c + n, Blank)
  BY <1>0, TailAfter
<1>3. Starts(F, f)
  <2>1. Span(F, 1, f, Blank) <=> Span(l, 1 + 1 - 1, 1 + f - 1, Blank)
    BY <1>0, SpanPart
  <2>2. F[f] = l[f]
    BY <1>1
  <2> HIDE DEF F
  <2> QED  BY <1>1, <2>1, <2>2 DEF Starts
<1>4. Starts(V, g - c)
  <2>1. g - c \in 1..Len(l) - c /\ g - c \in 1..Len(l) - c + 1 /\ c + (g - c) = g
    BY <1>0
  <2>2. V[g - c] = l[g]
    BY <1>2, <2>1
  <2>3. Span(V, 1, g - c, Blank)
    BY <1>2, <2>1
  <2> HIDE DEF V
  <2> QED  BY <1>2, <2>1, <2>2, <2>3 DEF Starts
<1>5. TrimLeft(F) = SubSeq(F, f, Len(F)) /\ TrimLeft(V) = SubSeq(V, g - c, Len(V))
  <2> HIDE DEF F, V
  <2> QED  BY <1>1, <1>2, <1>3, <1>4, TrimAt
<1>6. SubSeq(F, f, c - 1) = SubSeq(l, f, c - 1)
  <2>1. SubSeq(SubSeq(l, 1, c - 1), f, c - 1) = SubSeq(l, 1 + f - 1, 1 + (c - 1) - 1)
    BY <1>0, SubSeqOfSubSeq
  <2> QED  BY <2>1
<1>7. SubSeq(V, g - c, Len(l) - c) = SubSeq(l, g, Len(l))
  <2>1. SubSeq(SubSeq(l, c + 1, Len(l)), g - c, Len(l) - c)
          = SubSeq(l, c + 1 + (g - c) - 1, c + 1 + (Len(l) - c) - 1)
    BY <1>0, SubSeqOfSubSeq
  <2>2. c + 1 + (g - c) - 1 = g /\ c + 1 + (Len(l) - c) - 1 = Len(l)
    BY <1>0
  <2> QED  BY <2>1, <2>2
<1>8. Len(V) = Len(l) - c /\ V = SubSeq(l, Colon(l) + 1, Len(l)) /\ F = SubSeq(l, 1, Colon(l) - 1)
  BY <1>0, <1>2
<1> QED  BY <1>1, <1>5, <1>6, <1>7, <1>8 DEF Field, Value

\* A line with these parts is a header's, and they are its name and its value.
LEMMA PartsAreHeader ==
  ASSUME NEW l \in Seq(Char), NEW f \in Nat, NEW c \in Nat, NEW g \in Nat, HeaderParts(l, f, c, g)
  PROVE  /\ HeaderLineOK(l)
         /\ Field(l) = SubSeq(l, f, c - 1) /\ Value(l) = SubSeq(l, g, Len(l))
<1>0. Len(l) \in Nat /\ DOMAIN l = 1..Len(l) /\ 1 <= f /\ f < c /\ c < g /\ g <= Len(l)
  BY LenProperties DEF HeaderParts
<1>1. Colon(l) = c
  <2>1. \A i \in 1..c - 1 : l[i] # ":"
    <3> SUFFICES ASSUME NEW i \in 1..c - 1 PROVE l[i] \in FieldChar \cup Blank
      BY Apart
    <3>1. i \in 1..f - 1 \/ i \in f..c - 1
      BY <1>0
    <3> QED  BY <3>1 DEF HeaderParts, Span
  <2> QED  BY <1>0, <2>1, ColonAt DEF HeaderParts
<1>2. l[f] \notin Blank /\ l[g] \notin Blank
  BY Apart DEF HeaderParts
<1>3. Field(l) = SubSeq(l, f, c - 1) /\ Value(l) = SubSeq(l, g, Len(l))
  BY <1>0, <1>1, <1>2, SidesAre DEF HeaderParts
<1>4. Over(SubSeq(l, f, c - 1), FieldChar \cup Blank) /\ SubSeq(l, f, c - 1) # <<>>
  <2>1. Len(SubSeq(l, f, c - 1)) = c - f
    BY <1>0, PartIs
  <2>2. Over(SubSeq(l, f, c - 1), FieldChar \cup Blank) <=> Span(l, f, c, FieldChar \cup Blank)
    BY <1>0, OverPart
  <2>3. SubSeq(l, f, c - 1) # <<>>
    BY <1>0, <2>1
  <2> QED  BY <2>2, <2>3 DEF HeaderParts
<1>5. /\ Over(SubSeq(l, g, Len(l)), ValueChar) /\ SubSeq(l, g, Len(l)) # <<>>
      /\ Head(SubSeq(l, g, Len(l))) = l[g]
  <2>1. g \in 1..Len(l) + 1 /\ Len(l) - g + 1 # 0
    BY <1>0
  <2>2. /\ Len(SubSeq(l, g, Len(l))) = Len(l) - g + 1
        /\ Over(SubSeq(l, g, Len(l)), ValueChar) <=> Span(l, g, Len(l) + 1, ValueChar)
    BY <2>1, TailPartIs
  <2>3. Head(SubSeq(l, g, Len(l))) = l[g]
    BY <1>0, HeadTailOfSubSeq
  <2>4. SubSeq(l, g, Len(l)) # <<>>
    BY <2>1, <2>2
  <2> QED  BY <2>2, <2>3, <2>4 DEF HeaderParts
<1>6. \E i \in DOMAIN l : l[i] = ":"
  BY <1>0 DEF HeaderParts
<1> QED  BY <1>3, <1>4, <1>5, <1>6 DEF HeaderLineOK, HeaderParts

\* A header's line has such parts.
LEMMA HeaderHasParts ==
  ASSUME NEW l \in Seq(Char), HeaderLineOK(l)
  PROVE  \E f, c, g \in Nat : HeaderParts(l, f, c, g)
<1>0. Len(l) \in Nat /\ DOMAIN l = 1..Len(l)
  BY LenProperties
<1>1. PICK c \in 1..Len(l) : c = Colon(l) /\ l[c] = ":" /\ \A i \in 1..c - 1 : l[i] # ":"
  BY ColonFound DEF HeaderLineOK
<1> DEFINE F == SubSeq(l, 1, c - 1)
           V == SubSeq(l, c + 1, Len(l))
<1>2. F \in Seq(Char) /\ Len(F) = c - 1 /\ \A k \in 1..c - 1 : F[k] = l[1 + k - 1]
  BY <1>0, PartIs
<1>3. /\ V \in Seq(Char) /\ Len(V) = Len(l) - c
      /\ \A k \in 1..Len(l) - c : V[k] = l[c + k]
      /\ \A n \in 1..Len(l) - c + 1 : Span(V, 1, n, Blank) <=> Span(l, c + 1, c + n, Blank)
  <2>1. c \in 0..Len(l)
    BY <1>0
  <2> QED  BY <2>1, TailAfter
<1>4. F = SubSeq(l, 1, Colon(l) - 1) /\ V = SubSeq(l, Colon(l) + 1, Len(l)) /\ Len(V) = Len(l) - c
  BY <1>0, <1>1, <1>3
<1>5. PICK f \in 1..c : Starts(F, f) /\ Field(l) = SubSeq(F, f, c - 1)
  <2> HIDE DEF F
  <2>1. Len(F) + 1 = c /\ F \in Seq(Char) /\ Len(F) = c - 1 /\ Field(l) = TrimLeft(F)
    BY <1>2, <1>4 DEF Field
  <2>2. \E n \in 1..Len(F) + 1 : Starts(F, n) /\ TrimLeft(F) = SubSeq(F, n, Len(F))
    BY <2>1, TrimIs
  <2> QED  BY <2>1, <2>2
<1>6. PICK h \in 1..Len(l) - c + 1 : Starts(V, h) /\ Value(l) = SubSeq(V, h, Len(l) - c)
  <2> HIDE DEF V
  <2> QED  BY <1>3, <1>4, TrimIs DEF Value
<1>7. f < c
  <2>1. f = c => SubSeq(F, f, c - 1) = <<>>
    BY SubSeqEmpty
  <2> QED  BY <1>5, <2>1 DEF HeaderLineOK
<1>8. h <= Len(l) - c
  <2>1. h = Len(l) - c + 1 => SubSeq(V, h, Len(l) - c) = <<>>
    BY <1>0, SubSeqEmpty
  <2> QED  BY <1>0, <1>6, <2>1 DEF HeaderLineOK
<1> DEFINE g == c + h
<1>9. g \in Nat /\ c < g /\ g <= Len(l) /\ 1 <= f
  BY <1>0, <1>8
<1>10. Span(l, 1, f, Blank) /\ l[f] \notin Blank
  <2>1. Span(F, 1, f, Blank) <=> Span(l, 1 + 1 - 1, 1 + f - 1, Blank)
    BY <1>0, <1>7, SpanPart
  <2>2. F[f] = l[f]
    BY <1>2, <1>7
  <2> HIDE DEF F
  <2> QED  BY <1>2, <1>5, <1>7, <2>1, <2>2 DEF Starts
<1>11. Span(l, c + 1, g, Blank) /\ l[g] \notin Blank
  <2>1. h \in 1..Len(l) - c /\ h \in 1..Len(l) - c + 1
    BY <1>0, <1>8
  <2>2. V[h] = l[g]
    BY <1>3, <2>1
  <2>3. Span(V, 1, h, Blank) <=> Span(l, c + 1, g, Blank)
    BY <1>3, <2>1
  <2> HIDE DEF V
  <2> QED  BY <1>4, <1>6, <1>8, <2>2, <2>3 DEF Starts
<1> HIDE DEF g, F, V
<1>12. Field(l) = SubSeq(l, f, c - 1) /\ Value(l) = SubSeq(l, g, Len(l))
  <2>1. c \in Nat /\ f \in Nat /\ Colon(l) = c /\ 1 <= f /\ f < c
    BY <1>0, <1>1, <1>7, <1>9
  <2> QED  BY <1>9, <1>10, <1>11, <2>1, SidesAre
<1>13. Span(l, f, c, FieldChar \cup Blank)
  <2>1. Over(SubSeq(l, f, c - 1), FieldChar \cup Blank) <=> Span(l, f, c, FieldChar \cup Blank)
    BY <1>0, <1>7, OverPart
  <2> QED  BY <1>12, <2>1 DEF HeaderLineOK
<1>14. Span(l, g, Len(l) + 1, ValueChar) /\ l[g] \in ValueStart
  <2>1. g \in 1..Len(l) + 1
    BY <1>0, <1>9
  <2>2. Over(SubSeq(l, g, Len(l)), ValueChar) <=> Span(l, g, Len(l) + 1, ValueChar)
    BY <2>1, TailPartIs
  <2>3. Head(SubSeq(l, g, Len(l))) = l[g]
    BY <1>0, <1>9, HeadTailOfSubSeq
  <2> QED  BY <1>12, <2>2, <2>3 DEF HeaderLineOK
<1>15. l[f] \in FieldChar
  BY <1>7, <1>10, <1>13 DEF Span
<1>16. HeaderParts(l, f, c, g)
  BY <1>1, <1>7, <1>9, <1>10, <1>11, <1>13, <1>14, <1>15 DEF HeaderParts
<1> QED  BY <1>9, <1>16
-----------------------------------------------------------------------------
(* The words of a line.                                                    *)

\* What the part of a string from its i-th to its n-th character is.
LEMMA PieceIs ==
  ASSUME NEW S, NEW s \in Seq(S), NEW i \in 1..Len(s), NEW n \in i..Len(s)
  PROVE  /\ Len(SubSeq(s, i, n)) = n - i + 1
         /\ \A k \in 1..n - i + 1 : SubSeq(s, i, n)[k] = s[i + k - 1]
         /\ \A C : Over(SubSeq(s, i, n), C) <=> \A k \in i..n : s[k] \in C
<1>1. PICK j \in i..Len(s) + 1 : j = n + 1 /\ Len(s) \in Nat /\ i \in 1..Len(s) + 1
  OBVIOUS
<1>2. j - 1 = n /\ j - i = n - i + 1
  BY <1>1
<1>3. /\ Len(SubSeq(s, i, j - 1)) = j - i
      /\ \A k \in 1..j - i : SubSeq(s, i, j - 1)[k] = s[i + k - 1]
  BY <1>1, PartIs
<1>4. \A C : Over(SubSeq(s, i, j - 1), C) <=> Span(s, i, j, C)
  BY <1>1, OverPart
<1>5. \A C : Span(s, i, j, C) <=> \A k \in i..n : s[k] \in C
  BY <1>2 DEF Span
<1>6. Len(SubSeq(s, i, n)) = n - i + 1 /\ \A k \in 1..n - i + 1 : SubSeq(s, i, n)[k] = s[i + k - 1]
  BY <1>2, <1>3
<1>7. \A C : Over(SubSeq(s, i, n), C) <=> Span(s, i, j, C)
  BY <1>2, <1>4
<1> QED  BY <1>5, <1>6, <1>7

\* What is known of a run of characters without blanks, and what makes one.
LEMMA RunIs ==
  ASSUME NEW l \in Seq(Char), NEW w \in Runs(l)
  PROVE  /\ w[1] \in 1..Len(l) /\ w[2] \in w[1]..Len(l) /\ w = <<w[1], w[2]>>
         /\ \A k \in w[1]..w[2] : l[k] \notin Blank
         /\ w[1] = 1 \/ l[w[1] - 1] \in Blank
         /\ w[2] = Len(l) \/ l[w[2] + 1] \in Blank
<1>0. Len(l) \in Nat /\ DOMAIN l = 1..Len(l)
  BY LenProperties
<1>1. /\ w[1] \in 1..Len(l) /\ w[2] \in 1..Len(l) /\ w[1] <= w[2] /\ w = <<w[1], w[2]>>
      /\ Over(SubSeq(l, w[1], w[2]), Char \ Blank)
      /\ w[1] = 1 \/ l[w[1] - 1] \in Blank
      /\ w[2] = Len(l) \/ l[w[2] + 1] \in Blank
  BY <1>0 DEF Runs
<1>2. w[2] \in w[1]..Len(l)
  BY <1>0, <1>1
<1>3. \A k \in w[1]..w[2] : l[k] \in Char \ Blank
  BY <1>1, <1>2, PieceIs
<1> QED  BY <1>1, <1>2, <1>3

LEMMA IsRun ==
  ASSUME NEW l \in Seq(Char), NEW i \in 1..Len(l), NEW n \in i..Len(l)
  PROVE  /\ \A k \in i..n : l[k] \notin Blank
         /\ i = 1 \/ l[i - 1] \in Blank
         /\ n = Len(l) \/ l[n + 1] \in Blank
         => <<i, n>> \in Runs(l)
<1>a. Len(l) \in Nat /\ DOMAIN l = 1..Len(l)
  BY LenProperties
<1>0. n \in 1..Len(l) /\ i <= n /\ i \in 1..Len(l)
  BY <1>a
<1>b. \A k \in i..n : k \in 1..Len(l)
  BY <1>a
<1>c. \A k \in i..n : l[k] \in Char
  BY <1>b, ElementOfSeq
<1>d. SUFFICES ASSUME \A k \in i..n : l[k] \notin Blank,
                      i = 1 \/ l[i - 1] \in Blank, n = Len(l) \/ l[n + 1] \in Blank
               PROVE  <<i, n>> \in Runs(l)
  OBVIOUS
<1>1. \A k \in i..n : l[k] \in Char \ Blank
  BY <1>c, <1>d
<1>2. Over(SubSeq(l, i, n), Char \ Blank)
  BY <1>1, PieceIs
<1> DEFINE w == <<i, n>>
<1>3. w[1] = i /\ w[2] = n /\ w \in (1..Len(l)) \X (1..Len(l))
  BY <1>0
<1> HIDE DEF w
<1>4. /\ w[1] <= w[2] /\ Over(SubSeq(l, w[1], w[2]), Char \ Blank)
      /\ w[1] = 1 \/ l[w[1] - 1] \in Blank
      /\ w[2] = Len(l) \/ l[w[2] + 1] \in Blank
  BY <1>0, <1>2, <1>3, <1>d
<1>5. w \in Runs(l)
  BY <1>a, <1>3, <1>4 DEF Runs
<1> QED  BY <1>5 DEF w

\* Two words of a line share no place.
LEMMA RunsApart ==
  ASSUME NEW l \in Seq(Char), NEW u \in Runs(l), NEW w \in Runs(l)
  PROVE  u = w \/ u[2] < w[1] \/ w[2] < u[1]
<1>0. /\ Len(l) \in Nat
      /\ u[1] \in 1..Len(l) /\ u[2] \in u[1]..Len(l) /\ u = <<u[1], u[2]>>
      /\ \A k \in u[1]..u[2] : l[k] \notin Blank
      /\ u[1] = 1 \/ l[u[1] - 1] \in Blank
      /\ u[2] = Len(l) \/ l[u[2] + 1] \in Blank
  BY RunIs, LenProperties
<1>1. /\ w[1] \in 1..Len(l) /\ w[2] \in w[1]..Len(l) /\ w = <<w[1], w[2]>>
      /\ \A k \in w[1]..w[2] : l[k] \notin Blank
      /\ w[1] = 1 \/ l[w[1] - 1] \in Blank
      /\ w[2] = Len(l) \/ l[w[2] + 1] \in Blank
  BY RunIs
<1> SUFFICES ASSUME w[1] <= u[2], u[1] <= w[2] PROVE u = w
  BY <1>0, <1>1
<1>2. ~(u[1] < w[1])
  <2> SUFFICES ASSUME u[1] < w[1] PROVE FALSE
    OBVIOUS
  <2>1. w[1] - 1 \in u[1]..u[2] /\ w[1] # 1
    BY <1>0, <1>1
  <2> QED  BY <1>0, <1>1, <2>1
<1>3. ~(w[1] < u[1])
  <2> SUFFICES ASSUME w[1] < u[1] PROVE FALSE
    OBVIOUS
  <2>1. u[1] - 1 \in w[1]..w[2] /\ u[1] # 1
    BY <1>0, <1>1
  <2> QED  BY <1>0, <1>1, <2>1
<1>4. ~(u[2] < w[2])
  <2> SUFFICES ASSUME u[2] < w[2] PROVE FALSE
    OBVIOUS
  <2>1. u[2] + 1 \in w[1]..w[2] /\ u[2] # Len(l)
    BY <1>0, <1>1
  <2> QED  BY <1>0, <1>1, <2>1
<1>5. ~(w[2] < u[2])
  <2> SUFFICES ASSUME w[2] < u[2] PROVE FALSE
    OBVIOUS
  <2>1. w[2] + 1 \in u[1]..u[2] /\ w[2] # Len(l)
    BY <1>0, <1>1
  <2> QED  BY <1>0, <1>1, <2>1
<1>6. u[1] = w[1] /\ u[2] = w[2]
  BY <1>0, <1>1, <1>2, <1>3, <1>4, <1>5
<1> QED  BY <1>0, <1>1, <1>6

\* A set of numbers up to n has a greatest.
LEMMA MaxOfNats ==
  ASSUME NEW n \in Nat, NEW T \in SUBSET (1..n), T # {}
  PROVE  \E m \in T : \A x \in T : x <= m
<1> DEFINE D == {n - x : x \in T}
<1>1. D \in SUBSET Nat /\ D # {}
  <2>1. PICK x \in T : TRUE
    OBVIOUS
  <2>2. n - x \in D
    BY <2>1
  <2>3. \A y \in T : n - y \in Nat
    OBVIOUS
  <2> QED  BY <2>2, <2>3
<1>2. PICK d \in D : d = Min(D) /\ \A x \in D : d <= x
  <2> HIDE DEF D
  <2> QED  BY <1>1, MinOfNats
<1>3. PICK m \in T : d = n - m
  BY DEF D
<1>4. \A x \in T : x <= m
  <2> SUFFICES ASSUME NEW x \in T PROVE x <= m
    OBVIOUS
  <2>1. n - x \in D
    OBVIOUS
  <2>2. n - m <= n - x /\ x \in 1..n /\ m \in 1..n
    BY <1>2, <1>3, <2>1
  <2> HIDE DEF D
  <2> QED  BY <2>2
<1> QED  BY <1>4

\* A character that is no blank lies in a word.
LEMMA RunAt ==
  ASSUME NEW l \in Seq(Char), NEW x \in 1..Len(l), l[x] \notin Blank
  PROVE  \E w \in Runs(l) : x \in w[1]..w[2]
<1>0. Len(l) \in Nat
  BY LenProperties
<1> DEFINE A == {i \in 1..x : i = 1 \/ l[i - 1] \in Blank}
           B == {j \in x..Len(l) : j = Len(l) \/ l[j + 1] \in Blank}
<1>1. PICK i \in A : \A y \in A : y <= i
  <2>1. 1 \in A /\ A \in SUBSET (1..x) /\ x \in Nat
    BY <1>0
  <2> HIDE DEF A
  <2> QED  BY <2>1, MaxOfNats
<1>2. PICK n \in B : \A y \in B : n <= y
  <2>1. Len(l) \in B /\ B \in SUBSET Nat
    BY <1>0
  <2> HIDE DEF B
  <2> QED  BY <2>1, MinOfNats
<1>3. i \in 1..x /\ n \in x..Len(l) /\ (i = 1 \/ l[i - 1] \in Blank) /\ (n = Len(l) \/ l[n + 1] \in Blank)
  OBVIOUS
<1>4. ASSUME NEW k \in i..n PROVE l[k] \notin Blank
  <2> SUFFICES ASSUME l[k] \in Blank PROVE FALSE
    OBVIOUS
  <2>1. CASE k < x
    <3>1. k + 1 \in 1..x /\ (k + 1) - 1 = k
      BY <1>0, <1>3, <2>1
    <3>2. k + 1 \in A
      BY <3>1
    <3> HIDE DEF A
    <3> QED  BY <1>1, <1>3, <3>2
  <2>2. CASE k > x
    <3>1. k - 1 \in x..Len(l) /\ (k - 1) + 1 = k
      BY <1>0, <1>3, <2>2
    <3>2. k - 1 \in B
      BY <3>1
    <3> HIDE DEF B
    <3> QED  BY <1>2, <1>3, <3>2
  <2> QED  BY <1>3, <2>1, <2>2
<1> HIDE DEF A, B
<1>5. <<i, n>> \in Runs(l) /\ x \in i..n
  <2>1. i \in 1..Len(l) /\ n \in i..Len(l) /\ x \in i..n
    BY <1>0, <1>3
  <2> QED  BY <1>3, <1>4, <2>1, IsRun
<1> QED  BY <1>5

\* A line's words are a, b and c, in this order.
Words(l, a, b, c) ==
  /\ Runs(l) = {a, b, c}
  /\ a[1] < b[1] /\ b[1] < c[1] /\ a[2] < b[1] /\ b[2] < c[1]

\* The n-th word is the run with n - 1 runs before it.
LEMMA RankedIs ==
  ASSUME NEW l \in Seq(Char), NEW n, NEW a \in Runs(l),
         \A w \in Runs(l) : Cardinality({v \in Runs(l) : v[1] < w[1]}) = n - 1 <=> w = a
  PROVE  Word(l, n) = SubSeq(l, a[1], a[2])
<1>1. (CHOOSE w \in Runs(l) : Cardinality({v \in Runs(l) : v[1] < w[1]}) = n - 1) = a
  <2> DEFINE R(w) == Cardinality({v \in Runs(l) : v[1] < w[1]}) = n - 1
  <2>1. \A w \in Runs(l) : R(w) <=> w = a
    OBVIOUS
  <2> HIDE DEF R
  <2>2. (CHOOSE w \in Runs(l) : R(w)) = a
    BY <2>1
  <2> QED  BY <2>2 DEF R
<1> QED  BY <1>1 DEF Word

\* The three words of a line that has three, and that they exist.
LEMMA WordsAre ==
  ASSUME NEW l \in Seq(Char), NEW a, NEW b, NEW c, Words(l, a, b, c)
  PROVE  /\ Cardinality(Runs(l)) = 3
         /\ Word(l, 1) = SubSeq(l, a[1], a[2]) /\ Word(l, 2) = SubSeq(l, b[1], b[2])
         /\ Word(l, 3) = SubSeq(l, c[1], c[2])
<1>0. Runs(l) = {a, b, c} /\ a \in Runs(l) /\ b \in Runs(l) /\ c \in Runs(l)
  BY DEF Words
<1>1. /\ a[1] \in Nat /\ b[1] \in Nat /\ c[1] \in Nat
      /\ a[1] < b[1] /\ b[1] < c[1]
  BY <1>0, RunIs DEF Words
<1>2. Cardinality({}) = 0 /\ Cardinality({a}) = 1 /\ IsFiniteSet({a})
  BY FS_EmptySet, FS_Singleton
<1>3. Cardinality({a} \cup {b}) = 2 /\ IsFiniteSet({a} \cup {b})
  <2>1. b \notin {a}
    BY <1>1
  <2>2. /\ IsFiniteSet({a} \cup {b})
        /\ Cardinality({a} \cup {b}) = IF b \in {a} THEN Cardinality({a}) ELSE Cardinality({a}) + 1
    BY <1>2, FS_AddElement, Zenon
  <2>3. Cardinality({a} \cup {b}) = 1 + 1
    BY <1>2, <2>1, <2>2, Zenon
  <2>4. 1 + 1 = 2
    OBVIOUS
  <2> QED  BY <2>2, <2>3, <2>4, Zenon
<1>4. Cardinality({a} \cup {b} \cup {c}) = 3
  <2> DEFINE S == {a} \cup {b}
  <2>1. c \notin S
    BY <1>1
  <2>2. IsFiniteSet(S) /\ Cardinality(S) = 2
    BY <1>3
  <2> HIDE DEF S
  <2>3. Cardinality(S \cup {c}) = IF c \in S THEN Cardinality(S) ELSE Cardinality(S) + 1
    BY <2>2, FS_AddElement, Zenon
  <2>4. Cardinality(S \cup {c}) = 3
    BY <2>1, <2>2, <2>3
  <2> QED  BY <2>4 DEF S
<1> DEFINE Below(w) == {v \in Runs(l) : v[1] < w[1]}
<1>5. Below(a) = {}
  BY <1>0, <1>1
<1>6. Below(b) = {a}
  BY <1>0, <1>1
<1>7. Below(c) = {a} \cup {b}
  BY <1>0, <1>1
<1>8. Cardinality(Below(a)) = 0 /\ Cardinality(Below(b)) = 1 /\ Cardinality(Below(c)) = 2
  BY <1>2, <1>3, <1>5, <1>6, <1>7
<1>9. /\ \A w \in Runs(l) : Cardinality(Below(w)) = 1 - 1 <=> w = a
      /\ \A w \in Runs(l) : Cardinality(Below(w)) = 2 - 1 <=> w = b
      /\ \A w \in Runs(l) : Cardinality(Below(w)) = 3 - 1 <=> w = c
  <2> HIDE DEF Below
  <2>1. a # b /\ b # c /\ a # c
    BY <1>1
  <2> QED  BY <1>0, <1>8, <2>1
<1>10. Word(l, 1) = SubSeq(l, a[1], a[2])
  BY <1>0, <1>9, RankedIs
<1>11. Word(l, 2) = SubSeq(l, b[1], b[2])
  BY <1>0, <1>9, RankedIs
<1>12. Word(l, 3) = SubSeq(l, c[1], c[2])
  BY <1>0, <1>9, RankedIs
<1>13. Cardinality(Runs(l)) = 3
  <2>1. Runs(l) = {a} \cup {b} \cup {c}
    BY <1>0
  <2> QED  BY <1>4, <2>1
<1> QED  BY <1>10, <1>11, <1>12, <1>13

\* The first of some words.
LEMMA FirstRun ==
  ASSUME NEW l \in Seq(Char), NEW T \in SUBSET Runs(l), T # {}
  PROVE  \E a \in T : \A w \in T \ {a} : a[2] < w[1] /\ a[1] < w[1]
<1> DEFINE B == {w[1] : w \in T}
<1>1. PICK n \in B : \A x \in B : n <= x
  <2>1. \A w \in Runs(l) : w[1] \in Nat
    BY RunIs
  <2>2. B \in SUBSET Nat /\ B # {}
    BY <2>1
  <2> HIDE DEF B
  <2> QED  BY <2>2, MinOfNats
<1>2. PICK a \in T : n = a[1]
  OBVIOUS
<1>3. ASSUME NEW w \in T \ {a} PROVE a[2] < w[1] /\ a[1] < w[1]
  <2>1. a[1] <= w[1]
    BY <1>1, <1>2
  <2>2. a[2] < w[1] \/ w[2] < a[1]
    BY RunsApart
  <2>3. a[1] \in Nat /\ w[1] \in Nat /\ w[2] \in Nat /\ w[1] <= w[2] /\ a[2] \in Nat /\ a[1] <= a[2]
    <3>1. /\ a[1] \in 1..Len(l) /\ a[2] \in a[1]..Len(l)
          /\ w[1] \in 1..Len(l) /\ w[2] \in w[1]..Len(l)
      BY RunIs
    <3> HIDE DEF B
    <3> QED  BY <3>1
  <2> HIDE DEF B
  <2> QED  BY <2>1, <2>2, <2>3
<1> QED  BY <1>3

LEMMA WordsExist ==
  ASSUME NEW l \in Seq(Char), Cardinality(Runs(l)) = 3
  PROVE  \E a, b, c : Words(l, a, b, c)
<1>1. IsFiniteSet(Runs(l))
  <2>1. IsFiniteSet(1..Len(l))
    BY FS_Interval, LenProperties
  <2>2. IsFiniteSet((1..Len(l)) \X (1..Len(l)))
    BY <2>1, FS_Product
  <2>3. Runs(l) \in SUBSET ((1..Len(l)) \X (1..Len(l)))
    BY LenProperties DEF Runs
  <2> QED  BY <2>2, <2>3, FS_Subset
<1>2. Runs(l) # {}
  BY <1>1, FS_EmptySet
<1>3. PICK a \in Runs(l) : \A w \in Runs(l) \ {a} : a[2] < w[1] /\ a[1] < w[1]
  BY <1>2, FirstRun
<1> DEFINE T == Runs(l) \ {a}
<1>4. IsFiniteSet(T) /\ Cardinality(T) = 2
  BY <1>1, FS_RemoveElement
<1>5. T # {} /\ T \in SUBSET Runs(l)
  BY <1>4, FS_EmptySet
<1>6. PICK b \in T : \A w \in T \ {b} : b[2] < w[1] /\ b[1] < w[1]
  <2> HIDE DEF T
  <2> QED  BY <1>5, FirstRun
<1> DEFINE U == T \ {b}
<1>7. IsFiniteSet(U) /\ Cardinality(U) = 1
  <2> HIDE DEF T
  <2> QED  BY <1>4, FS_RemoveElement
<1>8. PICK c : U = {c}
  <2> HIDE DEF U
  <2> QED  BY <1>7, FS_Singleton
<1>9. Runs(l) = {a, b, c} /\ b \in Runs(l) \ {a} /\ c \in T \ {b}
  BY <1>8
<1>10. Words(l, a, b, c)
  BY <1>3, <1>6, <1>9 DEF Words
<1> QED  BY <1>10

\* A request line's verb begins at v and ends before e, its path begins at p
\* and ends before q, and its version begins at s.
LineParts(l, v, e, p, q, s) ==
  /\ v \in Nat /\ e \in Nat /\ p \in Nat /\ q \in Nat /\ s \in Nat
  /\ 1 <= v /\ v < e /\ e < p /\ p < q /\ q < s /\ Len(l) = s + 7
  /\ Span(l, 1, v, Blank) /\ Span(l, v, e, Letter)
  /\ Span(l, e, p, Blank) /\ l[p] = "/" /\ Span(l, p, q, PathChar)
  /\ Span(l, q, s, Blank) /\ \A i \in 1..8 : l[s + i - 1] \in VersionLine[i]

\* Which characters the version has.
LEMMA VersionIs ==
  /\ \A i \in 1..8 : \A c \in VersionLine[i] : c \notin Blank \cup {CR, LF}
  /\ VersionLine[9] = {CR} /\ VersionLine[10] = {LF}
<1>1. ASSUME NEW i \in 1..8 PROVE \A c \in VersionLine[i] : c \notin Blank \cup {CR, LF}
  <2>1. \/ i = 1 \/ i = 2 \/ i = 3 \/ i = 4 \/ i = 5 \/ i = 6 \/ i = 7 \/ i = 8
    OBVIOUS
  <2>2. VersionLine[i] \subseteq {"H", "T", "P", "/", "1", ".", "0"}
    BY <2>1 DEF VersionLine
  <2>3. \A c \in {"H", "T", "P", "/", "1", ".", "0"} : c \notin Blank \cup {CR, LF}
    BY DEF Blank, CR, LF
  <2> QED  BY <2>2, <2>3
<1> QED  BY <1>1 DEF VersionLine

\* A request line's parts are its words.
LEMMA PartsAreWords ==
  ASSUME NEW l \in Seq(Char), NEW v, NEW e, NEW p, NEW q, NEW s, LineParts(l, v, e, p, q, s)
  PROVE  Words(l, <<v, e - 1>>, <<p, q - 1>>, <<s, s + 7>>)
<1>0. /\ Len(l) \in Nat /\ v \in Nat /\ e \in Nat /\ p \in Nat /\ q \in Nat /\ s \in Nat
      /\ 1 <= v /\ v < e /\ e < p /\ p < q /\ q < s /\ Len(l) = s + 7
  BY LenProperties DEF LineParts
<1>1. /\ \A k \in v..e - 1 : l[k] \notin Blank
      /\ \A k \in p..q - 1 : l[k] \notin Blank
  BY Apart DEF LineParts, Span
<1>2. \A k \in s..s + 7 : l[k] \notin Blank
  <2> SUFFICES ASSUME NEW k \in s..s + 7 PROVE l[k] \notin Blank
    OBVIOUS
  <2>1. k - s + 1 \in 1..8 /\ s + (k - s + 1) - 1 = k
    BY <1>0
  <2>2. l[k] \in VersionLine[k - s + 1]
    BY <2>1 DEF LineParts
  <2> QED  BY <2>1, <2>2, VersionIs
<1>3. /\ \A k \in 1..v - 1 : l[k] \in Blank
      /\ \A k \in e..p - 1 : l[k] \in Blank
      /\ \A k \in q..s - 1 : l[k] \in Blank
  BY DEF LineParts, Span
<1> DEFINE a == <<v, e - 1>>
           b == <<p, q - 1>>
           c == <<s, s + 7>>
<1>4. a \in Runs(l)
  <2>1. v \in 1..Len(l) /\ e - 1 \in v..Len(l) /\ (e - 1) + 1 = e
    BY <1>0
  <2>2. (v = 1 \/ v - 1 \in 1..v - 1) /\ e \in e..p - 1
    BY <1>0
  <2>3. (v = 1 \/ l[v - 1] \in Blank) /\ l[(e - 1) + 1] \in Blank
    BY <1>3, <2>1, <2>2
  <2> QED  BY <1>1, <2>1, <2>3, IsRun
<1>5. b \in Runs(l)
  <2>1. p \in 1..Len(l) /\ q - 1 \in p..Len(l) /\ (q - 1) + 1 = q
    BY <1>0
  <2>2. p - 1 \in e..p - 1 /\ q \in q..s - 1
    BY <1>0
  <2>3. l[p - 1] \in Blank /\ l[(q - 1) + 1] \in Blank
    BY <1>3, <2>1, <2>2
  <2> QED  BY <1>1, <2>1, <2>3, IsRun
<1>6. c \in Runs(l)
  <2>1. s \in 1..Len(l) /\ s + 7 \in s..Len(l)
    BY <1>0
  <2>2. s - 1 \in q..s - 1
    BY <1>0
  <2>3. l[s - 1] \in Blank
    BY <1>3, <2>2
  <2> QED  BY <1>0, <1>2, <2>1, <2>3, IsRun
<1>7. a[1] = v /\ a[2] = e - 1 /\ b[1] = p /\ b[2] = q - 1 /\ c[1] = s /\ c[2] = s + 7
  OBVIOUS
<1>8. ASSUME NEW w \in Runs(l) PROVE w = a \/ w = b \/ w = c
  <2>1. w[1] \in 1..Len(l) /\ w[2] \in w[1]..Len(l) /\ \A k \in w[1]..w[2] : l[k] \notin Blank
    BY RunIs
  <2>2. w[1] \in Nat /\ w[2] \in Nat /\ w[1] <= w[2] /\ 1 <= w[1] /\ w[1] <= s + 7 /\ l[w[1]] \notin Blank
    BY <1>0, <2>1
  <2>3. w[1] \notin 1..v - 1 /\ w[1] \notin e..p - 1 /\ w[1] \notin q..s - 1
    BY <1>3, <2>2
  <2>4. w[1] \in v..e - 1 \/ w[1] \in p..q - 1 \/ w[1] \in s..s + 7
    BY <1>0, <2>2, <2>3
  <2>5. /\ w = a \/ w[2] < a[1] \/ a[2] < w[1]
        /\ w = b \/ w[2] < b[1] \/ b[2] < w[1]
        /\ w = c \/ w[2] < c[1] \/ c[2] < w[1]
    <3> HIDE DEF a, b, c
    <3> QED  BY <1>4, <1>5, <1>6, RunsApart
  <2> HIDE DEF a, b, c
  <2> QED  BY <1>0, <1>7, <2>2, <2>4, <2>5, SMTT(40)
<1>9. Runs(l) = {a, b, c}
  <2> HIDE DEF a, b, c
  <2> QED  BY <1>4, <1>5, <1>6, <1>8
<1>10. v < p /\ p < s /\ e - 1 < p /\ q - 1 < s
  BY <1>0
<1>11. Words(l, a, b, c)
  <2> HIDE DEF a, b, c
  <2> QED  BY <1>7, <1>9, <1>10 DEF Words
<1> QED  BY <1>11

\* A line with these parts is a request line, and they are its words.
LEMMA PartsAreLine ==
  ASSUME NEW l \in Seq(Char), NEW v, NEW e, NEW p, NEW q, NEW s, LineParts(l, v, e, p, q, s)
  PROVE  /\ RequestLineOK(l)
         /\ Word(l, 1) = SubSeq(l, v, e - 1) /\ Word(l, 2) = SubSeq(l, p, q - 1)
         /\ Word(l, 3) = SubSeq(l, s, s + 7)
<1>0. /\ Len(l) \in Nat /\ v \in Nat /\ e \in Nat /\ p \in Nat /\ q \in Nat /\ s \in Nat
      /\ 1 <= v /\ v < e /\ e < p /\ p < q /\ q < s /\ Len(l) = s + 7
  BY LenProperties DEF LineParts
<1>1. /\ Cardinality(Runs(l)) = 3
      /\ Word(l, 1) = SubSeq(l, v, e - 1) /\ Word(l, 2) = SubSeq(l, p, q - 1)
      /\ Word(l, 3) = SubSeq(l, s, s + 7)
  <2> DEFINE a == <<v, e - 1>>
             b == <<p, q - 1>>
             c == <<s, s + 7>>
  <2>1. a[1] = v /\ a[2] = e - 1 /\ b[1] = p /\ b[2] = q - 1 /\ c[1] = s /\ c[2] = s + 7
    OBVIOUS
  <2>2. Words(l, a, b, c)
    BY PartsAreWords
  <2> HIDE DEF a, b, c
  <2> QED  BY <2>1, <2>2, WordsAre
<1>2. Over(SubSeq(l, v, e - 1), Letter)
  <2>1. v \in 1..Len(l) + 1 /\ e \in v..Len(l) + 1
    BY <1>0
  <2> QED  BY <2>1, OverPart DEF LineParts
<1>3. Over(SubSeq(l, p, q - 1), PathChar) /\ Head(SubSeq(l, p, q - 1)) = "/"
  <2>1. p \in 1..Len(l) + 1 /\ q \in p..Len(l) + 1 /\ p \in 1..Len(l) /\ q - 1 \in p..Len(l)
    BY <1>0
  <2>2. Over(SubSeq(l, p, q - 1), PathChar)
    BY <2>1, OverPart DEF LineParts
  <2>3. Head(SubSeq(l, p, q - 1)) = l[p]
    BY <2>1, HeadTailOfSubSeq
  <2> QED  BY <2>2, <2>3 DEF LineParts
<1>4. /\ Len(SubSeq(l, s, s + 7)) = 8
      /\ \A i \in 1..8 : SubSeq(l, s, s + 7)[i] \in VersionLine[i]
  <2>1. s \in 1..Len(l) /\ s + 7 \in s..Len(l) /\ s + 7 - s + 1 = 8
    BY <1>0
  <2>2. /\ Len(SubSeq(l, s, s + 7)) = s + 7 - s + 1
        /\ \A k \in 1..s + 7 - s + 1 : SubSeq(l, s, s + 7)[k] = l[s + k - 1]
    BY <2>1, PieceIs
  <2> QED  BY <2>1, <2>2 DEF LineParts
<1>5. l[Len(l)] \notin Blank
  <2>1. 8 \in 1..8 /\ s + 8 - 1 = Len(l)
    BY <1>0
  <2>2. l[Len(l)] \in VersionLine[8]
    BY <2>1 DEF LineParts
  <2> QED  BY <2>2, VersionIs
<1> QED  BY <1>1, <1>2, <1>3, <1>4, <1>5 DEF RequestLineOK

\* A request line has such parts.
LEMMA LineHasParts ==
  ASSUME NEW l \in Seq(Char), RequestLineOK(l)
  PROVE  \E v, e, p, q, s : LineParts(l, v, e, p, q, s)
<1>1. PICK a, b, c : Words(l, a, b, c)
  BY WordsExist DEF RequestLineOK
<1>2. Runs(l) = {a, b, c} /\ a \in Runs(l) /\ b \in Runs(l) /\ c \in Runs(l)
  BY <1>1 DEF Words
<1>3. /\ Word(l, 1) = SubSeq(l, a[1], a[2]) /\ Word(l, 2) = SubSeq(l, b[1], b[2])
      /\ Word(l, 3) = SubSeq(l, c[1], c[2])
  BY <1>1, WordsAre
<1>4. /\ a[1] \in 1..Len(l) /\ a[2] \in a[1]..Len(l)
      /\ b[1] \in 1..Len(l) /\ b[2] \in b[1]..Len(l)
      /\ c[1] \in 1..Len(l) /\ c[2] \in c[1]..Len(l)
  BY <1>2, RunIs
<1>a. Len(l) \in Nat
  BY LenProperties
<1> DEFINE v == a[1]
           e == a[2] + 1
           p == b[1]
           q == b[2] + 1
           s == c[1]
<1>5. /\ v \in Nat /\ e \in Nat /\ p \in Nat /\ q \in Nat /\ s \in Nat
      /\ 1 <= v /\ v < e /\ p < q /\ e <= p /\ q <= s /\ s <= c[2] /\ c[2] <= Len(l) /\ c[2] \in Nat
      /\ e - 1 = a[2] /\ q - 1 = b[2]
  <2>1. a[1] < b[1] /\ b[1] < c[1] /\ a[2] < b[1] /\ b[2] < c[1]
    BY <1>1 DEF Words
  <2>2. /\ a[1] \in Nat /\ b[1] \in Nat /\ c[1] \in Nat /\ a[2] \in Nat /\ b[2] \in Nat /\ c[2] \in Nat
        /\ 1 <= a[1] /\ a[1] <= a[2] /\ b[1] <= b[2] /\ c[1] <= c[2] /\ c[2] <= Len(l)
    BY <1>a, <1>4
  <2>3. a[1] \in Nat /\ a[2] \in Nat /\ b[1] \in Nat /\ a[1] <= a[2] /\ a[2] < b[1]
    BY <2>1, <2>2, Zenon
  <2>4. b[1] \in Nat /\ b[2] \in Nat /\ c[1] \in Nat /\ b[1] <= b[2] /\ b[2] < c[1]
    BY <2>1, <2>2, Zenon
  <2>5. e \in Nat /\ v < e /\ e <= p /\ e - 1 = a[2]
    BY <2>3
  <2>6. q \in Nat /\ p < q /\ q <= s /\ q - 1 = b[2]
    BY <2>4
  <2> QED  BY <2>2, <2>5, <2>6, Zenon
<1>6. (e <= Len(l) => l[e] \in Blank) /\ (q <= Len(l) => l[q] \in Blank)
  <2>1. (a[2] = Len(l) \/ l[a[2] + 1] \in Blank) /\ (b[2] = Len(l) \/ l[b[2] + 1] \in Blank)
    BY <1>2, RunIs
  <2> QED  BY <1>a, <1>5, <2>1
<1>7. \A k \in p..q - 1 : l[k] \notin Blank
  BY <1>2, <1>5, RunIs
<1>8. \A k \in s..c[2] : l[k] \notin Blank
  BY <1>2, RunIs
<1>9. e < p /\ q < s
  <2>1. p \in p..q - 1 /\ s \in s..c[2] /\ p <= Len(l) /\ s <= Len(l)
    BY <1>a, <1>5
  <2>2. l[p] \notin Blank /\ l[s] \notin Blank
    BY <1>7, <1>8, <2>1
  <2>3. e # p /\ q # s
    BY <1>6, <2>1, <2>2
  <2> HIDE DEF v, e, p, q, s
  <2> QED  BY <1>5, <2>3
<1>10. ASSUME NEW x \in 1..Len(l), l[x] \notin Blank
       PROVE  x \in v..e - 1 \/ x \in p..q - 1 \/ x \in s..c[2]
  BY <1>2, <1>5, <1>10, RunAt
<1>11. c[2] = Len(l)
  <2>1. Len(l) \in 1..Len(l)
    BY <1>a, <1>5
  <2>2. Len(l) \in v..e - 1 \/ Len(l) \in p..q - 1 \/ Len(l) \in s..c[2]
    BY <1>10, <2>1 DEF RequestLineOK
  <2> HIDE DEF v, e, p, q, s
  <2> QED  BY <1>a, <1>5, <1>9, <2>2
<1>12. Len(l) = s + 7
  <2>1. Len(SubSeq(l, c[1], c[2])) = c[2] - c[1] + 1
    BY <1>4, PieceIs
  <2>2. c[2] - c[1] + 1 = 8
    BY <1>3, <2>1 DEF RequestLineOK
  <2> QED  BY <1>5, <1>11, <2>2
<1>13. Span(l, v, e, Letter) /\ Span(l, p, q, PathChar) /\ l[p] = "/"
  <2>0. Over(SubSeq(l, a[1], a[2]), Letter) /\ Over(SubSeq(l, b[1], b[2]), PathChar)
    BY <1>3 DEF RequestLineOK
  <2>1. /\ \A k \in a[1]..a[2] : l[k] \in Letter
        /\ \A k \in b[1]..b[2] : l[k] \in PathChar
    BY <1>4, <2>0, PieceIs
  <2>2. Head(SubSeq(l, b[1], b[2])) = l[b[1]]
    BY <1>4, HeadTailOfSubSeq
  <2>3. l[p] = "/"
    BY <1>3, <2>2 DEF RequestLineOK
  <2> QED  BY <1>5, <2>1, <2>3 DEF Span
<1>14. Span(l, 1, v, Blank) /\ Span(l, e, p, Blank) /\ Span(l, q, s, Blank)
  <2>1. ASSUME NEW k \in Nat, k \in 1..v - 1 \/ k \in e..p - 1 \/ k \in q..s - 1
        PROVE  l[k] \in Blank
    <3> HIDE DEF v, e, p, q, s
    <3>1. k \in 1..Len(l) /\ k \notin v..e - 1 /\ k \notin p..q - 1 /\ k \notin s..c[2]
      BY <1>a, <1>5, <1>9, <2>1
    <3> QED  BY <1>10, <3>1
  <2> HIDE DEF v, e, p, q, s
  <2>2. /\ \A k \in 1..v - 1 : k \in Nat
        /\ \A k \in e..p - 1 : k \in Nat
        /\ \A k \in q..s - 1 : k \in Nat
    BY <1>5
  <2> QED  BY <2>1, <2>2 DEF Span
<1>15. \A i \in 1..8 : l[s + i - 1] \in VersionLine[i]
  <2>1. c[2] - c[1] + 1 = 8
    BY <1>5, <1>11, <1>12
  <2>2. \A i \in 1..c[2] - c[1] + 1 : SubSeq(l, c[1], c[2])[i] = l[c[1] + i - 1]
    <3>1. PICK n \in Nat, k \in Nat : n = c[1] /\ k = c[2] /\ n \in 1..Len(l) /\ k \in n..Len(l)
      BY <1>a, <1>4
    <3>2. n \in 1..Len(l) /\ k \in n..Len(l)
      BY <3>1
    <3>3. \A i \in 1..k - n + 1 : SubSeq(l, n, k)[i] = l[n + i - 1]
      BY <3>2, PieceIs
    <3> QED  BY <3>1, <3>3
  <2> QED  BY <1>3, <2>1, <2>2 DEF RequestLineOK
<1>16. LineParts(l, v, e, p, q, s)
  <2> HIDE DEF v, e, p, q, s
  <2> QED  BY <1>5, <1>9, <1>12, <1>13, <1>14, <1>15 DEF LineParts
<1> QED  BY <1>16
-----------------------------------------------------------------------------
(* The lines of a request, by the places of their parts in it.             *)

\* The request line's parts.
ReqParts(r, v, e, p, q, s) ==
  /\ v \in Nat /\ e \in Nat /\ p \in Nat /\ q \in Nat /\ s \in Nat
  /\ 1 <= v /\ v < e /\ e < p /\ p < q /\ q < s /\ s + 9 <= Len(r)
  /\ Span(r, 1, v, Blank) /\ Span(r, v, e, Letter)
  /\ Span(r, e, p, Blank) /\ r[p] = "/" /\ Span(r, p, q, PathChar)
  /\ Span(r, q, s, Blank) /\ \A i \in 1..10 : r[s + i - 1] \in VersionLine[i]

\* The parts of a header in the line from a to the break z.
HdrParts(r, a, f, c, g, z) ==
  /\ a \in Nat /\ f \in Nat /\ c \in Nat /\ g \in Nat /\ z \in Breaks(r)
  /\ 1 <= a /\ a <= f /\ f < c /\ c < g /\ g < z
  /\ Span(r, a, f, Blank) /\ r[f] \in FieldChar /\ Span(r, f, c, FieldChar \cup Blank)
  /\ r[c] = ":" /\ Span(r, c + 1, g, Blank)
  /\ r[g] \in ValueStart /\ Span(r, g, z, ValueChar)

\* Parts of a request line make up the first line, and a first line that
\* is as it should be has them.
LEMMA ReqIsLine ==
  ASSUME NEW r \in Seq(Char), NEW v, NEW e, NEW p, NEW q, NEW s, ReqParts(r, v, e, p, q, s)
  PROVE  /\ s + 8 \in Breaks(r) /\ FirstEnd(r) = s + 8
         /\ Line(r, s + 8) = SubSeq(r, 1, s + 7) /\ LineParts(Line(r, s + 8), v, e, p, q, s)
<1>0. /\ Len(r) \in Nat /\ v \in Nat /\ e \in Nat /\ p \in Nat /\ q \in Nat /\ s \in Nat
      /\ 1 <= v /\ v < e /\ e < p /\ p < q /\ q < s /\ s + 9 <= Len(r)
  BY LenProperties DEF ReqParts
<1>1. \A k \in s..s + 7 : r[k] # CR
  <2> SUFFICES ASSUME NEW k \in s..s + 7 PROVE r[k] # CR
    OBVIOUS
  <2>1. k - s + 1 \in 1..8 /\ k - s + 1 \in 1..10 /\ s + (k - s + 1) - 1 = k
    BY <1>0
  <2>2. r[k] \in VersionLine[k - s + 1]
    BY <2>1 DEF ReqParts
  <2> QED  BY <2>1, <2>2, VersionIs
<1>2. \A k \in 1..s + 7 : r[k] # CR
  <2> SUFFICES ASSUME NEW k \in 1..s + 7 PROVE r[k] # CR
    OBVIOUS
  <2>1. \/ k \in 1..v - 1 \/ k \in v..e - 1 \/ k \in e..p - 1 \/ k \in p..q - 1 \/ k \in q..s - 1
        \/ k \in s..s + 7
    BY <1>0
  <2>2. r[k] \in Blank \cup Letter \cup PathChar \/ k \in s..s + 7
    BY <2>1 DEF ReqParts, Span
  <2> QED  BY <1>1, <2>2, Apart
<1>3. s + 8 \in Breaks(r)
  <2>1. 9 \in 1..10 /\ 10 \in 1..10 /\ s + 9 - 1 = s + 8 /\ s + 10 - 1 = (s + 8) + 1
        /\ s + 8 \in 1..Len(r) - 1
    BY <1>0
  <2>2. r[s + 9 - 1] = CR /\ r[s + 10 - 1] = LF
    BY <2>1, VersionIs DEF ReqParts
  <2> QED  BY <2>1, <2>2 DEF Breaks
<1>4. \A k \in Breaks(r) : s + 8 <= k
  <2> SUFFICES ASSUME NEW k \in Breaks(r), ~(s + 8 <= k) PROVE FALSE
    OBVIOUS
  <2>1. k \in Nat \ {0} /\ r[k] = CR
    BY BreakIs
  <2>2. k \in 1..s + 7
    BY <1>0, <2>1
  <2> QED  BY <1>2, <2>1, <2>2
<1>5. Breaks(r) \subseteq Int
  BY BreakIs
<1>6. FirstEnd(r) = s + 8
  BY <1>3, <1>4, <1>5, MinOfSet DEF FirstEnd
<1>7. PICK z \in Breaks(r) : z = s + 8
  BY <1>3
<1>8. Line(r, z) = SubSeq(r, 1, z - 1)
  <2>1. 1 \in 1..z /\ Begins(r, 1)
    BY <1>0, <1>7 DEF Begins
  <2>2. \A k \in Breaks(r) : k < z => k < 1
    BY <1>4, <1>5, <1>7, <1>0
  <2> QED  BY <2>1, <2>2, LineIs
<1>9. z - 1 = s + 7 /\ z \in 1..Len(r) + 1 /\ 1 \in 1..Len(r) + 1
  BY <1>0, <1>7
<1> DEFINE l == SubSeq(r, 1, z - 1)
<1>10. Len(l) = z - 1 /\ \A k \in 1..z - 1 : l[k] = r[1 + k - 1]
  BY <1>0, <1>9, PartIs
<1>11. \A i, j \in 1..z : \A C : Span(l, i, j, C) <=> Span(r, i, j, C)
  <2> SUFFICES ASSUME NEW i \in 1..z, NEW j \in 1..z, NEW C
               PROVE  Span(l, i, j, C) <=> Span(r, i, j, C)
    OBVIOUS
  <2>1. z - 1 + 1 = z /\ 1 + i - 1 = i /\ 1 + j - 1 = j /\ i \in 1..z - 1 + 1 /\ j \in 1..z - 1 + 1
    BY <1>7, <1>0
  <2>2. Span(l, i, j, C) <=> Span(r, 1 + i - 1, 1 + j - 1, C)
    BY <1>9, <2>1, SpanPart
  <2> QED  BY <2>1, <2>2
<1> HIDE DEF l
<1>12. 1 \in 1..z /\ v \in 1..z /\ e \in 1..z /\ p \in 1..z /\ q \in 1..z /\ s \in 1..z
  BY <1>0, <1>7
<1>13. l[p] = "/"
  <2>1. p \in 1..z - 1 /\ 1 + p - 1 = p
    BY <1>0, <1>9
  <2> QED  BY <1>10, <2>1 DEF ReqParts
<1>14. \A i \in 1..8 : l[s + i - 1] \in VersionLine[i]
  <2> SUFFICES ASSUME NEW i \in 1..8 PROVE l[s + i - 1] \in VersionLine[i]
    OBVIOUS
  <2>1. i \in 1..10 /\ s + i - 1 \in 1..z - 1 /\ 1 + (s + i - 1) - 1 = s + i - 1
    BY <1>0, <1>9
  <2>2. l[s + i - 1] = r[s + i - 1]
    BY <1>10, <2>1
  <2> QED  BY <2>1, <2>2 DEF ReqParts
<1>15. /\ Span(l, 1, v, Blank) /\ Span(l, v, e, Letter) /\ Span(l, e, p, Blank)
       /\ Span(l, p, q, PathChar) /\ Span(l, q, s, Blank)
  BY <1>11, <1>12 DEF ReqParts
<1>16. LineParts(l, v, e, p, q, s)
  <2>1. Len(l) = s + 7
    BY <1>9, <1>10
  <2> QED  BY <1>0, <1>13, <1>14, <1>15, <2>1 DEF LineParts
<1> QED  BY <1>3, <1>6, <1>7, <1>8, <1>9, <1>16 DEF l

LEMMA LineIsReq ==
  ASSUME NEW r \in Seq(Char), Breaks(r) # {}, RequestLineOK(Line(r, FirstEnd(r)))
  PROVE  \E v, e, p, q, s : ReqParts(r, v, e, p, q, s) /\ FirstEnd(r) = s + 8
<1>1. PICK z \in Breaks(r) : z = FirstEnd(r) /\ \A k \in Breaks(r) : z <= k
  <2>1. Breaks(r) \in SUBSET Nat
    BY BreakIs
  <2> QED  BY <2>1, MinOfNats DEF FirstEnd
<1>2. z \in 1..Len(r) - 1 /\ r[z] = CR /\ r[z + 1] = LF /\ Len(r) \in Nat
  BY BreakIs, LenProperties
<1>3. Line(r, z) = SubSeq(r, 1, z - 1)
  <2>1. 1 \in 1..z /\ Begins(r, 1)
    BY <1>2 DEF Begins
  <2>2. \A k \in Breaks(r) : k < z => k < 1
    <3> SUFFICES ASSUME NEW k \in Breaks(r), k < z PROVE FALSE
      OBVIOUS
    <3>1. k \in Nat /\ z <= k
      BY <1>1, BreakIs
    <3> QED  BY <1>2, <3>1
  <2> QED  BY <2>1, <2>2, LineIs
<1> DEFINE l == SubSeq(r, 1, z - 1)
<1>4. z \in 1..Len(r) + 1 /\ 1 \in 1..Len(r) + 1
  BY <1>2
<1>5. l \in Seq(Char) /\ Len(l) = z - 1 /\ \A k \in 1..z - 1 : l[k] = r[1 + k - 1]
  BY <1>4, PartIs
<1>6. \A i, j \in 1..z : \A C : Span(l, i, j, C) <=> Span(r, i, j, C)
  <2> SUFFICES ASSUME NEW i \in 1..z, NEW j \in 1..z, NEW C
               PROVE  Span(l, i, j, C) <=> Span(r, i, j, C)
    OBVIOUS
  <2>1. z - 1 + 1 = z /\ 1 + i - 1 = i /\ 1 + j - 1 = j /\ i \in 1..z - 1 + 1 /\ j \in 1..z - 1 + 1
    BY <1>2
  <2>2. Span(l, i, j, C) <=> Span(r, 1 + i - 1, 1 + j - 1, C)
    BY <1>4, <2>1, SpanPart
  <2> QED  BY <2>1, <2>2
<1>7. RequestLineOK(l)
  BY <1>1, <1>3
<1> HIDE DEF l
<1>8. PICK v, e, p, q, s : LineParts(l, v, e, p, q, s)
  BY <1>5, <1>7, LineHasParts
<1>9. /\ v \in Nat /\ e \in Nat /\ p \in Nat /\ q \in Nat /\ s \in Nat
      /\ 1 <= v /\ v < e /\ e < p /\ p < q /\ q < s /\ z = s + 8
  <2>1. /\ v \in Nat /\ e \in Nat /\ p \in Nat /\ q \in Nat /\ s \in Nat
        /\ 1 <= v /\ v < e /\ e < p /\ p < q /\ q < s /\ Len(l) = s + 7
    BY <1>8 DEF LineParts
  <2> QED  BY <1>2, <1>5, <2>1
<1>10. 1 \in 1..z /\ v \in 1..z /\ e \in 1..z /\ p \in 1..z /\ q \in 1..z /\ s \in 1..z
  BY <1>9
<1>11. r[p] = "/"
  <2>1. p \in 1..z - 1 /\ 1 + p - 1 = p
    BY <1>9
  <2> QED  BY <1>5, <1>8, <2>1 DEF LineParts
<1>12. ASSUME NEW i \in 1..10 PROVE r[s + i - 1] \in VersionLine[i]
  <2>1. CASE i \in 1..8
    <3>1. s + i - 1 \in 1..z - 1 /\ 1 + (s + i - 1) - 1 = s + i - 1
      BY <1>9, <2>1
    <3>2. l[s + i - 1] = r[s + i - 1]
      BY <1>5, <3>1
    <3> QED  BY <1>8, <2>1, <3>2 DEF LineParts
  <2>2. CASE i = 9
    <3>1. s + i - 1 = z
      BY <1>9, <2>2
    <3> QED  BY <1>2, <2>2, <3>1, VersionIs
  <2>3. CASE i = 10
    <3>1. s + i - 1 = z + 1
      BY <1>9, <2>3
    <3> QED  BY <1>2, <2>3, <3>1, VersionIs
  <2> QED  BY <2>1, <2>2, <2>3
<1>13. /\ Span(r, 1, v, Blank) /\ Span(r, v, e, Letter) /\ Span(r, e, p, Blank)
       /\ Span(r, p, q, PathChar) /\ Span(r, q, s, Blank)
  <2>1. /\ Span(l, 1, v, Blank) /\ Span(l, v, e, Letter) /\ Span(l, e, p, Blank)
        /\ Span(l, p, q, PathChar) /\ Span(l, q, s, Blank)
    BY <1>8 DEF LineParts
  <2> QED  BY <1>6, <1>10, <2>1
<1>14. ReqParts(r, v, e, p, q, s)
  <2>1. s + 9 <= Len(r)
    BY <1>2, <1>9
  <2> QED  BY <1>9, <1>11, <1>12, <1>13, <2>1 DEF ReqParts
<1> QED  BY <1>1, <1>9, <1>14

\* The line from a to the break z, read by itself.
LEMMA LineShift ==
  ASSUME NEW r \in Seq(Char), NEW z \in Breaks(r), NEW a \in 1..z
  PROVE  /\ SubSeq(r, a, z - 1) \in Seq(Char) /\ Len(SubSeq(r, a, z - 1)) = z - a
         /\ \A k \in a..z - 1 : SubSeq(r, a, z - 1)[k - a + 1] = r[k]
         /\ \A i, j \in a..z : \A C :
              Span(SubSeq(r, a, z - 1), i - a + 1, j - a + 1, C) <=> Span(r, i, j, C)
<1>1. z \in 1..Len(r) - 1 /\ Len(r) \in Nat /\ a \in 1..Len(r) + 1 /\ z \in a..Len(r) + 1
  BY BreakIs, LenProperties
<1>2. /\ SubSeq(r, a, z - 1) \in Seq(Char) /\ Len(SubSeq(r, a, z - 1)) = z - a
      /\ \A k \in 1..z - a : SubSeq(r, a, z - 1)[k] = r[a + k - 1]
  BY <1>1, PartIs
<1>3. ASSUME NEW k \in a..z - 1 PROVE SubSeq(r, a, z - 1)[k - a + 1] = r[k]
  <2>1. k - a + 1 \in 1..z - a /\ a + (k - a + 1) - 1 = k
    BY <1>1
  <2> QED  BY <1>2, <2>1
<1>4. ASSUME NEW i \in a..z, NEW j \in a..z, NEW C
      PROVE  Span(SubSeq(r, a, z - 1), i - a + 1, j - a + 1, C) <=> Span(r, i, j, C)
  <2>1. /\ i - a + 1 \in 1..z - a + 1 /\ j - a + 1 \in 1..z - a + 1
        /\ a + (i - a + 1) - 1 = i /\ a + (j - a + 1) - 1 = j
    BY <1>1
  <2>2. Span(SubSeq(r, a, z - 1), i - a + 1, j - a + 1, C)
          <=> Span(r, a + (i - a + 1) - 1, a + (j - a + 1) - 1, C)
    BY <1>1, <2>1, SpanPart
  <2> QED  BY <2>1, <2>2
<1> QED  BY <1>2, <1>3, <1>4

\* No end of line stands among the parts of a header.
LEMMA HdrUnbroken ==
  ASSUME NEW r \in Seq(Char), NEW a, NEW f, NEW c, NEW g, NEW z, HdrParts(r, a, f, c, g, z)
  PROVE  \A k \in a..z - 1 : r[k] # CR
<1>0. /\ a \in Nat /\ f \in Nat /\ c \in Nat /\ g \in Nat /\ z \in Nat
      /\ 1 <= a /\ a <= f /\ f < c /\ c < g /\ g < z
  BY BreakIs DEF HdrParts
<1> SUFFICES ASSUME NEW k \in a..z - 1 PROVE r[k] # CR
  OBVIOUS
<1>1. k \in a..f - 1 \/ k \in f..c - 1 \/ k = c \/ k \in c + 1..g - 1 \/ k \in g..z - 1
  BY <1>0
<1>2. r[k] \in FieldChar \cup ValueChar \cup Blank \cup {":"}
  BY <1>1 DEF HdrParts, Span
<1> QED  BY <1>2, Apart

\* The break z ends the line that begins at a.
Lines(r, a, z) == z \in Breaks(r) /\ a \in 1..z /\ Begins(r, a) /\ \A k \in Breaks(r) : k < z => k < a

\* The same of a header line.
LEMMA HdrIsLine ==
  ASSUME NEW r \in Seq(Char), NEW a, NEW z, Lines(r, a, z),
         NEW f, NEW c, NEW g, HdrParts(r, a, f, c, g, z)
  PROVE  /\ HeaderLineOK(Line(r, z)) /\ Line(r, z) = SubSeq(r, a, z - 1)
         /\ HeaderParts(Line(r, z), f - a + 1, c - a + 1, g - a + 1)
<1>0. /\ a \in Nat /\ f \in Nat /\ c \in Nat /\ g \in Nat /\ z \in Nat
      /\ 1 <= a /\ a <= f /\ f < c /\ c < g /\ g < z
  BY BreakIs DEF HdrParts
<1>1. z \in Breaks(r) /\ a \in 1..z /\ Line(r, z) = SubSeq(r, a, z - 1)
  BY LineIs DEF Lines
<1> DEFINE l == SubSeq(r, a, z - 1)
<1>2. /\ l \in Seq(Char) /\ Len(l) = z - a
      /\ \A k \in a..z - 1 : l[k - a + 1] = r[k]
      /\ \A i, j \in a..z : \A C : Span(l, i - a + 1, j - a + 1, C) <=> Span(r, i, j, C)
  BY <1>1, LineShift
<1> HIDE DEF l
<1>3. /\ f - a + 1 \in Nat /\ c - a + 1 \in Nat /\ g - a + 1 \in Nat
      /\ 1 <= f - a + 1 /\ f - a + 1 < c - a + 1 /\ c - a + 1 < g - a + 1 /\ g - a + 1 <= Len(l)
      /\ a - a + 1 = 1 /\ (c + 1) - a + 1 = (c - a + 1) + 1 /\ z - a + 1 = Len(l) + 1
  BY <1>0, <1>2
<1>4. /\ a \in a..z /\ f \in a..z /\ c \in a..z /\ c + 1 \in a..z /\ g \in a..z /\ z \in a..z
      /\ f \in a..z - 1 /\ c \in a..z - 1 /\ g \in a..z - 1
  BY <1>0
<1>5. l[f - a + 1] = r[f] /\ l[c - a + 1] = r[c] /\ l[g - a + 1] = r[g]
  BY <1>2, <1>4
<1>6. /\ Span(l, a - a + 1, f - a + 1, Blank) /\ Span(l, f - a + 1, c - a + 1, FieldChar \cup Blank)
      /\ Span(l, (c + 1) - a + 1, g - a + 1, Blank) /\ Span(l, g - a + 1, z - a + 1, ValueChar)
  BY <1>2, <1>4 DEF HdrParts
<1>7. HeaderParts(l, f - a + 1, c - a + 1, g - a + 1)
  BY <1>3, <1>5, <1>6 DEF HeaderParts, HdrParts
<1>8. HeaderLineOK(l)
  BY <1>2, <1>3, <1>7, PartsAreHeader
<1> QED  BY <1>1, <1>7, <1>8 DEF l

LEMMA LineIsHdr ==
  ASSUME NEW r \in Seq(Char), NEW a, NEW z, Lines(r, a, z), HeaderLineOK(Line(r, z))
  PROVE  \E f, c, g : HdrParts(r, a, f, c, g, z)
<1>1. /\ z \in Breaks(r) /\ a \in 1..z /\ Line(r, z) = SubSeq(r, a, z - 1)
      /\ z \in Nat /\ a \in Nat
  BY LineIs, BreakIs DEF Lines
<1> DEFINE l == SubSeq(r, a, z - 1)
<1>2. /\ l \in Seq(Char) /\ Len(l) = z - a
      /\ \A k \in a..z - 1 : l[k - a + 1] = r[k]
      /\ \A i, j \in a..z : \A C : Span(l, i - a + 1, j - a + 1, C) <=> Span(r, i, j, C)
  BY <1>1, LineShift
<1>3. HeaderLineOK(l)
  BY <1>1
<1> HIDE DEF l
<1>4. PICK ff \in Nat, cc \in Nat, gg \in Nat : HeaderParts(l, ff, cc, gg)
  BY <1>2, <1>3, HeaderHasParts
<1>5. 1 <= ff /\ ff < cc /\ cc < gg /\ gg <= z - a
  BY <1>2, <1>4 DEF HeaderParts
<1> DEFINE f == ff + a - 1
           c == cc + a - 1
           g == gg + a - 1
<1>6. /\ f \in Nat /\ c \in Nat /\ g \in Nat /\ 1 <= a /\ a <= f /\ f < c /\ c < g /\ g < z
      /\ f - a + 1 = ff /\ c - a + 1 = cc /\ g - a + 1 = gg
      /\ a - a + 1 = 1 /\ (c + 1) - a + 1 = cc + 1 /\ z - a + 1 = Len(l) + 1
  BY <1>1, <1>2, <1>5
<1> HIDE DEF f, c, g
<1>7. /\ a \in a..z /\ f \in a..z /\ c \in a..z /\ c + 1 \in a..z /\ g \in a..z /\ z \in a..z
      /\ f \in a..z - 1 /\ c \in a..z - 1 /\ g \in a..z - 1
  BY <1>1, <1>6
<1>8. l[ff] = r[f] /\ l[cc] = r[c] /\ l[gg] = r[g]
  BY <1>2, <1>6, <1>7
<1>9. /\ Span(l, 1, ff, Blank) <=> Span(r, a, f, Blank)
      /\ Span(l, ff, cc, FieldChar \cup Blank) <=> Span(r, f, c, FieldChar \cup Blank)
      /\ Span(l, cc + 1, gg, Blank) <=> Span(r, c + 1, g, Blank)
      /\ Span(l, gg, Len(l) + 1, ValueChar) <=> Span(r, g, z, ValueChar)
  <2>1. Span(l, a - a + 1, f - a + 1, Blank) <=> Span(r, a, f, Blank)
    BY <1>2, <1>7
  <2>2. Span(l, f - a + 1, c - a + 1, FieldChar \cup Blank) <=> Span(r, f, c, FieldChar \cup Blank)
    BY <1>2, <1>7
  <2>3. Span(l, (c + 1) - a + 1, g - a + 1, Blank) <=> Span(r, c + 1, g, Blank)
    BY <1>2, <1>7
  <2>4. Span(l, g - a + 1, z - a + 1, ValueChar) <=> Span(r, g, z, ValueChar)
    BY <1>2, <1>7
  <2> QED  BY <1>6, <2>1, <2>2, <2>3, <2>4
<1>10. HdrParts(r, a, f, c, g, z)
  BY <1>1, <1>4, <1>6, <1>8, <1>9 DEF HeaderParts, HdrParts
<1> QED  BY <1>10

\* A blank line is not a header's.
LEMMA BlankIsLine ==
  ASSUME NEW r \in Seq(Char), NEW a, NEW z, Lines(r, a, z)
  PROVE  /\ Over(Line(r, z), Blank) <=> Span(r, a, z, Blank)
         /\ HeaderLineOK(Line(r, z)) => ~Over(Line(r, z), Blank)
<1>1. /\ z \in Breaks(r) /\ a \in 1..z /\ Line(r, z) = SubSeq(r, a, z - 1)
      /\ a \in 1..Len(r) + 1 /\ z \in a..Len(r) + 1
  BY LineIs, BreakIs, LenProperties DEF Lines
<1>2. Over(Line(r, z), Blank) <=> Span(r, a, z, Blank)
  BY <1>1, OverPart
<1>3. HeaderLineOK(Line(r, z)) => ~Over(Line(r, z), Blank)
  BY Apart DEF HeaderLineOK, Over
<1> QED  BY <1>2, <1>3
-----------------------------------------------------------------------------
(* What the parser has read before place n.                                *)

VerbTo(r, v, n) ==
  v \in Nat /\ n \in Nat /\ 1 <= v /\ v < n /\ Span(r, 1, v, Blank) /\ Span(r, v, n, Letter)
GapTo(r, v, e, n) ==
  VerbTo(r, v, e) /\ n \in Nat /\ e < n /\ Span(r, e, n, Blank)
PathTo(r, v, e, p, n) ==
  GapTo(r, v, e, p) /\ n \in Nat /\ p < n /\ r[p] = "/" /\ Span(r, p, n, PathChar)
LineTo(r, v, e, p, q, n) ==
  PathTo(r, v, e, p, q) /\ n \in Nat /\ q < n /\ Span(r, q, n, Blank)

\* The request line and the header lines before place a, where a line begins.
HeadersTo(r, a) ==
  /\ Breaks(r) # {} /\ RequestLineOK(Line(r, FirstEnd(r)))
  /\ a \in Nat /\ a - 2 \in Breaks(r) /\ FirstEnd(r) < a
  /\ \A b \in Breaks(r) : FirstEnd(r) < b /\ b < a => HeaderLineOK(Line(r, b))

FieldTo(r, a, f, n) ==
  /\ a \in Nat /\ f \in Nat /\ n \in Nat /\ 1 <= a /\ a <= f /\ f < n
  /\ Span(r, a, f, Blank) /\ r[f] \in FieldChar /\ Span(r, f, n, FieldChar \cup Blank)
ColonTo(r, a, f, c, n) ==
  FieldTo(r, a, f, c) /\ n \in Nat /\ c < n /\ r[c] = ":" /\ Span(r, c + 1, n, Blank)
ValueTo(r, a, f, c, g, n) ==
  ColonTo(r, a, f, c, g) /\ n \in Nat /\ g < n /\ r[g] \in ValueStart /\ Span(r, g, n, ValueChar)

\* The request has nothing of C at place n.
Stops(r, n, C) == n > Len(r) \/ r[n] \notin C

\* A span ends where the next character is none of it, however far it was read.
LEMMA Meets ==
  ASSUME NEW r \in Seq(Char), NEW C, NEW i \in Nat, NEW j \in Nat, NEW n \in Nat,
         i <= j, i <= n, j <= Len(r), Span(r, i, j, C), Span(r, i, n, C),
         r[j] \notin C, Stops(r, n, C)
  PROVE  j = n
<1>0. Len(r) \in Nat
  BY LenProperties
<1>1. ~(j < n)
  <2> SUFFICES ASSUME j < n PROVE FALSE
    OBVIOUS
  <2>1. j \in i..n - 1
    OBVIOUS
  <2> QED  BY <2>1 DEF Span
<1>2. ~(n < j)
  <2> SUFFICES ASSUME n < j PROVE FALSE
    OBVIOUS
  <2>1. n \in i..j - 1 /\ ~(n > Len(r))
    BY <1>0
  <2> QED  BY <2>1 DEF Span, Stops
<1> QED  BY <1>1, <1>2

\* The parts of a well formed request's first line.
LEMMA FormedLine ==
  ASSUME NEW r \in Seq(Char), WellFormed(r)
  PROVE  \E v, e, p, q, s : ReqParts(r, v, e, p, q, s) /\ FirstEnd(r) = s + 8
BY LineIsReq DEF WellFormed

\* The places of a request line's parts, in order and apart.
LEMMA ReqPlaces ==
  ASSUME NEW r \in Seq(Char), NEW v, NEW e, NEW p, NEW q, NEW s, ReqParts(r, v, e, p, q, s)
  PROVE  /\ v \in Nat /\ e \in Nat /\ p \in Nat /\ q \in Nat /\ s \in Nat
         /\ 1 <= v /\ v < e /\ e < p /\ p < q /\ q < s /\ s + 9 <= Len(r) /\ Len(r) \in Nat
         /\ r[v] \in Letter /\ r[v] \notin Blank /\ r[e] \in Blank /\ r[e] \notin Letter
         /\ r[p] = "/" /\ r[p] \notin Blank /\ r[q] \in Blank /\ r[q] \notin PathChar
         /\ r[s] \notin Blank
<1>0. /\ Len(r) \in Nat /\ v \in Nat /\ e \in Nat /\ p \in Nat /\ q \in Nat /\ s \in Nat
      /\ 1 <= v /\ v < e /\ e < p /\ p < q /\ q < s /\ s + 9 <= Len(r)
  BY LenProperties DEF ReqParts
<1>1. v \in v..e - 1 /\ e \in e..p - 1 /\ p \in p..q - 1 /\ q \in q..s - 1 /\ 1 \in 1..8 /\ 1 \in 1..10 /\ s + 1 - 1 = s
  BY <1>0
<1>2. r[v] \in Letter /\ r[e] \in Blank /\ r[p] = "/" /\ r[p] \in PathChar /\ r[q] \in Blank /\ r[s] \in VersionLine[1]
  BY <1>1 DEF ReqParts, Span
<1>3. r[s] \notin Blank
  BY <1>1, <1>2, VersionIs
<1> QED  BY <1>0, <1>2, <1>3, Apart

\* The parser stops where no verb can begin.
LEMMA VerbErr ==
  ASSUME NEW r \in Seq(Char), NEW n \in Nat, 1 <= n, Span(r, 1, n, Blank),
         Stops(r, n, Blank \cup Letter)
  PROVE  ~WellFormed(r)
<1> SUFFICES ASSUME WellFormed(r) PROVE FALSE
  OBVIOUS
<1>1. PICK v, e, p, q, s : ReqParts(r, v, e, p, q, s)
  BY FormedLine
<1>2. v \in Nat /\ 1 <= v /\ v <= Len(r) /\ r[v] \in Letter /\ r[v] \notin Blank
  BY <1>1, ReqPlaces
<1>3. v = n
  <2>1. Span(r, 1, v, Blank) /\ Stops(r, n, Blank)
    BY <1>1 DEF ReqParts, Stops
  <2> QED  BY <1>2, <2>1, Meets
<1> QED  BY <1>2, <1>3, LenProperties DEF Stops

\* What was read of a request line is what the request line has.
LEMMA SameVerb ==
  ASSUME NEW r \in Seq(Char), NEW v, NEW e, NEW p, NEW q, NEW s, ReqParts(r, v, e, p, q, s),
         NEW w, NEW n, VerbTo(r, w, n), Stops(r, n, Letter)
  PROVE  v = w /\ e = n
<1>0. /\ v \in Nat /\ e \in Nat /\ 1 <= v /\ v < e /\ v <= Len(r) /\ e <= Len(r)
      /\ r[v] \notin Blank /\ r[e] \notin Letter
  BY ReqPlaces
<1>1. w \in Nat /\ n \in Nat /\ 1 <= w /\ w < n /\ w \in w..n - 1
  BY DEF VerbTo
<1>2. v = w
  <2>1. r[w] \in Letter
    BY <1>1 DEF VerbTo, Span
  <2>2. Stops(r, w, Blank) /\ Span(r, 1, v, Blank) /\ Span(r, 1, w, Blank)
    BY <2>1, Apart DEF Stops, VerbTo, ReqParts
  <2> QED  BY <1>0, <1>1, <2>2, Meets
<1>3. e = n
  <2>1. Span(r, v, e, Letter) /\ Span(r, v, n, Letter) /\ v <= e /\ v <= n
    BY <1>0, <1>1, <1>2 DEF VerbTo, ReqParts
  <2> QED  BY <1>0, <1>1, <2>1, Meets
<1> QED  BY <1>2, <1>3

LEMMA SameGap ==
  ASSUME NEW r \in Seq(Char), NEW v, NEW e, NEW p, NEW q, NEW s, ReqParts(r, v, e, p, q, s),
         NEW w, NEW d, NEW n, GapTo(r, w, d, n), Stops(r, n, Blank)
  PROVE  v = w /\ e = d /\ p = n
<1>0. e \in Nat /\ p \in Nat /\ e < p /\ p <= Len(r) /\ r[p] \notin Blank
  BY ReqPlaces
<1>1. VerbTo(r, w, d) /\ d \in Nat /\ n \in Nat /\ d < n /\ d \in d..n - 1
  BY DEF GapTo, VerbTo
<1>2. v = w /\ e = d
  <2>1. r[d] \in Blank
    BY <1>1 DEF GapTo, Span
  <2>2. Stops(r, d, Letter)
    BY <2>1, Apart DEF Stops
  <2> QED  BY <1>1, <2>2, SameVerb
<1>3. p = n
  <2>1. Span(r, e, p, Blank) /\ Span(r, e, n, Blank) /\ e <= p /\ e <= n
    BY <1>0, <1>1, <1>2 DEF GapTo, ReqParts
  <2> QED  BY <1>0, <1>1, <2>1, Meets
<1> QED  BY <1>2, <1>3

LEMMA SamePath ==
  ASSUME NEW r \in Seq(Char), NEW v, NEW e, NEW p, NEW q, NEW s, ReqParts(r, v, e, p, q, s),
         NEW w, NEW d, NEW o, NEW n, PathTo(r, w, d, o, n), Stops(r, n, PathChar)
  PROVE  v = w /\ e = d /\ p = o /\ q = n
<1>0. p \in Nat /\ q \in Nat /\ p < q /\ q <= Len(r) /\ r[q] \notin PathChar
  BY ReqPlaces
<1>1. GapTo(r, w, d, o) /\ o \in Nat /\ n \in Nat /\ o < n /\ o \in o..n - 1
  BY DEF PathTo, GapTo
<1>2. v = w /\ e = d /\ p = o
  <2>1. r[o] \in PathChar
    BY <1>1 DEF PathTo, Span
  <2>2. Stops(r, o, Blank)
    BY <2>1, Apart DEF Stops
  <2> QED  BY <1>1, <2>2, SameGap
<1>3. q = n
  <2>1. Span(r, p, q, PathChar) /\ Span(r, p, n, PathChar) /\ p <= q /\ p <= n
    BY <1>0, <1>1, <1>2 DEF PathTo, ReqParts
  <2> QED  BY <1>0, <1>1, <2>1, Meets
<1> QED  BY <1>2, <1>3

LEMMA SameLine ==
  ASSUME NEW r \in Seq(Char), NEW v, NEW e, NEW p, NEW q, NEW s, ReqParts(r, v, e, p, q, s),
         NEW w, NEW d, NEW o, NEW t, NEW n, LineTo(r, w, d, o, t, n), Stops(r, n, Blank)
  PROVE  v = w /\ e = d /\ p = o /\ q = t /\ s = n
<1>0. q \in Nat /\ s \in Nat /\ q < s /\ s <= Len(r) /\ r[s] \notin Blank
  BY ReqPlaces
<1>1. PathTo(r, w, d, o, t) /\ t \in Nat /\ n \in Nat /\ t < n /\ t \in t..n - 1
  BY DEF LineTo, PathTo
<1>2. v = w /\ e = d /\ p = o /\ q = t
  <2>1. r[t] \in Blank
    BY <1>1 DEF LineTo, Span
  <2>2. Stops(r, t, PathChar)
    BY <2>1, Apart DEF Stops
  <2> QED  BY <1>1, <2>2, SamePath
<1>3. s = n
  <2>1. Span(r, q, s, Blank) /\ Span(r, q, n, Blank) /\ q <= s /\ q <= n
    BY <1>0, <1>1, <1>2 DEF LineTo, ReqParts
  <2> QED  BY <1>0, <1>1, <2>1, Meets
<1> QED  BY <1>2, <1>3

\* A request line that breaks off, or goes on with what it may not have there,
\* is none.
LEMMA LineErr ==
  ASSUME NEW r \in Seq(Char), NEW n, NEW w, NEW d, NEW o, NEW t,
         \/ VerbTo(r, w, n) /\ Stops(r, n, Letter \cup Blank)
         \/ GapTo(r, w, d, n) /\ Stops(r, n, Blank \cup {"/"})
         \/ PathTo(r, w, d, o, n) /\ Stops(r, n, PathChar \cup Blank)
         \/ /\ LineTo(r, w, d, o, t, n) /\ Stops(r, n, Blank)
            /\ ~(n + 9 <= Len(r) /\ \A i \in 1..10 : r[n + i - 1] \in VersionLine[i])
  PROVE  ~WellFormed(r)
<1> SUFFICES ASSUME WellFormed(r) PROVE FALSE
  OBVIOUS
<1>1. PICK v, e, p, q, s : ReqParts(r, v, e, p, q, s)
  BY FormedLine
<1>2. /\ e \in Nat /\ p \in Nat /\ q \in Nat /\ Len(r) \in Nat
      /\ e <= Len(r) /\ p <= Len(r) /\ q <= Len(r)
      /\ r[e] \in Blank /\ r[p] = "/" /\ r[q] \in Blank
  BY <1>1, ReqPlaces
<1>3. CASE VerbTo(r, w, n) /\ Stops(r, n, Letter \cup Blank)
  <2>1. Stops(r, n, Letter)
    BY <1>3 DEF Stops
  <2>2. e = n
    BY <1>1, <1>3, <2>1, SameVerb
  <2> QED  BY <1>2, <1>3, <2>2 DEF Stops
<1>4. CASE GapTo(r, w, d, n) /\ Stops(r, n, Blank \cup {"/"})
  <2>1. Stops(r, n, Blank)
    BY <1>4 DEF Stops
  <2>2. p = n
    BY <1>1, <1>4, <2>1, SameGap
  <2> QED  BY <1>2, <1>4, <2>2 DEF Stops
<1>5. CASE PathTo(r, w, d, o, n) /\ Stops(r, n, PathChar \cup Blank)
  <2>1. Stops(r, n, PathChar)
    BY <1>5 DEF Stops
  <2>2. q = n
    BY <1>1, <1>5, <2>1, SamePath
  <2> QED  BY <1>2, <1>5, <2>2 DEF Stops
<1>6. CASE /\ LineTo(r, w, d, o, t, n) /\ Stops(r, n, Blank)
           /\ ~(n + 9 <= Len(r) /\ \A i \in 1..10 : r[n + i - 1] \in VersionLine[i])
  <2>1. s = n
    BY <1>1, <1>6, SameLine
  <2>2. s + 9 <= Len(r) /\ \A i \in 1..10 : r[s + i - 1] \in VersionLine[i]
    BY <1>1 DEF ReqParts
  <2> QED  BY <1>6, <2>1, <2>2
<1> QED  BY <1>3, <1>4, <1>5, <1>6

\* The next line of a well formed request: blank, or a header's.
LEMMA NextLine ==
  ASSUME NEW r \in Seq(Char), WellFormed(r), NEW a, HeadersTo(r, a)
  PROVE  \E z : /\ Lines(r, a, z)
                /\ Span(r, a, z, Blank) \/ \E f, c, g : HdrParts(r, a, f, c, g, z)
<1> DEFINE o == FirstEnd(r)
<1>0. /\ Breaks(r) \in SUBSET Nat /\ a \in Nat /\ o \in Nat /\ o < a /\ a - 2 \in Breaks(r)
      /\ \A k \in Breaks(r) : o <= k
  <2>1. Breaks(r) \in SUBSET Nat /\ Breaks(r) # {}
    BY BreakIs DEF HeadersTo
  <2>2. o \in Breaks(r) /\ \A k \in Breaks(r) : o <= k
    BY <2>1, MinOfNats DEF FirstEnd
  <2> QED  BY <2>1, <2>2 DEF HeadersTo
<1>1. PICK m \in BlankLines(r) : m = Min(BlankLines(r)) /\ \A k \in BlankLines(r) : m <= k
  <2>1. BlankLines(r) \in SUBSET Nat /\ BlankLines(r) # {}
    BY <1>0 DEF BlankLines, WellFormed
  <2> QED  BY <2>1, MinOfNats
<1>2. m \in Breaks(r) /\ m \in Nat /\ m # o /\ o < m /\ Over(Line(r, m), Blank)
  <2>1. m \in Breaks(r) /\ m # o /\ Over(Line(r, m), Blank)
    BY DEF BlankLines
  <2>2. m \in Nat /\ o <= m
    BY <1>0, <2>1
  <2> HIDE DEF o
  <2> QED  BY <1>0, <2>1, <2>2
<1>3. a <= m
  <2>1. ~HeaderLineOK(Line(r, m))
    BY <1>2, Apart DEF HeaderLineOK, Over
  <2>2. ~(o < m /\ m < a)
    BY <1>2, <2>1 DEF HeadersTo
  <2> HIDE DEF o
  <2> QED  BY <1>0, <1>2, <2>2
<1> DEFINE Z == {b \in Breaks(r) : a <= b}
<1>4. PICK z \in Z : \A k \in Z : z <= k
  <2>1. m \in Z /\ Z \in SUBSET Nat
    BY <1>0, <1>2, <1>3
  <2> HIDE DEF Z
  <2> QED  BY <2>1, MinOfNats
<1>5. z \in Breaks(r) /\ a <= z /\ z \in Nat /\ z <= m /\ \A k \in Breaks(r) : k < z => k < a
  <2>1. z \in Breaks(r) /\ a <= z /\ z <= m /\ z \in Nat
    BY <1>0, <1>2, <1>3, <1>4
  <2>2. \A k \in Breaks(r) : k < z => k < a
    <3> SUFFICES ASSUME NEW k \in Breaks(r), k < z, ~(k < a) PROVE FALSE
      OBVIOUS
    <3>1. k \in Nat /\ a <= k
      BY <1>0
    <3>2. z <= k
      BY <1>4, <3>1
    <3> QED  BY <2>1, <3>1, <3>2
  <2> QED  BY <2>1, <2>2
<1>6. Lines(r, a, z)
  <2>1. a \in 1..z
    BY <1>0, <1>5
  <2> QED  BY <1>0, <1>5, <2>1 DEF Lines, Begins
<1>7. CASE z = m
  BY <1>2, <1>6, <1>7, BlankIsLine
<1>8. CASE z # m
  <2>1. o < z /\ z < m
    <3> HIDE DEF o, Z
    <3> QED  BY <1>0, <1>2, <1>5, <1>8
  <2>2. z \in HeaderEnds(r)
    BY <1>1, <1>5, <2>1 DEF HeaderEnds
  <2>3. HeaderLineOK(Line(r, z))
    BY <2>2 DEF WellFormed
  <2> QED  BY <1>6, <2>3, LineIsHdr
<1> QED  BY <1>6, <1>7, <1>8

\* The places of a header's parts, in order and apart.
LEMMA HdrPlaces ==
  ASSUME NEW r \in Seq(Char), NEW a, NEW f, NEW c, NEW g, NEW z, HdrParts(r, a, f, c, g, z)
  PROVE  /\ a \in Nat /\ f \in Nat /\ c \in Nat /\ g \in Nat /\ z \in Nat
         /\ 1 <= a /\ a <= f /\ f < c /\ c < g /\ g < z /\ z < Len(r) /\ Len(r) \in Nat
         /\ a < z /\ f <= Len(r) /\ c <= Len(r) /\ g <= Len(r)
         /\ r[f] \in FieldChar /\ r[f] \notin Blank /\ r[c] = ":" /\ r[c] \notin FieldChar \cup Blank
         /\ r[g] \in ValueStart /\ r[g] \notin Blank /\ r[z] = CR /\ r[z] \notin ValueChar
<1>1. /\ a \in Nat /\ f \in Nat /\ c \in Nat /\ g \in Nat /\ z \in Breaks(r)
      /\ 1 <= a /\ a <= f /\ f < c /\ c < g /\ g < z
      /\ r[f] \in FieldChar /\ r[c] = ":" /\ r[g] \in ValueStart
  BY DEF HdrParts
<1>2. z \in Nat /\ z \in 1..Len(r) - 1 /\ r[z] = CR /\ Len(r) \in Nat
  BY <1>1, BreakIs, LenProperties
<1>3. z < Len(r) /\ a < z /\ f <= Len(r) /\ c <= Len(r) /\ g <= Len(r)
  BY <1>1, <1>2
<1>4. r[c] \notin FieldChar \cup Blank /\ r[f] \notin Blank /\ r[g] \notin Blank /\ r[z] \notin ValueChar
  BY <1>1, <1>2, Apart
<1> QED  BY <1>1, <1>2, <1>3, <1>4

\* What was read of a header is what the header has.
LEMMA SameField ==
  ASSUME NEW r \in Seq(Char), NEW a, NEW f, NEW c, NEW g, NEW z, HdrParts(r, a, f, c, g, z),
         NEW h, NEW n, FieldTo(r, a, h, n), Stops(r, n, FieldChar \cup Blank)
  PROVE  f = h /\ c = n
<1>0. /\ a \in Nat /\ f \in Nat /\ c \in Nat /\ a <= f /\ f < c /\ f <= Len(r) /\ c <= Len(r)
      /\ r[f] \notin Blank /\ r[c] \notin FieldChar \cup Blank
  BY HdrPlaces
<1>1. h \in Nat /\ n \in Nat /\ a <= h /\ h < n /\ r[h] \in FieldChar
  BY DEF FieldTo
<1>2. f = h
  <2>1. Stops(r, h, Blank) /\ Span(r, a, f, Blank) /\ Span(r, a, h, Blank)
    BY <1>1, Apart DEF Stops, FieldTo, HdrParts
  <2> QED  BY <1>0, <1>1, <2>1, Meets
<1>3. c = n
  <2>1. Span(r, f, c, FieldChar \cup Blank) /\ Span(r, f, n, FieldChar \cup Blank) /\ f <= c /\ f <= n
    BY <1>0, <1>1, <1>2 DEF FieldTo, HdrParts
  <2> QED  BY <1>0, <1>1, <2>1, Meets
<1> QED  BY <1>2, <1>3

LEMMA SameColon ==
  ASSUME NEW r \in Seq(Char), NEW a, NEW f, NEW c, NEW g, NEW z, HdrParts(r, a, f, c, g, z),
         NEW h, NEW d, NEW n, ColonTo(r, a, h, d, n), Stops(r, n, Blank)
  PROVE  f = h /\ c = d /\ g = n
<1>0. c \in Nat /\ g \in Nat /\ c < g /\ g <= Len(r) /\ r[g] \notin Blank
  BY HdrPlaces
<1>1. FieldTo(r, a, h, d) /\ d \in Nat /\ n \in Nat /\ d < n /\ r[d] = ":"
  BY DEF ColonTo, FieldTo
<1>2. f = h /\ c = d
  <2>1. Stops(r, d, FieldChar \cup Blank)
    BY <1>1, Apart DEF Stops
  <2> QED  BY <1>1, <2>1, SameField
<1>3. g = n
  <2>1. Span(r, c + 1, g, Blank) /\ Span(r, c + 1, n, Blank) /\ c + 1 <= g /\ c + 1 <= n /\ c + 1 \in Nat
    BY <1>0, <1>1, <1>2 DEF ColonTo, HdrParts
  <2> QED  BY <1>0, <1>1, <2>1, Meets
<1> QED  BY <1>2, <1>3

LEMMA SameValue ==
  ASSUME NEW r \in Seq(Char), NEW a, NEW f, NEW c, NEW g, NEW z, HdrParts(r, a, f, c, g, z),
         NEW h, NEW d, NEW k, NEW n, ValueTo(r, a, h, d, k, n), Stops(r, n, ValueChar)
  PROVE  f = h /\ c = d /\ g = k /\ z = n
<1>0. g \in Nat /\ z \in Nat /\ g < z /\ z <= Len(r) /\ r[z] \notin ValueChar
  BY HdrPlaces
<1>1. ColonTo(r, a, h, d, k) /\ k \in Nat /\ n \in Nat /\ k < n /\ r[k] \in ValueStart
  BY DEF ValueTo, ColonTo
<1>2. f = h /\ c = d /\ g = k
  <2>1. Stops(r, k, Blank)
    BY <1>1, Apart DEF Stops
  <2> QED  BY <1>1, <2>1, SameColon
<1>3. z = n
  <2>1. Span(r, g, z, ValueChar) /\ Span(r, g, n, ValueChar) /\ g <= z /\ g <= n
    BY <1>0, <1>1, <1>2 DEF ValueTo, HdrParts
  <2> QED  BY <1>0, <1>1, <2>1, Meets
<1> QED  BY <1>2, <1>3

\* A line of the header that breaks off, or goes on with what it may not have
\* there, is neither a header's nor blank.
LEMMA HeaderErr ==
  ASSUME NEW r \in Seq(Char), NEW a, HeadersTo(r, a), NEW n, NEW h, NEW d, NEW k,
         \/ /\ n \in Nat /\ a <= n /\ Span(r, a, n, Blank)
            /\ Stops(r, n, Blank \cup FieldChar) /\ n \notin Breaks(r)
         \/ FieldTo(r, a, h, n) /\ Stops(r, n, FieldChar \cup Blank \cup {":"})
         \/ ColonTo(r, a, h, d, n) /\ Stops(r, n, Blank \cup ValueStart)
         \/ ValueTo(r, a, h, d, k, n) /\ Stops(r, n, ValueChar) /\ n \notin Breaks(r)
  PROVE  ~WellFormed(r)
<1> SUFFICES ASSUME WellFormed(r) PROVE FALSE
  OBVIOUS
<1>1. PICK z : /\ Lines(r, a, z)
               /\ Span(r, a, z, Blank) \/ \E f, c, g : HdrParts(r, a, f, c, g, z)
  BY NextLine
<1>2. /\ z \in Breaks(r) /\ z \in Nat /\ a \in Nat /\ a <= z /\ z <= Len(r) /\ Len(r) \in Nat
      /\ r[z] = CR /\ r[z] \notin Blank /\ r[z] \notin FieldChar
  <2>1. z \in Breaks(r) /\ a \in 1..z
    BY <1>1 DEF Lines
  <2>2. z \in 1..Len(r) - 1 /\ r[z] = CR /\ Len(r) \in Nat
    BY <2>1, BreakIs, LenProperties
  <2>3. r[z] \notin Blank /\ r[z] \notin FieldChar
    BY <2>2, Apart
  <2> QED  BY <2>1, <2>2, <2>3
<1>3. CASE /\ n \in Nat /\ a <= n /\ Span(r, a, n, Blank)
           /\ Stops(r, n, Blank \cup FieldChar) /\ n \notin Breaks(r)
  <2>1. Stops(r, n, Blank)
    BY <1>3 DEF Stops
  <2>2. CASE Span(r, a, z, Blank)
    <3>1. z = n
      BY <1>2, <1>3, <2>1, <2>2, Meets
    <3> QED  BY <1>2, <1>3, <3>1
  <2>3. CASE \E f, c, g : HdrParts(r, a, f, c, g, z)
    <3>1. PICK f, c, g : HdrParts(r, a, f, c, g, z)
      BY <2>3
    <3>2. f \in Nat /\ a <= f /\ f <= Len(r) /\ r[f] \in FieldChar /\ r[f] \notin Blank
      BY <3>1, HdrPlaces
    <3>4. Span(r, a, f, Blank)
      BY <3>1 DEF HdrParts
    <3>3. f = n
      BY <1>2, <1>3, <2>1, <3>2, <3>4, Meets
    <3> QED  BY <1>2, <1>3, <3>2, <3>3 DEF Stops
  <2> QED  BY <1>1, <2>2, <2>3
<1>4. CASE \E i, m : FieldTo(r, a, i, m) /\ Span(r, a, z, Blank)
  <2>1. PICK i, m : FieldTo(r, a, i, m)
    BY <1>4
  <2>2. i \in Nat /\ a <= i /\ Span(r, a, i, Blank) /\ r[i] \in FieldChar
    BY <2>1 DEF FieldTo
  <2>3. Stops(r, i, Blank)
    BY <2>2, Apart DEF Stops
  <2>4. z = i
    BY <1>2, <1>4, <2>2, <2>3, Meets
  <2> QED  BY <1>2, <2>2, <2>4
<1>5. CASE FieldTo(r, a, h, n) /\ Stops(r, n, FieldChar \cup Blank \cup {":"})
  <2>1. PICK f, c, g : HdrParts(r, a, f, c, g, z)
    BY <1>1, <1>4, <1>5
  <2>2. Stops(r, n, FieldChar \cup Blank)
    BY <1>5 DEF Stops
  <2>4. c \in Nat /\ c <= Len(r) /\ r[c] = ":"
    BY <2>1, HdrPlaces
  <2>3. f = h /\ c = n
    BY <1>5, <2>1, <2>2, SameField, Zenon
  <2> QED  BY <1>2, <1>5, <2>3, <2>4 DEF Stops
<1>6. CASE ColonTo(r, a, h, d, n) /\ Stops(r, n, Blank \cup ValueStart)
  <2>1. PICK f, c, g : HdrParts(r, a, f, c, g, z)
    BY <1>1, <1>4, <1>6 DEF ColonTo
  <2>2. Stops(r, n, Blank)
    BY <1>6 DEF Stops
  <2>4. g \in Nat /\ g <= Len(r) /\ r[g] \in ValueStart
    BY <2>1, HdrPlaces
  <2>3. g = n
    BY <1>6, <2>1, <2>2, SameColon
  <2> QED  BY <1>2, <1>6, <2>3, <2>4 DEF Stops
<1>7. CASE ValueTo(r, a, h, d, k, n) /\ Stops(r, n, ValueChar) /\ n \notin Breaks(r)
  <2>1. PICK f, c, g : HdrParts(r, a, f, c, g, z)
    BY <1>1, <1>4, <1>7 DEF ColonTo, ValueTo
  <2>2. z = n
    BY <1>7, <2>1, SameValue
  <2> QED  BY <1>2, <1>7, <2>2
<1> QED  BY <1>3, <1>5, <1>6, <1>7

\* Behind the request line the first header line begins.
LEMMA FirstHeader ==
  ASSUME NEW r \in Seq(Char), NEW v, NEW e, NEW p, NEW q, NEW s, ReqParts(r, v, e, p, q, s)
  PROVE  HeadersTo(r, s + 10)
<1>0. s \in Nat
  BY DEF ReqParts
<1>1. /\ s + 8 \in Breaks(r) /\ FirstEnd(r) = s + 8 /\ LineParts(Line(r, s + 8), v, e, p, q, s)
      /\ Line(r, s + 8) = SubSeq(r, 1, s + 7)
  BY ReqIsLine
<1>2. Line(r, s + 8) \in Seq(Char)
  <2>0. s \in Nat /\ s + 9 <= Len(r) /\ Len(r) \in Nat
    BY ReqPlaces
  <2>1. s + 8 \in 1..Len(r) + 1 /\ (s + 8) - 1 = s + 7 /\ 1 \in 1..Len(r) + 1
    BY <2>0
  <2>2. SubSeq(r, 1, (s + 8) - 1) \in Seq(Char)
    BY <2>1, PartIs
  <2> QED  BY <1>1, <2>1, <2>2
<1>3. RequestLineOK(Line(r, s + 8))
  BY <1>1, <1>2, PartsAreLine
<1>4. \A b \in Breaks(r) : ~(s + 8 < b /\ b < s + 10)
  <2> SUFFICES ASSUME NEW b \in Breaks(r), s + 8 < b, b < s + 10 PROVE FALSE
    OBVIOUS
  <2>0. b \in Nat
    BY BreakIs
  <2>1. b = (s + 8) + 1
    BY <1>0, <2>0
  <2>2. (s + 8) + 1 \notin Breaks(r)
    BY <1>1, BreakIs
  <2> QED  BY <2>1, <2>2
<1>5. s + 10 \in Nat /\ (s + 10) - 2 = s + 8 /\ s + 8 < s + 10
  BY <1>0
<1> QED  BY <1>1, <1>3, <1>4, <1>5 DEF HeadersTo

\* Behind a header's line the next line begins.
LEMMA NextHeader ==
  ASSUME NEW r \in Seq(Char), NEW a, HeadersTo(r, a),
         NEW f, NEW c, NEW g, NEW z, HdrParts(r, a, f, c, g, z)
  PROVE  Lines(r, a, z) /\ HeadersTo(r, z + 2)
<1>0. /\ a \in Nat /\ z \in Nat /\ 1 <= a /\ a < z /\ z \in Breaks(r) /\ FirstEnd(r) < a
      /\ a - 2 \in Breaks(r) /\ FirstEnd(r) \in Nat
  <2>0. z \in Breaks(r)
    BY DEF HdrParts
  <2>1. a \in Nat /\ z \in Nat /\ 1 <= a /\ a < z /\ z \in Breaks(r)
    BY <2>0, HdrPlaces
  <2>2. Breaks(r) \in SUBSET Nat /\ Breaks(r) # {}
    BY BreakIs DEF HeadersTo
  <2>3. FirstEnd(r) \in Nat
    BY <2>2, MinOfNats DEF FirstEnd
  <2> QED  BY <2>1, <2>3 DEF HeadersTo
<1>1. \A k \in Breaks(r) : k < z => k < a
  <2> SUFFICES ASSUME NEW k \in Breaks(r), k < z, ~(k < a) PROVE FALSE
    OBVIOUS
  <2>1. k \in a..z - 1 /\ r[k] = CR
    BY <1>0, BreakIs
  <2> QED  BY <2>1, HdrUnbroken
<1>2. Lines(r, a, z)
  <2>1. a \in 1..z
    BY <1>0
  <2> QED  BY <1>0, <1>1, <2>1 DEF Lines, Begins
<1>3. HeaderLineOK(Line(r, z))
  BY <1>2, HdrIsLine
<1>4. ASSUME NEW b \in Breaks(r), FirstEnd(r) < b, b < z + 2 PROVE HeaderLineOK(Line(r, b))
  <2>1. b \in Nat /\ b # z + 1
    BY <1>0, BreakIs
  <2>2. b < a \/ b = z
    BY <1>0, <1>1, <1>4, <2>1
  <2> QED  BY <1>3, <1>4, <2>2 DEF HeadersTo
<1>5. z + 2 \in Nat /\ (z + 2) - 2 = z /\ FirstEnd(r) < z + 2
  BY <1>0
<1> QED  BY <1>0, <1>2, <1>4, <1>5 DEF HeadersTo

\* A blank line ends the header.
LEMMA HeaderEnd ==
  ASSUME NEW r \in Seq(Char), NEW a, HeadersTo(r, a), NEW z \in Breaks(r), a <= z, Span(r, a, z, Blank)
  PROVE  /\ WellFormed(r) /\ Min(BlankLines(r)) = z
         /\ HeaderEnds(r) = {b \in Breaks(r) : FirstEnd(r) < b /\ b < a}
<1>0. /\ a \in Nat /\ z \in Nat /\ FirstEnd(r) < a /\ a - 2 \in Breaks(r) /\ FirstEnd(r) \in Nat
      /\ Breaks(r) \in SUBSET Nat /\ a >= 1 /\ \A k \in Breaks(r) : FirstEnd(r) <= k
  <2>1. Breaks(r) \in SUBSET Nat /\ Breaks(r) # {}
    BY BreakIs DEF HeadersTo
  <2>2. FirstEnd(r) \in Nat /\ \A k \in Breaks(r) : FirstEnd(r) <= k
    BY <2>1, MinOfNats DEF FirstEnd
  <2>3. a \in Nat /\ FirstEnd(r) < a /\ a - 2 \in Breaks(r)
    BY DEF HeadersTo
  <2>4. a >= 1
    BY <2>2, <2>3
  <2> QED  BY <2>1, <2>2, <2>3, <2>4
<1>1. \A k \in Breaks(r) : k < z => k < a
  <2> SUFFICES ASSUME NEW k \in Breaks(r), k < z, ~(k < a) PROVE FALSE
    OBVIOUS
  <2>1. k \in a..z - 1 /\ r[k] = CR
    BY <1>0, BreakIs
  <2> QED  BY <2>1, Apart DEF Span
<1>2. Lines(r, a, z)
  <2>1. a \in 1..z
    BY <1>0
  <2> QED  BY <1>0, <1>1, <2>1 DEF Lines, Begins
<1>3. z \in BlankLines(r)
  <2>1. Over(Line(r, z), Blank)
    BY <1>2, BlankIsLine
  <2>2. z # FirstEnd(r)
    BY <1>0
  <2> QED  BY <2>1, <2>2 DEF BlankLines
<1>4. \A k \in BlankLines(r) : z <= k
  <2> SUFFICES ASSUME NEW k \in BlankLines(r), ~(z <= k) PROVE FALSE
    OBVIOUS
  <2>1. k \in Breaks(r) /\ k # FirstEnd(r) /\ Over(Line(r, k), Blank)
    BY DEF BlankLines
  <2>2. FirstEnd(r) < k /\ k < z /\ k < a
    BY <1>0, <1>1, <2>1
  <2>3. HeaderLineOK(Line(r, k))
    BY <2>1, <2>2 DEF HeadersTo
  <2> QED  BY <2>1, <2>3, Apart DEF HeaderLineOK, Over
<1>5. Min(BlankLines(r)) = z
  <2>1. BlankLines(r) \subseteq Int
    BY <1>0 DEF BlankLines
  <2> QED  BY <1>3, <1>4, <2>1, MinOfSet
<1>6. HeaderEnds(r) = {b \in Breaks(r) : FirstEnd(r) < b /\ b < a}
  <2>1. \A b \in Breaks(r) : b < z <=> b < a
    BY <1>0, <1>1
  <2> QED  BY <1>5, <2>1 DEF HeaderEnds
<1>7. WellFormed(r)
  <2>1. BlankLines(r) # {}
    BY <1>3
  <2>2. \A b \in HeaderEnds(r) : HeaderLineOK(Line(r, b))
    BY <1>6 DEF HeadersTo
  <2> QED  BY <2>1, <2>2 DEF WellFormed, HeadersTo
<1> QED  BY <1>5, <1>6, <1>7
-----------------------------------------------------------------------------
(* The string while it is parsed: the request, with NULs for separators.   *)

Separator == Blank \cup {":", CR}

TextInv ==
  phase = "parse" =>
    /\ request \in Seq(Char \ {Nul}) /\ request \in Seq(Char)
    /\ text \in Seq(Char) /\ Len(text) = Len(request) + 1 /\ Len(request) \in Nat
    /\ text[Len(request) + 1] = Nul /\ at \in Nat \ {0}
    /\ \A i \in 1..Len(request) :
         text[i] = request[i] \/ (i < at /\ text[i] = Nul /\ request[i] \in Separator)

\* The request line as far as it was read, its words ended with NULs.
LineRead(e, q, s) ==
  /\ ReqParts(request, verb, e, path, q, s) /\ s + 10 <= at
  /\ text[e] = Nul /\ text[q] = Nul /\ version = request[s + 7]

LineInv ==
  phase = "parse" =>
    /\ state = "verb_begin" => Span(request, 1, at, Blank)
    /\ state = "verb_end"   => VerbTo(request, verb, at)
    /\ state = "path_begin" => \E e : GapTo(request, verb, e, at) /\ text[e] = Nul
    /\ state = "path_end"   => \E e : PathTo(request, verb, e, path, at) /\ text[e] = Nul
    /\ state = "version"    => \E e, q : LineTo(request, verb, e, path, q, at) /\ text[e] = Nul /\ text[q] = Nul
    /\ state \in AfterVersion \/ Parsed => \E e, q, s : LineRead(e, q, s)

\* A string as the receive loop returns it has no NUL in it.
LEMMA NoNul ==
  ASSUME NEW r \in Seq(Char \ {Nul})
  PROVE  r \in Seq(Char) /\ \A i \in 1..Len(r) : r[i] # Nul
<1>1. \A i \in 1..Len(r) : r[i] \in Char \ {Nul}
  BY ElementOfSeq
<1>2. r \in Seq(Char)
  OBVIOUS
<1> QED  BY <1>1, <1>2

\* The character the parser looks at is the request's, or the final NUL.
LEMMA HereIs ==
  ASSUME TextInv, phase = "parse", at <= Len(text)
  PROVE  /\ \A C : Here \in C /\ Nul \notin C => at \in 1..Len(request) /\ request[at] \in C /\ request[at] = Here
         /\ \A C : Here \notin C => Stops(request, at, C)
<1>1. /\ at \in Nat \ {0} /\ Len(request) \in Nat /\ Len(text) = Len(request) + 1 /\ text \in Seq(Char)
      /\ text[Len(request) + 1] = Nul
      /\ \A i \in 1..Len(request) :
           text[i] = request[i] \/ (i < at /\ text[i] = Nul /\ request[i] \in Separator)
  BY DEF TextInv
<1>2. Here = text[at]
  BY <1>1 DEF Here, Byte
<1>3. CASE at <= Len(request)
  <2>1. at \in 1..Len(request)
    BY <1>1, <1>3
  <2>2. ~(at < at)
    BY <1>1
  <2>3. Here = request[at]
    BY <1>1, <1>2, <2>1, <2>2
  <2> QED  BY <2>1, <2>3 DEF Stops
<1>4. CASE ~(at <= Len(request))
  <2>1. at = Len(request) + 1 /\ at > Len(request)
    BY <1>1, <1>4
  <2>2. Here = Nul
    BY <1>1, <1>2, <2>1
  <2> QED  BY <2>1, <2>2 DEF Stops
<1> QED  BY <1>3, <1>4

\* A place behind the parser's, as far as it is the request's.
LEMMA Ahead ==
  ASSUME TextInv, phase = "parse", NEW i \in 1..Len(text), at <= i
  PROVE  IF i <= Len(request) THEN Byte(i) = request[i] ELSE Byte(i) = Nul
<1>1. /\ at \in Nat \ {0} /\ Len(request) \in Nat /\ Len(text) = Len(request) + 1 /\ text \in Seq(Char)
      /\ text[Len(request) + 1] = Nul
      /\ \A k \in 1..Len(request) :
           text[k] = request[k] \/ (k < at /\ text[k] = Nul /\ request[k] \in Separator)
  BY DEF TextInv
<1>2. Byte(i) = text[i]
  BY <1>1 DEF Byte
<1>3. CASE i <= Len(request)
  <2>1. i \in 1..Len(request) /\ ~(i < at)
    BY <1>1, <1>3
  <2>2. text[i] = request[i]
    BY <1>1, <2>1
  <2> QED  BY <1>2, <1>3, <2>2
<1>4. CASE ~(i <= Len(request))
  <2>1. i = Len(request) + 1
    BY <1>1, <1>4
  <2> QED  BY <1>1, <1>2, <1>4, <2>1
<1> QED  BY <1>3, <1>4

\* A span with one character more, and with none.
LEMMA SpanMore ==
  ASSUME NEW r, NEW C, NEW i \in Nat, NEW n \in Nat, i <= n, Span(r, i, n, C), r[n] \in C
  PROVE  Span(r, i, n + 1, C)
<1> SUFFICES ASSUME NEW k \in i..(n + 1) - 1 PROVE r[k] \in C
  BY DEF Span
<1>1. k \in i..n - 1 \/ k = n
  OBVIOUS
<1> QED  BY <1>1 DEF Span

LEMMA SpanNone ==
  ASSUME NEW r, NEW C, NEW n \in Nat
  PROVE  Span(r, n, n, C)
BY DEF Span

\* A NUL written over a separator is all that changes.
LEMMA CutStep ==
  ASSUME TextInv, phase = "parse", at \in 1..Len(request), request[at] \in Separator, Cut
  PROVE  /\ text' \in Seq(Char) /\ Len(text') = Len(text) /\ text'[at] = Nul
         /\ \A i \in 1..Len(text) : i # at => text'[i] = text[i]
<1>1. text \in Seq(Char) /\ Len(request) \in Nat /\ Len(text) = Len(request) + 1
  BY DEF TextInv
<1>2. at \in 1..Len(text)
  BY <1>1
<1>3. text' \in Seq(Char) /\ Len(text') = Len(text)
  BY <1>1, <1>2, CutType
<1>4. text' = [text EXCEPT ![at] = Nul] /\ DOMAIN text = 1..Len(text)
  BY <1>1, LenProperties DEF Cut
<1> QED  BY <1>2, <1>3, <1>4

\* The string is as TextInv says, at first and after each step.
LEMMA TextInit == Init => TextInv
<1> SUFFICES ASSUME Init PROVE TextInv
  OBVIOUS
<1>1. request \in Seq(Char \ {Nul}) /\ request \in Seq(Char) /\ Len(request) \in Nat
  BY RequestAssumption, NoNul, LenProperties DEF Init
<1>2. Nul \in Char
  BY DEF Char
<1>3. /\ text \in Seq(Char) /\ Len(text) = Len(request) + 1 /\ text[Len(request) + 1] = Nul
      /\ \A i \in 1..Len(request) : text[i] = request[i]
  BY <1>1, <1>2 DEF Init
<1> QED  BY <1>1, <1>3 DEF Init, TextInv

\* A step of the parser leaves the string or writes a NUL over a separator.
LEMMA ParseCuts ==
  ASSUME TextInv, Bounded, RoomInv, Parse
  PROVE  /\ phase = "parse" /\ phase' = "parse" /\ request' = request
         /\ at' \in Nat \ {0} /\ at <= at'
         /\ state # "err" => at < at' /\ at <= Len(text)
         /\ \/ text' = text
            \/ Cut /\ at \in 1..Len(request) /\ request[at] \in Separator /\ at < at'
<1>0. phase = "parse" /\ state # "halt"
  BY DEF RoomInv, Parse, VerbBegin, VerbEnd, PathBegin, PathEnd, ReadVersion, FieldBegin, FieldEnd,
         ValueBegin, ValueEnd, Error
<1>1. at \in Nat \ {0} /\ (state # "err" => at <= Len(text))
  BY <1>0 DEF Bounded
<1>2. /\ phase' = "parse" /\ request' = request /\ at' \in Nat \ {0} /\ at <= at'
      /\ state # "err" => at < at'
  <2>1. at' \in {at, at + 1, at + 2, at + 3, at + 10} /\ (state # "err" => at' # at)
        /\ UNCHANGED <<request, phase>>
    BY <1>1 DEF Parse, VerbBegin, VerbEnd, PathBegin, PathEnd, ReadVersion, FieldBegin, FieldEnd,
         ValueBegin, ValueEnd, Error, Move
  <2> QED  BY <1>0, <1>1, <2>1
<1>3. \/ text' = text
      \/ Cut /\ Here \in Separator /\ state # "err"
  BY DEF Parse, VerbBegin, VerbEnd, PathBegin, PathEnd, ReadVersion, FieldBegin, FieldEnd,
         ValueBegin, ValueEnd, Error, Separator, EndOfLine, Here
<1>4. Nul \notin Separator
  BY NulStops DEF Separator
<1>5. state # "err" /\ Here \in Separator => at \in 1..Len(request) /\ request[at] \in Separator
  BY <1>0, <1>1, <1>4, HereIs
<1> QED  BY <1>0, <1>1, <1>2, <1>3, <1>5

LEMMA TextStep == TextInv /\ Bounded /\ RoomInv /\ [Next]_vars => TextInv'
<1> SUFFICES ASSUME TextInv, Bounded, RoomInv, [Next]_vars PROVE TextInv'
  OBVIOUS
<1>1. CASE Parse
  <2>1. /\ phase = "parse" /\ request' = request /\ at' \in Nat \ {0} /\ at <= at' /\ at \in Nat
        /\ \/ text' = text
           \/ Cut /\ at \in 1..Len(request) /\ request[at] \in Separator /\ at < at'
    BY <1>1, ParseCuts DEF TextInv
  <2>2. CASE text' = text
    <3>1. \A i : i < at /\ i \in 1..Len(request) => i < at'
      BY <2>1
    <3> QED  BY <2>1, <2>2, <3>1 DEF TextInv
  <2>3. CASE Cut /\ at \in 1..Len(request) /\ request[at] \in Separator /\ at < at'
    <3>1. /\ text' \in Seq(Char) /\ Len(text') = Len(text) /\ text'[at] = Nul
          /\ \A i \in 1..Len(text) : i # at => text'[i] = text[i]
      BY <2>1, <2>3, CutStep
    <3>2. Len(text) = Len(request) + 1 /\ Len(request) \in Nat /\ text[Len(request) + 1] = Nul
      BY <2>1 DEF TextInv
    <3>3. text'[Len(request) + 1] = Nul
      <4>1. Len(request) + 1 \in 1..Len(text) /\ Len(request) + 1 # at
        BY <2>3, <3>2
      <4> QED  BY <3>1, <3>2, <4>1
    <3>4. ASSUME NEW i \in 1..Len(request)
          PROVE  text'[i] = request[i] \/ (i < at' /\ text'[i] = Nul /\ request[i] \in Separator)
      <4>1. CASE i = at
        BY <2>3, <3>1, <4>1
      <4>2. CASE i # at
        <5>1. i \in 1..Len(text) /\ (i < at => i < at')
          BY <2>1, <2>3, <3>2
        <5>2. text'[i] = text[i]
          BY <3>1, <4>2, <5>1
        <5> QED  BY <2>1, <5>1, <5>2 DEF TextInv
      <4> QED  BY <4>1, <4>2
    <3> QED  BY <2>1, <3>1, <3>2, <3>3, <3>4 DEF TextInv
  <2> QED  BY <2>1, <2>2, <2>3
<1>2. CASE Dispatch
  <2>1. phase' # "parse"
    BY <1>2 DEF Dispatch, NoVerb, NoPath, Interpret, Complete
  <2> QED  BY <2>1 DEF TextInv
<1>3. CASE UNCHANGED vars
  BY <1>3 DEF vars, TextInv
<1> QED  BY <1>1, <1>2, <1>3 DEF Next

\* The NULs before the parser's place stay.
LEMMA NulStays ==
  ASSUME TextInv, Bounded, RoomInv, Parse, NEW k \in Nat, 1 <= k, k < at, k <= Len(text), text[k] = Nul
  PROVE  text'[k] = Nul
<1>1. \/ text' = text
      \/ Cut /\ at \in 1..Len(request) /\ request[at] \in Separator
  BY ParseCuts
<1>2. phase = "parse" /\ Len(text) \in Nat
  BY ParseCuts DEF TextInv
<1>3. k \in 1..Len(text) /\ k # at
  BY <1>2, ParseCuts DEF TextInv
<1>4. CASE text' = text
  BY <1>4
<1>5. CASE Cut /\ at \in 1..Len(request) /\ request[at] \in Separator
  BY <1>2, <1>3, <1>5, CutStep
<1> QED  BY <1>1, <1>4, <1>5

\* The request line was read as LineInv says, at first and after each step.
LEMMA LineInit == Init => LineInv
<1> SUFFICES ASSUME Init PROVE LineInv
  OBVIOUS
<1>1. state = "verb_begin" /\ at = 1 /\ body = 0
  BY DEF Init
<1>2. Span(request, 1, 1, Blank)
  BY DEF Span
<1> QED  BY <1>1, <1>2 DEF LineInv, AfterVersion, Parsed

\* What was found of the request line stays found.
LEMMA LineStays ==
  ASSUME TextInv, Bounded, RoomInv, Parse, UNCHANGED <<verb, path, version>>, state # "err",
         NEW e, NEW q, NEW s, LineRead(e, q, s)
  PROVE  LineRead(e, q, s)'
<1>1. /\ e \in Nat /\ q \in Nat /\ s \in Nat /\ 1 <= e /\ e < q /\ q < s /\ s + 9 <= Len(request)
      /\ Len(request) \in Nat /\ request \in Seq(Char)
  <2>1. request \in Seq(Char)
    BY ParseCuts DEF TextInv
  <2>2. /\ e \in Nat /\ q \in Nat /\ s \in Nat /\ verb \in Nat /\ path \in Nat
        /\ 1 <= verb /\ verb < e /\ e < path /\ path < q /\ q < s /\ s + 9 <= Len(request)
        /\ Len(request) \in Nat
    BY <2>1, LenProperties DEF LineRead, ReqParts
  <2> QED  BY <2>1, <2>2
<1>2. Len(text) = Len(request) + 1 /\ at \in Nat /\ at' \in Nat /\ at <= at' /\ request' = request /\ s + 10 <= at
  BY ParseCuts DEF TextInv, LineRead
<1>3. e < at /\ q < at /\ e <= Len(text) /\ q <= Len(text) /\ s + 10 <= at'
  BY <1>1, <1>2
<1>4. text'[e] = Nul /\ text'[q] = Nul
  BY <1>1, <1>3, NulStays DEF LineRead
<1> QED  BY <1>2, <1>3, <1>4 DEF LineRead

\* The version line that the parser has compared is the request's.
LEMMA VersionRead ==
  ASSUME TextInv, Bounded, LineInv, phase = "parse", state = "version", Agrees(10)
  PROVE  \E e, q : /\ ReqParts(request, verb, e, path, q, at) /\ text[e] = Nul /\ text[q] = Nul
                   /\ Byte(at + 7) = request[at + 7]
<1>0. /\ at \in Nat /\ 1 <= at /\ Len(text) = Len(request) + 1 /\ Len(request) \in Nat /\ at <= Len(text)
  BY DEF TextInv, Bounded
<1>1. PICK e, q : LineTo(request, verb, e, path, q, at) /\ text[e] = Nul /\ text[q] = Nul
  BY DEF LineInv
<1>2. at + 10 <= Len(text)
  BY <1>0, AgreesInside DEF Bounded
<1>3. \A i \in 1..10 : request[at + i - 1] \in VersionLine[i] /\ Byte(at + i - 1) = request[at + i - 1]
  <2> SUFFICES ASSUME NEW i \in 1..10
               PROVE  request[at + i - 1] \in VersionLine[i] /\ Byte(at + i - 1) = request[at + i - 1]
    OBVIOUS
  <2>1. at + i - 1 \in 1..Len(text) /\ at <= at + i - 1 /\ at + i - 1 <= Len(request)
    BY <1>0, <1>2
  <2>2. Byte(at + i - 1) = request[at + i - 1]
    BY <1>0, <2>1, Ahead
  <2> QED  BY <2>2 DEF Agrees
<1>4. ReqParts(request, verb, e, path, q, at)
  <2>1. at + 9 <= Len(request)
    BY <1>0, <1>2
  <2> QED  BY <1>0, <1>1, <1>3, <2>1 DEF ReqParts, LineTo, PathTo, GapTo, VerbTo
<1>5. Byte(at + 7) = request[at + 7]
  <2>1. 8 \in 1..10 /\ at + 8 - 1 = at + 7
    BY <1>0
  <2>2. Byte(at + 8 - 1) = request[at + 8 - 1]
    BY <1>3, <2>1
  <2> QED  BY <2>1, <2>2
<1> QED  BY <1>1, <1>4, <1>5

LEMMA LineParse ==
  ASSUME TextInv, Bounded, RoomInv, LineInv, Parse
  PROVE  LineInv'
<1>0. /\ phase = "parse" /\ phase' = "parse" /\ request' = request /\ state # "halt"
      /\ at \in Nat /\ 1 <= at /\ Len(text) = Len(request) + 1 /\ Len(request) \in Nat
      /\ request \in Seq(Char) /\ body = 0
      /\ state # "err" => at <= Len(text)
  <2>1. phase = "parse" /\ phase' = "parse" /\ request' = request /\ (state # "err" => at <= Len(text))
    BY ParseCuts
  <2>2. state # "halt"
    BY DEF Parse, VerbBegin, VerbEnd, PathBegin, PathEnd, ReadVersion, FieldBegin, FieldEnd,
           ValueBegin, ValueEnd, Error
  <2> QED  BY <2>1, <2>2 DEF TextInv, RoomInv
<1>1. CASE VerbBegin
  <2>1. Span(request, 1, at, Blank)
    BY <1>0, <1>1 DEF LineInv, VerbBegin
  <2>2. CASE Here \in Blank
    <3>1. request[at] \in Blank
      BY <1>0, <1>1, <2>2, HereIs, NulStops DEF VerbBegin
    <3>2. Span(request, 1, at + 1, Blank)
      BY <1>0, <2>1, <3>1, SpanMore
    <3> QED  BY <1>0, <1>1, <2>2, <3>2 DEF VerbBegin, Move, LineInv, AfterVersion, Parsed
  <2>3. CASE Here \in Letter /\ Here \notin Blank
    <3>1. request[at] \in Letter
      BY <1>0, <1>1, <2>3, HereIs, NulStops DEF VerbBegin
    <3>2. Span(request, at, at + 1, Letter)
      BY <1>0, <3>1, SpanMore, SpanNone
    <3>3. VerbTo(request, at, at + 1)
      BY <1>0, <2>1, <3>2 DEF VerbTo
    <3> QED  BY <1>0, <1>1, <2>3, <3>3 DEF VerbBegin, Move, LineInv, AfterVersion, Parsed
  <2>4. CASE Here \notin Letter /\ Here \notin Blank
    BY <1>0, <1>1, <2>4 DEF VerbBegin, Move, LineInv, AfterVersion, Parsed
  <2> QED  BY <2>2, <2>3, <2>4
<1>2. CASE VerbEnd
  <2>1. VerbTo(request, verb, at) /\ UNCHANGED <<verb, body>>
    BY <1>0, <1>2 DEF LineInv, VerbEnd, reqData
  <2>2. CASE Here \in Blank
    <3>1. request[at] \in Blank /\ at \in 1..Len(request) /\ request[at] \in Separator
      BY <1>0, <1>2, <2>2, HereIs, NulStops DEF VerbEnd, Separator
    <3>2. Span(request, at, at + 1, Blank)
      BY <1>0, <3>1, SpanMore, SpanNone
    <3>3. GapTo(request, verb, at, at + 1)
      BY <1>0, <2>1, <3>2 DEF GapTo
    <3>4. text'[at] = Nul
      BY <1>0, <1>2, <2>2, <3>1, CutStep DEF VerbEnd
    <3>5. state' = "path_begin" /\ at' = at + 1
      BY <1>2, <2>2 DEF VerbEnd, Move
    <3>6. \E e : GapTo(request, verb, e, at') /\ text'[e] = Nul
      BY <3>3, <3>4, <3>5
    <3> QED  BY <1>0, <2>1, <3>5, <3>6 DEF LineInv, AfterVersion, Parsed
  <2>3. CASE Here \in Letter /\ Here \notin Blank
    <3>1. request[at] \in Letter
      BY <1>0, <1>2, <2>3, HereIs, NulStops DEF VerbEnd
    <3>2. verb \in Nat /\ verb < at /\ verb <= at /\ Span(request, verb, at, Letter)
      BY <2>1 DEF VerbTo
    <3>3. Span(request, verb, at + 1, Letter)
      BY <1>0, <3>1, <3>2, SpanMore
    <3>4. VerbTo(request, verb, at + 1)
      BY <1>0, <2>1, <3>2, <3>3 DEF VerbTo
    <3> QED  BY <1>0, <1>2, <2>1, <2>3, <3>4 DEF VerbEnd, Move, LineInv, AfterVersion, Parsed
  <2>4. CASE Here \notin Letter /\ Here \notin Blank
    BY <1>0, <1>2, <2>1, <2>4 DEF VerbEnd, Move, LineInv, AfterVersion, Parsed
  <2> QED  BY <2>2, <2>3, <2>4
<1>3. CASE PathBegin
  <2>1. PICK e : GapTo(request, verb, e, at) /\ text[e] = Nul
    BY <1>0, <1>3 DEF LineInv, PathBegin
  <2>2. UNCHANGED <<verb, body, text>>
    BY <1>3 DEF PathBegin
  <2>3. CASE Here \in Blank
    <3>1. request[at] \in Blank
      BY <1>0, <1>3, <2>3, HereIs, NulStops DEF PathBegin
    <3>2. e \in Nat /\ e < at /\ Span(request, e, at, Blank) /\ VerbTo(request, verb, e)
      BY <2>1 DEF GapTo, VerbTo
    <3>3. Span(request, e, at + 1, Blank)
      BY <1>0, <3>1, <3>2, SpanMore
    <3>4. GapTo(request, verb, e, at + 1)
      BY <1>0, <3>2, <3>3 DEF GapTo
    <3> QED  BY <1>0, <1>3, <2>1, <2>2, <2>3, <3>4 DEF PathBegin, Move, LineInv, AfterVersion, Parsed
  <2>4. CASE Here = "/" /\ Here \notin Blank
    <3>1. Here \in {"/"} /\ "/" \in PathChar /\ Nul \notin {"/"}
      BY <2>4, NulStops DEF PathChar
    <3>2. request[at] = "/" /\ request[at] \in PathChar
      BY <1>0, <1>3, <3>1, HereIs DEF PathBegin
    <3>3. Span(request, at, at + 1, PathChar)
      BY <1>0, <3>2, SpanMore, SpanNone
    <3>4. PathTo(request, verb, e, at, at + 1)
      BY <1>0, <2>1, <3>2, <3>3 DEF PathTo
    <3>5. state' = "path_end" /\ at' = at + 1 /\ path' = at
      BY <1>3, <2>4 DEF PathBegin, Move
    <3> QED  BY <1>0, <2>1, <2>2, <3>4, <3>5 DEF LineInv, AfterVersion, Parsed
  <2>5. CASE Here # "/" /\ Here \notin Blank
    BY <1>0, <1>3, <2>2, <2>5 DEF PathBegin, Move, LineInv, AfterVersion, Parsed
  <2> QED  BY <2>3, <2>4, <2>5
<1>4. CASE PathEnd
  <2>1. PICK e : PathTo(request, verb, e, path, at) /\ text[e] = Nul
    BY <1>0, <1>4 DEF LineInv, PathEnd
  <2>2. UNCHANGED <<verb, path, body>>
    BY <1>4 DEF PathEnd, reqData
  <2>3. /\ e \in Nat /\ 1 <= e /\ e < path /\ path \in Nat /\ path < at /\ Span(request, path, at, PathChar)
        /\ GapTo(request, verb, e, path) /\ request[path] = "/"
    BY <2>1 DEF PathTo, GapTo, VerbTo
  <2>4. text'[e] = Nul
    BY <1>0, <1>4, <2>1, <2>3, NulStays DEF PathEnd
  <2>5. CASE Here \in Blank
    <3>1. request[at] \in Blank /\ at \in 1..Len(request) /\ request[at] \in Separator
      BY <1>0, <1>4, <2>5, HereIs, NulStops DEF PathEnd, Separator
    <3>2. Span(request, at, at + 1, Blank)
      BY <1>0, <3>1, SpanMore, SpanNone
    <3>3. LineTo(request, verb, e, path, at, at + 1)
      BY <1>0, <2>1, <3>2 DEF LineTo
    <3>4. text'[at] = Nul
      BY <1>0, <1>4, <2>5, <3>1, CutStep DEF PathEnd
    <3>5. state' = "version" /\ at' = at + 1
      BY <1>4, <2>5 DEF PathEnd, Move
    <3>6. \E ee, q : LineTo(request, verb, ee, path, q, at') /\ text'[ee] = Nul /\ text'[q] = Nul
      BY <2>4, <3>3, <3>4, <3>5
    <3> QED  BY <1>0, <2>2, <3>5, <3>6 DEF LineInv, AfterVersion, Parsed
  <2>6. CASE Here \in PathChar /\ Here \notin Blank
    <3>1. request[at] \in PathChar
      BY <1>0, <1>4, <2>6, HereIs, NulStops DEF PathEnd
    <3>2. Span(request, path, at + 1, PathChar)
      BY <1>0, <2>3, <3>1, SpanMore
    <3>3. PathTo(request, verb, e, path, at + 1)
      BY <1>0, <2>3, <3>2 DEF PathTo
    <3>4. state' = "path_end" /\ at' = at + 1
      BY <1>4, <2>6 DEF PathEnd, Move
    <3> QED  BY <1>0, <2>2, <2>4, <3>3, <3>4 DEF LineInv, AfterVersion, Parsed
  <2>7. CASE Here \notin PathChar /\ Here \notin Blank
    BY <1>0, <1>4, <2>2, <2>7 DEF PathEnd, Move, LineInv, AfterVersion, Parsed
  <2> QED  BY <2>5, <2>6, <2>7
<1>5. CASE ReadVersion
  <2>1. PICK e, q : LineTo(request, verb, e, path, q, at) /\ text[e] = Nul /\ text[q] = Nul
    BY <1>0, <1>5 DEF LineInv, ReadVersion
  <2>2. UNCHANGED <<verb, path, body, text>>
    BY <1>5 DEF ReadVersion
  <2>3. CASE Here \in Blank
    <3>1. request[at] \in Blank
      BY <1>0, <1>5, <2>3, HereIs, NulStops DEF ReadVersion
    <3>2. q \in Nat /\ q < at /\ Span(request, q, at, Blank) /\ PathTo(request, verb, e, path, q)
      BY <2>1 DEF LineTo, PathTo
    <3>3. Span(request, q, at + 1, Blank)
      BY <1>0, <3>1, <3>2, SpanMore
    <3>4. LineTo(request, verb, e, path, q, at + 1)
      BY <1>0, <3>2, <3>3 DEF LineTo
    <3>5. state' = "version" /\ at' = at + 1
      BY <1>5, <2>3 DEF ReadVersion, Move
    <3> QED  BY <1>0, <2>1, <2>2, <3>4, <3>5 DEF LineInv, AfterVersion, Parsed
  <2>4. CASE Here \notin Blank /\ Agrees(10)
    <3>1. PICK f, g : /\ ReqParts(request, verb, f, path, g, at) /\ text[f] = Nul /\ text[g] = Nul
                      /\ Byte(at + 7) = request[at + 7]
      BY <1>0, <1>5, <2>4, VersionRead DEF ReadVersion
    <3>2. state' = "field_begin" /\ at' = at + 10 /\ version' = Byte(at + 7)
      BY <1>5, <2>4 DEF ReadVersion, Move
    <3>3. \E s : LineRead(f, g, s)'
      <4>1. PICK s : s = at
        OBVIOUS
      <4>2. /\ ReqParts(request, verb, f, path, g, s) /\ s + 10 <= at'
            /\ version' = request[s + 7]
        BY <1>0, <3>1, <3>2, <4>1
      <4>3. LineRead(f, g, s)'
        BY <1>0, <2>2, <3>1, <4>2 DEF LineRead
      <4> QED  BY <4>3
    <3>4. \E ee, qq, ss : LineRead(ee, qq, ss)'
      BY <3>3
    <3> QED  BY <1>0, <2>2, <3>2, <3>4 DEF LineInv, AfterVersion, Parsed
  <2>5. CASE Here \notin Blank /\ ~Agrees(10)
    BY <1>0, <1>5, <2>2, <2>5 DEF ReadVersion, Move, LineInv, AfterVersion, Parsed
  <2> QED  BY <2>3, <2>4, <2>5
<1>6. CASE FieldBegin \/ FieldEnd \/ ValueBegin \/ ValueEnd
  <2>1. /\ state \in AfterVersion /\ UNCHANGED <<verb, path, version>> /\ state # "err"
        /\ state' \in AfterVersion \cup {"halt", "err"}
    BY <1>6 DEF FieldBegin, FieldEnd, ValueBegin, ValueEnd, Move, AfterVersion, reqData
  <2>2. PICK e, q, s : LineRead(e, q, s)
    BY <1>0, <2>1 DEF LineInv
  <2>3. LineRead(e, q, s)'
    BY <2>1, <2>2, LineStays
  <2> QED  BY <1>0, <2>1, <2>3 DEF LineInv, AfterVersion
<1>7. CASE Error
  BY <1>0, <1>7 DEF Error, LineInv, AfterVersion, Parsed, reqData
<1> QED  BY <1>1, <1>2, <1>3, <1>4, <1>5, <1>6, <1>7 DEF Parse

LEMMA LineStep == TextInv /\ Bounded /\ RoomInv /\ LineInv /\ [Next]_vars => LineInv'
<1> SUFFICES ASSUME TextInv, Bounded, RoomInv, LineInv, [Next]_vars PROVE LineInv'
  OBVIOUS
<1>1. CASE Dispatch
  <2>1. phase' # "parse"
    BY <1>1 DEF Dispatch, NoVerb, NoPath, Interpret, Complete
  <2> QED  BY <2>1 DEF LineInv
<1>2. CASE UNCHANGED vars
  BY <1>2 DEF vars, reqData, lua, LineInv, LineRead, Parsed
<1> QED  BY <1>1, <1>2, LineParse DEF Next
-----------------------------------------------------------------------------
(* The C strings in the string.                                            *)

\* Two strings with the same characters have the same part.
LEMMA PartsAgree ==
  ASSUME NEW s \in Seq(Char), NEW t \in Seq(Char), NEW p \in Nat, NEW n \in Nat,
         1 <= p, p <= n, n <= Len(s) + 1, n <= Len(t) + 1, \A i \in p..n - 1 : s[i] = t[i]
  PROVE  SubSeq(s, p, n - 1) = SubSeq(t, p, n - 1)
<1>0. /\ p \in 1..Len(s) + 1 /\ n \in p..Len(s) + 1 /\ p \in 1..Len(t) + 1 /\ n \in p..Len(t) + 1
  BY LenProperties
<1> DEFINE u == SubSeq(s, p, n - 1)
           w == SubSeq(t, p, n - 1)
<1>1. /\ u \in Seq(Char) /\ Len(u) = n - p /\ \A k \in 1..n - p : u[k] = s[p + k - 1]
  BY <1>0, PartIs
<1>2. /\ w \in Seq(Char) /\ Len(w) = n - p /\ \A k \in 1..n - p : w[k] = t[p + k - 1]
  BY <1>0, PartIs
<1> HIDE DEF u, w
<1>3. \A k \in 1..n - p : p + k - 1 \in p..n - 1
  OBVIOUS
<1>4. \A k \in 1..n - p : u[k] = w[k]
  BY <1>1, <1>2, <1>3
<1>5. u = w
  BY <1>1, <1>2, <1>4, SeqEqual
<1> QED  BY <1>5 DEF u, w

\* A C string ends before its first NUL.
LEMMA StrIs ==
  ASSUME NEW s \in Seq(Char), NEW p \in Nat, NEW n \in Nat, 1 <= p, p <= n, n <= Len(s),
         s[n] = Nul, \A i \in p..n - 1 : s[i] # Nul
  PROVE  Str(s, p) = SubSeq(s, p, n - 1)
<1>0. Len(s) \in Nat
  BY LenProperties
<1> DEFINE N == {i \in p..Len(s) : s[i] = Nul} \cup {Len(s) + 1}
<1>1. n \in N /\ N \subseteq Int
  BY <1>0
<1>2. \A y \in N : n <= y
  <2> SUFFICES ASSUME NEW y \in N, ~(n <= y) PROVE FALSE
    OBVIOUS
  <2>1. y \in p..n - 1 /\ s[y] = Nul
    BY <1>0
  <2> QED  BY <2>1
<1>3. Min(N) = n
  <2> HIDE DEF N
  <2> QED  BY <1>1, <1>2, MinOfSet
<1>4. p # 0
  OBVIOUS
<1>5. Str(s, p) = SubSeq(s, p, Min(N) - 1)
  BY <1>4 DEF Str
<1> HIDE DEF N
<1> QED  BY <1>3, <1>5

\* A C string depends on nothing behind a NUL.
LEMMA StrShut ==
  ASSUME NEW s \in Seq(Char), NEW t \in Seq(Char), NEW p \in Nat, NEW k \in Nat,
         1 <= p, p <= k, k <= Len(s), k <= Len(t), s[k] = Nul, \A i \in p..k : s[i] = t[i]
  PROVE  Str(s, p) = Str(t, p)
<1> DEFINE N == {i \in p..k : s[i] = Nul}
<1>1. PICK n \in N : \A y \in N : n <= y
  <2>1. k \in N /\ N \in SUBSET Nat
    OBVIOUS
  <2> HIDE DEF N
  <2> QED  BY <2>1, MinOfNats
<1>2. n \in Nat /\ p <= n /\ n <= k /\ s[n] = Nul /\ n \in p..k
  OBVIOUS
<1>3. \A i \in p..n - 1 : s[i] # Nul
  <2> SUFFICES ASSUME NEW i \in p..n - 1, s[i] = Nul PROVE FALSE
    OBVIOUS
  <2>1. i \in N /\ i < n
    BY <1>2
  <2> HIDE DEF N
  <2> QED  BY <1>1, <1>2, <2>1
<1> HIDE DEF N
<1>a. n <= Len(s) /\ n <= Len(t) /\ n <= Len(s) + 1 /\ n <= Len(t) + 1
  BY <1>2, LenProperties
<1>4. t[n] = Nul /\ (\A i \in p..n - 1 : s[i] = t[i]) /\ \A i \in p..n - 1 : t[i] # Nul
  <2>1. \A i \in p..n - 1 : i \in p..k
    BY <1>2
  <2> QED  BY <1>2, <1>3, <2>1
<1>5. Str(s, p) = SubSeq(s, p, n - 1)
  BY <1>2, <1>3, <1>a, StrIs
<1>6. Str(t, p) = SubSeq(t, p, n - 1)
  BY <1>2, <1>4, <1>a, StrIs
<1>7. SubSeq(s, p, n - 1) = SubSeq(t, p, n - 1)
  BY <1>2, <1>4, <1>a, PartsAgree
<1> QED  BY <1>5, <1>6, <1>7

\* A C string that is a part of the request.
LEMMA StrOfRequest ==
  ASSUME NEW r \in Seq(Char \ {Nul}), NEW s \in Seq(Char), Len(s) = Len(r) + 1,
         NEW p \in Nat, NEW n \in Nat, 1 <= p, p <= n, n <= Len(s), s[n] = Nul,
         \A i \in p..n - 1 : s[i] = r[i]
  PROVE  Str(s, p) = SubSeq(r, p, n - 1)
<1>0. r \in Seq(Char) /\ Len(r) \in Nat /\ \A i \in 1..Len(r) : r[i] # Nul
  BY NoNul, LenProperties
<1>1. \A i \in p..n - 1 : i \in 1..Len(r)
  BY <1>0
<1>a. \A i \in p..n - 1 : s[i] # Nul
  BY <1>0, <1>1
<1>2. Str(s, p) = SubSeq(s, p, n - 1)
  BY <1>a, StrIs
<1>3. n <= Len(s) + 1 /\ n <= Len(r) + 1
  BY <1>0
<1>4. SubSeq(s, p, n - 1) = SubSeq(r, p, n - 1)
  BY <1>0, <1>3, PartsAgree
<1> QED  BY <1>2, <1>4

-----------------------------------------------------------------------------
(* The headers read so far.                                                *)

\* The first word of a text that begins with it.
LEMMA FirstWord ==
  ASSUME NEW l \in Seq(Char), NEW n \in 1..Len(l), \A k \in 1..n : l[k] \notin Blank,
         n = Len(l) \/ l[n + 1] \in Blank
  PROVE  Word(l, 1) = SubSeq(l, 1, n)
<1>0. Len(l) \in Nat /\ 1 \in 1..Len(l) /\ n \in 1..Len(l)
  BY LenProperties
<1> DEFINE a == <<1, n>>
<1>1. a \in Runs(l) /\ a[1] = 1 /\ a[2] = n
  BY <1>0, IsRun
<1> HIDE DEF a
<1>2. IsFiniteSet(Runs(l))
  <2>1. IsFiniteSet(1..Len(l))
    BY <1>0, FS_Interval
  <2>2. IsFiniteSet((1..Len(l)) \X (1..Len(l)))
    BY <2>1, FS_Product
  <2>3. Runs(l) \in SUBSET ((1..Len(l)) \X (1..Len(l)))
    BY LenProperties DEF Runs
  <2> QED  BY <2>2, <2>3, FS_Subset
<1>3. ASSUME NEW w \in Runs(l)
      PROVE  Cardinality({v \in Runs(l) : v[1] < w[1]}) = 1 - 1 <=> w = a
  <2> DEFINE V == {v \in Runs(l) : v[1] < w[1]}
  <2>1. IsFiniteSet(V)
    <3>1. V \in SUBSET Runs(l)
      OBVIOUS
    <3> HIDE DEF V
    <3> QED  BY <1>2, <3>1, FS_Subset
  <2>2. Cardinality(V) = 0 <=> V = {}
    <3> HIDE DEF V
    <3> QED  BY <2>1, FS_EmptySet
  <2>3. w[1] \in 1..Len(l) /\ \A v \in Runs(l) : v[1] \in 1..Len(l)
    BY RunIs
  <2>4. w = a => V = {}
    BY <1>1, <2>3
  <2>5. w # a => a \in V
    <3>1. w = a \/ w[2] < a[1] \/ a[2] < w[1]
      BY <1>1, RunsApart
    <3>2. w[2] \in w[1]..Len(l)
      BY RunIs
    <3>3. w # a => a[1] < w[1]
      BY <1>0, <1>1, <2>3, <3>1, <3>2
    <3> QED  BY <1>1, <3>3
  <2>6. Cardinality(V) = 0 <=> w = a
    <3> HIDE DEF V
    <3> QED  BY <2>2, <2>4, <2>5
  <2> QED  BY <2>6
<1>4. Word(l, 1) = SubSeq(l, a[1], a[2])
  BY <1>1, <1>3, RankedIs
<1> QED  BY <1>1, <1>4

\* What a header's line says, by the places of its parts in the request.
LEMMA HdrSays ==
  ASSUME NEW r \in Seq(Char), NEW a, NEW z, Lines(r, a, z),
         NEW f, NEW c, NEW g, HdrParts(r, a, f, c, g, z),
         NEW n \in Nat, f < n, n <= c, Span(r, f, n, FieldChar), n = c \/ r[n] \in Blank
  PROVE  /\ Word(Field(Line(r, z)), 1) = SubSeq(r, f, n - 1)
         /\ Value(Line(r, z)) = SubSeq(r, g, z - 1)
<1>0. /\ a \in Nat /\ f \in Nat /\ c \in Nat /\ g \in Nat /\ z \in Nat
      /\ 1 <= a /\ a <= f /\ f < c /\ c < g /\ g < z /\ z < Len(r) /\ Len(r) \in Nat
  BY HdrPlaces
<1> DEFINE l == SubSeq(r, a, z - 1)
<1>1. /\ Line(r, z) = l /\ HeaderParts(l, f - a + 1, c - a + 1, g - a + 1)
  BY HdrIsLine
<1>2. /\ l \in Seq(Char) /\ Len(l) = z - a
  <2>1. z \in Breaks(r) /\ a \in 1..z
    BY DEF Lines
  <2> QED  BY <2>1, LineShift
<1>3. f - a + 1 \in Nat /\ c - a + 1 \in Nat /\ g - a + 1 \in Nat
  BY <1>0
<1>4. /\ Field(l) = SubSeq(l, f - a + 1, (c - a + 1) - 1)
      /\ Value(l) = SubSeq(l, g - a + 1, z - a)
  <2> HIDE DEF l
  <2> QED  BY <1>1, <1>2, <1>3, PartsAreHeader, ZenonT(60)
<1>5. SubSeq(l, f - a + 1, (c - a + 1) - 1) = SubSeq(r, f, c - 1)
  <2>1. (c - a + 1) - 1 = c - a /\ a + (f - a + 1) - 1 = f /\ a + (c - a) - 1 = c - 1
        /\ a \in 1..Len(r) + 1 /\ z - 1 \in a - 1..Len(r) /\ f - a + 1 \in 1..z - 1 - a + 1 + 1
        /\ c - a \in (f - a + 1) - 1..z - 1 - a + 1
    BY <1>0
  <2>2. SubSeq(SubSeq(r, a, z - 1), f - a + 1, c - a) = SubSeq(r, a + (f - a + 1) - 1, a + (c - a) - 1)
    BY <1>0, <2>1, SubSeqOfSubSeq
  <2> QED  BY <2>1, <2>2
<1>6. SubSeq(l, g - a + 1, z - a) = SubSeq(r, g, z - 1)
  <2>1. a + (g - a + 1) - 1 = g /\ a + (z - a) - 1 = z - 1
    BY <1>0
  <2>2. SubSeq(SubSeq(r, a, z - 1), g - a + 1, z - a) = SubSeq(r, a + (g - a + 1) - 1, a + (z - a) - 1)
    BY <1>0, <2>1, SubSeqOfSubSeq
  <2> QED  BY <2>1, <2>2
<1> DEFINE F == SubSeq(r, f, c - 1)
<1>7. F \in Seq(Char) /\ Len(F) = c - f /\ \A k \in 1..c - f : F[k] = r[f + k - 1]
  <2>1. f \in 1..Len(r) + 1 /\ c \in f..Len(r) + 1
    BY <1>0
  <2> QED  BY <2>1, PartIs
<1>8. Field(Line(r, z)) = F
  BY <1>1, <1>4, <1>5
<1>9. SubSeq(F, 1, n - f) = SubSeq(r, f, n - 1)
  <2>1. f + 1 - 1 = f /\ f + (n - f) - 1 = n - 1
    BY <1>0
  <2>2. SubSeq(SubSeq(r, f, c - 1), 1, n - f) = SubSeq(r, f + 1 - 1, f + (n - f) - 1)
    BY <1>0, SubSeqOfSubSeq
  <2> QED  BY <2>1, <2>2
<1> HIDE DEF F, l
<1>10. Word(F, 1) = SubSeq(F, 1, n - f)
  <2>1. n - f \in 1..Len(F)
    BY <1>0, <1>7
  <2>2. ASSUME NEW k \in 1..n - f PROVE F[k] \notin Blank
    <3>1. k \in 1..c - f /\ f + k - 1 \in f..n - 1
      BY <1>0
    <3>2. F[k] \in FieldChar
      BY <1>7, <3>1 DEF Span
    <3> QED  BY <3>2, Apart
  <2>3. n - f = Len(F) \/ F[(n - f) + 1] \in Blank
    <3>1. CASE n = c
      BY <1>7, <3>1
    <3>2. CASE n # c
      <4>1. (n - f) + 1 \in 1..c - f /\ f + ((n - f) + 1) - 1 = n
        BY <1>0, <3>2
      <4>2. F[(n - f) + 1] = r[f + ((n - f) + 1) - 1]
        BY <1>7, <4>1
      <4> QED  BY <3>2, <4>1, <4>2
    <3> QED  BY <3>1, <3>2
  <2> QED  BY <1>7, <2>1, <2>2, <2>3, FirstWord
<1>11. Value(Line(r, z)) = SubSeq(r, g, z - 1)
  BY <1>1, <1>4, <1>6
<1> QED  BY <1>8, <1>9, <1>10, <1>11

\* The ends of the header lines before place a.
HeadEnds(r, a) == {b \in Breaks(r) : FirstEnd(r) < b /\ b < a}

\* In the string t a C string begins at p that ends before place n.
Shut(t, p, n) == p \in Nat /\ 1 <= p /\ \E k \in p..n - 1 : t[k] = Nul

\* What a header says, and what its line meant.
Said(t, h)  == <<Str(t, h.field), Str(t, h.value)>>
Meant(r, b) == <<Word(Field(Line(r, b)), 1), Value(Line(r, b))>>

\* The first m headers of h, read from t, are those of r's lines before place a.
HeadersIn(r, t, h, a, m) ==
  /\ HeadersTo(r, a) /\ m \in Nat /\ m = Cardinality(HeadEnds(r, a))
  /\ \A i \in 1..m : /\ Shut(t, h[i].field, a) /\ FirstEnd(r) < h[i].field
                     /\ Shut(t, h[i].value, a) /\ FirstEnd(r) < h[i].value
  /\ {Said(t, h[i]) : i \in 1..m} = {Meant(r, b) : b \in HeadEnds(r, a)}

\* What is written from place a on changes nothing of them.
LEMMA HeadersKept ==
  ASSUME NEW r, NEW t \in Seq(Char), NEW u \in Seq(Char), NEW h, NEW i, NEW a \in Nat, NEW m,
         HeadersIn(r, t, h, a, m), a <= Len(t), Len(u) = Len(t),
         \A k \in 1..a - 1 : u[k] = t[k], \A k \in 1..m : i[k] = h[k]
  PROVE  HeadersIn(r, u, i, a, m)
<1>0. Len(t) \in Nat /\ m \in Nat
  BY LenProperties DEF HeadersIn
<1>1. ASSUME NEW p, Shut(t, p, a) PROVE Shut(u, p, a) /\ Str(u, p) = Str(t, p)
  <2>1. PICK k \in p..a - 1 : t[k] = Nul
    BY <1>1 DEF Shut
  <2>2. p \in Nat /\ 1 <= p /\ k \in Nat /\ p <= k /\ k <= Len(t) /\ k <= Len(u) /\ k \in 1..a - 1
    BY <1>0, <1>1, <2>1 DEF Shut
  <2>3. \A j \in p..k : u[j] = t[j]
    <3> SUFFICES ASSUME NEW j \in p..k PROVE u[j] = t[j]
      OBVIOUS
    <3>1. j \in 1..a - 1
      BY <2>2
    <3> QED  BY <3>1
  <2>4. u[k] = Nul
    BY <2>1, <2>2
  <2>5. Str(u, p) = Str(t, p)
    BY <2>2, <2>3, <2>4, StrShut
  <2> QED  BY <2>1, <2>2, <2>4, <2>5 DEF Shut
<1>2. ASSUME NEW k \in 1..m
      PROVE  /\ Shut(u, i[k].field, a) /\ FirstEnd(r) < i[k].field
             /\ Shut(u, i[k].value, a) /\ FirstEnd(r) < i[k].value
             /\ Said(u, i[k]) = Said(t, h[k])
  <2>1. i[k] = h[k]
    OBVIOUS
  <2>2. /\ Shut(t, h[k].field, a) /\ FirstEnd(r) < h[k].field
        /\ Shut(t, h[k].value, a) /\ FirstEnd(r) < h[k].value
    BY DEF HeadersIn
  <2>3. /\ Shut(u, h[k].field, a) /\ Str(u, h[k].field) = Str(t, h[k].field)
        /\ Shut(u, h[k].value, a) /\ Str(u, h[k].value) = Str(t, h[k].value)
    BY <1>1, <2>2
  <2>4. Said(u, h[k]) = Said(t, h[k])
    BY <2>3 DEF Said
  <2> QED  BY <2>1, <2>2, <2>3, <2>4
<1>3. {Said(u, i[k]) : k \in 1..m} = {Said(t, h[k]) : k \in 1..m}
  BY <1>2
<1> QED  BY <1>2, <1>3 DEF HeadersIn

\* Before the first header line there is no header.
LEMMA HeadersNone ==
  ASSUME NEW r \in Seq(Char), NEW v, NEW e, NEW p, NEW q, NEW s, ReqParts(r, v, e, p, q, s),
         NEW t, NEW h
  PROVE  HeadersIn(r, t, h, s + 10, 0)
<1>1. HeadersTo(r, s + 10)
  BY FirstHeader
<1>2. s \in Nat /\ s + 8 \in Breaks(r) /\ FirstEnd(r) = s + 8
  <2>1. s \in Nat
    BY DEF ReqParts
  <2>2. s + 8 \in Breaks(r) /\ FirstEnd(r) = s + 8
    BY ReqIsLine
  <2> QED  BY <2>1, <2>2
<1>3. HeadEnds(r, s + 10) = {}
  <2> SUFFICES ASSUME NEW b \in Breaks(r), s + 8 < b, b < s + 10 PROVE FALSE
    BY <1>2 DEF HeadEnds
  <2>0. b \in Nat
    BY BreakIs
  <2>1. b = (s + 8) + 1
    BY <1>2, <2>0
  <2>2. (s + 8) + 1 \notin Breaks(r)
    BY <1>2, BreakIs
  <2> QED  BY <2>1, <2>2
<1>4. {Said(t, h[i]) : i \in 1..0} = {} /\ {Meant(r, b) : b \in HeadEnds(r, s + 10)} = {}
  BY <1>3
<1>5. Cardinality(HeadEnds(r, s + 10)) = 0
  BY <1>3, FS_EmptySet
<1> QED  BY <1>1, <1>4, <1>5 DEF HeadersIn

\* The next header is read with its line.
LEMMA HeadersMore ==
  ASSUME NEW r \in Seq(Char \ {Nul}), NEW t \in Seq(Char), Len(t) = Len(r) + 1, NEW h, NEW a, NEW m,
         HeadersIn(r, t, h, a, m),
         NEW f, NEW c, NEW g, NEW z, HdrParts(r, a, f, c, g, z),
         h[m + 1].field = f, h[m + 1].value = g, t[z] = Nul, \A k \in g..z - 1 : t[k] = r[k],
         NEW n \in Nat, f < n, n <= c, Span(r, f, n, FieldChar), n = c \/ r[n] \in Blank,
         t[n] = Nul, \A k \in f..n - 1 : t[k] = r[k]
  PROVE  HeadersIn(r, t, h, z + 2, m + 1)
<1>0. r \in Seq(Char) /\ HeadersTo(r, a) /\ m \in Nat /\ m = Cardinality(HeadEnds(r, a))
  BY NoNul DEF HeadersIn
<1>1. /\ a \in Nat /\ f \in Nat /\ c \in Nat /\ g \in Nat /\ z \in Nat
      /\ 1 <= a /\ a <= f /\ f < c /\ c < g /\ g < z /\ z < Len(r) /\ Len(r) \in Nat
  BY <1>0, HdrPlaces
<1>2. Lines(r, a, z) /\ HeadersTo(r, z + 2)
  BY <1>0, NextHeader
<1>3. z \in Breaks(r) /\ FirstEnd(r) < a /\ FirstEnd(r) \in Nat /\ Breaks(r) \in SUBSET (1..Len(r))
  <2>1. Breaks(r) \in SUBSET (1..Len(r))
    BY <1>1 DEF Breaks
  <2>2. Breaks(r) # {} /\ FirstEnd(r) < a
    BY <1>0 DEF HeadersTo
  <2>3. FirstEnd(r) \in Breaks(r)
    BY <2>1, <2>2, MinOfNats DEF FirstEnd
  <2> QED  BY <1>2, <2>1, <2>2, <2>3 DEF Lines
<1>4. HeadEnds(r, z + 2) = HeadEnds(r, a) \cup {z} /\ z \notin HeadEnds(r, a)
  <2>1. ASSUME NEW b \in Breaks(r), FirstEnd(r) < b, b < z + 2 PROVE b < a \/ b = z
    <3>1. b \in Nat /\ b # z + 1
      BY <1>0, <1>3, BreakIs
    <3>2. b < z \/ b = z
      BY <1>1, <2>1, <3>1
    <3> QED  BY <1>2, <3>2 DEF Lines
  <2>2. FirstEnd(r) < z /\ z < z + 2 /\ ~(z < a)
    BY <1>1, <1>3
  <2>3. \A b \in Breaks(r) : b < a => b < z + 2
    BY <1>1, <1>3
  <2> QED  BY <1>3, <2>1, <2>2, <2>3 DEF HeadEnds
<1>5. m + 1 = Cardinality(HeadEnds(r, z + 2))
  <2>1. IsFiniteSet(HeadEnds(r, a))
    <3>1. IsFiniteSet(1..Len(r))
      BY <1>1, FS_Interval
    <3>2. HeadEnds(r, a) \in SUBSET (1..Len(r))
      BY <1>3 DEF HeadEnds
    <3> QED  BY <3>1, <3>2, FS_Subset
  <2>2. Cardinality(HeadEnds(r, a) \cup {z}) = m + 1
    BY <1>0, <1>4, <2>1, FS_AddElement
  <2> QED  BY <1>4, <2>2
<1>6. Said(t, h[m + 1]) = Meant(r, z)
  <2>1. Str(t, f) = SubSeq(r, f, n - 1)
    <3>1. f \in Nat /\ 1 <= f /\ f <= n /\ n <= Len(t)
      BY <1>1
    <3> QED  BY <3>1, StrOfRequest
  <2>2. Str(t, g) = SubSeq(r, g, z - 1)
    <3>1. g \in Nat /\ z \in Nat /\ 1 <= g /\ g <= z /\ z <= Len(t)
      BY <1>1
    <3> QED  BY <3>1, StrOfRequest
  <2>3. /\ Word(Field(Line(r, z)), 1) = SubSeq(r, f, n - 1)
        /\ Value(Line(r, z)) = SubSeq(r, g, z - 1)
    BY <1>0, <1>2, HdrSays
  <2> QED  BY <2>1, <2>2, <2>3 DEF Said, Meant
<1>7. {Said(t, h[i]) : i \in 1..m + 1} = {Meant(r, b) : b \in HeadEnds(r, z + 2)}
  <2>1. {Said(t, h[i]) : i \in 1..m} = {Meant(r, b) : b \in HeadEnds(r, a)}
    BY DEF HeadersIn
  <2>2. 1..m + 1 = (1..m) \cup {m + 1}
    BY <1>0
  <2>3. {Said(t, h[i]) : i \in 1..m + 1} = {Said(t, h[i]) : i \in 1..m} \cup {Said(t, h[m + 1])}
    BY <2>2
  <2>4. {Meant(r, b) : b \in HeadEnds(r, z + 2)} = {Meant(r, b) : b \in HeadEnds(r, a)} \cup {Meant(r, z)}
    BY <1>4
  <2> QED  BY <1>6, <2>1, <2>3, <2>4
<1>8. ASSUME NEW i \in 1..m + 1
      PROVE  /\ Shut(t, h[i].field, z + 2) /\ FirstEnd(r) < h[i].field
             /\ Shut(t, h[i].value, z + 2) /\ FirstEnd(r) < h[i].value
  <2>1. CASE i = m + 1
    <3>1. n \in f..(z + 2) - 1 /\ z \in g..(z + 2) - 1
      BY <1>1
    <3>2. FirstEnd(r) < f /\ FirstEnd(r) < g /\ 1 <= f /\ 1 <= g
      BY <1>1, <1>3
    <3> QED  BY <1>1, <2>1, <3>1, <3>2 DEF Shut
  <2>2. CASE i # m + 1
    <3>1. i \in 1..m
      BY <1>0, <2>2
    <3>2. /\ Shut(t, h[i].field, a) /\ FirstEnd(r) < h[i].field
          /\ Shut(t, h[i].value, a) /\ FirstEnd(r) < h[i].value
      BY <3>1 DEF HeadersIn
    <3>3. ASSUME NEW p, Shut(t, p, a) PROVE Shut(t, p, z + 2)
      <4>1. PICK k \in p..a - 1 : t[k] = Nul
        BY <3>3 DEF Shut
      <4>2. k \in p..(z + 2) - 1
        BY <1>1, <3>3 DEF Shut
      <4> QED  BY <3>3, <4>1, <4>2 DEF Shut
    <3> QED  BY <3>2, <3>3
  <2> QED  BY <2>1, <2>2
<1>9. m + 1 \in Nat
  BY <1>0
<1> QED  BY <1>2, <1>5, <1>7, <1>8, <1>9 DEF HeadersIn

\* The parser sees an end of line where the request has one.
LEMMA EndIs ==
  ASSUME TextInv, phase = "parse", at <= Len(text)
  PROVE  EndOfLine <=> at \in Breaks(request)
<1>0. /\ at \in Nat /\ 1 <= at /\ Len(request) \in Nat /\ Len(text) = Len(request) + 1
      /\ text \in Seq(Char) /\ request \in Seq(Char)
  BY DEF TextInv
<1>1. IF at <= Len(request) THEN Byte(at) = request[at] ELSE Byte(at) = Nul
  <2>1. at \in 1..Len(text) /\ at <= at
    BY <1>0
  <2> QED  BY <2>1, Ahead
<1>2. at + 1 <= Len(text) =>
        IF at + 1 <= Len(request) THEN Byte(at + 1) = request[at + 1] ELSE Byte(at + 1) = Nul
  <2> SUFFICES ASSUME at + 1 <= Len(text)
               PROVE  IF at + 1 <= Len(request) THEN Byte(at + 1) = request[at + 1] ELSE Byte(at + 1) = Nul
    OBVIOUS
  <2>1. at + 1 \in 1..Len(text) /\ at <= at + 1
    BY <1>0
  <2> QED  BY <2>1, Ahead
<1>3. Nul # CR /\ Nul # LF
  BY NulStops
<1>4. ASSUME EndOfLine PROVE at \in Breaks(request)
  <2>1. Byte(at) = CR /\ Byte(at + 1) = LF
    BY <1>4 DEF EndOfLine
  <2>2. at <= Len(request) /\ request[at] = CR
    BY <1>1, <1>3, <2>1
  <2>3. at + 1 <= Len(text)
    BY <1>0, <2>2
  <2>4. at + 1 <= Len(request) /\ request[at + 1] = LF
    BY <1>2, <1>3, <2>1, <2>3
  <2>5. at \in 1..Len(request) - 1
    BY <1>0, <2>4
  <2> QED  BY <2>2, <2>4, <2>5 DEF Breaks
<1>5. ASSUME at \in Breaks(request) PROVE EndOfLine
  <2>1. at \in 1..Len(request) - 1 /\ request[at] = CR /\ request[at + 1] = LF
    BY <1>0, <1>5, BreakIs
  <2>2. at <= Len(request) /\ at + 1 <= Len(request) /\ at + 1 <= Len(text)
    BY <1>0, <2>1
  <2> QED  BY <1>1, <1>2, <2>1, <2>2 DEF EndOfLine
<1> QED  BY <1>4, <1>5

\* No separator, no NUL.
LEMMA Uncut ==
  ASSUME TextInv, phase = "parse", NEW C, C \cap Separator = {},
         NEW p \in Nat, NEW n \in Nat, 1 <= p, n <= Len(request) + 1, Span(request, p, n, C)
  PROVE  \A i \in p..n - 1 : text[i] = request[i]
<1> SUFFICES ASSUME NEW i \in p..n - 1 PROVE text[i] = request[i]
  OBVIOUS
<1>1. Len(request) \in Nat
  BY DEF TextInv
<1>2. i \in 1..Len(request)
  BY <1>1
<1>3. request[i] \in C
  BY DEF Span
<1> QED  BY <1>2, <1>3 DEF TextInv

\* No verb, path or name has a separator in it.
LEMMA NotSeparators ==
  FieldChar \cap Separator = {} /\ Letter \cap Separator = {} /\ PathChar \cap Separator = {}
<1>1. \A c \in Letter \cup PathChar \cup FieldChar : c \notin Blank /\ c # CR
  BY Apart
<1>2. ":" \notin Letter \cup PathChar \cup FieldChar
  BY DEF Letter, PathChar, FieldChar, Digit
<1> QED  BY <1>1, <1>2 DEF Separator

-----------------------------------------------------------------------------
(* The headers while they are parsed.                                      *)

\* A header whose name begins at f is being read in the line from a.
Opened(a, f) ==
  /\ header # <<>> /\ header[Len(header)].field = f
  /\ HeadersIn(request, text, header, a, Len(header) - 1)

\* Its name was ended with a NUL before place n, where its first word ends.
NameCut(f, n) ==
  \E k \in f + 1..n - 1 : Span(request, f, k, FieldChar) /\ request[k] \notin FieldChar /\ text[k] = Nul

FieldOpen(a, f)       == Opened(a, f) /\ FieldTo(request, a, f, at)
                         /\ (Span(request, f, at, FieldChar) \/ NameCut(f, at))
ColonOpen(a, f, c)    == Opened(a, f) /\ ColonTo(request, a, f, c, at) /\ NameCut(f, at)
ValueOpen(a, f, c, g) == /\ Opened(a, f) /\ ValueTo(request, a, f, c, g, at) /\ NameCut(f, at)
                         /\ header[Len(header)].value = g /\ \A k \in g..at - 1 : text[k] = request[k]

\* All header lines were read, and a blank line at z.
HeadRead(a, z) ==
  /\ HeadersIn(request, text, header, a, Len(header))
  /\ z \in Breaks(request) /\ a <= z /\ Span(request, a, z, Blank)
  /\ body = z + 2 /\ \A k \in z + 2..Len(request) : text[k] = request[k]

HeadInv ==
  phase = "parse" =>
    /\ state \in {"verb_begin", "verb_end", "path_begin", "path_end", "version"} => header = <<>>
    /\ state = "field_begin" => \E a : /\ HeadersIn(request, text, header, a, Len(header))
                                       /\ a <= at /\ Span(request, a, at, Blank)
    /\ state = "field_end"   => \E a, f : FieldOpen(a, f)
    /\ state = "value_begin" => \E a, f, c : ColonOpen(a, f, c)
    /\ state = "value_end"   => \E a, f, c, g : ValueOpen(a, f, c, g)
    /\ Parsed => \E a, z : HeadRead(a, z)

\* What the parser does from place a on leaves the headers before it.
LEMMA HeadersStay ==
  ASSUME TextInv, Bounded, RoomInv, Parse, NEW a, NEW m, a <= at,
         HeadersIn(request, text, header, a, m), \A k \in 1..m : header'[k] = header[k], state # "err"
  PROVE  HeadersIn(request, text, header, a, m)'
<1>0. /\ request' = request /\ at <= Len(text)
      /\ \/ text' = text
         \/ Cut /\ at \in 1..Len(request) /\ request[at] \in Separator
  BY ParseCuts
<1>1. phase = "parse" /\ at \in Nat /\ text \in Seq(Char) /\ Len(text) \in Nat
  BY ParseCuts DEF TextInv
<1>2. a \in Nat
  BY DEF HeadersIn, HeadersTo
<1>3. text' \in Seq(Char) /\ Len(text') = Len(text) /\ \A k \in 1..a - 1 : text'[k] = text[k]
  <2>1. CASE text' = text
    BY <1>1, <2>1
  <2>2. CASE Cut /\ at \in 1..Len(request) /\ request[at] \in Separator
    <3>1. /\ text' \in Seq(Char) /\ Len(text') = Len(text)
          /\ \A i \in 1..Len(text) : i # at => text'[i] = text[i]
      BY <1>1, <2>2, CutStep
    <3>2. \A k \in 1..a - 1 : k \in 1..Len(text) /\ k # at
      BY <1>0, <1>1, <1>2
    <3> QED  BY <3>1, <3>2
  <2> QED  BY <1>0, <2>1, <2>2
<1>4. a <= Len(text)
  BY <1>0, <1>1, <1>2
<1>5. HeadersIn(request, text', header', a, m)
  BY <1>1, <1>2, <1>3, <1>4, HeadersKept
<1> QED  BY <1>0, <1>5

\* A NUL behind a name stays.
LEMMA NameStays ==
  ASSUME TextInv, Bounded, RoomInv, Parse, state # "err", NEW f \in Nat, 1 <= f, NameCut(f, at)
  PROVE  NameCut(f, at)'
<1>0. request' = request /\ at < at' /\ at' \in Nat /\ at \in Nat /\ at <= Len(text) /\ Len(text) \in Nat
  BY ParseCuts DEF TextInv
<1>1. PICK k \in f + 1..at - 1 : Span(request, f, k, FieldChar) /\ request[k] \notin FieldChar /\ text[k] = Nul
  BY DEF NameCut
<1>2. PICK n \in Nat : n = at'
  BY <1>0
<1>3. at < n
  BY <1>0, <1>2
<1>4. k \in Nat /\ 1 <= k /\ k < at /\ k <= Len(text) /\ k \in f + 1..n - 1
  BY <1>0, <1>3
<1>5. text'[k] = Nul
  BY <1>1, <1>4, NulStays
<1>6. \E j \in f + 1..n - 1 : Span(request, f, j, FieldChar) /\ request[j] \notin FieldChar /\ text'[j] = Nul
  BY <1>1, <1>4, <1>5
<1> QED  BY <1>0, <1>2, <1>6 DEF NameCut

\* A name is ended by the first NUL written behind it.
LEMMA NameEnds ==
  ASSUME TextInv, Bounded, RoomInv, Parse, state # "err", NEW f \in Nat, 1 <= f, f < at,
         Span(request, f, at, FieldChar) \/ NameCut(f, at),
         Cut, at \in 1..Len(request), request[at] \in Blank \cup {":"}
  PROVE  NameCut(f, at)'
<1>0. /\ request' = request /\ at < at' /\ at' \in Nat /\ at \in Nat /\ phase = "parse"
  BY ParseCuts DEF TextInv
<1>1. CASE Span(request, f, at, FieldChar)
  <2>1. request[at] \notin FieldChar /\ request[at] \in Separator
    BY Apart DEF Separator
  <2>2. text'[at] = Nul
    BY <1>0, <2>1, CutStep
  <2>3. PICK n \in Nat : n = at'
    BY <1>0
  <2>4. PICK k \in Nat : k = at
    BY <1>0
  <2>5. k \in f + 1..n - 1
    <3>1. f < k /\ k < n
      BY <1>0, <2>3, <2>4
    <3> QED  BY <3>1
  <2>6. \E j \in f + 1..n - 1 : Span(request, f, j, FieldChar) /\ request[j] \notin FieldChar /\ text'[j] = Nul
    BY <1>1, <2>1, <2>2, <2>4, <2>5
  <2> QED  BY <1>0, <2>3, <2>6 DEF NameCut
<1>2. CASE NameCut(f, at)
  BY <1>2, NameStays
<1> QED  BY <1>1, <1>2

\* Where the parser is when it takes a step.
LEMMA HeadPlaces ==
  ASSUME TextInv, Bounded, RoomInv, TypeOK, Parse, state # "err"
  PROVE  /\ phase = "parse" /\ phase' = "parse" /\ request' = request /\ body = 0
         /\ at \in Nat /\ 1 <= at /\ at <= Len(text) /\ at' \in Nat /\ at < at'
         /\ Len(request) \in Nat /\ Len(text) = Len(request) + 1
         /\ request \in Seq(Char) /\ request \in Seq(Char \ {Nul}) /\ text \in Seq(Char)
         /\ Len(header) \in Nat /\ header \in Seq([field : 1..Len(text), value : 0..Len(text)])
<1>1. /\ phase = "parse" /\ phase' = "parse" /\ request' = request
      /\ at' \in Nat /\ at < at' /\ at <= Len(text)
  BY ParseCuts
<1>2. state # "halt"
  BY DEF Parse, VerbBegin, VerbEnd, PathBegin, PathEnd, ReadVersion, FieldBegin, FieldEnd,
         ValueBegin, ValueEnd, Error
<1>3. body = 0
  BY <1>2 DEF RoomInv
<1>4. header \in Seq([field : 1..Len(text), value : 0..Len(text)]) /\ Len(header) \in Nat
  BY LenProperties DEF TypeOK
<1>5. /\ at \in Nat /\ 1 <= at /\ Len(request) \in Nat /\ Len(text) = Len(request) + 1
      /\ request \in Seq(Char) /\ request \in Seq(Char \ {Nul}) /\ text \in Seq(Char)
  BY <1>1 DEF TextInv
<1> QED  BY <1>1, <1>3, <1>4, <1>5

\* HeadInv, step by step: until the version is read there is no header.
LEMMA HeadOfLine ==
  ASSUME TextInv, Bounded, RoomInv, TypeOK, HeadInv,
         VerbBegin \/ VerbEnd \/ PathBegin \/ PathEnd
  PROVE  HeadInv'
<1>1. Parse /\ state # "err"
  BY DEF Parse, VerbBegin, VerbEnd, PathBegin, PathEnd
<1>2. phase = "parse" /\ body = 0
  BY <1>1, HeadPlaces
<1>3. /\ header' = header /\ body' = body
      /\ state \in {"verb_begin", "verb_end", "path_begin", "path_end"}
      /\ state' \in {"verb_begin", "verb_end", "path_begin", "path_end", "version", "err"}
  BY DEF VerbBegin, VerbEnd, PathBegin, PathEnd, Move, reqData
<1> QED  BY <1>2, <1>3 DEF HeadInv, Parsed

LEMMA HeadVersion ==
  ASSUME TextInv, Bounded, RoomInv, TypeOK, HeadInv, LineInv, ReadVersion
  PROVE  HeadInv'
<1>1. Parse /\ state # "err" /\ state = "version"
  BY DEF Parse, ReadVersion
<1>2. /\ phase = "parse" /\ phase' = "parse" /\ body = 0 /\ request' = request /\ at \in Nat
      /\ request \in Seq(Char)
  BY <1>1, HeadPlaces
<1>3. header = <<>> /\ header' = <<>> /\ body' = 0
  BY <1>1, <1>2 DEF HeadInv, ReadVersion
<1>4. CASE state' \in {"version", "err"}
  BY <1>2, <1>3, <1>4 DEF HeadInv, Parsed
<1>5. CASE Here \notin Blank /\ Agrees(10)
  <2>1. state' = "field_begin" /\ at' = at + 10
    BY <1>5 DEF ReadVersion, Move
  <2>2. PICK e, q : ReqParts(request, verb, e, path, q, at)
    BY <1>1, <1>2, <1>5, VersionRead
  <2>3. PICK a \in Nat : a = at + 10
    BY <1>2
  <2>4. HeadersIn(request', text', header', a, Len(header'))
    <3>1. HeadersIn(request, text', header', at + 10, 0)
      BY <1>2, <2>2, HeadersNone
    <3>2. Len(header') = 0
      BY <1>3
    <3> QED  BY <1>2, <2>3, <3>1, <3>2
  <2>5. a <= at' /\ Span(request', a, at', Blank)
    BY <2>1, <2>3, SpanNone
  <2>6. \E b : HeadersIn(request', text', header', b, Len(header')) /\ b <= at' /\ Span(request', b, at', Blank)
    BY <2>4, <2>5
  <2> QED  BY <1>3, <2>1, <2>6 DEF HeadInv, Parsed
<1> QED  BY <1>4, <1>5 DEF ReadVersion, Move

\* The blank line, or a header that is opened.
LEMMA HeadFieldBegin ==
  ASSUME TextInv, Bounded, RoomInv, TypeOK, HeadInv, FieldBegin
  PROVE  HeadInv'
<1>1. Parse /\ state # "err" /\ state = "field_begin"
  BY DEF Parse, FieldBegin
<1>2. /\ phase = "parse" /\ phase' = "parse" /\ body = 0 /\ request' = request /\ at \in Nat /\ 1 <= at
      /\ request \in Seq(Char) /\ at <= Len(text) /\ Len(header) \in Nat /\ text' = text
      /\ header \in Seq([field : 1..Len(text), value : 0..Len(text)])
  BY <1>1, HeadPlaces DEF FieldBegin
<1>3. PICK a : HeadersIn(request, text, header, a, Len(header)) /\ a <= at /\ Span(request, a, at, Blank)
  BY <1>1, <1>2 DEF HeadInv
<1>a. PICK m \in Nat : m = Len(header)
  BY <1>2
<1>4. a \in Nat /\ 1 <= a /\ HeadersIn(request, text, header, a, m)
  <2>1. a \in Nat /\ a - 2 \in Breaks(request)
    BY <1>3 DEF HeadersIn, HeadersTo
  <2>2. a - 2 \in Nat \ {0}
    BY <1>2, <2>1, BreakIs
  <2> QED  BY <1>3, <1>a, <2>1, <2>2
<1>5. CASE EndOfLine
  <2>1. Here = CR /\ Here \notin FieldChar
    BY <1>5, Apart DEF EndOfLine, Here
  <2>2. header' = header /\ body' = at + 2 /\ state' = "halt"
    BY <1>5, <2>1 DEF FieldBegin, Move
  <2>3. PICK z \in Nat : z = at
    BY <1>2
  <2>4. z \in Breaks(request) /\ a <= z /\ Span(request, a, z, Blank)
    BY <1>2, <1>3, <1>5, <2>3, EndIs
  <2>5. \A k \in z + 2..Len(request) : text[k] = request[k]
    <3> SUFFICES ASSUME NEW k \in z + 2..Len(request) PROVE text[k] = request[k]
      OBVIOUS
    <3>1. Len(request) \in Nat
      BY <1>2 DEF TextInv
    <3>2. k \in 1..Len(request) /\ ~(k < at)
      BY <1>2, <2>3, <3>1
    <3> QED  BY <1>2, <3>2 DEF TextInv
  <2>6. HeadRead(a, z)'
    BY <1>2, <1>3, <2>2, <2>3, <2>4, <2>5 DEF HeadRead
  <2> QED  BY <2>2, <2>6 DEF HeadInv
<1>6. CASE ~EndOfLine /\ Here \in Blank
  <2>1. Here \notin FieldChar
    BY <1>6, Apart
  <2>2. header' = header /\ body' = 0 /\ state' = "field_begin" /\ at' = at + 1
    BY <1>2, <1>6, <2>1 DEF FieldBegin, Move
  <2>3. request[at] \in Blank
    BY <1>2, <1>6, HereIs, NulStops
  <2>4. a <= at + 1 /\ Span(request, a, at + 1, Blank)
    BY <1>2, <1>3, <1>4, <2>3, SpanMore
  <2>5. \E b : HeadersIn(request', text', header', b, Len(header')) /\ b <= at' /\ Span(request', b, at', Blank)
    BY <1>2, <1>3, <2>2, <2>4
  <2> QED  BY <2>2, <2>5 DEF HeadInv, Parsed
<1>7. CASE ~EndOfLine /\ Here \notin Blank /\ Here \in FieldChar
  <2>1. /\ header' = Append(header, [field |-> at, value |-> 0]) /\ body' = 0 /\ state' = "field_end"
        /\ at' = at + 1
    BY <1>2, <1>7 DEF FieldBegin, Move
  <2>2. request[at] \in FieldChar
    BY <1>2, <1>7, HereIs, NulStops
  <2>3. PICK f \in Nat : f = at
    BY <1>2
  <2>4. /\ Len(header') = m + 1 /\ header'[m + 1].field = f /\ header' # <<>>
        /\ \A k \in 1..m : header'[k] = header[k]
    BY <1>2, <1>a, <2>1, <2>3
  <2>5. HeadersIn(request, text, header, a, m)'
    BY <1>1, <1>3, <1>4, <2>4, HeadersStay
  <2>6. Opened(a, f)'
    <3>1. Len(header') - 1 = m
      BY <2>4
    <3> QED  BY <2>4, <2>5, <3>1 DEF Opened
  <2>7. Span(request, f, f + 1, FieldChar)
    BY <2>2, <2>3, SpanNone, SpanMore
  <2>8. FieldTo(request, a, f, f + 1)
    <3>1. Span(request, f, f + 1, FieldChar \cup Blank)
      BY <2>7 DEF Span
    <3> QED  BY <1>3, <1>4, <2>2, <2>3, <3>1 DEF FieldTo
  <2>9. FieldOpen(a, f)'
    BY <1>2, <2>1, <2>3, <2>6, <2>7, <2>8 DEF FieldOpen
  <2> QED  BY <2>1, <2>9 DEF HeadInv, Parsed
<1>8. CASE ~EndOfLine /\ Here \notin Blank /\ Here \notin FieldChar
  BY <1>2, <1>8 DEF FieldBegin, Move, HeadInv, Parsed
<1> QED  BY <1>5, <1>6, <1>7, <1>8

\* A name goes on, is ended, or the colon comes.
LEMMA HeadFieldEnd ==
  ASSUME TextInv, Bounded, RoomInv, TypeOK, HeadInv, FieldEnd
  PROVE  HeadInv'
<1>1. Parse /\ state # "err" /\ state = "field_end"
  BY DEF Parse, FieldEnd
<1>2. /\ phase = "parse" /\ phase' = "parse" /\ body' = 0 /\ request' = request /\ at \in Nat /\ 1 <= at
      /\ request \in Seq(Char) /\ at <= Len(text) /\ Len(header) \in Nat /\ header' = header /\ at' = at + 1
  BY <1>1, HeadPlaces DEF FieldEnd, Move, reqData
<1>3. PICK a, f : FieldOpen(a, f)
  BY <1>1, <1>2 DEF HeadInv
<1>4. /\ a \in Nat /\ f \in Nat /\ 1 <= a /\ a <= f /\ f < at /\ a <= at /\ 1 <= f /\ f <= at
      /\ FieldTo(request, a, f, at) /\ Span(request, f, at, FieldChar \cup Blank)
  BY <1>2, <1>3 DEF FieldOpen, FieldTo
<1>5. Opened(a, f)'
  <2>1. PICK m \in Int : m = Len(header) - 1
    BY <1>2
  <2>2. HeadersIn(request, text, header, a, m)'
    BY <1>1, <1>2, <1>3, <1>4, <2>1, HeadersStay DEF FieldOpen, Opened
  <2> QED  BY <1>2, <1>3, <2>1, <2>2 DEF FieldOpen, Opened
<1>6. CASE Here = ":"
  <2>1. state' = "value_begin" /\ Cut
    BY <1>6 DEF FieldEnd, Move
  <2>2. at \in 1..Len(request) /\ request[at] = ":"
    <3>1. Here \in {":"} /\ Nul \notin {":"}
      BY <1>6, NulStops
    <3> QED  BY <1>2, <3>1, HereIs
  <2>3. NameCut(f, at)'
    BY <1>1, <1>3, <1>4, <2>1, <2>2, NameEnds DEF FieldOpen
  <2>4. PICK c \in Nat : c = at
    BY <1>2
  <2>5. ColonTo(request, a, f, c, c + 1)
    BY <1>4, <2>2, <2>4, SpanNone DEF ColonTo
  <2>6. ColonOpen(a, f, c)'
    BY <1>2, <1>5, <2>3, <2>4, <2>5 DEF ColonOpen
  <2> QED  BY <1>2, <2>1, <2>6 DEF HeadInv, Parsed
<1>7. CASE Here # ":" /\ Here \in Blank \cup FieldChar
  <2>1. state' = "field_end"
    BY <1>7 DEF FieldEnd, Move
  <2>2. at \in 1..Len(request) /\ request[at] = Here
    BY <1>2, <1>7, HereIs, NulStops
  <2>3. FieldTo(request, a, f, at + 1)
    <3>1. Span(request, f, at + 1, FieldChar \cup Blank)
      BY <1>2, <1>4, <1>7, <2>2, SpanMore
    <3>2. at + 1 \in Nat /\ f < at + 1
      BY <1>2, <1>4
    <3> QED  BY <1>4, <3>1, <3>2 DEF FieldTo
  <2>4. CASE Here \in Blank
    <3>1. Cut
      BY <2>4 DEF FieldEnd
    <3>2. NameCut(f, at)'
      BY <1>1, <1>3, <1>4, <2>2, <2>4, <3>1, NameEnds DEF FieldOpen
    <3>3. FieldOpen(a, f)'
      BY <1>2, <1>5, <2>3, <3>2 DEF FieldOpen
    <3> QED  BY <1>2, <2>1, <3>3 DEF HeadInv, Parsed
  <2>5. CASE Here \in FieldChar
    <3>1. Span(request, f, at, FieldChar) => Span(request, f, at + 1, FieldChar)
      BY <1>2, <1>4, <2>2, <2>5, SpanMore
    <3>2. NameCut(f, at) => NameCut(f, at)'
      BY <1>1, <1>4, NameStays
    <3>3. FieldOpen(a, f)'
      BY <1>2, <1>3, <1>5, <2>3, <3>1, <3>2 DEF FieldOpen
    <3> QED  BY <1>2, <2>1, <3>3 DEF HeadInv, Parsed
  <2> QED  BY <1>7, <2>4, <2>5
<1>8. CASE Here # ":" /\ Here \notin Blank \cup FieldChar
  <2>1. state' = "err"
    BY <1>8 DEF FieldEnd, Move
  <2> QED  BY <2>1 DEF HeadInv, Parsed
<1> QED  BY <1>6, <1>7, <1>8

\* A value is set in the last header.
LEMMA LastValue ==
  ASSUME NEW F, NEW V, NEW h \in Seq([field : F, value : V]), NEW m \in Nat, Len(h) = m + 1, NEW v \in V,
         NEW i, i = [h EXCEPT ![Len(h)].value = v]
  PROVE  /\ Len(i) = m + 1 /\ i[m + 1].field = h[m + 1].field /\ i[m + 1].value = v
         /\ \A k \in 1..m : i[k] = h[k]
<1> DEFINE R == [field : F, value : V]
<1>1. h \in [1..m + 1 -> R] /\ m + 1 \in 1..m + 1
  <2>1. h \in [1..Len(h) -> R]
    BY LenProperties, Zenon
  <2> HIDE DEF R
  <2> QED  BY <2>1
<1>2. h[m + 1] \in [field : F, value : V]
  BY <1>1
<1>3. PICK x : x = [h[m + 1] EXCEPT !.value = v]
  OBVIOUS
<1>4. x.field = h[m + 1].field /\ x.value = v /\ x \in R
  BY <1>2, <1>3
<1>5. i = [h EXCEPT ![m + 1] = x]
  BY <1>3
<1>6. h \in Seq(R) /\ m + 1 \in 1..Len(h)
  BY <1>1
<1> HIDE DEF R
<1>7. /\ Len(i) = Len(h)
      /\ \A j \in 1..Len(h) : i[j] = IF j = m + 1 THEN x ELSE h[j]
  BY <1>4, <1>5, <1>6, ExceptSeq
<1>8. i[m + 1] = x
  BY <1>6, <1>7
<1>9. \A k \in 1..m : i[k] = h[k]
  <2>1. \A k \in 1..m : k \in 1..Len(h) /\ k # m + 1
    OBVIOUS
  <2> QED  BY <1>7, <2>1
<1> QED  BY <1>4, <1>7, <1>8, <1>9

\* A value begins.
LEMMA HeadValueBegin ==
  ASSUME TextInv, Bounded, RoomInv, TypeOK, HeadInv, ValueBegin
  PROVE  HeadInv'
<1>1. Parse /\ state # "err" /\ state = "value_begin"
  BY DEF Parse, ValueBegin
<1>2. /\ phase = "parse" /\ phase' = "parse" /\ body' = 0 /\ request' = request /\ at \in Nat /\ 1 <= at
      /\ request \in Seq(Char) /\ at <= Len(text) /\ Len(header) \in Nat /\ text' = text /\ at' = at + 1
      /\ header \in Seq([field : 1..Len(text), value : 0..Len(text)])
  BY <1>1, HeadPlaces DEF ValueBegin, Move
<1>3. PICK a, f, c : ColonOpen(a, f, c)
  BY <1>1, <1>2 DEF HeadInv
<1>4. /\ a \in Nat /\ f \in Nat /\ c \in Nat /\ 1 <= a /\ a <= f /\ f < c /\ c < at /\ a <= at /\ 1 <= f
      /\ ColonTo(request, a, f, c, at) /\ FieldTo(request, a, f, c) /\ Span(request, c + 1, at, Blank)
  <2>1. ColonTo(request, a, f, c, at)
    BY <1>3 DEF ColonOpen
  <2>2. /\ a \in Nat /\ f \in Nat /\ c \in Nat /\ 1 <= a /\ a <= f /\ f < c /\ c < at
        /\ FieldTo(request, a, f, c) /\ Span(request, c + 1, at, Blank)
    BY <2>1 DEF ColonTo, FieldTo
  <2> QED  BY <1>2, <2>1, <2>2
<1>5. /\ NameCut(f, at)' /\ Opened(a, f)
      /\ header # <<>> /\ header[Len(header)].field = f
      /\ HeadersIn(request, text, header, a, Len(header) - 1)
  <2>1. NameCut(f, at) /\ Opened(a, f)
    BY <1>3 DEF ColonOpen
  <2> QED  BY <1>1, <1>4, <2>1, NameStays DEF Opened
<1>6. PICK m \in Nat : m = Len(header) - 1
  <2>1. Len(header) # 0
    BY <1>2, <1>5, EmptySeq
  <2>2. Len(header) - 1 \in Nat
    BY <1>2, <2>1
  <2> QED  BY <2>2
<1>7. CASE Here \in Blank
  <2>1. state' = "value_begin" /\ header' = header
    BY <1>7, Apart DEF ValueBegin, Move
  <2>2. request[at] \in Blank
    BY <1>2, <1>7, HereIs, NulStops
  <2>3. ColonTo(request, a, f, c, at + 1)
    <3>1. Span(request, c + 1, at + 1, Blank)
      BY <1>2, <1>4, <2>2, SpanMore
    <3>2. at + 1 \in Nat /\ c < at + 1 /\ request[c] = ":"
      BY <1>2, <1>4 DEF ColonTo
    <3> QED  BY <1>4, <3>1, <3>2 DEF ColonTo
  <2>4. Opened(a, f)'
    BY <1>2, <1>5, <2>1 DEF Opened
  <2>5. ColonOpen(a, f, c)'
    BY <1>2, <1>5, <2>3, <2>4 DEF ColonOpen
  <2> QED  BY <1>2, <2>1, <2>5 DEF HeadInv, Parsed
<1>8. CASE Here \notin Blank /\ Here \in ValueStart
  <2>1. state' = "value_end" /\ header' = [header EXCEPT ![Len(header)].value = at]
    BY <1>8 DEF ValueBegin, Move
  <2>2. request[at] \in ValueStart /\ request[at] = Here /\ text[at] = request[at]
    <3>1. at \in 1..Len(request) /\ request[at] \in ValueStart /\ request[at] = Here
      BY <1>2, <1>8, HereIs, NulStops
    <3>2. ~(at < at)
      BY <1>2
    <3> QED  BY <1>2, <3>1, <3>2 DEF TextInv
  <2>3. PICK g \in Nat : g = at
    BY <1>2
  <2>4. /\ Len(header') = m + 1 /\ header'[m + 1].field = f /\ header'[m + 1].value = g /\ header' # <<>>
        /\ \A k \in 1..m : header'[k] = header[k]
    <3>1. m + 1 = Len(header) /\ at \in 0..Len(text)
      BY <1>2, <1>6
    <3>2. /\ Len(header') = m + 1 /\ header'[m + 1].field = header[m + 1].field
          /\ header'[m + 1].value = at /\ \A k \in 1..m : header'[k] = header[k]
      BY <1>2, <2>1, <3>1, LastValue
    <3>3. header' # <<>>
      BY <3>2, EmptySeq
    <3> QED  BY <1>5, <2>3, <3>1, <3>2, <3>3
  <2>5. HeadersIn(request, text, header, a, m)'
    BY <1>1, <1>4, <1>5, <1>6, <2>4, HeadersStay
  <2>6. Opened(a, f)'
    <3>1. Len(header') - 1 = m
      BY <2>4
    <3> QED  BY <2>4, <2>5, <3>1 DEF Opened
  <2>7. ValueTo(request, a, f, c, g, g + 1)
    <3>1. Span(request, g, g + 1, ValueChar)
      BY <2>2, <2>3, SpanNone, SpanMore, Apart
    <3> QED  BY <1>4, <2>2, <2>3, <3>1 DEF ValueTo
  <2>8. \A k \in g..(g + 1) - 1 : text[k] = request[k]
    <3>1. \A k \in g..(g + 1) - 1 : k = at
      BY <2>3
    <3> QED  BY <2>2, <3>1
  <2>9. ValueOpen(a, f, c, g)'
    BY <1>2, <1>5, <2>3, <2>4, <2>6, <2>7, <2>8 DEF ValueOpen
  <2> QED  BY <1>2, <2>1, <2>9 DEF HeadInv, Parsed
<1>9. CASE Here \notin Blank /\ Here \notin ValueStart
  <2>1. state' = "err"
    BY <1>9 DEF ValueBegin, Move
  <2> QED  BY <2>1 DEF HeadInv, Parsed
<1> QED  BY <1>7, <1>8, <1>9

\* A value goes on, or the header is complete.
LEMMA HeadValueEnd ==
  ASSUME TextInv, Bounded, RoomInv, TypeOK, HeadInv, ValueEnd
  PROVE  HeadInv'
<1>1. Parse /\ state # "err" /\ state = "value_end"
  BY DEF Parse, ValueEnd
<1>2. /\ phase = "parse" /\ phase' = "parse" /\ body' = 0 /\ request' = request /\ at \in Nat /\ 1 <= at
      /\ request \in Seq(Char) /\ request \in Seq(Char \ {Nul}) /\ text \in Seq(Char)
      /\ at <= Len(text) /\ Len(header) \in Nat /\ header' = header
      /\ Len(request) \in Nat /\ Len(text) = Len(request) + 1
      /\ header \in Seq([field : 1..Len(text), value : 0..Len(text)])
  BY <1>1, HeadPlaces DEF ValueEnd, reqData
<1>3. PICK a, f, c, g : ValueOpen(a, f, c, g)
  BY <1>1, <1>2 DEF HeadInv
<1>4. /\ a \in Nat /\ f \in Nat /\ c \in Nat /\ g \in Nat /\ 1 <= a /\ a <= f /\ f < c /\ c < g /\ g < at
      /\ a <= at /\ 1 <= f /\ g <= at
      /\ FieldTo(request, a, f, c) /\ ColonTo(request, a, f, c, g) /\ request[g] \in ValueStart
      /\ Span(request, g, at, ValueChar) /\ request[c] = ":"
  <2>1. ValueTo(request, a, f, c, g, at)
    BY <1>3 DEF ValueOpen
  <2>2. ColonTo(request, a, f, c, g) /\ g < at /\ request[g] \in ValueStart /\ Span(request, g, at, ValueChar)
    BY <2>1 DEF ValueTo
  <2>3. /\ a \in Nat /\ f \in Nat /\ c \in Nat /\ g \in Nat /\ 1 <= a /\ a <= f /\ f < c /\ c < g
        /\ FieldTo(request, a, f, c) /\ request[c] = ":"
    BY <2>2 DEF ColonTo, FieldTo
  <2> QED  BY <1>2, <2>2, <2>3
<1>5. /\ NameCut(f, at) /\ NameCut(f, at)'
      /\ header # <<>> /\ header[Len(header)].field = f /\ header[Len(header)].value = g
      /\ HeadersIn(request, text, header, a, Len(header) - 1)
      /\ \A k \in g..at - 1 : text[k] = request[k]
  <2>1. /\ NameCut(f, at) /\ Opened(a, f) /\ header[Len(header)].value = g
        /\ \A k \in g..at - 1 : text[k] = request[k]
    BY <1>3 DEF ValueOpen
  <2> QED  BY <1>1, <1>4, <2>1, NameStays DEF Opened
<1>6. PICK m \in Nat : m = Len(header) - 1
  <2>1. Len(header) # 0
    BY <1>2, <1>5, EmptySeq
  <2>2. Len(header) - 1 \in Nat
    BY <1>2, <2>1
  <2> QED  BY <2>2
<1>7. HeadersIn(request, text, header, a, m)'
  BY <1>1, <1>2, <1>4, <1>5, <1>6, HeadersStay
<1>8. CASE EndOfLine
  <2>1. state' = "field_begin" /\ at' = at + 2 /\ Cut
    BY <1>8 DEF ValueEnd, Move
  <2>2. PICK z \in Nat : z = at
    BY <1>2
  <2>3. z \in Breaks(request) /\ z \in 1..Len(request) /\ request[z] = CR
    <3>1. z \in Breaks(request)
      BY <1>2, <1>8, <2>2, EndIs
    <3>2. z \in 1..Len(request) - 1 /\ request[z] = CR
      BY <1>2, <3>1, BreakIs
    <3> QED  BY <1>2, <3>1, <3>2
  <2>4. /\ text' \in Seq(Char) /\ Len(text') = Len(text) /\ text'[z] = Nul
        /\ \A i \in 1..Len(text) : i # z => text'[i] = text[i]
    <3>1. request[at] \in Separator /\ at \in 1..Len(request)
      BY <2>2, <2>3 DEF Separator
    <3> QED  BY <1>2, <2>1, <2>2, <3>1, CutStep
  <2>5. HdrParts(request, a, f, c, g, z)
    BY <1>4, <2>2, <2>3 DEF HdrParts, FieldTo, ColonTo
  <2>6. PICK n \in f + 1..at - 1 : Span(request, f, n, FieldChar) /\ request[n] \notin FieldChar /\ text[n] = Nul
    BY <1>5 DEF NameCut
  <2>7. n \in Nat /\ f < n /\ n <= c /\ f <= n
    <3>1. n \in Nat /\ f < n
      BY <1>4
    <3>2. ~(c < n)
      <4> SUFFICES ASSUME c < n PROVE FALSE
        OBVIOUS
      <4>1. c \in f..n - 1
        BY <1>4, <3>1
      <4>2. request[c] \in FieldChar
        BY <2>6, <4>1 DEF Span
      <4> QED  BY <1>4, <4>2, Apart
    <3> QED  BY <1>4, <3>1, <3>2
  <2>8. n = c \/ request[n] \in Blank
    <3>1. n # c => n \in f..c - 1
      BY <1>4, <2>7
    <3> QED  BY <1>4, <2>6, <3>1 DEF FieldTo, Span
  <2>9. text'[n] = Nul /\ \A k \in f..n - 1 : text'[k] = request[k]
    <3>1. n \in 1..Len(text) /\ n # z /\ 1 <= f /\ n <= Len(request) + 1
      BY <1>2, <1>4, <2>2, <2>7
    <3>2. \A k \in f..n - 1 : text[k] = request[k]
      <4>1. FieldChar \cap Separator = {} /\ Span(request, f, n, FieldChar)
        BY <2>6, NotSeparators
      <4>2. f \in Nat /\ n \in Nat /\ 1 <= f /\ n <= Len(request) + 1 /\ phase = "parse"
        BY <1>2, <1>4, <2>7, <3>1
      <4> QED  BY <4>1, <4>2, Uncut
    <3>3. \A k \in f..n - 1 : k \in 1..Len(text) /\ k # z
      BY <1>2, <1>4, <2>2, <2>7, <3>1
    <3> QED  BY <2>4, <2>6, <3>1, <3>2, <3>3
  <2>10. \A k \in g..z - 1 : text'[k] = request[k]
    <3>1. \A k \in g..z - 1 : k \in 1..Len(text) /\ k # z
      BY <1>2, <1>4, <2>2
    <3> QED  BY <1>5, <2>2, <2>4, <3>1
  <2>11. HeadersIn(request, text', header, z + 2, m + 1)
    <3>1. HeadersIn(request, text', header, a, m)
      BY <1>2, <1>7
    <3>2. header[m + 1].field = f /\ header[m + 1].value = g /\ Len(text') = Len(request) + 1
      <4>1. m + 1 = Len(header)
        BY <1>2, <1>6
      <4> QED  BY <1>2, <1>5, <2>4, <4>1
    <3>3. request \in Seq(Char \ {Nul}) /\ text' \in Seq(Char)
      BY <1>2, <2>4
    <3>4. n \in Nat /\ f < n /\ n <= c /\ Span(request, f, n, FieldChar) /\ text'[n] = Nul
      BY <2>6, <2>7, <2>9
    <3>5. text'[z] = Nul /\ \A k \in f..n - 1 : text'[k] = request[k]
      BY <2>4, <2>9
    <3> QED  BY <2>5, <2>8, <2>10, <3>1, <3>2, <3>3, <3>4, <3>5, HeadersMore
  <2>12. PICK b \in Nat : b = z + 2
    OBVIOUS
  <2>13. \E d : HeadersIn(request', text', header', d, Len(header')) /\ d <= at' /\ Span(request', d, at', Blank)
    <3>1. m + 1 = Len(header) /\ at' = b
      BY <1>2, <1>6, <2>1, <2>2, <2>12
    <3>2. HeadersIn(request, text', header, b, Len(header)) /\ b <= b /\ Span(request, b, b, Blank)
      BY <2>11, <2>12, <3>1, SpanNone
    <3> QED  BY <1>2, <3>1, <3>2
  <2> QED  BY <1>2, <2>1, <2>13 DEF HeadInv, Parsed
<1>9. CASE ~EndOfLine /\ Here \in ValueChar
  <2>1. state' = "value_end" /\ at' = at + 1 /\ text' = text
    BY <1>9 DEF ValueEnd, Move
  <2>2. at \in 1..Len(request) /\ request[at] \in ValueChar /\ request[at] = Here /\ text[at] = request[at]
    <3>1. at \in 1..Len(request) /\ request[at] \in ValueChar /\ request[at] = Here
      BY <1>2, <1>9, HereIs, NulStops
    <3>2. ~(at < at)
      BY <1>2
    <3> QED  BY <1>2, <3>1, <3>2 DEF TextInv
  <2>3. Opened(a, f)'
    BY <1>2, <1>5, <1>6, <1>7 DEF Opened
  <2>4. ValueTo(request, a, f, c, g, at + 1)
    <3>1. Span(request, g, at + 1, ValueChar)
      BY <1>2, <1>4, <2>2, SpanMore
    <3>2. at + 1 \in Nat /\ g < at + 1
      BY <1>2, <1>4
    <3> QED  BY <1>4, <3>1, <3>2 DEF ValueTo
  <2>5. \A k \in g..(at + 1) - 1 : text[k] = request[k]
    <3>1. \A k \in g..(at + 1) - 1 : k \in g..at - 1 \/ k = at
      BY <1>2, <1>4
    <3> QED  BY <1>5, <2>2, <3>1
  <2>6. ValueOpen(a, f, c, g)'
    BY <1>2, <1>5, <2>1, <2>3, <2>4, <2>5 DEF ValueOpen
  <2> QED  BY <1>2, <2>1, <2>6 DEF HeadInv, Parsed
<1>10. CASE ~EndOfLine /\ Here \notin ValueChar
  <2>1. state' = "err"
    BY <1>10 DEF ValueEnd, Move
  <2> QED  BY <2>1 DEF HeadInv, Parsed
<1> QED  BY <1>8, <1>9, <1>10

\* The headers are as HeadInv says, at first and after each step.
LEMMA HeadInit == Init => HeadInv
BY DEF Init, HeadInv, Parsed

LEMMA HeadStep == TextInv /\ Bounded /\ RoomInv /\ TypeOK /\ LineInv /\ HeadInv /\ [Next]_vars => HeadInv'
<1> SUFFICES ASSUME TextInv, Bounded, RoomInv, TypeOK, LineInv, HeadInv, [Next]_vars PROVE HeadInv'
  OBVIOUS
<1>1. CASE Error
  <2>1. body' = 0 /\ state' = "halt"
    BY <1>1 DEF Error, RoomInv, reqData
  <2> QED  BY <2>1 DEF HeadInv, Parsed
<1>2. CASE Dispatch
  <2>1. phase' # "parse"
    BY <1>2 DEF Dispatch, NoVerb, NoPath, Interpret, Complete
  <2> QED  BY <2>1 DEF HeadInv
<1>3. CASE UNCHANGED vars
  BY <1>3 DEF vars, reqData, lua, HeadInv, Parsed, HeadRead, FieldOpen, ColonOpen, ValueOpen, Opened, NameCut
<1> QED
  BY <1>1, <1>2, <1>3, HeadOfLine, HeadVersion, HeadFieldBegin, HeadFieldEnd, HeadValueBegin, HeadValueEnd
  DEF Next, Parse

\* The parser gives up on no well formed request.
LEMMA ErrStep ==
  ASSUME TextInv, Bounded, RoomInv, TypeOK, LineInv, HeadInv, Parse, state' = "err"
  PROVE  ~WellFormed(request)
<1>1. state # "err"
  BY DEF Parse, VerbBegin, VerbEnd, PathBegin, PathEnd, ReadVersion, FieldBegin, FieldEnd,
         ValueBegin, ValueEnd, Error
<1>2. /\ phase = "parse" /\ request \in Seq(Char) /\ at \in Nat /\ 1 <= at /\ at <= Len(text)
      /\ Len(request) \in Nat /\ Len(text) = Len(request) + 1
  BY <1>1, HeadPlaces
<1>3. ASSUME NEW C, Here \notin C PROVE Stops(request, at, C)
  BY <1>2, <1>3, HereIs
<1>4. ~EndOfLine => at \notin Breaks(request)
  BY <1>2, EndIs
<1>5. CASE VerbBegin
  <2>1. Here \notin Blank \cup Letter
    BY <1>5 DEF VerbBegin, Move
  <2>2. Stops(request, at, Blank \cup Letter) /\ Span(request, 1, at, Blank)
    BY <1>2, <1>3, <1>5, <2>1 DEF VerbBegin, LineInv
  <2> QED  BY <1>2, <2>2, VerbErr
<1>6. CASE VerbEnd
  <2>1. Here \notin Letter \cup Blank
    BY <1>6 DEF VerbEnd, Move
  <2>2. Stops(request, at, Letter \cup Blank) /\ VerbTo(request, verb, at)
    BY <1>2, <1>3, <1>6, <2>1 DEF VerbEnd, LineInv
  <2> QED  BY <1>2, <2>2, LineErr
<1>7. CASE PathBegin
  <2>1. Here \notin Blank \cup {"/"}
    BY <1>7 DEF PathBegin, Move
  <2>2. PICK e : GapTo(request, verb, e, at)
    BY <1>2, <1>7 DEF PathBegin, LineInv
  <2>3. Stops(request, at, Blank \cup {"/"})
    BY <1>3, <2>1
  <2> QED  BY <1>2, <2>2, <2>3, LineErr
<1>8. CASE PathEnd
  <2>1. Here \notin PathChar \cup Blank
    BY <1>8 DEF PathEnd, Move
  <2>2. PICK e : PathTo(request, verb, e, path, at)
    BY <1>2, <1>8 DEF PathEnd, LineInv
  <2>3. Stops(request, at, PathChar \cup Blank)
    BY <1>3, <2>1
  <2> QED  BY <1>2, <2>2, <2>3, LineErr
<1>9. CASE ReadVersion
  <2>1. Here \notin Blank /\ ~Agrees(10)
    BY <1>9 DEF ReadVersion, Move
  <2>2. PICK e, q : LineTo(request, verb, e, path, q, at)
    BY <1>2, <1>9 DEF ReadVersion, LineInv
  <2>3. Stops(request, at, Blank)
    BY <1>3, <2>1
  <2>4. ~(at + 9 <= Len(request) /\ \A i \in 1..10 : request[at + i - 1] \in VersionLine[i])
    <3> SUFFICES ASSUME at + 9 <= Len(request), NEW i \in 1..10
                 PROVE  request[at + i - 1] \in VersionLine[i] => Byte(at + i - 1) \in VersionLine[i]
      BY <2>1 DEF Agrees
    <3>1. at + i - 1 \in 1..Len(text) /\ at <= at + i - 1 /\ at + i - 1 <= Len(request)
      BY <1>2
    <3>2. Byte(at + i - 1) = request[at + i - 1]
      BY <1>2, <3>1, Ahead
    <3> QED  BY <3>2
  <2> QED  BY <1>2, <2>2, <2>3, <2>4, LineErr
<1>10. CASE FieldBegin
  <2>1. ~EndOfLine /\ Here \notin Blank \cup FieldChar
    BY <1>10 DEF FieldBegin, Move
  <2>2. PICK a : HeadersTo(request, a) /\ a <= at /\ Span(request, a, at, Blank)
    BY <1>2, <1>10 DEF FieldBegin, HeadInv, HeadersIn
  <2>3. Stops(request, at, Blank \cup FieldChar)
    BY <1>3, <2>1
  <2> QED  BY <1>2, <1>4, <2>1, <2>2, <2>3, HeaderErr
<1>11. CASE FieldEnd
  <2>1. Here \notin FieldChar \cup Blank \cup {":"}
    BY <1>11 DEF FieldEnd, Move
  <2>2. PICK a, f : FieldOpen(a, f)
    BY <1>2, <1>11 DEF FieldEnd, HeadInv
  <2>3. HeadersTo(request, a) /\ FieldTo(request, a, f, at)
    BY <2>2 DEF FieldOpen, Opened, HeadersIn
  <2>4. Stops(request, at, FieldChar \cup Blank \cup {":"})
    BY <1>3, <2>1
  <2> QED  BY <1>2, <2>3, <2>4, HeaderErr
<1>12. CASE ValueBegin
  <2>1. Here \notin Blank \cup ValueStart
    BY <1>12 DEF ValueBegin, Move
  <2>2. PICK a, f, c : ColonOpen(a, f, c)
    BY <1>2, <1>12 DEF ValueBegin, HeadInv
  <2>3. HeadersTo(request, a) /\ ColonTo(request, a, f, c, at)
    BY <2>2 DEF ColonOpen, Opened, HeadersIn
  <2>4. Stops(request, at, Blank \cup ValueStart)
    BY <1>3, <2>1
  <2> QED  BY <1>2, <2>3, <2>4, HeaderErr
<1>13. CASE ValueEnd
  <2>1. ~EndOfLine /\ Here \notin ValueChar
    BY <1>13 DEF ValueEnd, Move
  <2>2. PICK a, f, c, g : ValueOpen(a, f, c, g)
    BY <1>2, <1>13 DEF ValueEnd, HeadInv
  <2>3. HeadersTo(request, a) /\ ValueTo(request, a, f, c, g, at)
    BY <2>2 DEF ValueOpen, Opened, HeadersIn
  <2>4. Stops(request, at, ValueChar)
    BY <1>3, <2>1
  <2> QED  BY <1>2, <1>4, <2>1, <2>3, <2>4, HeaderErr
<1>14. CASE Error
  BY <1>1, <1>14 DEF Error
<1> QED
  BY <1>5, <1>6, <1>7, <1>8, <1>9, <1>10, <1>11, <1>12, <1>13, <1>14 DEF Parse

\* Only a request that is not well formed is given up.
EndInv ==
  /\ state = "err"  => ~WellFormed(request)
  /\ state = "halt" => (body # 0 <=> WellFormed(request))

\* The parser halts with a body exactly on a well formed request.
LEMMA EndStep ==
  TextInv /\ Bounded /\ RoomInv /\ TypeOK /\ LineInv /\ HeadInv /\ TextInv' /\ HeadInv' /\ EndInv /\ [Next]_vars
    => EndInv'
<1> SUFFICES ASSUME TextInv, Bounded, RoomInv, TypeOK, LineInv, HeadInv, TextInv', HeadInv', EndInv, [Next]_vars
             PROVE  EndInv'
  OBVIOUS
<1>1. CASE Parse
  <2>1. request' = request /\ phase' = "parse"
    BY <1>1, ParseCuts
  <2>2. state' = "err" => ~WellFormed(request')
    BY <1>1, <2>1, ErrStep
  <2>3. ASSUME state' = "halt" PROVE body' # 0 <=> WellFormed(request')
    <3>1. CASE body' # 0
      <4>1. PICK a, z : HeadRead(a, z)'
        BY <2>1, <2>3, <3>1 DEF HeadInv, Parsed
      <4>2. HeadersTo(request', a) /\ z \in Breaks(request') /\ a <= z /\ Span(request', a, z, Blank)
        BY <4>1 DEF HeadRead, HeadersIn
      <4>3. request' \in Seq(Char)
        BY <2>1 DEF TextInv
      <4>4. WellFormed(request')
        BY <4>2, <4>3, HeaderEnd
      <4> QED  BY <3>1, <4>4
    <3>2. CASE body' = 0
      <4>1. CASE FieldBegin
        <5>1. body' = at + 2 /\ at \in Nat
          <6>1. state # "err" /\ Parse
            BY <4>1 DEF FieldBegin, Parse
          <6>2. at \in Nat
            BY <6>1, HeadPlaces
          <6>3. body' = at + 2
            BY <2>3, <4>1 DEF FieldBegin, Move
          <6> QED  BY <6>2, <6>3
        <5> QED  BY <3>2, <5>1
      <4>2. CASE Error
        BY <2>1, <3>2, <4>2 DEF Error, EndInv
      <4>3. CASE ~FieldBegin /\ ~Error
        BY <1>1, <2>3, <4>3 DEF Parse, VerbBegin, VerbEnd, PathBegin, PathEnd, ReadVersion, FieldEnd,
           ValueBegin, ValueEnd, Move
      <4> QED  BY <4>1, <4>2, <4>3
    <3> QED  BY <3>1, <3>2
  <2> QED  BY <2>2, <2>3 DEF EndInv
<1>2. CASE Dispatch
  BY <1>2 DEF Dispatch, NoVerb, NoPath, Interpret, EndInv, reqData
<1>3. CASE UNCHANGED vars
  BY <1>3 DEF vars, reqData, EndInv
<1> QED  BY <1>1, <1>2, <1>3 DEF Next

\* The parser, at any moment of it.
LEMMA Parsing == Spec => [](Bounded /\ RoomInv /\ TypeOK /\ TextInv /\ LineInv /\ HeadInv)
<1>1. Spec => []Bounded
  BY BoundedInit, BoundedStep, PTL DEF Spec
<1>2. Spec => []RoomInv
  BY <1>1, RoomInit, RoomStep, PTL DEF Spec
<1>3. Spec => []TextInv
  BY <1>1, <1>2, TextInit, TextStep, PTL DEF Spec
<1>4. Spec => []LineInv
  BY <1>1, <1>2, <1>3, LineInit, LineStep, PTL DEF Spec
<1>5. Spec => []HeadInv
  BY <1>1, <1>2, <1>3, <1>4, TypeCorrect, HeadInit, HeadStep, PTL DEF Spec
<1> QED  BY <1>1, <1>2, <1>3, <1>4, <1>5, TypeCorrect, PTL

\* Of whatever string the receive loop returns, the parser finds a body exactly
\* if it is a well formed request (jorgeNetwork.cpp:109-303).
THEOREM ParsesWellFormedHolds == Spec => []ParsesWellFormed
<1>1. Init => EndInv
  BY DEF Init, EndInv
<1>2. Spec => []EndInv
  BY <1>1, Parsing, EndStep, PTL DEF Spec
<1>3. EndInv => ParsesWellFormed
  BY DEF EndInv, ParsesWellFormed
<1> QED  BY <1>2, <1>3, PTL

\* What the request line says, by the places of its parts.
LEMMA LineSays ==
  ASSUME NEW r \in Seq(Char), NEW v, NEW e, NEW p, NEW q, NEW s, ReqParts(r, v, e, p, q, s)
  PROVE  /\ Verb(r) = SubSeq(r, v, e - 1) /\ Path(r) = SubSeq(r, p, q - 1) /\ Version(r) = r[s + 7]
<1>0. /\ v \in Nat /\ e \in Nat /\ p \in Nat /\ q \in Nat /\ s \in Nat
      /\ 1 <= v /\ v < e /\ e < p /\ p < q /\ q < s /\ s + 9 <= Len(r) /\ Len(r) \in Nat
  BY ReqPlaces
<1> DEFINE l == SubSeq(r, 1, s + 7)
<1>1. /\ FirstEnd(r) = s + 8 /\ Line(r, s + 8) = l /\ LineParts(Line(r, s + 8), v, e, p, q, s)
  BY ReqIsLine
<1>2. l \in Seq(Char) /\ \A k \in 1..s + 7 : l[k] = r[k]
  <2>1. 1 \in 1..Len(r) + 1 /\ s + 8 \in 1..Len(r) + 1 /\ (s + 8) - 1 = s + 7
    BY <1>0
  <2>2. /\ SubSeq(r, 1, (s + 8) - 1) \in Seq(Char)
        /\ \A k \in 1..(s + 8) - 1 : SubSeq(r, 1, (s + 8) - 1)[k] = r[1 + k - 1]
    BY <2>1, PartIs
  <2>3. \A k \in 1..s + 7 : 1 + k - 1 = k
    BY <1>0
  <2> QED  BY <2>1, <2>2, <2>3
<1>3. ASSUME NEW i \in Nat, NEW j \in Nat, 1 <= i, i <= j, j <= s + 7
      PROVE  SubSeq(l, i, j) = SubSeq(r, i, j)
  <2>1. /\ 1 \in 1..Len(r) + 1 /\ s + 7 \in 1 - 1..Len(r) /\ i \in 1..(s + 7) - 1 + 1 + 1
        /\ j \in i - 1..(s + 7) - 1 + 1 /\ 1 + i - 1 = i /\ 1 + j - 1 = j
    BY <1>0, <1>3
  <2>2. SubSeq(SubSeq(r, 1, s + 7), i, j) = SubSeq(r, 1 + i - 1, 1 + j - 1)
    BY <1>0, <2>1, SubSeqOfSubSeq
  <2> QED  BY <2>1, <2>2
<1>4. SubSeq(l, v, e - 1) = SubSeq(r, v, e - 1) /\ SubSeq(l, p, q - 1) = SubSeq(r, p, q - 1)
  <2>1. /\ e - 1 \in Nat /\ v <= e - 1 /\ e - 1 <= s + 7
        /\ q - 1 \in Nat /\ 1 <= p /\ p <= q - 1 /\ q - 1 <= s + 7
    BY <1>0
  <2> HIDE DEF l
  <2> QED  BY <1>0, <1>3, <2>1
<1> HIDE DEF l
<1>5. /\ Word(l, 1) = SubSeq(l, v, e - 1) /\ Word(l, 2) = SubSeq(l, p, q - 1)
      /\ Word(l, 3) = SubSeq(l, s, s + 7) /\ Len(l) = s + 7
  <2>1. LineParts(l, v, e, p, q, s)
    BY <1>1
  <2>2. Len(l) = s + 7
    BY <2>1 DEF LineParts
  <2>3. /\ Word(l, 1) = SubSeq(l, v, e - 1) /\ Word(l, 2) = SubSeq(l, p, q - 1)
        /\ Word(l, 3) = SubSeq(l, s, s + 7)
    BY <1>2, <2>1, PartsAreLine
  <2> QED  BY <2>2, <2>3
<1>6. Word(l, 3)[8] = r[s + 7]
  <2>1. s \in 1..Len(l) + 1 /\ s + 8 \in s..Len(l) + 1 /\ (s + 8) - 1 = s + 7 /\ 8 \in 1..(s + 8) - s
        /\ s + 8 - 1 = s + 7 /\ s + 7 \in 1..s + 7
    BY <1>0, <1>5
  <2>2. SubSeq(l, s, (s + 8) - 1)[8] = l[s + 8 - 1]
    BY <1>2, <2>1, PartIs
  <2> QED  BY <1>2, <1>5, <2>1, <2>2
<1> QED  BY <1>1, <1>4, <1>5, <1>6 DEF Verb, Path, Version

\* What was read of a request that was parsed to its body.
LEMMA ReadOff ==
  ASSUME TextInv, phase = "parse", TypeOK, NEW e, NEW q, NEW s, LineRead(e, q, s), NEW a, NEW z, HeadRead(a, z)
  PROVE  /\ Str(text, verb) = Verb(request) /\ Str(text, path) = Path(request)
         /\ Str(text, body) = Body(request) /\ version = Version(request)
         /\ Len(header) = Cardinality(HeaderEnds(request))
         /\ {Said(text, header[i]) : i \in 1..Len(header)} = Headers(request)
<1>0. /\ request \in Seq(Char) /\ request \in Seq(Char \ {Nul}) /\ text \in Seq(Char)
      /\ Len(request) \in Nat /\ Len(text) = Len(request) + 1 /\ text[Len(request) + 1] = Nul
  BY DEF TextInv
<1>1. /\ ReqParts(request, verb, e, path, q, s) /\ text[e] = Nul /\ text[q] = Nul /\ version = request[s + 7]
  BY DEF LineRead
<1>2. /\ verb \in Nat /\ e \in Nat /\ path \in Nat /\ q \in Nat /\ s \in Nat
      /\ 1 <= verb /\ verb < e /\ e < path /\ path < q /\ q < s /\ s + 9 <= Len(request)
      /\ Span(request, verb, e, Letter) /\ Span(request, path, q, PathChar)
  BY <1>0, <1>1, ReqPlaces DEF ReqParts
<1>3. /\ Verb(request) = SubSeq(request, verb, e - 1) /\ Path(request) = SubSeq(request, path, q - 1)
      /\ Version(request) = request[s + 7]
  BY <1>0, <1>1, LineSays
<1>4. Str(text, verb) = SubSeq(request, verb, e - 1)
  <2>1. /\ verb \in Nat /\ e \in Nat /\ 1 <= verb /\ verb <= e /\ e <= Len(text) /\ e <= Len(request) + 1
        /\ text[e] = Nul
    BY <1>0, <1>1, <1>2
  <2>2. \A i \in verb..e - 1 : text[i] = request[i]
    BY <1>2, <2>1, NotSeparators, Uncut
  <2>3. request \in Seq(Char \ {Nul}) /\ text \in Seq(Char) /\ Len(text) = Len(request) + 1
    BY <1>0
  <2> QED  BY <2>1, <2>2, <2>3, StrOfRequest
<1>5. Str(text, path) = SubSeq(request, path, q - 1)
  <2>1. /\ path \in Nat /\ q \in Nat /\ 1 <= path /\ path <= q /\ q <= Len(text) /\ q <= Len(request) + 1
        /\ text[q] = Nul
    BY <1>0, <1>1, <1>2
  <2>2. \A i \in path..q - 1 : text[i] = request[i]
    BY <1>2, <2>1, NotSeparators, Uncut
  <2>3. request \in Seq(Char \ {Nul}) /\ text \in Seq(Char) /\ Len(text) = Len(request) + 1
    BY <1>0
  <2> QED  BY <2>1, <2>2, <2>3, StrOfRequest
<1>6. /\ HeadersIn(request, text, header, a, Len(header)) /\ HeadersTo(request, a)
      /\ z \in Breaks(request) /\ a <= z /\ Span(request, a, z, Blank)
      /\ body = z + 2 /\ \A k \in z + 2..Len(request) : text[k] = request[k]
  BY DEF HeadRead, HeadersIn
<1>7. Min(BlankLines(request)) = z /\ HeaderEnds(request) = HeadEnds(request, a)
  BY <1>0, <1>6, HeaderEnd DEF HeadEnds
<1>8. Str(text, body) = Body(request)
  <2>1. z \in 1..Len(request) - 1 /\ z \in Nat
    BY <1>0, <1>6, BreakIs
  <2>2. PICK b \in Nat : b = z + 2
    BY <2>1
  <2>3. PICK n \in Nat : n = Len(request) + 1
    BY <1>0
  <2>4. 1 <= b /\ b <= n /\ n <= Len(text) /\ n - 1 = Len(request)
    BY <1>0, <2>1, <2>2, <2>3
  <2>5. text[n] = Nul /\ \A i \in b..n - 1 : text[i] = request[i]
    BY <1>0, <1>6, <2>2, <2>3, <2>4
  <2>6. Str(text, b) = SubSeq(request, b, n - 1)
    BY <1>0, <2>4, <2>5, StrOfRequest
  <2> QED  BY <1>6, <1>7, <2>2, <2>4, <2>6 DEF Body
<1>9. Len(header) = Cardinality(HeaderEnds(request))
  BY <1>6, <1>7 DEF HeadersIn
<1>10. {Said(text, header[i]) : i \in 1..Len(header)} = Headers(request)
  <2>1. {Said(text, header[i]) : i \in 1..Len(header)} = {Meant(request, b) : b \in HeadEnds(request, a)}
    BY <1>6 DEF HeadersIn
  <2>2. {Meant(request, b) : b \in HeadEnds(request, a)} = Headers(request)
    BY <1>7 DEF Meant, Headers
  <2> QED  BY <2>1, <2>2
<1> QED  BY <1>1, <1>3, <1>4, <1>5, <1>8, <1>9, <1>10
-----------------------------------------------------------------------------
(* The completed path.                                                     *)

\* w has the m characters of s and behind them the n of t.
Joins(w, s, m, t, n) ==
  /\ w \in Seq(Char) /\ Len(w) = m + n
  /\ \A i \in 1..m : w[i] = s[i]
  /\ \A i \in 1..n : w[m + i] = t[i]

LEMMA Joined ==
  ASSUME NEW s \in Seq(Char), NEW t \in Seq(Char), NEW m \in Nat, NEW n \in Nat, Len(s) = m, Len(t) = n
  PROVE  Joins(s \o t, s, m, t, n)
<1>1. /\ s \o t \in Seq(Char) /\ Len(s \o t) = Len(s) + Len(t)
      /\ \A i \in 1..Len(s) + Len(t) : (s \o t)[i] = IF i <= Len(s) THEN s[i] ELSE t[i - Len(s)]
  BY ConcatProperties
<1>2. \A i \in 1..m : i \in 1..m + n /\ i <= m
  OBVIOUS
<1>3. \A i \in 1..n : m + i \in 1..m + n /\ ~(m + i <= m) /\ (m + i) - m = i
  OBVIOUS
<1> QED  BY <1>1, <1>2, <1>3 DEF Joins

\* The ten characters written behind the path.
LEMMA IndexIs ==
  /\ IndexName \in Seq(Char) /\ Len(IndexName) = 9 /\ Len(Index) = 10 /\ Index[10] = Nul
  /\ \A k \in 1..9 : Index[k] = IndexName[k] /\ IndexName[k] # Nul
<1>1. IndexName \in Seq(Letter \cup {"."}) /\ Len(IndexName) = 9
  BY DEF IndexName, Letter
<1>2. \A c \in Letter \cup {"."} : c \in Char /\ c # Nul
  BY NulStops DEF Char, PathChar
<1>3. IndexName \in Seq(Char)
  BY <1>1, <1>2
<1>4. \A k \in 1..9 : IndexName[k] # Nul
  BY <1>1, <1>2, ElementOfSeq
<1> DEFINE one == <<Nul>>
<1>5. one \in Seq(Char) /\ Len(one) = 1 /\ one[1] = Nul /\ Index = IndexName \o one
  <2>1. Nul \in Char
    BY DEF Char
  <2> QED  BY <2>1 DEF Index
<1> HIDE DEF one
<1>6. Len(Index) = 10 /\ Index[10] = Nul /\ \A k \in 1..9 : Index[k] = IndexName[k]
  <2>1. Joins(IndexName \o one, IndexName, 9, one, 1)
    BY <1>1, <1>3, <1>5, Joined
  <2>2. Joins(Index, IndexName, 9, one, 1)
    BY <1>5, <2>1
  <2>3. 1 \in 1..1 /\ 9 + 1 = 10
    OBVIOUS
  <2> QED  BY <1>5, <2>2, <2>3 DEF Joins
<1> QED  BY <1>1, <1>3, <1>4, <1>6

\* Where there is room, the name and its NUL are all that changes.
LEMMA Completed ==
  ASSUME text \in Seq(Char), Block \in Nat, Len(text) <= Block,
         NEW q \in Nat, 1 <= q, q + 9 <= Len(text), Complete(q)
  PROVE  /\ phase' = "closed" /\ text' \in Seq(Char) /\ Len(text') = Len(text)
         /\ \A i \in 1..Len(text) : IF q <= i /\ i <= q + 9 THEN text'[i] = Index[i - q + 1] ELSE text'[i] = text[i]
<1>1. Len(Index) = 10 /\ Len(text) \in Nat /\ DOMAIN text = 1..Len(text)
  BY IndexIs, LenProperties
<1>2. ~(q + Len(Index) - 1 > Block) /\ q + Len(Index) - 1 = q + 9
  BY <1>1
<1>3. /\ phase' = "closed"
      /\ text' = [i \in 1..Len(text) |-> IF i \in q..q + 9 THEN Index[i - q + 1] ELSE text[i]]
  <2>1. Max({Len(text), q + 9}) = Len(text)
    BY <1>1, MaxOfTwo
  <2> QED  BY <1>1, <1>2, <2>1 DEF Complete
<1>4. text' \in Seq(Char) /\ Len(text') = Len(text)
  BY <1>1, <1>3, CompleteType
<1>5. \A i \in 1..Len(text) : i \in q..q + 9 <=> q <= i /\ i <= q + 9
  OBVIOUS
<1> QED  BY <1>3, <1>4, <1>5

\* The script's name, as it then stands in the string.
LEMMA ScriptIs ==
  ASSUME NEW r \in Seq(Char \ {Nul}), NEW u \in Seq(Char), NEW p \in Nat, NEW q \in Nat,
         1 <= p, p < q, q <= Len(r), q + 9 <= Len(u), \A i \in p..q - 1 : u[i] = r[i],
         \A i \in q..q + 9 : u[i] = Index[i - q + 1]
  PROVE  Str(u, p) = SubSeq(r, p, q - 1) \o IndexName
<1>0. r \in Seq(Char) /\ Len(r) \in Nat /\ Len(u) \in Nat /\ \A i \in 1..Len(r) : r[i] # Nul
  BY NoNul, LenProperties
<1>a. PICK n \in Nat : n = q + 9
  OBVIOUS
<1>1. u[n] = Nul
  <2>1. n \in q..q + 9 /\ n - q + 1 = 10
    BY <1>a
  <2>2. u[n] = Index[n - q + 1]
    BY <2>1
  <2> QED  BY <2>1, <2>2, IndexIs
<1>2. ASSUME NEW i \in q..n - 1 PROVE i - q + 1 \in 1..9 /\ u[i] = IndexName[i - q + 1] /\ u[i] # Nul
  <2>1. i - q + 1 \in 1..9 /\ i \in q..q + 9
    BY <1>a
  <2>2. u[i] = Index[i - q + 1]
    BY <2>1
  <2> QED  BY <2>1, <2>2, IndexIs
<1>3. \A i \in p..n - 1 : u[i] # Nul
  <2> SUFFICES ASSUME NEW i \in p..n - 1 PROVE u[i] # Nul
    OBVIOUS
  <2>1. CASE i < q
    <3>1. i \in p..q - 1 /\ i \in 1..Len(r)
      BY <1>0, <2>1
    <3>2. u[i] = r[i]
      BY <3>1
    <3> QED  BY <1>0, <3>1, <3>2
  <2>2. CASE ~(i < q)
    <3>1. i \in q..n - 1
      BY <2>2
    <3> QED  BY <1>2, <3>1
  <2> QED  BY <2>1, <2>2
<1>4. Str(u, p) = SubSeq(u, p, n - 1)
  <2>1. p <= n /\ n <= Len(u)
    BY <1>a
  <2> QED  BY <1>1, <1>3, <2>1, StrIs
<1> DEFINE w == SubSeq(u, p, n - 1)
           x == SubSeq(r, p, q - 1)
<1>5. w \in Seq(Char) /\ Len(w) = n - p /\ \A k \in 1..n - p : w[k] = u[p + k - 1]
  <2>1. p \in 1..Len(u) + 1 /\ n \in p..Len(u) + 1
    BY <1>0, <1>a
  <2> QED  BY <2>1, PartIs
<1>6. x \in Seq(Char) /\ Len(x) = q - p /\ \A k \in 1..q - p : x[k] = r[p + k - 1]
  <2>1. p \in 1..Len(r) + 1 /\ q \in p..Len(r) + 1
    BY <1>0
  <2> QED  BY <1>0, <2>1, PartIs
<1> HIDE DEF w, x
<1>7. /\ x \o IndexName \in Seq(Char) /\ Len(x \o IndexName) = (q - p) + 9
      /\ \A k \in 1..q - p : (x \o IndexName)[k] = x[k]
      /\ \A k \in 1..9 : (x \o IndexName)[(q - p) + k] = IndexName[k]
  <2>1. IndexName \in Seq(Char) /\ Len(IndexName) = 9
    BY IndexIs
  <2>2. q - p \in Nat /\ 9 \in Nat
    OBVIOUS
  <2>3. x \in Seq(Char) /\ Len(x) = q - p
    BY <1>6
  <2>4. Joins(x \o IndexName, x, q - p, IndexName, 9)
    BY <2>1, <2>2, <2>3, Joined
  <2> QED  BY <2>4 DEF Joins
<1>8. ASSUME NEW k \in 1..n - p PROVE w[k] = (x \o IndexName)[k]
  <2>1. CASE k <= q - p
    <3>1. p + k - 1 \in p..q - 1 /\ k \in 1..q - p
      BY <2>1
    <3>2. u[p + k - 1] = r[p + k - 1]
      BY <3>1
    <3> QED  BY <1>5, <1>6, <1>7, <3>1, <3>2
  <2>2. CASE ~(k <= q - p)
    <3>1. PICK j \in 1..9 : j = k - (q - p)
      <4>1. k - (q - p) \in 1..9
        BY <1>a, <2>2
      <4> QED  BY <4>1
    <3>2. p + k - 1 \in q..n - 1 /\ (p + k - 1) - q + 1 = j /\ (q - p) + j = k
      BY <1>a, <3>1
    <3>3. u[p + k - 1] = IndexName[j]
      BY <1>2, <3>2
    <3>4. (x \o IndexName)[(q - p) + j] = IndexName[j]
      BY <1>7
    <3> QED  BY <1>5, <3>2, <3>3, <3>4
  <2> QED  BY <2>1, <2>2
<1>9. w = x \o IndexName
  <2>1. Len(w) = Len(x \o IndexName)
    BY <1>5, <1>7, <1>a
  <2> QED  BY <1>5, <1>7, <1>8, <2>1, SeqEqual
<1> QED  BY <1>4, <1>9 DEF w, x

\* What the path's last character is, and where the path ends.
LEMMA PathIs ==
  ASSUME TextInv, phase = "parse", NEW e, NEW q, NEW s, LineRead(e, q, s),
         Str(text, path) = Path(request)
  PROVE  /\ Path(request) = SubSeq(request, path, q - 1) /\ Len(Path(request)) = q - path
         /\ Path(request)[Len(Path(request))] = request[q - 1]
         /\ PathEndsAt = q /\ Byte(PathEndsAt - 1) = request[q - 1]
         /\ \A i \in path..q - 1 : text[i] = request[i]
<1>0. /\ request \in Seq(Char) /\ text \in Seq(Char) /\ Len(request) \in Nat /\ Len(text) = Len(request) + 1
      /\ DOMAIN text = 1..Len(text)
  BY LenProperties DEF TextInv
<1>1. ReqParts(request, verb, e, path, q, s)
  BY DEF LineRead
<1>2. /\ path \in Nat /\ q \in Nat /\ s \in Nat /\ 1 <= path /\ path < q /\ q < s /\ s + 9 <= Len(request)
      /\ Span(request, path, q, PathChar)
  <2>1. Span(request, path, q, PathChar)
    BY <1>1 DEF ReqParts
  <2>2. /\ path \in Nat /\ q \in Nat /\ s \in Nat /\ path < q /\ q < s /\ s + 9 <= Len(request)
        /\ verb \in Nat /\ e \in Nat /\ 1 <= verb /\ verb < e /\ e < path
    BY <1>0, <1>1, ReqPlaces
  <2> QED  BY <2>1, <2>2
<1>3. Path(request) = SubSeq(request, path, q - 1)
  BY <1>0, <1>1, LineSays
<1>4. /\ Len(SubSeq(request, path, q - 1)) = q - path
      /\ \A k \in 1..q - path : SubSeq(request, path, q - 1)[k] = request[path + k - 1]
  <2>1. path \in 1..Len(request) + 1 /\ q \in path..Len(request) + 1
    BY <1>0, <1>2
  <2> QED  BY <1>0, <2>1, PartIs
<1>5. Len(Path(request)) = q - path /\ Path(request)[Len(Path(request))] = request[q - 1]
  <2>1. q - path \in 1..q - path /\ path + (q - path) - 1 = q - 1
    BY <1>2
  <2>2. SubSeq(request, path, q - 1)[q - path] = request[path + (q - path) - 1]
    BY <1>4, <2>1
  <2> QED  BY <1>3, <1>4, <2>1, <2>2
<1>6. PathEndsAt = q
  <2>1. PathEndsAt = path + (q - path)
    BY <1>5 DEF PathEndsAt
  <2> QED  BY <1>2, <2>1
<1>7. \A i \in path..q - 1 : text[i] = request[i]
  <2>1. 1 <= path /\ q <= Len(request) + 1
    BY <1>0, <1>2
  <2> QED  BY <1>2, <2>1, NotSeparators, Uncut
<1>8. Byte(PathEndsAt - 1) = request[q - 1]
  <2>1. q - 1 \in path..q - 1 /\ q - 1 \in 1..Len(text)
    BY <1>0, <1>2
  <2>2. Byte(q - 1) = text[q - 1]
    BY <1>0, <2>1 DEF Byte
  <2> QED  BY <1>6, <1>7, <2>1, <2>2
<1> QED  BY <1>3, <1>5, <1>6, <1>7, <1>8

\* The script is the one the request named, and nothing behind the version changed.
LEMMA ScriptFound ==
  ASSUME TextInv, phase = "parse", NEW e, NEW q, NEW s, LineRead(e, q, s),
         Str(text, path) = Path(request), Interpret
  PROVE  /\ phase' = "closed" /\ script' = Script(request) /\ FirstEnd(request) = s + 8
         /\ Len(script') \in Nat /\ path + Len(script') <= s + 8
         /\ text' \in Seq(Char) /\ Len(text') = Len(text)
         /\ \A i \in 1..Len(text) : s + 8 < i => text'[i] = text[i]
<1>0. /\ request \in Seq(Char) /\ request \in Seq(Char \ {Nul}) /\ text \in Seq(Char)
      /\ Len(request) \in Nat /\ Len(text) = Len(request) + 1
  BY DEF TextInv
<1>1. ReqParts(request, verb, e, path, q, s)
  BY DEF LineRead
<1>2. /\ path \in Nat /\ q \in Nat /\ s \in Nat /\ 1 <= path /\ path < q /\ q < s /\ s + 9 <= Len(request)
  <2>1. /\ path \in Nat /\ q \in Nat /\ s \in Nat /\ path < q /\ q < s /\ s + 9 <= Len(request)
        /\ verb \in Nat /\ e \in Nat /\ 1 <= verb /\ verb < e /\ e < path
    BY <1>0, <1>1, ReqPlaces
  <2> QED  BY <2>1
<1>3. /\ Path(request) = SubSeq(request, path, q - 1) /\ Len(Path(request)) = q - path
      /\ Path(request)[Len(Path(request))] = request[q - 1]
      /\ PathEndsAt = q /\ Byte(PathEndsAt - 1) = request[q - 1]
      /\ \A i \in path..q - 1 : text[i] = request[i]
  BY PathIs
<1>4. FirstEnd(request) = s + 8
  BY <1>0, <1>1, ReqIsLine
<1>5. CASE request[q - 1] = "/"
  <2>1. Complete(q) /\ script' = Str(text', path)
    BY <1>3, <1>5 DEF Interpret
  <2>2. 1 <= q /\ q + 9 <= Len(text) /\ q <= Len(request) /\ q + 9 <= s + 8
    BY <1>0, <1>2
  <2>3. /\ phase' = "closed" /\ text' \in Seq(Char) /\ Len(text') = Len(text)
        /\ \A i \in 1..Len(text) :
             IF q <= i /\ i <= q + 9 THEN text'[i] = Index[i - q + 1] ELSE text'[i] = text[i]
    <3>1. Block \in Nat /\ Len(text) <= Block
      BY <1>0 DEF Block
    <3> QED  BY <1>0, <1>2, <2>1, <2>2, <3>1, Completed
  <2>4. \A i \in q..q + 9 : text'[i] = Index[i - q + 1]
    <3>1. \A i \in q..q + 9 : i \in 1..Len(text) /\ q <= i /\ i <= q + 9
      BY <1>0, <1>2, <2>2
    <3> QED  BY <2>3, <3>1
  <2>5. \A i \in path..q - 1 : text'[i] = request[i]
    <3>1. \A i \in path..q - 1 : i \in 1..Len(text) /\ ~(q <= i)
      BY <1>0, <1>2, <2>2
    <3> QED  BY <1>3, <2>3, <3>1
  <2>6. Str(text', path) = SubSeq(request, path, q - 1) \o IndexName
    <3>1. q + 9 <= Len(text')
      BY <2>2, <2>3
    <3> QED  BY <1>0, <1>2, <2>2, <2>3, <2>4, <2>5, <3>1, ScriptIs
  <2>7. script' = Script(request) /\ script' = Path(request) \o IndexName
    BY <1>3, <1>5, <2>1, <2>6 DEF Script
  <2>8. Len(script') = (q - path) + 9
    <3>1. Path(request) \in Seq(Char)
      <4>1. path \in 1..Len(request) + 1 /\ q \in path..Len(request) + 1
        BY <1>0, <1>2
      <4> QED  BY <1>0, <1>3, <4>1, PartIs
    <3>2. q - path \in Nat /\ 9 \in Nat /\ IndexName \in Seq(Char) /\ Len(IndexName) = 9
      BY <1>2, IndexIs
    <3>3. Joins(Path(request) \o IndexName, Path(request), q - path, IndexName, 9)
      BY <1>3, <3>1, <3>2, Joined
    <3> QED  BY <2>7, <3>3 DEF Joins
  <2>9. Len(script') \in Nat /\ path + Len(script') <= s + 8
    BY <1>2, <2>2, <2>8
  <2>10. \A i \in 1..Len(text) : s + 8 < i => text'[i] = text[i]
    <3>1. \A i \in 1..Len(text) : s + 8 < i => ~(i <= q + 9)
      BY <1>0, <1>2
    <3> QED  BY <2>3, <3>1
  <2> QED  BY <1>4, <2>3, <2>7, <2>9, <2>10
<1>6. CASE request[q - 1] # "/"
  <2>1. phase' = "closed" /\ text' = text /\ script' = Str(text', path)
    BY <1>3, <1>6 DEF Interpret
  <2>2. script' = Path(request) /\ script' = Script(request)
    BY <1>3, <1>6, <2>1 DEF Script
  <2>3. Len(script') \in Nat /\ path + Len(script') <= s + 8
    BY <1>2, <1>3, <2>2
  <2> QED  BY <1>0, <1>4, <2>1, <2>2, <2>3
<1> QED  BY <1>5, <1>6

\* What Lua is given and what is left in the string are what the request said.
LEMMA SeenInterpret ==
  ASSUME TextInv, TypeOK, LineInv, HeadInv, Parsed, phase = "parse", Interpret
  PROVE  (SeesRequest /\ IndexSparesRest)'
<1>0. /\ request \in Seq(Char) /\ text \in Seq(Char) /\ Len(request) \in Nat /\ Len(text) = Len(request) + 1
      /\ Len(text) \in Nat /\ text[Len(text)] = Nul
      /\ Len(header) \in Nat /\ DOMAIN header = 1..Len(header)
  <2>1. Len(header) \in Nat /\ DOMAIN header = 1..Len(header)
    BY LenProperties DEF TypeOK
  <2>2. /\ request \in Seq(Char) /\ text \in Seq(Char) /\ Len(request) \in Nat /\ Len(text) = Len(request) + 1
        /\ text[Len(request) + 1] = Nul
    BY DEF TextInv
  <2> QED  BY <2>1, <2>2
<1>1. PICK e, q, s : LineRead(e, q, s)
  BY DEF LineInv
<1>2. PICK a, z : HeadRead(a, z)
  BY DEF HeadInv
<1>3. /\ Str(text, verb) = Verb(request) /\ Str(text, path) = Path(request)
      /\ Str(text, body) = Body(request) /\ version = Version(request)
      /\ Len(header) = Cardinality(HeaderEnds(request))
      /\ {Said(text, header[i]) : i \in 1..Len(header)} = Headers(request)
  BY <1>1, <1>2, ReadOff
<1>4. /\ phase' = "closed" /\ script' = Script(request) /\ FirstEnd(request) = s + 8
      /\ Len(script') \in Nat /\ path + Len(script') <= s + 8
      /\ text' \in Seq(Char) /\ Len(text') = Len(text)
      /\ \A i \in 1..Len(text) : s + 8 < i => text'[i] = text[i]
  BY <1>1, <1>3, ScriptFound
<1>5. /\ request' = request /\ state' = state /\ verb' = verb /\ path' = path /\ version' = version
      /\ header' = header /\ body' = body
      /\ globals' = [VERB |-> Str(text, verb), PATH |-> Str(text, path), BODY |-> Str(text, body)]
  BY DEF Interpret, PushGlobals, reqData
<1>6. /\ HeadersIn(request, text, header, a, Len(header)) /\ HeadersTo(request, a)
      /\ z \in Breaks(request) /\ a <= z /\ body = z + 2
  BY <1>2 DEF HeadRead, HeadersIn
<1>7. /\ a \in Nat /\ s + 8 < a /\ z \in Nat /\ z <= Len(request) - 1 /\ s \in Nat /\ path \in Nat
  <2>1. a \in Nat /\ s + 8 < a
    BY <1>4, <1>6 DEF HeadersTo
  <2>2. z \in Nat /\ z <= Len(request) - 1
    BY <1>0, <1>6, BreakIs
  <2>3. s \in Nat /\ path \in Nat
    BY <1>1 DEF LineRead, ReqParts
  <2> QED  BY <2>1, <2>2, <2>3
<1>8. ASSUME NEW p, Shut(text, p, a), s + 8 < p PROVE Str(text', p) = Str(text, p)
  <2>1. PICK k \in p..a - 1 : text[k] = Nul
    BY <1>8 DEF Shut
  <2>2. p \in Nat /\ 1 <= p /\ k \in Nat /\ p <= k /\ k <= Len(text) /\ k <= Len(text')
    <3>1. p \in Nat /\ 1 <= p
      BY <1>8 DEF Shut
    <3>2. k <= a - 1 /\ a <= Len(text)
      BY <1>0, <1>6, <1>7, <3>1
    <3> QED  BY <1>0, <1>4, <1>7, <3>1, <3>2
  <2>3. \A i \in p..k : text[i] = text'[i]
    <3>1. \A i \in p..k : i \in 1..Len(text) /\ s + 8 < i
      BY <1>0, <1>7, <1>8, <2>2
    <3> QED  BY <1>4, <3>1
  <2>4. Str(text, p) = Str(text', p)
    BY <1>0, <1>4, <2>1, <2>2, <2>3, StrShut
  <2> QED  BY <2>4
<1>9. Str(text', body) = Body(request)
  <2>1. PICK b \in Nat : b = body
    BY <1>6, <1>7
  <2>2. 1 <= b /\ b <= Len(text) /\ s + 8 < b /\ Len(text) <= Len(text')
    BY <1>0, <1>4, <1>6, <1>7, <2>1
  <2>3. \A i \in b..Len(text) : text[i] = text'[i]
    <3>1. \A i \in b..Len(text) : i \in 1..Len(text) /\ s + 8 < i
      BY <1>0, <1>7, <2>2
    <3> QED  BY <1>4, <3>1
  <2>4. Str(text, b) = Str(text', b)
    BY <1>0, <1>4, <2>2, <2>3, StrShut
  <2> QED  BY <1>3, <2>1, <2>4
<1>10. ASSUME NEW i \in 1..Len(header)
       PROVE  Said(text', header[i]) = Said(text, header[i]) /\ header[i].field > path + Len(script')
  <2>1. /\ Shut(text, header[i].field, a) /\ s + 8 < header[i].field
        /\ Shut(text, header[i].value, a) /\ s + 8 < header[i].value
    BY <1>4, <1>6 DEF HeadersIn
  <2>2. Said(text', header[i]) = Said(text, header[i])
    BY <1>8, <2>1 DEF Said
  <2>3. header[i].field > path + Len(script')
    <3>1. header[i].field \in Nat
      BY <2>1 DEF Shut
    <3> QED  BY <1>4, <1>7, <2>1, <3>1
  <2> QED  BY <2>2, <2>3
<1>11. SeesRequest'
  <2>1. {Said(text', header[i]) : i \in 1..Len(header)} = Headers(request)
    BY <1>3, <1>10
  <2>2. {<<Str(text', header[i].field), Str(text', header[i].value)>> : i \in 1..Len(header)} = Headers(request)
    BY <2>1 DEF Said
  <2>3. Len(header') = Cardinality(HeaderEnds(request'))
    BY <1>3, <1>5
  <2> QED  BY <1>0, <1>3, <1>5, <2>2, <2>3 DEF SeesRequest
<1>12. IndexSparesRest'
  BY <1>0, <1>4, <1>5, <1>9, <1>10 DEF IndexSparesRest
<1> QED  BY <1>11, <1>12

LEMMA SeenStep ==
  TextInv /\ Bounded /\ RoomInv /\ TypeOK /\ LineInv /\ HeadInv /\ SeesRequest /\ IndexSparesRest /\ [Next]_vars
    => (SeesRequest /\ IndexSparesRest)'
<1> SUFFICES ASSUME TextInv, Bounded, RoomInv, TypeOK, LineInv, HeadInv, SeesRequest, IndexSparesRest, [Next]_vars
             PROVE  (SeesRequest /\ IndexSparesRest)'
  OBVIOUS
<1>1. CASE Parse
  <2>1. phase' = "parse"
    BY <1>1, ParseCuts
  <2> QED  BY <2>1 DEF SeesRequest, IndexSparesRest
<1>2. CASE NoVerb
  <2>1. ~Parsed
    <3> SUFFICES ASSUME Parsed PROVE FALSE
      OBVIOUS
    <3>1. PICK e, q, s : LineRead(e, q, s)
      BY <1>2 DEF LineInv, NoVerb
    <3>2. verb \in Nat /\ 1 <= verb
      BY <3>1 DEF LineRead, ReqParts
    <3> QED  BY <1>2, <3>2 DEF NoVerb
  <2>2. ~Parsed'
    BY <1>2, <2>1 DEF NoVerb, Parsed, reqData
  <2> QED  BY <2>2 DEF SeesRequest, IndexSparesRest
<1>3. CASE NoPath
  BY <1>3 DEF NoPath, SeesRequest, IndexSparesRest
<1>4. CASE Interpret
  <2>1. CASE Parsed
    BY <1>4, <2>1, SeenInterpret DEF Interpret
  <2>2. CASE ~Parsed
    <3>1. ~Parsed'
      BY <1>4, <2>2 DEF Interpret, Parsed, reqData
    <3> QED  BY <3>1 DEF SeesRequest, IndexSparesRest
  <2> QED  BY <2>1, <2>2
<1>5. CASE UNCHANGED vars
  BY <1>5 DEF vars, reqData, lua, SeesRequest, IndexSparesRest, Parsed
<1> QED  BY <1>1, <1>2, <1>3, <1>4, <1>5 DEF Next, Dispatch

LEMMA Seen == Spec => [](SeesRequest /\ IndexSparesRest)
<1>1. Init => SeesRequest /\ IndexSparesRest
  BY DEF Init, SeesRequest, IndexSparesRest
<1> QED  BY <1>1, Parsing, SeenStep, PTL DEF Spec

\* Of whatever well formed request, a script sees exactly what it said: verb,
\* path, body, version and headers, for all the NULs the parser wrote into the
\* string they are read from (jorgeNetwork.cpp:109-303, jorgeLua.cpp:99-122).
THEOREM SeesRequestHolds == Spec => []SeesRequest
BY Seen, PTL

\* The script is the one that the request's path named, index.lua where it ended
\* with '/', and writing that name costs body and headers nothing
\* (jorgeLua.cpp:124-134).
THEOREM IndexSparesRestHolds == Spec => []IndexSparesRest
BY Seen, PTL
=============================================================================
