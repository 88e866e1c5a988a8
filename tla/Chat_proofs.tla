---------------------------- MODULE Chat_proofs -----------------------------
(* Theorems about the chat, for any number of pages and of writers, any    *)
(* texts, and any bounds on posts and faults.                              *)
EXTENDS Chat, FiniteSetTheorems, SequenceTheorems, WellFoundedInduction, TLAPS

\* Induction over the naturals, for a property given as the set of what has it.
LEMMA NatSet ==
  ASSUME NEW T \in SUBSET Nat, 0 \in T, \A n \in T : n + 1 \in T
  PROVE  T = Nat
<1> SUFFICES ASSUME Nat \ T # {} PROVE FALSE
  OBVIOUS
<1>1. IsWellFoundedOn(OpToRel(<,Nat), Nat)
  BY NatLessThanWellFounded
<1>2. PICK x \in Nat \ T : \A y \in Nat \ T : <<y, x>> \notin OpToRel(<,Nat)
  BY <1>1, WFMin, Zenon
<1>3. x # 0 /\ x - 1 \in Nat /\ x - 1 \notin T
  OBVIOUS
<1>4. <<x - 1, x>> \in OpToRel(<,Nat)
  BY <1>3 DEF OpToRel
<1> QED
  BY <1>2, <1>3, <1>4

-----------------------------------------------------------------------------
(* The cursor of the page.                                                 *)

\* What lastMessageId may be.
Ids == {"string", "number"} \X Nat

\* The cursor after the k-th row, when it was last before it.
Later(rows, k, last) == IF Less(last, IdOf(rows, k)) THEN IdOf(rows, k) ELSE last

\* f is the cursor after each of the first n rows.
LatestBy(f, id, rows, n) == f[0] = id /\ \A k \in 1..n : f[k] = Later(rows, k, f[k - 1])

\* Every row has an id, and the cursor is one.
LEMMA LaterType ==
  ASSUME NEW rows \in Seq(Nat), NEW k \in 1..Len(rows), NEW last \in Ids
  PROVE  Later(rows, k, last) \in Ids
<1>1. rows[k] \in Nat
  OBVIOUS
<1> QED  BY <1>1 DEF Later, IdOf, Ids

\* The cursor is there after every row.
LEMMA LatestExists ==
  ASSUME NEW rows \in Seq(Nat), NEW id \in Ids
  PROVE  \E f \in [0..Len(rows) -> Ids] : LatestBy(f, id, rows, Len(rows))
<1> DEFINE T == {n \in Nat : n <= Len(rows) => \E f \in [0..n -> Ids] : LatestBy(f, id, rows, n)}
<1>0. Len(rows) \in Nat
  OBVIOUS
<1>1. 0 \in T
  <2>1. [i \in 0..0 |-> id] \in [0..0 -> Ids]
    OBVIOUS
  <2>2. LatestBy([i \in 0..0 |-> id], id, rows, 0)
    BY DEF LatestBy
  <2> QED  BY <2>1, <2>2
<1>2. ASSUME NEW n \in Nat, n \in T PROVE n + 1 \in T
  <2> HIDE DEF T
  <2>1. ASSUME n + 1 <= Len(rows)
        PROVE  \E g \in [0..n + 1 -> Ids] : LatestBy(g, id, rows, n + 1)
    <3>1. PICK f \in [0..n -> Ids] : LatestBy(f, id, rows, n)
      BY <1>0, <1>2, <2>1 DEF T
    <3>2. PICK x \in Ids : x = Later(rows, n + 1, f[n])
      <4>1. n + 1 \in 1..Len(rows) /\ f[n] \in Ids
        BY <1>0, <2>1
      <4> QED  BY <4>1, LaterType
    <3> DEFINE g == [i \in 0..n + 1 |-> IF i = n + 1 THEN x ELSE f[i]]
    <3>3. g \in [0..n + 1 -> Ids]
      OBVIOUS
    <3>4. ASSUME NEW i \in 1..n + 1 PROVE g[i] = Later(rows, i, g[i - 1])
      <4>1. CASE i = n + 1
        <5>1. g[i] = x /\ g[i - 1] = f[n]
          BY <4>1
        <5> QED  BY <5>1, <4>1, <3>2
      <4>2. CASE i # n + 1
        <5>1. g[i] = f[i] /\ g[i - 1] = f[i - 1] /\ i \in 1..n
          BY <4>2
        <5> QED  BY <5>1, <3>1 DEF LatestBy
      <4> QED  BY <4>1, <4>2
    <3>5. g[0] = id
      <4>1. g[0] = f[0]
        OBVIOUS
      <4> QED  BY <4>1, <3>1 DEF LatestBy
    <3> HIDE DEF g
    <3>6. LatestBy(g, id, rows, n + 1)
      BY <3>4, <3>5 DEF LatestBy
    <3> QED  BY <3>3, <3>6
  <2> QED  BY <2>1 DEF T
<1>3. T = Nat
  <2> HIDE DEF T
  <2>1. T \in SUBSET Nat  BY DEF T
  <2> QED  BY <1>1, <1>2, <2>1, NatSet
<1>4. Len(rows) \in T
  <2> HIDE DEF T
  <2> QED  BY <1>0, <1>3
<1> QED  BY <1>0, <1>4

\* And Latest is its last value.
LEMMA LatestByFunction ==
  ASSUME NEW rows \in Seq(Nat), NEW id \in Ids
  PROVE  \E h : LatestBy(h, id, rows, Len(rows)) /\ Latest(id, rows) = h[Len(rows)]
<1> DEFINE R(f) == [k \in 0..Len(rows) |->
                      IF k = 0 THEN id
                      ELSE IF Less(f[k - 1], IdOf(rows, k)) THEN IdOf(rows, k) ELSE f[k - 1]]
           h == CHOOSE f : f = R(f)
<1>0. Len(rows) \in Nat /\ Len(rows) \in 0..Len(rows)
  OBVIOUS
<1>1. PICK f \in [0..Len(rows) -> Ids] : LatestBy(f, id, rows, Len(rows))
  BY LatestExists
<1>2. f = R(f)
  <2>1. ASSUME NEW k \in 0..Len(rows) PROVE f[k] = R(f)[k]
    <3>1. CASE k = 0
      BY <3>1, <1>0, <1>1 DEF LatestBy
    <3>2. CASE k # 0
      <4>1. k \in 1..Len(rows)
        BY <3>2
      <4> QED  BY <3>2, <4>1, <1>1 DEF LatestBy, Later
    <3> QED  BY <3>1, <3>2
  <2> QED  BY <2>1
<1>3. h = R(h)
  BY <1>2
<1>4. Latest(id, rows) = h[Len(rows)]
  BY DEF Latest
<1>5. LatestBy(h, id, rows, Len(rows))
  <2>1. h[0] = id
    <3>1. R(h)[0] = id
      BY <1>0
    <3> HIDE DEF h, R
    <3> QED  BY <1>3, <3>1, Zenon
  <2>2. ASSUME NEW k \in 1..Len(rows) PROVE h[k] = Later(rows, k, h[k - 1])
    <3>1. R(h)[k] = Later(rows, k, h[k - 1])
      BY DEF Later
    <3> HIDE DEF h, R
    <3> QED  BY <1>3, <3>1, Zenon
  <2> QED  BY <2>1, <2>2 DEF LatestBy
<1> HIDE DEF h, R
<1> QED  BY <1>4, <1>5

\* The rows are the messages from the one after the n-th on.
Following(rows, n) == \A k \in 1..Len(rows) : rows[k] = n + k

\* The last row's id is a number, so it is compared as one, whatever strings
\* were compared with before: the cursor is the last message of the answer.
LEMMA LatestIs ==
  ASSUME NEW rows \in Seq(Nat), NEW n \in Nat, Following(rows, n)
  PROVE  Latest(<<"number", n>>, rows) = <<"number", n + Len(rows)>>
<1>0. Len(rows) \in Nat /\ <<"number", n>> \in Ids
  BY DEF Ids
<1>1. PICK h : /\ LatestBy(h, <<"number", n>>, rows, Len(rows))
               /\ Latest(<<"number", n>>, rows) = h[Len(rows)]
  BY <1>0, LatestByFunction
<1> DEFINE T == {k \in Nat : k < Len(rows) => h[k] \in Ids /\ h[k][2] <= n + k}
<1>2. 0 \in T
  BY <1>1, SMTT(40) DEF LatestBy, Ids
<1>3. ASSUME NEW k \in Nat, k \in T PROVE k + 1 \in T
  <2>1. ASSUME k + 1 < Len(rows) PROVE h[k + 1] \in Ids /\ h[k + 1][2] <= n + (k + 1)
    <3>1. h[k] \in Ids /\ h[k][2] <= n + k
      BY <1>0, <1>3, <2>1
    <3>2. k + 1 \in 1..Len(rows) /\ (k + 1) - 1 = k
      BY <1>0, <2>1
    <3>3. h[k + 1] = Later(rows, k + 1, h[k])
      BY <1>1, <3>2 DEF LatestBy
    <3>4. IdOf(rows, k + 1) = <<"string", n + (k + 1)>>
      BY <2>1, <3>2 DEF IdOf, Following
    <3> QED  BY <3>1, <3>3, <3>4 DEF Later, Ids
  <2> QED  BY <2>1
<1>4. T = Nat
  <2> HIDE DEF T
  <2>1. T \in SUBSET Nat  BY DEF T
  <2> QED  BY <1>2, <1>3, <2>1, NatSet
<1>5. CASE Len(rows) = 0
  BY <1>1, <1>5 DEF LatestBy
<1>6. CASE Len(rows) # 0
  <2>1. Len(rows) - 1 \in Nat /\ Len(rows) - 1 < Len(rows) /\ Len(rows) \in 1..Len(rows)
    BY <1>0, <1>6
  <2>2. h[Len(rows) - 1] \in Ids /\ h[Len(rows) - 1][2] <= n + (Len(rows) - 1)
    BY <1>4, <2>1
  <2>3. h[Len(rows)] = Later(rows, Len(rows), h[Len(rows) - 1])
    BY <1>1, <2>1 DEF LatestBy
  <2>4. IdOf(rows, Len(rows)) = <<"number", n + Len(rows)>>
    BY <2>1 DEF IdOf, Following
  <2>5. Less(h[Len(rows) - 1], <<"number", n + Len(rows)>>)
    BY <1>0, <2>2 DEF Less, Ids
  <2> QED  BY <1>1, <2>3, <2>4, <2>5 DEF Later
<1> QED  BY <1>5, <1>6

\* The type of the state.  Chat's TypeOK leaves out that the functions have their
\* domains, and what a request is.
Typed ==
  /\ log \in Seq(Rows) /\ OldLen <= Len(log) /\ \A i \in 1..OldLen : log[i] = 0
  /\ requests \in [Callers -> Requests \cup {None}]
  /\ box \in [Pages -> Texts \cup {None}]
  /\ post \in [Pages -> Callers \cup {None}] /\ poll \in [Pages -> Callers \cup {None}]
  /\ lastMessageId \in [Pages -> Ids]
  /\ shown \in [Pages -> Seq(Nat)] /\ adhoc \in [Pages -> Seq(Texts)]
  /\ typed \in 0..Len(Kind) /\ posts \in 0..MaxPosts /\ faults \in 0..MaxFaults
  /\ broken \in [Texts -> Nat]

\* A page and the requests it waits for know each other.
Waits(c) ==
  /\ requests[c].page \in {c[1], None}
  /\ requests[c].page = None => requests[c].answer = None
  /\ requests[c].page # None <=> c \in {post[c[1]], poll[c[1]]}

\* A page waits for requests of its own, and every request is one a page waits for
\* or one whose connection broke.
Paired ==
  /\ \A c \in Callers : requests[c] # None => Waits(c)
  /\ \A p \in Pages :
       /\ post[p] # None => post[p][1] = p /\ post[p][2] = "post" /\ requests[post[p]] # None
       /\ poll[p] # None => poll[p][1] = p /\ poll[p][2] = "poll" /\ requests[poll[p]] # None

\* A text that is stored, in a box or in a post has been typed.
Known ==
  /\ \A i \in 1..Len(log) : TextOf(log[i]) <= typed
  /\ \A c \in Callers : c[2] = "post" /\ requests[c] # None => requests[c].arg \in 1..typed
  /\ \A p \in Pages : box[p] # None => box[p] \in 1..typed

-----------------------------------------------------------------------------
(* What the actions do to the requests.                                    *)

\* The set of a caller's components.
LEMMA CallerIs ==
  \A c \in Callers : /\ c[1] \in Pages /\ c[2] \in {"post", "poll"} /\ c[3] \in 0..MaxFaults
                     /\ c # None /\ c = <<c[1], c[2], c[3]>>
BY NoneAssumption DEF Callers

\* None is no answer and no request, and what both consist of.
LEMMA RequestIs ==
  /\ \A r \in Requests : /\ r # None /\ r.page \in Pages \cup {None} /\ r.arg \in Nat
                         /\ r.answer \in Answers \cup {None}
  /\ \A a \in Answers : a # None /\ a.ok \in BOOLEAN /\ a.rows \in Seq(Nat)
  /\ \A p \in Pages : p # None
  /\ \A m \in Texts : m # None /\ m \in Nat
<1>1. \A m \in Texts : m # None /\ m \in Nat
  BY NoneAssumption, KindAssumption DEF Texts
<1>2. \A p \in Pages : p # None
  BY NoneAssumption
<1>3. \A a \in Answers : a # None /\ a.ok \in BOOLEAN /\ a.rows \in Seq(Nat)
  BY NoneAssumption DEF Answers
<1>4. \A r \in Requests : r # None
  BY NoneAssumption
<1>5. \A r \in Requests : /\ r.page \in Pages \cup {None} /\ r.arg \in Nat
                          /\ r.answer \in Answers \cup {None}
  BY DEF Requests
<1> QED  BY <1>1, <1>2, <1>3, <1>4, <1>5

\* A text can be told from the row that is stored of it.
LEMMA RowIs ==
  /\ \A m \in Texts : Row(m) \in Rows /\ TextOf(Row(m)) = m
  /\ \A r \in Rows : r \in Nat /\ TextOf(r) \in Nat
  /\ 0 \in Rows /\ TextOf(0) = 0
<1>0. Len(Kind) \in Nat
  BY KindAssumption
<1>1. ASSUME NEW m \in Texts PROVE Row(m) \in Rows /\ TextOf(Row(m)) = m
  <2>1. m \in 0..Len(Kind)
    BY DEF Texts
  <2>2. KindOf(m) = "altered" => m >= 1
    BY <1>0, <2>1 DEF KindOf
  <2> QED  BY <1>0, <2>1, <2>2 DEF Row, Rows, TextOf
<1>2. ASSUME NEW r \in Rows PROVE r \in Nat /\ TextOf(r) \in Nat
  BY <1>0 DEF Rows, TextOf
<1>3. 0 \in Rows /\ TextOf(0) = 0
  BY <1>0 DEF Rows, TextOf
<1> QED  BY <1>1, <1>2, <1>3

\* The least of the free numbers is free.
LEMMA MinNat ==
  ASSUME NEW T \in SUBSET Nat, T # {}
  PROVE  Min(T) \in T
<1>0. IsWellFoundedOn(OpToRel(<,Nat), Nat)
  BY NatLessThanWellFounded
<1>1. PICK x \in T : \A y \in T : <<y, x>> \notin OpToRel(<,Nat)
  BY <1>0, WFMin, Zenon
<1>2. ASSUME NEW y \in T PROVE x <= y
  <2>1. ~(y < x)
    BY <1>1 DEF OpToRel
  <2> QED  BY <2>1
<1> QED  BY <1>2 DEF Min

\* The requests stay as they are, but for c's, which becomes r.
Becomes(c, r) ==
  /\ requests' \in [Callers -> Requests \cup {None}]
  /\ requests'[c] = r
  /\ \A d \in Callers : d # c => requests'[d] = requests[d]

\* A page's new request takes a caller of the page's that has none.
LEMMA AskEffect ==
  ASSUME Typed, NEW p \in Pages, NEW op \in {"post", "poll"}, NEW arg \in Nat, NEW c,
         Ask(p, op, arg, c)
  PROVE  /\ c \in Callers /\ c[1] = p /\ c[2] = op /\ requests[c] = None
         /\ Becomes(c, [page |-> p, arg |-> arg, answer |-> None])
<1> DEFINE free == {k \in 0..MaxFaults : requests[<<p, op, k>>] = None}
           r == [page |-> p, arg |-> arg, answer |-> None]
<1>1. free # {} /\ c = <<p, op, Min(free)>> /\ requests' = [requests EXCEPT ![c] = r]
  BY DEF Ask
<1>2. free \in SUBSET Nat
  BY BoundsAssumption
<1>3. Min(free) \in free
  <2> HIDE DEF free
  <2> QED  BY <1>1, <1>2, MinNat
<1>4. Min(free) \in 0..MaxFaults /\ requests[<<p, op, Min(free)>>] = None
  BY <1>3
<1>5. c \in Callers /\ c[1] = p /\ c[2] = op /\ requests[c] = None
  <2> HIDE DEF free
  <2> QED  BY <1>1, <1>4 DEF Callers
<1>6. r \in Requests
  BY DEF Requests
<1> HIDE DEF r, free
<1>7. Becomes(c, r)
  <2>1. requests \in [Callers -> Requests \cup {None}]
    BY DEF Typed
  <2> QED  BY <1>1, <1>5, <1>6, <2>1 DEF Becomes
<1> QED  BY <1>5, <1>7 DEF r

\* An answer reaches the page that waits for it; without one, the request is over.
LEMMA RespondEffect ==
  ASSUME Typed, NEW c \in Callers, requests[c] # None, NEW ok \in BOOLEAN, NEW rows \in Seq(Nat),
         Respond(c, ok, rows)
  PROVE  IF requests[c].page = None THEN Becomes(c, None)
         ELSE Becomes(c, [page |-> requests[c].page, arg |-> requests[c].arg,
                          answer |-> [ok |-> ok, rows |-> rows]])
<1>1. requests[c] \in Requests
  BY DEF Typed
<1>2. CASE requests[c].page = None
  <2>1. requests' = [requests EXCEPT ![c] = None]
    BY <1>2 DEF Respond, Typed
  <2> QED  BY <1>2, <2>1 DEF Typed, Becomes
<1>3. CASE requests[c].page # None
  <2> DEFINE a == [ok |-> ok, rows |-> rows]
             r == [page |-> requests[c].page, arg |-> requests[c].arg, answer |-> a]
  <2>1. a \in Answers
    BY DEF Answers
  <2>2. requests' = [requests EXCEPT ![c] = [@ EXCEPT !.answer = a]]
    BY <1>3 DEF Respond, Typed
  <2> HIDE DEF a
  <2>3. r = [requests[c] EXCEPT !.answer = a]
    BY <1>1 DEF Requests
  <2>4. r \in Requests
    BY <1>1, <2>1 DEF Requests
  <2>5. requests' = [requests EXCEPT ![c] = r]
    BY <2>2, <2>3 DEF Typed
  <2> HIDE DEF r
  <2>6. Becomes(c, r)
    BY <2>4, <2>5 DEF Typed, Becomes
  <2> QED  BY <1>3, <2>6 DEF r, a
<1> QED  BY <1>2, <1>3

\* The page has its answer.
LEMMA EndEffect ==
  ASSUME Typed, NEW c \in Callers, End(c)
  PROVE  Becomes(c, None) /\ UNCHANGED <<log, typed, posts>>
BY DEF Typed, End, Becomes

\* A request that a page waits for is there, and its answer is one.
LEMMA HasIs ==
  ASSUME Typed, NEW c \in Callers, requests[c] # None
  PROVE  /\ requests[c] \in Requests /\ requests[c].arg \in Nat
         /\ requests[c].answer # None =>
              /\ requests[c].answer \in Answers /\ requests[c].answer.rows \in Seq(Nat)
              /\ requests[c].answer.ok \in BOOLEAN
<1>1. requests[c] \in Requests
  BY DEF Typed
<1> QED  BY <1>1, RequestIs

-----------------------------------------------------------------------------
(* The invariant of the pages' lists, and the type of the next state.      *)

\* The rows are messages of the table, from the one after the n-th on.
Listed(rows, n) == Following(rows, n) /\ n + Len(rows) <= Len(log)

\* A page lists the first messages of the table; what it asks for, and what
\* it is answered, are those that follow.
PolledAt(p) ==
  /\ lastMessageId[p] = <<"number", Len(shown[p])>>
  /\ Listed(shown[p], 0)
  /\ poll[p] # None => requests[poll[p]].arg = Len(shown[p]) + 1
  /\ Has(poll[p], TRUE) => Listed(requests[poll[p]].answer.rows, Len(shown[p]))

Polled == \A p \in Pages : PolledAt(p)

\* The part of the invariant that every step is shown to keep on its own.
Core == Typed /\ Paired /\ Known /\ Polled

\* Whatever a SELECT asks for, it is answered with ids.
LEMMA RowsType ==
  ASSUME log \in Seq(Rows), NEW i \in Nat
  PROVE  Log!RowsFrom(i) \in Seq(Nat)
<1> DEFINE first == IF i = 0 THEN 1 ELSE i
           last == IF Len(log) < first + Limit THEN Len(log) ELSE first + Limit - 1
           size == IF last < first THEN 0 ELSE last - first + 1
<1>1. Len(log) \in Nat /\ Limit \in Nat /\ Limit # 0
  BY BoundsAssumption
<1>2. first \in Nat /\ first # 0 /\ last \in Nat /\ size \in Nat
  BY <1>1
<1>3. Log!RowsFrom(i) = [k \in 1..size |-> first + k - 1]
  BY DEF Log!RowsFrom
<1> HIDE DEF first, last, size
<1> QED  BY <1>2, <1>3

\* The rows getMessages.lua selects from the place after the n-th message on.
LEMMA RowsAre ==
  ASSUME log \in Seq(Rows), NEW n \in Nat, n <= Len(log)
  PROVE  Log!RowsFrom(n + 1) \in Seq(Nat) /\ Listed(Log!RowsFrom(n + 1), n)
<1> DEFINE last == IF Len(log) < n + 1 + Limit THEN Len(log) ELSE n + 1 + Limit - 1
           size == IF last < n + 1 THEN 0 ELSE last - (n + 1) + 1
           rows == [k \in 1..size |-> n + 1 + k - 1]
<1>0. Len(log) \in Nat /\ Limit \in Nat /\ Limit # 0
  BY BoundsAssumption
<1>1. Log!RowsFrom(n + 1) = rows
  BY DEF Log!RowsFrom
<1>2. last \in Nat /\ last <= Len(log) /\ size \in Nat /\ n + size <= Len(log)
  BY <1>0
<1> HIDE DEF last, size
<1>3. rows \in Seq(Nat) /\ Len(rows) = size
  BY <1>2
<1>4. \A k \in 1..size : rows[k] = n + k
  BY <1>2
<1> HIDE DEF rows
<1> QED  BY <1>1, <1>2, <1>3, <1>4 DEF Listed, Following

-----------------------------------------------------------------------------
(* The steps, by what they do to one request.                              *)

\* A request whose connection broke, and one that its script has answered.
Broken(c) == [page |-> None, arg |-> requests[c].arg, answer |-> None]
Told(c, ok, rows) ==
  IF requests[c].page = None THEN None
  ELSE [page |-> requests[c].page, arg |-> requests[c].arg, answer |-> [ok |-> ok, rows |-> rows]]

\* The request c is for, and answered as ok says.
Answered(c, ok) ==
  /\ c \in Callers /\ requests[c] # None /\ requests[c].answer # None
  /\ requests[c].answer.ok = ok
  /\ Becomes(c, None)

\* Submit, with the caller it takes.
Submits(p, c) ==
  /\ c \in Callers /\ c[1] = p /\ c[2] = "post" /\ requests[c] = None
  /\ box[p] # None /\ post[p] = None /\ posts < MaxPosts
  /\ Becomes(c, [page |-> p, arg |-> box[p], answer |-> None])
  /\ post' = [post EXCEPT ![p] = c] /\ posts' = posts + 1
  /\ UNCHANGED <<log, box, poll, lastMessageId, shown, adhoc, typed, faults, broken>>

\* Updates, with the caller it takes and what it asks for.
Polls(p, c) ==
  /\ c \in Callers /\ c[1] = p /\ c[2] = "poll" /\ requests[c] = None /\ poll[p] = None
  /\ Becomes(c, [page |-> p, arg |-> Len(shown[p]) + 1, answer |-> None])
  /\ poll' = [poll EXCEPT ![p] = c]
  /\ UNCHANGED <<log, box, post, lastMessageId, shown, adhoc, typed, posts, faults, broken>>

\* A script's run, and what its page is told.
Serves(c, ok, rows) ==
  /\ c \in Callers /\ requests[c] # None /\ requests[c].answer = None
  /\ ok \in BOOLEAN /\ rows \in Seq(Nat)
  /\ Becomes(c, Told(c, ok, rows))
  /\ faults' \in 0..MaxFaults /\ faults <= faults'
  /\ UNCHANGED <<box, post, poll, lastMessageId, shown, adhoc, typed, posts, broken>>

\* Script, for a post.
Stores(c, ok) ==
  /\ c[2] = "post" /\ Serves(c, ok, <<>>)
  /\ log' = IF ok THEN Append(log, Row(requests[c].arg)) ELSE log

\* Script, for a poll.
Fetches(c, ok, rows) ==
  /\ c[2] = "poll" /\ Serves(c, ok, rows) /\ UNCHANGED log
  /\ ok => rows = Log!RowsFrom(requests[c].arg)

\* PostDone.
Previews(p) ==
  /\ Answered(post[p], TRUE)
  /\ box' = [box EXCEPT ![p] = None]
  /\ adhoc' = [adhoc EXCEPT ![p] = Append(@, requests[post[p]].arg)]
  /\ post' = [post EXCEPT ![p] = None]
  /\ UNCHANGED <<log, poll, lastMessageId, shown, typed, posts, faults, broken>>

\* PostFails.
GivesUpPost(p) ==
  /\ Answered(post[p], FALSE)
  /\ post' = [post EXCEPT ![p] = None]
  /\ UNCHANGED <<log, box, poll, lastMessageId, shown, adhoc, typed, posts, faults, broken>>

\* PollDone, with what the cursor becomes.
Lists(p, rows) ==
  /\ Answered(poll[p], TRUE)
  /\ rows \in Seq(Nat) /\ Listed(rows, Len(shown[p]))
  /\ shown' = [shown EXCEPT ![p] = @ \o rows]
  /\ lastMessageId' = [lastMessageId EXCEPT ![p] = <<"number", Len(shown[p]) + Len(rows)>>]
  /\ adhoc' = [adhoc EXCEPT ![p] = <<>>] /\ poll' = [poll EXCEPT ![p] = None]
  /\ UNCHANGED <<log, typed, posts, box, post, faults, broken>>

\* PollFails.
GivesUpPoll(p) ==
  /\ \E ok \in BOOLEAN : Answered(poll[p], ok)
  /\ poll' = [poll EXCEPT ![p] = None]
  /\ UNCHANGED <<log, box, post, lastMessageId, shown, adhoc, typed, posts, faults, broken>>

\* Break, for a request.
Breaks(c) ==
  /\ c \in Callers /\ requests[c] # None /\ requests[c].arg \in Nat
  /\ Becomes(c, None) \/ (requests[c].answer = None /\ Becomes(c, Broken(c)))
  /\ faults < MaxFaults /\ faults' = faults + 1
  /\ UNCHANGED <<log, box, lastMessageId, shown, adhoc, typed, posts>>

\* Break, for the post of a page.
LosesPost(p) ==
  /\ Breaks(post[p])
  /\ post' = [post EXCEPT ![p] = None] /\ UNCHANGED poll
  /\ broken' = [broken EXCEPT ![requests[post[p]].arg] = @ + 1]

\* Break, for the poll of a page.
LosesPoll(p) ==
  /\ Breaks(poll[p])
  /\ poll' = [poll EXCEPT ![p] = None] /\ UNCHANGED <<post, broken>>

\* Every step of Next, as StepIs shows.
Step ==
  \/ \E p \in Pages :
       \/ Type(p) \/ Previews(p) \/ GivesUpPost(p) \/ GivesUpPoll(p)
       \/ LosesPost(p) \/ LosesPoll(p)
       \/ \E c \in Callers : Submits(p, c) \/ Polls(p, c)
       \/ \E rows \in Seq(Nat) : Lists(p, rows)
  \/ \E c \in Callers, ok \in BOOLEAN : Stores(c, ok) \/ \E rows \in Seq(Nat) : Fetches(c, ok, rows)
  \/ Crash

\* What a page waits for.
LEMMA WaitedFor ==
  ASSUME Core, NEW p \in Pages
  PROVE  /\ post[p] # None => /\ post[p] \in Callers /\ requests[post[p]] # None
                              /\ post[p][1] = p /\ post[p][2] = "post"
                              /\ requests[post[p]].page = p
                              /\ requests[post[p]].arg \in Texts /\ requests[post[p]].arg # 0
         /\ poll[p] # None => /\ poll[p] \in Callers /\ requests[poll[p]] # None
                              /\ poll[p][1] = p /\ poll[p][2] = "poll"
                              /\ requests[poll[p]].page = p
<1>1. CASE post[p] # None
  <2>1. /\ post[p] \in Callers /\ requests[post[p]] # None
        /\ post[p][1] = p /\ post[p][2] = "post"
    BY <1>1 DEF Core, Typed, Paired
  <2>2. Waits(post[p])
    BY <2>1 DEF Core, Paired
  <2>3. requests[post[p]].page = p
    BY <2>1, <2>2, RequestIs DEF Waits
  <2>4. requests[post[p]].arg \in 1..typed /\ typed \in 0..Len(Kind)
    BY <2>1 DEF Core, Known, Typed
  <2>5. requests[post[p]].arg \in Texts /\ requests[post[p]].arg # 0
    BY <2>4, KindAssumption DEF Texts
  <2>6. poll[p] # None => /\ poll[p] \in Callers /\ requests[poll[p]] # None
                          /\ poll[p][1] = p /\ poll[p][2] = "poll"
    BY DEF Core, Typed, Paired
  <2>7. poll[p] # None => Waits(poll[p])
    BY <2>6 DEF Core, Paired
  <2> QED  BY <2>1, <2>3, <2>5, <2>6, <2>7, RequestIs DEF Waits
<1>2. CASE post[p] = None
  <2>1. poll[p] # None => /\ poll[p] \in Callers /\ requests[poll[p]] # None
                          /\ poll[p][1] = p /\ poll[p][2] = "poll"
    BY DEF Core, Typed, Paired
  <2>2. poll[p] # None => Waits(poll[p])
    BY <2>1 DEF Core, Paired
  <2> QED  BY <1>2, <2>1, <2>2, RequestIs DEF Waits
<1> QED  BY <1>1, <1>2

\* A page's user submits.
LEMMA SubmitsIs ==
  ASSUME Core, NEW p \in Pages, Submit(p)
  PROVE  \E c \in Callers : Submits(p, c)
<1>1. PICK c \in Callers : Ask(p, "post", box[p], c) /\ post' = [post EXCEPT ![p] = c]
  BY DEF Submit
<1>2. box[p] \in Nat
  BY RequestIs DEF Submit, Core, Typed
<1>3. /\ c[1] = p /\ c[2] = "post" /\ requests[c] = None
      /\ Becomes(c, [page |-> p, arg |-> box[p], answer |-> None])
  BY <1>1, <1>2, AskEffect DEF Core
<1> QED  BY <1>1, <1>3 DEF Submit, Submits

\* A page's next poll asks for the message after the last one it lists.
LEMMA PollsIs ==
  ASSUME Core, NEW p \in Pages, Updates(p)
  PROVE  \E c \in Callers : Polls(p, c)
<1>1. PICK c \in Callers : /\ Ask(p, "poll", PlusOne(lastMessageId[p]), c)
                           /\ poll' = [poll EXCEPT ![p] = c]
  BY DEF Updates
<1>2. lastMessageId[p] = <<"number", Len(shown[p])>> /\ Len(shown[p]) \in Nat
  <2>1. shown[p] \in Seq(Nat)
    BY DEF Core, Typed
  <2>2. lastMessageId[p] = <<"number", Len(shown[p])>>
    BY Zenon DEF Core, Polled, PolledAt
  <2> QED  BY <2>1, <2>2
<1>3. PlusOne(lastMessageId[p]) = Len(shown[p]) + 1
  <2>1. \A n \in Nat : PlusOne(<<"number", n>>) = n + 1
    BY DEF PlusOne
  <2> QED  BY <1>2, <2>1
<1>4. PICK n \in Nat : n = Len(shown[p]) + 1
  BY <1>2
<1>5. Ask(p, "poll", n, c)
  BY <1>1, <1>3, <1>4
<1>6. /\ c[1] = p /\ c[2] = "poll" /\ requests[c] = None
      /\ Becomes(c, [page |-> p, arg |-> n, answer |-> None])
  BY <1>5, AskEffect DEF Core
<1> QED  BY <1>1, <1>4, <1>6 DEF Updates, Polls

\* sendMessage.lua's run.
LEMMA StoresIs ==
  ASSUME Core, NEW c \in Callers, c[2] = "post", Script(c)
  PROVE  \E ok \in BOOLEAN : Stores(c, ok)
<1>1. /\ requests[c] # None /\ requests[c].answer = None /\ SendMessage(c)
      /\ UNCHANGED <<page, typed, posts, broken>>
  BY DEF Script
<1>2. <<>> \in Seq(Nat) /\ faults \in 0..MaxFaults
  BY DEF Core, Typed
<1>3. PICK ok \in BOOLEAN : /\ Respond(c, ok, <<>>)
                            /\ log' = IF ok THEN Append(log, Row(requests[c].arg)) ELSE log
                            /\ faults' = faults \/ Fault
  BY <1>1 DEF SendMessage, Refused
<1>4. faults' \in 0..MaxFaults /\ faults <= faults'
  BY <1>2, <1>3, BoundsAssumption DEF Fault
<1>5. Becomes(c, Told(c, ok, <<>>))
  BY <1>1, <1>2, <1>3, RespondEffect DEF Core, Told
<1>6. Stores(c, ok)
  BY <1>1, <1>2, <1>3, <1>4, <1>5 DEF Stores, Serves, page
<1> QED  BY <1>6

\* getMessages.lua's run.
LEMMA FetchesIs ==
  ASSUME Core, NEW c \in Callers, c[2] = "poll", Script(c)
  PROVE  \E ok \in BOOLEAN : \E rows \in Seq(Nat) : Fetches(c, ok, rows)
<1>1. /\ requests[c] # None /\ requests[c].answer = None /\ GetMessages(c)
      /\ UNCHANGED <<page, typed, posts, broken>>
  BY DEF Script
<1>2. <<>> \in Seq(Nat) /\ faults \in 0..MaxFaults /\ log \in Seq(Rows) /\ requests[c].arg \in Nat
  BY <1>1, HasIs DEF Core, Typed
<1>3. Log!RowsFrom(requests[c].arg) \in Seq(Nat)
  BY <1>2, RowsType
<1>4. PICK ok \in BOOLEAN, rows \in Seq(Nat) :
         /\ Respond(c, ok, rows) /\ UNCHANGED log /\ (faults' = faults \/ Fault)
         /\ ok => rows = Log!RowsFrom(requests[c].arg)
  <2>1. CASE Respond(c, TRUE, Log!RowsFrom(requests[c].arg)) /\ UNCHANGED <<log, faults>>
    BY <2>1, <1>3
  <2>2. CASE Refused(c) /\ Fault
    BY <2>2, <1>2 DEF Refused
  <2> QED  BY <1>1, <2>1, <2>2 DEF GetMessages
<1>5. faults' \in 0..MaxFaults /\ faults <= faults'
  BY <1>2, <1>4, BoundsAssumption DEF Fault
<1>6. Becomes(c, Told(c, ok, rows))
  BY <1>1, <1>2, <1>4, RespondEffect DEF Core, Told
<1>7. Fetches(c, ok, rows)
  BY <1>1, <1>2, <1>4, <1>5, <1>6 DEF Fetches, Serves, page
<1> QED  BY <1>7

\* What a page's request that has ended has been answered.
LEMMA AnsweredIs ==
  ASSUME Core, NEW p \in Pages, NEW ok \in BOOLEAN
  PROVE  /\ Has(post[p], ok) /\ End(post[p]) =>
              Answered(post[p], ok) /\ UNCHANGED <<log, typed, posts>>
         /\ Has(poll[p], ok) /\ End(poll[p]) =>
              Answered(poll[p], ok) /\ UNCHANGED <<log, typed, posts>>
<1>1. ASSUME NEW c \in {post[p], poll[p]}, Has(c, ok), End(c)
      PROVE  Answered(c, ok) /\ UNCHANGED <<log, typed, posts>>
  <2>1. c \in Callers /\ requests[c] # None
    BY <1>1, WaitedFor DEF Has
  <2>2. Becomes(c, None) /\ UNCHANGED <<log, typed, posts>>
    BY <1>1, <2>1, EndEffect DEF Core
  <2> QED  BY <1>1, <2>1, <2>2 DEF Has, Answered
<1> QED  BY <1>1

\* A page is answered what follows the messages it lists, and lists it.
LEMMA ListsIs ==
  ASSUME Core, NEW p \in Pages, PollDone(p)
  PROVE  \E rows \in Seq(Nat) : Lists(p, rows)
<1> DEFINE rows == requests[poll[p]].answer.rows
<1>0. Has(poll[p], TRUE) /\ Answered(poll[p], TRUE) /\ UNCHANGED <<log, typed, posts>>
  BY AnsweredIs DEF PollDone
<1>1. rows \in Seq(Nat)
  BY <1>0, HasIs DEF Core, Answered
<1>2. Listed(rows, Len(shown[p])) /\ lastMessageId[p] = <<"number", Len(shown[p])>>
  BY <1>0 DEF Core, Polled, PolledAt
<1>3. Len(shown[p]) \in Nat
  BY DEF Core, Typed
<1>4. Latest(lastMessageId[p], rows) = <<"number", Len(shown[p]) + Len(rows)>>
  <2> HIDE DEF rows
  <2> QED  BY <1>1, <1>2, <1>3, LatestIs DEF Listed
<1>5. /\ shown' = [shown EXCEPT ![p] = @ \o rows]
      /\ lastMessageId' = [lastMessageId EXCEPT ![p] = Latest(@, rows)]
      /\ adhoc' = [adhoc EXCEPT ![p] = <<>>] /\ poll' = [poll EXCEPT ![p] = None]
      /\ UNCHANGED <<box, post, faults, broken>>
  BY DEF PollDone
<1> HIDE DEF rows
<1>6. lastMessageId' = [lastMessageId EXCEPT ![p] = <<"number", Len(shown[p]) + Len(rows)>>]
  <2>1. lastMessageId' = [lastMessageId EXCEPT ![p] = Latest(lastMessageId[p], rows)]
    BY <1>5
  <2> QED  BY <2>1, <1>4
<1>7. Lists(p, rows)
  BY <1>0, <1>1, <1>2, <1>5, <1>6 DEF Lists
<1> QED  BY <1>1, <1>7

\* A connection breaks that a page waits for.
LEMMA LosesIs ==
  ASSUME Core, NEW p \in Pages
  PROVE  /\ Break(p, post[p]) => LosesPost(p)
         /\ Break(p, poll[p]) => LosesPoll(p)
<1>1. ASSUME NEW c \in {post[p], poll[p]}, Break(p, c)
      PROVE  Breaks(c)
  <2>1. c \in Callers /\ requests[c] # None
    BY <1>1, WaitedFor DEF Break
  <2>2. requests[c] \in Requests /\ requests[c].arg \in Nat
    BY <2>1, HasIs DEF Core
  <2>3. CASE requests' = [requests EXCEPT ![c] = None]
    <3>1. Becomes(c, None)
      BY <2>1, <2>3 DEF Core, Typed, Becomes
    <3> QED  BY <1>1, <2>1, <2>2, <3>1 DEF Break, Breaks, Fault
  <2>4. CASE requests[c].answer = None /\ requests' = [requests EXCEPT ![c].page = None]
    <3> DEFINE r == Broken(c)
    <3>1. r = [requests[c] EXCEPT !.page = None]
      BY <2>2, <2>4 DEF Broken, Requests
    <3>2. r \in Requests
      BY <2>2 DEF Requests, Broken
    <3>3. requests' = [requests EXCEPT ![c] = r]
      <4>1. requests' = [requests EXCEPT ![c] = [requests[c] EXCEPT !.page = None]]
        BY <2>4
      <4> QED  BY <3>1, <4>1
    <3> HIDE DEF r
    <3>4. Becomes(c, r)
      BY <2>1, <3>2, <3>3 DEF Core, Typed, Becomes
    <3>5. Becomes(c, Broken(c))
      BY <3>4 DEF r
    <3> QED  BY <1>1, <2>1, <2>2, <2>4, <3>5 DEF Break, Breaks, Fault
  <2> QED  BY <1>1, <2>3, <2>4 DEF Break
<1>2. ASSUME Break(p, post[p]) PROVE LosesPost(p)
  <2>1. Breaks(post[p]) /\ post[p] # None /\ post[p][1] = p /\ post[p][2] = "post"
    BY <1>1, <1>2, WaitedFor DEF Break
  <2>2. \A q \in Pages : (post[q] = post[p] => q = p) /\ poll[q] # post[p]
    BY <2>1, WaitedFor
  <2>3. /\ post' = [q \in Pages |-> IF post[q] = post[p] THEN None ELSE post[q]]
        /\ poll' = [q \in Pages |-> IF poll[q] = post[p] THEN None ELSE poll[q]]
        /\ broken' = [broken EXCEPT ![requests[post[p]].arg] = @ + 1]
    BY <1>2, <2>1 DEF Break
  <2>4. post \in [Pages -> Callers \cup {None}] /\ poll \in [Pages -> Callers \cup {None}]
    BY DEF Core, Typed
  <2>5. post' = [post EXCEPT ![p] = None] /\ poll' = poll
    BY <2>2, <2>3, <2>4
  <2> QED  BY <2>1, <2>3, <2>5 DEF LosesPost
<1>3. ASSUME Break(p, poll[p]) PROVE LosesPoll(p)
  <2>1. Breaks(poll[p]) /\ poll[p] # None /\ poll[p][1] = p /\ poll[p][2] = "poll"
    BY <1>1, <1>3, WaitedFor DEF Break
  <2>2. \A q \in Pages : (poll[q] = poll[p] => q = p) /\ post[q] # poll[p]
    BY <2>1, WaitedFor
  <2>3. /\ post' = [q \in Pages |-> IF post[q] = poll[p] THEN None ELSE post[q]]
        /\ poll' = [q \in Pages |-> IF poll[q] = poll[p] THEN None ELSE poll[q]]
        /\ broken' = broken
    BY <1>3, <2>1 DEF Break
  <2>4. post \in [Pages -> Callers \cup {None}] /\ poll \in [Pages -> Callers \cup {None}]
    BY DEF Core, Typed
  <2>5. poll' = [poll EXCEPT ![p] = None] /\ post' = post
    BY <2>2, <2>3, <2>4
  <2> QED  BY <2>1, <2>3, <2>5 DEF LosesPoll
<1> QED  BY <1>2, <1>3

\* Every step is one of those above.
LEMMA StepIs ==
  ASSUME Core, Next
  PROVE  Step
<1>1. CASE Crash
  BY <1>1 DEF Step
<1>2. ASSUME NEW p \in Pages, Type(p) PROVE Step
  BY <1>2 DEF Step
<1>3. ASSUME NEW p \in Pages, Submit(p) PROVE Step
  BY <1>3, SubmitsIs DEF Step
<1>4. ASSUME NEW p \in Pages, Posting(p) PROVE Step
  <2>1. CASE PostDone(p)
    <3>1. Previews(p)
      BY <2>1, AnsweredIs DEF PostDone, Previews
    <3> QED  BY <3>1 DEF Step
  <2>2. CASE PostFails(p)
    <3>1. GivesUpPost(p)
      BY <2>2, AnsweredIs DEF PostFails, GivesUpPost
    <3> QED  BY <3>1 DEF Step
  <2>3. ASSUME NEW k \in 0..MaxFaults, Script(<<p, "post", k>>) PROVE Step
    <3>1. <<p, "post", k>> \in Callers /\ <<p, "post", k>>[2] = "post"
      BY DEF Callers
    <3>2. PICK c \in Callers : c[2] = "post" /\ Script(c)
      BY <2>3, <3>1
    <3> QED  BY <3>2, StoresIs DEF Step
  <2> QED  BY <1>4, <2>1, <2>2, <2>3 DEF Posting
<1>5. ASSUME NEW p \in Pages, Polling(p) PROVE Step
  <2>1. CASE Updates(p)
    BY <2>1, PollsIs DEF Step
  <2>2. CASE PollDone(p)
    BY <2>2, ListsIs DEF Step
  <2>3. CASE PollFails(p)
    <3>1. \E ok \in BOOLEAN : Has(poll[p], ok) /\ End(poll[p])
      BY <2>3 DEF PollFails
    <3>2. (\E ok \in BOOLEAN : Answered(poll[p], ok)) /\ UNCHANGED <<log, typed, posts>>
      BY <3>1, AnsweredIs
    <3>3. GivesUpPoll(p)
      BY <2>3, <3>2 DEF PollFails, GivesUpPoll
    <3> QED  BY <3>3 DEF Step
  <2>4. ASSUME NEW k \in 0..MaxFaults, Script(<<p, "poll", k>>) PROVE Step
    <3>1. <<p, "poll", k>> \in Callers /\ <<p, "poll", k>>[2] = "poll"
      BY DEF Callers
    <3>2. PICK c \in Callers : c[2] = "poll" /\ Script(c)
      BY <2>4, <3>1
    <3> QED  BY <3>2, FetchesIs DEF Step
  <2> QED  BY <1>5, <2>1, <2>2, <2>3, <2>4 DEF Polling
<1>6. ASSUME NEW p \in Pages, Break(p, post[p]) \/ Break(p, poll[p]) PROVE Step
  BY <1>6, LosesIs DEF Step
<1> QED  BY <1>1, <1>2, <1>3, <1>4, <1>5, <1>6 DEF Next

-----------------------------------------------------------------------------
(* Every step keeps the core of the invariant.                             *)

\* A page whose poll and whose answer stay as they are, or which waits no more,
\* lists what it did, from a table that may have grown.
LEMMA PolledSame ==
  ASSUME Core, Typed', Len(log) <= Len(log'), NEW p \in Pages,
         lastMessageId'[p] = lastMessageId[p], shown'[p] = shown[p],
         poll'[p] # None => poll'[p] = poll[p] /\ requests'[poll[p]] = requests[poll[p]]
  PROVE  PolledAt(p)'
<1>0. Len(log) \in Nat /\ Len(log') \in Nat
  BY DEF Core, Typed
<1>1. shown[p] \in Seq(Nat) /\ Len(shown[p]) \in Nat
  BY DEF Core, Typed
<1>2. lastMessageId[p] = <<"number", Len(shown[p])>> /\ Listed(shown[p], 0)
  BY Zenon DEF Core, Polled, PolledAt
<1>3. Listed(shown[p], 0)'
  <2>1. Listed(shown[p], 0)' <=> Following(shown[p], 0) /\ 0 + Len(shown[p]) <= Len(log')
    BY DEF Listed, Following
  <2> QED  BY <1>0, <1>1, <1>2, <2>1 DEF Listed
<1>4. poll[p] # None => requests[poll[p]].arg = Len(shown[p]) + 1
  BY Zenon DEF Core, Polled, PolledAt
<1>5. ASSUME Has(poll[p], TRUE)' PROVE Listed(requests[poll[p]].answer.rows, Len(shown[p]))'
  <2>1. poll'[p] # None /\ poll'[p] = poll[p] /\ requests'[poll[p]] = requests[poll[p]]
    BY <1>5 DEF Has
  <2>2. Has(poll[p], TRUE)
    BY <1>5, <2>1 DEF Has
  <2>3. PICK rows \in Seq(Nat) : rows = requests[poll[p]].answer.rows
    BY <2>1, <2>2, WaitedFor, HasIs DEF Has, Core
  <2>4. Following(rows, Len(shown[p])) /\ Len(shown[p]) + Len(rows) <= Len(log)
    BY <2>2, <2>3 DEF Core, Polled, PolledAt, Listed
  <2>5. Listed(requests[poll[p]].answer.rows, Len(shown[p]))'
          <=> Following(rows, Len(shown[p])) /\ Len(shown[p]) + Len(rows) <= Len(log')
    BY <1>1, <2>1, <2>3 DEF Listed, Following
  <2> QED  BY <1>0, <1>1, <2>4, <2>5
<1> QED  BY <1>2, <1>3, <1>4, <1>5 DEF PolledAt

\* The rest of the state.
Rest ==
  /\ box \in [Pages -> Texts \cup {None}]
  /\ lastMessageId \in [Pages -> Ids]
  /\ shown \in [Pages -> Seq(Nat)] /\ adhoc \in [Pages -> Seq(Texts)]
  /\ typed \in 0..Len(Kind) /\ posts \in 0..MaxPosts /\ faults \in 0..MaxFaults
  /\ broken \in [Texts -> Nat]

\* What post and poll are when a page's one changes.
LEMMA OneChanges ==
  ASSUME Typed, NEW p \in Pages, NEW x \in Callers \cup {None}
  PROVE  /\ [post EXCEPT ![p] = x] \in [Pages -> Callers \cup {None}]
         /\ [poll EXCEPT ![p] = x] \in [Pages -> Callers \cup {None}]
         /\ \A q \in Pages : /\ [post EXCEPT ![p] = x][q] = IF q = p THEN x ELSE post[q]
                             /\ [poll EXCEPT ![p] = x][q] = IF q = p THEN x ELSE poll[q]
BY DEF Typed

\* The table is what it was, or grows by one row.
Grows == UNCHANGED log \/ \E r \in Rows : log' = Append(log, r)

\* Then it has its type, and what was in it stays.
LEMMA GrowsType ==
  ASSUME Typed, Grows
  PROVE  /\ log' \in Seq(Rows) /\ OldLen <= Len(log') /\ \A i \in 1..OldLen : log'[i] = 0
         /\ Len(log) <= Len(log') /\ ToSet(log) \subseteq ToSet(log')
<1>0. OldLen \in Nat /\ log \in Seq(Rows) /\ Len(log) \in Nat /\ OldLen <= Len(log)
      /\ \A i \in 1..OldLen : log[i] = 0
  BY BoundsAssumption DEF Typed
<1>1. CASE UNCHANGED log
  BY <1>0, <1>1
<1>2. ASSUME NEW r \in Rows, log' = Append(log, r)
      PROVE  /\ log' \in Seq(Rows) /\ OldLen <= Len(log') /\ \A i \in 1..OldLen : log'[i] = 0
             /\ Len(log) <= Len(log') /\ ToSet(log) \subseteq ToSet(log')
  <2>1. log' \in Seq(Rows) /\ Len(log') = Len(log) + 1 /\ \A i \in 1..Len(log) : log'[i] = log[i]
    BY <1>0, <1>2
  <2>2. \A i \in 1..OldLen : log'[i] = 0
    BY <1>0, <2>1
  <2>3. ToSet(log) \subseteq ToSet(log')
    BY <1>0, <2>1 DEF ToSet
  <2> QED  BY <1>0, <2>1, <2>2, <2>3
<1> QED  BY <1>1, <1>2 DEF Grows

\* A text that is asked to be stored.
LEMMA StoresGrows ==
  ASSUME Core, NEW c \in Callers, NEW ok \in BOOLEAN, Stores(c, ok)
  PROVE  /\ requests[c].arg \in 1..typed /\ requests[c].arg \in Texts /\ Grows
         /\ Row(requests[c].arg) \in Rows /\ TextOf(Row(requests[c].arg)) = requests[c].arg
<1>1. requests[c].arg \in 1..typed /\ typed \in 0..Len(Kind)
  BY DEF Core, Known, Typed, Stores, Serves
<1>2. requests[c].arg \in Texts
  BY <1>1, KindAssumption DEF Texts
<1>3. Row(requests[c].arg) \in Rows /\ TextOf(Row(requests[c].arg)) = requests[c].arg
  BY <1>2, RowIs
<1>4. Grows
  BY <1>3 DEF Stores, Grows
<1> QED  BY <1>1, <1>2, <1>3, <1>4

\* The next state has its type.
LEMMA TypedKept ==
  ASSUME Core, Step
  PROVE  Typed'
<1> DEFINE Goal == /\ requests' \in [Callers -> Requests \cup {None}]
                   /\ post' \in [Pages -> Callers \cup {None}]
                   /\ poll' \in [Pages -> Callers \cup {None}]
                   /\ Rest' /\ Grows
<1>0. /\ requests \in [Callers -> Requests \cup {None}]
      /\ post \in [Pages -> Callers \cup {None}] /\ poll \in [Pages -> Callers \cup {None}]
      /\ Typed
  BY DEF Core, Typed
<1>a. Rest
  BY DEF Core, Typed, Rest
<1>1. ASSUME NEW p \in Pages, Type(p) PROVE Goal
  <2>1. typed' \in 0..Len(Kind) /\ typed' \in Texts
    BY <1>1, <1>a, KindAssumption DEF Type, Rest, Texts
  <2>2. Rest'
    BY <1>1, <1>a, <2>1 DEF Type, Rest
  <2> QED  BY <1>0, <1>1, <2>2 DEF Type, Grows
<1>2. ASSUME NEW p \in Pages, Previews(p) PROVE Goal
  <2>1. post[p] # None
    BY <1>2, CallerIs DEF Previews, Answered
  <2>2. PICK m \in Texts : m = requests[post[p]].arg
    BY <2>1, WaitedFor
  <2>3. adhoc' = [adhoc EXCEPT ![p] = Append(@, m)] /\ box' = [box EXCEPT ![p] = None]
        /\ UNCHANGED <<lastMessageId, shown, typed, posts, faults, broken, poll, log>>
    BY <1>2, <2>2 DEF Previews
  <2>4. Rest'
    BY <1>a, <2>3 DEF Rest
  <2>5. post' \in [Pages -> Callers \cup {None}] /\ requests' \in [Callers -> Requests \cup {None}]
    BY <1>0, <1>2, OneChanges DEF Previews, Answered, Becomes
  <2> QED  BY <1>0, <2>3, <2>4, <2>5 DEF Grows
<1>3. ASSUME NEW p \in Pages, GivesUpPost(p) PROVE Goal
  <2>1. Rest'
    BY <1>3, <1>a DEF Rest, GivesUpPost
  <2> QED  BY <1>0, <1>3, <2>1, OneChanges DEF GivesUpPost, Answered, Becomes, Grows
<1>4. ASSUME NEW p \in Pages, GivesUpPoll(p) PROVE Goal
  <2>1. Rest'
    BY <1>4, <1>a DEF Rest, GivesUpPoll
  <2> QED  BY <1>0, <1>4, <2>1, OneChanges DEF GivesUpPoll, Answered, Becomes, Grows
<1>5. ASSUME NEW p \in Pages, LosesPost(p) PROVE Goal
  <2>1. faults' \in 0..MaxFaults
    BY <1>5, <1>a, BoundsAssumption DEF LosesPost, Breaks, Rest
  <2>2. broken' \in [Texts -> Nat]
    <3>1. post[p] # None
      BY <1>5, CallerIs DEF LosesPost, Breaks
    <3>2. PICK m \in Texts : m = requests[post[p]].arg
      BY <3>1, WaitedFor
    <3>3. broken' = [broken EXCEPT ![m] = @ + 1]
      BY <1>5, <3>2 DEF LosesPost
    <3> QED  BY <1>a, <3>3 DEF Rest
  <2>3. UNCHANGED <<box, lastMessageId, shown, adhoc, typed, posts, log>>
    BY <1>5 DEF LosesPost, Breaks
  <2>4. Rest'
    BY <1>a, <2>1, <2>2, <2>3 DEF Rest
  <2> QED  BY <1>0, <1>5, <2>4, OneChanges DEF LosesPost, Breaks, Becomes, Grows
<1>6. ASSUME NEW p \in Pages, LosesPoll(p) PROVE Goal
  <2>1. faults' \in 0..MaxFaults
    BY <1>6, <1>a, BoundsAssumption DEF LosesPoll, Breaks, Rest
  <2>2. Rest'
    BY <1>6, <1>a, <2>1 DEF Rest, LosesPoll, Breaks
  <2> QED  BY <1>0, <1>6, <2>2, OneChanges DEF LosesPoll, Breaks, Becomes, Grows
<1>7. ASSUME NEW p \in Pages, NEW c \in Callers, Submits(p, c) PROVE Goal
  <2>1. posts' \in 0..MaxPosts
    BY <1>7, <1>a, BoundsAssumption DEF Submits, Rest
  <2>2. Rest'
    BY <1>7, <1>a, <2>1 DEF Rest, Submits
  <2> QED  BY <1>0, <1>7, <2>2, OneChanges DEF Submits, Becomes, Grows
<1>8. ASSUME NEW p \in Pages, NEW c \in Callers, Polls(p, c) PROVE Goal
  <2>1. Rest'
    BY <1>8, <1>a DEF Rest, Polls
  <2> QED  BY <1>0, <1>8, <2>1, OneChanges DEF Polls, Becomes, Grows
<1>9. ASSUME NEW p \in Pages, NEW rows \in Seq(Nat), Lists(p, rows) PROVE Goal
  <2>1. <<"number", Len(shown[p]) + Len(rows)>> \in Ids /\ shown[p] \o rows \in Seq(Nat)
    BY <1>a DEF Ids, Rest
  <2>2. PICK x \in Ids, s \in Seq(Nat) : /\ shown' = [shown EXCEPT ![p] = s]
                                         /\ lastMessageId' = [lastMessageId EXCEPT ![p] = x]
    BY <1>9, <2>1 DEF Lists
  <2>3. adhoc' = [adhoc EXCEPT ![p] = <<>>] /\ UNCHANGED <<box, typed, posts, faults, broken>>
        /\ <<>> \in Seq(Texts)
    BY <1>9 DEF Lists
  <2>4. Rest'
    BY <1>a, <2>2, <2>3 DEF Rest
  <2> QED  BY <1>0, <1>9, <2>4, OneChanges DEF Lists, Answered, Becomes, Grows
<1>10. ASSUME NEW c \in Callers, NEW ok \in BOOLEAN, Stores(c, ok) PROVE Goal
  <2>1. Grows
    BY <1>10, StoresGrows
  <2>2. Rest'
    BY <1>10, <1>a DEF Rest, Stores, Serves
  <2> QED  BY <1>0, <1>10, <2>1, <2>2 DEF Stores, Serves, Becomes
<1>11. ASSUME NEW c \in Callers, NEW ok \in BOOLEAN, NEW rows \in Seq(Nat), Fetches(c, ok, rows)
       PROVE  Goal
  <2>1. Rest'
    BY <1>11, <1>a DEF Rest, Fetches, Serves
  <2> QED  BY <1>0, <1>11, <2>1 DEF Fetches, Serves, Becomes, Grows
<1>12. ASSUME Crash PROVE Goal
  <2>1. faults' \in 0..MaxFaults
    BY <1>12, <1>a, BoundsAssumption DEF Crash, Fault, Rest
  <2>2. broken' \in [Texts -> Nat]
    <3> DEFINE lost(m) == {p \in Pages : post[p] # None /\ requests[post[p]].arg = m}
    <3>1. broken' = [m \in Texts |-> broken[m] + Cardinality(lost(m))]
      BY <1>12 DEF Crash
    <3>2. ASSUME NEW m \in Texts PROVE Cardinality(lost(m)) \in Nat
      <4>1. lost(m) \in SUBSET Pages
        OBVIOUS
      <4> HIDE DEF lost
      <4> QED  BY <4>1, PagesAssumption, FS_Subset, FS_CardinalityType
    <3> HIDE DEF lost
    <3> QED  BY <1>a, <3>1, <3>2 DEF Rest
  <2>3. /\ requests' = [c \in Callers |-> None]
        /\ post' = [p \in Pages |-> None] /\ poll' = [p \in Pages |-> None]
        /\ UNCHANGED <<log, box, lastMessageId, shown, adhoc, typed, posts>>
    BY <1>12 DEF Crash
  <2>4. Rest'
    BY <1>a, <2>1, <2>2, <2>3 DEF Rest
  <2> QED  BY <2>3, <2>4 DEF Grows
<1>13. Goal
  <2> HIDE DEF Goal
  <2> QED  BY <1>1, <1>2, <1>3, <1>4, <1>5, <1>6, <1>7, <1>8, <1>9, <1>10, <1>11, <1>12 DEF Step
<1>14. /\ log' \in Seq(Rows) /\ OldLen <= Len(log') /\ \A i \in 1..OldLen : log'[i] = 0
  BY <1>0, <1>13, GrowsType
<1> QED  BY <1>13, <1>14 DEF Typed, Rest

\* What is typed is only added to: texts stored, in boxes and in posts stay known.
LEMMA KnownKept ==
  ASSUME Core, Step
  PROVE  Known'
<1> DEFINE Box == \A p \in Pages : box'[p] # None => box'[p] \in 1..typed'
           Args == \A c \in Callers : c[2] = "post" /\ requests'[c] # None
                                        => requests'[c].arg \in 1..typed'
           Table == \A i \in 1..Len(log') : TextOf(log'[i]) <= typed'
           Goal == Box /\ Args /\ Table
<1>0. /\ box \in [Pages -> Texts \cup {None}] /\ typed \in Nat /\ log \in Seq(Rows)
      /\ \A p \in Pages : box[p] # None => box[p] \in 1..typed
      /\ \A c \in Callers : c[2] = "post" /\ requests[c] # None => requests[c].arg \in 1..typed
      /\ \A i \in 1..Len(log) : TextOf(log[i]) <= typed
  BY DEF Core, Known, Typed
<1>1. ASSUME NEW p \in Pages, Type(p) PROVE Goal
  <2>1. typed' = typed + 1 /\ box' = [box EXCEPT ![p] = typed'] /\ UNCHANGED <<log, requests>>
    BY <1>1 DEF Type
  <2>2. Box
    BY <1>0, <2>1
  <2>3. Args /\ Table
    <3>1. 1..typed \subseteq 1..typed' /\ \A i \in 1..Len(log) : TextOf(log[i]) \in Nat
      <4>1. \A i \in 1..Len(log) : log[i] \in Rows
        BY <1>0
      <4> QED  BY <1>0, <2>1, <4>1, RowIs
    <3> QED  BY <1>0, <2>1, <3>1
  <2> QED  BY <2>2, <2>3
\* One request ends, breaks, is answered, or is asked for with an argument that is known.
<1> DEFINE One == \E c \in Callers : \E r : /\ Becomes(c, r)
                                            /\ c[2] = "post" /\ r # None => r.arg \in 1..typed
<1>2. ASSUME One, UNCHANGED typed PROVE Args
  <2>1. PICK c \in Callers : \E r : /\ Becomes(c, r)
                                    /\ c[2] = "post" /\ r # None => r.arg \in 1..typed
    BY <1>2
  <2>2. PICK r : Becomes(c, r) /\ (c[2] = "post" /\ r # None => r.arg \in 1..typed)
    BY <2>1
  <2> QED  BY <1>0, <1>2, <2>2 DEF Becomes
<1>3. ASSUME NEW p \in Pages, Previews(p) PROVE Goal
  <2>1. One
    BY <1>3 DEF Previews, Answered
  <2>2. Args
    BY <1>2, <1>3, <2>1 DEF Previews
  <2>3. Box /\ Table
    BY <1>0, <1>3 DEF Previews
  <2> QED  BY <2>2, <2>3
<1>4. ASSUME NEW p \in Pages, GivesUpPost(p) PROVE Goal
  <2>1. One
    BY <1>4 DEF GivesUpPost, Answered
  <2>2. Args
    BY <1>2, <1>4, <2>1 DEF GivesUpPost
  <2> QED  BY <1>0, <1>4, <2>2 DEF GivesUpPost
<1>5. ASSUME NEW p \in Pages, GivesUpPoll(p) PROVE Goal
  <2>1. One
    BY <1>5 DEF GivesUpPoll, Answered
  <2>2. Args
    BY <1>2, <1>5, <2>1 DEF GivesUpPoll
  <2> QED  BY <1>0, <1>5, <2>2 DEF GivesUpPoll
<1>6. ASSUME NEW c \in Callers, Breaks(c) PROVE Goal
  <2>1. requests[c] # None /\ c[2] = "post" => Broken(c).arg \in 1..typed
    BY <1>0 DEF Broken
  <2>2. One
    BY <1>6, <2>1 DEF Breaks
  <2>3. Args
    BY <1>2, <1>6, <2>2 DEF Breaks
  <2> QED  BY <1>0, <1>6, <2>3 DEF Breaks
<1>7. ASSUME NEW p \in Pages, NEW c \in Callers, Submits(p, c) PROVE Goal
  <2>1. One
    <3>1. [page |-> p, arg |-> box[p], answer |-> None].arg \in 1..typed
      BY <1>0, <1>7 DEF Submits
    <3> QED  BY <1>7, <3>1 DEF Submits
  <2>2. Args
    BY <1>2, <1>7, <2>1 DEF Submits
  <2> QED  BY <1>0, <1>7, <2>2 DEF Submits
<1>8. ASSUME NEW p \in Pages, NEW c \in Callers, Polls(p, c) PROVE Goal
  <2>1. One
    BY <1>8 DEF Polls
  <2>2. Args
    BY <1>2, <1>8, <2>1 DEF Polls
  <2> QED  BY <1>0, <1>8, <2>2 DEF Polls
<1>9. ASSUME NEW p \in Pages, NEW rows \in Seq(Nat), Lists(p, rows) PROVE Goal
  <2>1. One
    BY <1>9 DEF Lists, Answered
  <2>2. Args
    BY <1>2, <1>9, <2>1 DEF Lists
  <2>3. UNCHANGED <<box, log, typed>>
    BY <1>9 DEF Lists
  <2> QED  BY <1>0, <2>3, <2>2
<1>10. ASSUME NEW c \in Callers, NEW ok \in BOOLEAN, NEW rows, Serves(c, ok, rows) PROVE Args /\ Box
  <2>1. requests[c] # None /\ UNCHANGED <<box, typed>> /\ Becomes(c, Told(c, ok, rows))
    BY <1>10 DEF Serves
  <2>2. c[2] = "post" /\ Told(c, ok, rows) # None => Told(c, ok, rows).arg \in 1..typed
    BY <1>0, <2>1 DEF Told
  <2>3. One
    BY <2>1, <2>2
  <2> QED  BY <1>0, <1>2, <2>1, <2>3
<1>11. ASSUME NEW c \in Callers, NEW ok \in BOOLEAN, Stores(c, ok) PROVE Goal
  <2>1. Args /\ Box
    BY <1>10, <1>11 DEF Stores
  <2>2. PICK r \in Rows : r = Row(requests[c].arg) /\ TextOf(r) \in 1..typed
    BY <1>11, StoresGrows
  <2>3. UNCHANGED typed /\ (UNCHANGED log \/ log' = Append(log, r))
    BY <1>11, <2>2 DEF Stores, Serves
  <2>4. Table
    <3>1. CASE UNCHANGED log
      BY <1>0, <2>3, <3>1
    <3>2. CASE log' = Append(log, r)
      <4>1. /\ Len(log) \in Nat /\ Len(log') = Len(log) + 1 /\ log'[Len(log) + 1] = r
            /\ \A i \in 1..Len(log) : log'[i] = log[i]
        BY <1>0, <3>2
      <4>2. \A i \in 1..Len(log') : i \in 1..Len(log) \/ i = Len(log) + 1
        BY <4>1
      <4>3. TextOf(r) <= typed' /\ typed' = typed
        BY <1>0, <2>2, <2>3
      <4> QED  BY <1>0, <4>1, <4>2, <4>3
    <3> QED  BY <2>3, <3>1, <3>2
  <2> QED  BY <2>1, <2>4
<1>12. ASSUME NEW c \in Callers, NEW ok \in BOOLEAN, NEW rows \in Seq(Nat), Fetches(c, ok, rows)
       PROVE  Goal
  <2>1. Args /\ Box
    BY <1>10, <1>12 DEF Fetches
  <2> QED  BY <1>0, <1>12, <2>1 DEF Fetches, Serves
<1>13. ASSUME Crash PROVE Goal
  <2>1. requests' = [c \in Callers |-> None] /\ UNCHANGED <<log, box, typed>>
    BY <1>13 DEF Crash
  <2> QED  BY <1>0, <2>1
<1>14. Goal
  <2> HIDE DEF Goal
  <2>1. ASSUME NEW p \in Pages, LosesPost(p) \/ LosesPoll(p) PROVE Goal
    BY <1>6, <2>1 DEF LosesPost, LosesPoll, Breaks
  <2> QED  BY <1>1, <1>3, <1>4, <1>5, <1>7, <1>8, <1>9, <1>11, <1>12, <1>13, <2>1 DEF Step
<1> QED  BY <1>14 DEF Known

\* A post changes, and what its page waits for only by it.
LEMMA PairedPost ==
  ASSUME Core, NEW c \in Callers, c[2] = "post", NEW r, Becomes(c, r), UNCHANGED poll,
         NEW x \in {None, c, post[c[1]]}, post' = [post EXCEPT ![c[1]] = x],
         post[c[1]] \in {None, c, x},
         x = c => r # None,
         r # None => /\ r.page \in {c[1], None} /\ (r.page = None => r.answer = None)
                     /\ r.page # None <=> x = c
  PROVE  Paired'
<1>0. c[1] \in Pages /\ c # None
  BY CallerIs
<1>1. /\ requests'[c] = r
      /\ \A d \in Callers : d # c => requests'[d] = requests[d]
      /\ \A q \in Pages : post'[q] = IF q = c[1] THEN x ELSE post[q]
      /\ \A q \in Pages : poll'[q] = poll[q]
  BY <1>0 DEF Becomes, Core, Typed
<1>2. ASSUME NEW q \in Pages
      PROVE  /\ post'[q] # None => post'[q][1] = q /\ post'[q][2] = "post" /\ requests'[post'[q]] # None
             /\ poll'[q] # None => poll'[q][1] = q /\ poll'[q][2] = "poll" /\ requests'[poll'[q]] # None
  <2>1. post[q] # None => /\ post[q] \in Callers /\ post[q][1] = q /\ post[q][2] = "post"
                          /\ requests[post[q]] # None
    BY WaitedFor
  <2>2. poll[q] # None => /\ poll[q] \in Callers /\ poll[q][1] = q /\ poll[q][2] = "poll"
                          /\ requests[poll[q]] # None
    BY WaitedFor
  <2>3. poll'[q] # None => poll'[q][1] = q /\ poll'[q][2] = "poll" /\ requests'[poll'[q]] # None
    BY <1>1, <2>2
  <2>4. CASE q = c[1]
    BY <1>0, <1>1, <2>1, <2>3, <2>4
  <2>5. CASE q # c[1]
    BY <1>1, <2>1, <2>3, <2>5
  <2> QED  BY <2>4, <2>5
<1>3. ASSUME NEW d \in Callers, requests'[d] # None PROVE Waits(d)'
  <2>0. d[1] \in Pages /\ d # None
    BY CallerIs
  <2>1. poll[d[1]] # None => poll[d[1]][2] = "poll"
    BY <2>0, WaitedFor
  <2>2. CASE d = c
    <3>1. c \in {post'[c[1]], poll'[c[1]]} <=> x = c
      BY <1>0, <1>1, <2>1, <2>2
    <3>2. r # None /\ requests'[c] = r
      BY <1>1, <1>3, <2>2
    <3> QED  BY <2>2, <3>1, <3>2 DEF Waits
  <2>3. CASE d # c
    <3>1. requests'[d] = requests[d] /\ requests[d] # None
      BY <1>1, <1>3, <2>3
    <3>2. Waits(d)
      BY <3>1 DEF Core, Paired
    <3>3. d \in {post'[d[1]], poll'[d[1]]} <=> d \in {post[d[1]], poll[d[1]]}
      BY <1>0, <1>1, <2>0, <2>3
    <3> QED  BY <3>1, <3>2, <3>3 DEF Waits
  <2> QED  BY <2>2, <2>3
<1> QED  BY <1>2, <1>3 DEF Paired

\* A poll changes, and what its page waits for only by it.
LEMMA PairedPoll ==
  ASSUME Core, NEW c \in Callers, c[2] = "poll", NEW r, Becomes(c, r), UNCHANGED post,
         NEW x \in {None, c, poll[c[1]]}, poll' = [poll EXCEPT ![c[1]] = x],
         poll[c[1]] \in {None, c, x},
         x = c => r # None,
         r # None => /\ r.page \in {c[1], None} /\ (r.page = None => r.answer = None)
                     /\ r.page # None <=> x = c
  PROVE  Paired'
<1>0. c[1] \in Pages /\ c # None
  BY CallerIs
<1>1. /\ requests'[c] = r
      /\ \A d \in Callers : d # c => requests'[d] = requests[d]
      /\ \A q \in Pages : poll'[q] = IF q = c[1] THEN x ELSE poll[q]
      /\ \A q \in Pages : post'[q] = post[q]
  BY <1>0 DEF Becomes, Core, Typed
<1>2. ASSUME NEW q \in Pages
      PROVE  /\ post'[q] # None => post'[q][1] = q /\ post'[q][2] = "post" /\ requests'[post'[q]] # None
             /\ poll'[q] # None => poll'[q][1] = q /\ poll'[q][2] = "poll" /\ requests'[poll'[q]] # None
  <2>1. post[q] # None => /\ post[q] \in Callers /\ post[q][1] = q /\ post[q][2] = "post"
                          /\ requests[post[q]] # None
    BY WaitedFor
  <2>2. poll[q] # None => /\ poll[q] \in Callers /\ poll[q][1] = q /\ poll[q][2] = "poll"
                          /\ requests[poll[q]] # None
    BY WaitedFor
  <2>3. post'[q] # None => post'[q][1] = q /\ post'[q][2] = "post" /\ requests'[post'[q]] # None
    BY <1>1, <2>1
  <2>4. CASE q = c[1]
    BY <1>0, <1>1, <2>2, <2>3, <2>4
  <2>5. CASE q # c[1]
    BY <1>1, <2>2, <2>3, <2>5
  <2> QED  BY <2>4, <2>5
<1>3. ASSUME NEW d \in Callers, requests'[d] # None PROVE Waits(d)'
  <2>0. d[1] \in Pages /\ d # None
    BY CallerIs
  <2>1. post[d[1]] # None => post[d[1]][2] = "post"
    BY <2>0, WaitedFor
  <2>2. CASE d = c
    <3>1. c \in {post'[c[1]], poll'[c[1]]} <=> x = c
      BY <1>0, <1>1, <2>1, <2>2
    <3>2. r # None /\ requests'[c] = r
      BY <1>1, <1>3, <2>2
    <3> QED  BY <2>2, <3>1, <3>2 DEF Waits
  <2>3. CASE d # c
    <3>1. requests'[d] = requests[d] /\ requests[d] # None
      BY <1>1, <1>3, <2>3
    <3>2. Waits(d)
      BY <3>1 DEF Core, Paired
    <3>3. d \in {post'[d[1]], poll'[d[1]]} <=> d \in {post[d[1]], poll[d[1]]}
      BY <1>0, <1>1, <2>0, <2>3
    <3> QED  BY <3>1, <3>2, <3>3 DEF Waits
  <2> QED  BY <2>2, <2>3
<1> QED  BY <1>2, <1>3 DEF Paired

\* What a script answers is for the page that waits, if one does.
LEMMA ToldIs ==
  ASSUME Core, NEW c \in Callers, requests[c] # None, NEW ok \in BOOLEAN, NEW rows \in Seq(Nat),
         NEW x, x = IF c[2] = "post" THEN post[c[1]] ELSE poll[c[1]]
  PROVE  /\ x = c => Told(c, ok, rows) # None
         /\ Told(c, ok, rows) # None => /\ Told(c, ok, rows).page = c[1] /\ x = c
<1>1. Waits(c) /\ c[1] \in Pages /\ c[2] \in {"post", "poll"}
  BY CallerIs DEF Core, Paired
<1>2. requests[c].page # None <=> x = c
  <2>1. c # None /\ (post[c[1]] = c => c[2] = "post") /\ (poll[c[1]] = c => c[2] = "poll")
    BY <1>1, CallerIs, WaitedFor
  <2> QED  BY <1>1, <2>1 DEF Waits
<1>3. requests[c].page # None => requests[c].page = c[1]
  BY <1>1 DEF Waits
<1>4. /\ requests[c].page = None => Told(c, ok, rows) = None
      /\ requests[c].page # None =>
           /\ Told(c, ok, rows) \in Requests
           /\ Told(c, ok, rows).page = requests[c].page
           /\ Told(c, ok, rows).answer # None
  <2>1. [ok |-> ok, rows |-> rows] \in Answers
    BY DEF Answers
  <2>2. requests[c] \in Requests
    BY HasIs DEF Core
  <2>3. requests[c].page # None =>
          [page |-> requests[c].page, arg |-> requests[c].arg,
           answer |-> [ok |-> ok, rows |-> rows]] \in Requests
    BY <2>1, <2>2 DEF Requests
  <2> QED  BY <2>1, <2>3, RequestIs DEF Told
<1> QED  BY <1>2, <1>3, <1>4, RequestIs

\* A page and its requests still know each other.
LEMMA PairedKept ==
  ASSUME Core, Step
  PROVE  Paired'
<1>0. /\ post \in [Pages -> Callers \cup {None}] /\ poll \in [Pages -> Callers \cup {None}]
      /\ \A r \in Requests : r # None
  BY RequestIs DEF Core, Typed
<1>a. ASSUME NEW p \in Pages, Answered(post[p], TRUE) \/ Answered(post[p], FALSE),
             post' = [post EXCEPT ![p] = None], UNCHANGED poll
      PROVE  Paired'
  <2>1. PICK c \in Callers : c = post[p] /\ Becomes(c, None)
    BY <1>a DEF Answered
  <2>2. c[1] = p /\ c[2] = "post" /\ c # None
    BY <2>1, CallerIs, WaitedFor
  <2> QED  BY <1>a, <2>1, <2>2, PairedPost
<1>b. ASSUME NEW p \in Pages, NEW ok \in BOOLEAN, Answered(poll[p], ok),
             poll' = [poll EXCEPT ![p] = None], UNCHANGED post
      PROVE  Paired'
  <2>1. PICK c \in Callers : c = poll[p] /\ Becomes(c, None)
    BY <1>b DEF Answered
  <2>2. c[1] = p /\ c[2] = "poll" /\ c # None
    BY <2>1, CallerIs, WaitedFor
  <2> QED  BY <1>b, <2>1, <2>2, PairedPoll
<1>1. ASSUME NEW p \in Pages, Type(p) PROVE Paired'
  BY <1>1 DEF Type, Core, Paired, Waits
<1>2. ASSUME NEW p \in Pages, Previews(p) \/ GivesUpPost(p) PROVE Paired'
  BY <1>2, <1>a DEF Previews, GivesUpPost
<1>3. ASSUME NEW p \in Pages, GivesUpPoll(p) PROVE Paired'
  BY <1>3, <1>b DEF GivesUpPoll
<1>4. ASSUME NEW p \in Pages, NEW rows \in Seq(Nat), Lists(p, rows) PROVE Paired'
  BY <1>4, <1>b DEF Lists
<1>5. ASSUME NEW p \in Pages, LosesPost(p) PROVE Paired'
  <2>1. PICK c \in Callers : c = post[p] /\ Breaks(c) /\ c[1] = p /\ c[2] = "post" /\ c # None
    BY <1>5, CallerIs, WaitedFor DEF LosesPost, Breaks
  <2>2. PICK r : Becomes(c, r) /\ (r # None => r.page = None /\ r.answer = None)
    BY <2>1 DEF Breaks, Broken
  <2> QED  BY <1>5, <2>1, <2>2, PairedPost DEF LosesPost
<1>6. ASSUME NEW p \in Pages, LosesPoll(p) PROVE Paired'
  <2>1. PICK c \in Callers : c = poll[p] /\ Breaks(c) /\ c[1] = p /\ c[2] = "poll" /\ c # None
    BY <1>6, CallerIs, WaitedFor DEF LosesPoll, Breaks
  <2>2. PICK r : Becomes(c, r) /\ (r # None => r.page = None /\ r.answer = None)
    BY <2>1 DEF Breaks, Broken
  <2> QED  BY <1>6, <2>1, <2>2, PairedPoll DEF LosesPoll
<1>7. ASSUME NEW p \in Pages, NEW c \in Callers, Submits(p, c) PROVE Paired'
  <2>1. PICK r : r = [page |-> p, arg |-> box[p], answer |-> None]
    OBVIOUS
  <2>2. Becomes(c, r) /\ c[1] = p /\ c[2] = "post" /\ post[p] = None /\ UNCHANGED poll
        /\ post' = [post EXCEPT ![p] = c]
    BY <1>7, <2>1 DEF Submits
  <2>3. box[p] \in Nat
    BY <1>7, RequestIs DEF Submits, Core, Typed
  <2>4. r \in Requests /\ r.page = p /\ p # None
    BY <2>1, <2>3, RequestIs DEF Requests
  <2> QED  BY <1>0, <2>2, <2>4, PairedPost
<1>8. ASSUME NEW p \in Pages, NEW c \in Callers, Polls(p, c) PROVE Paired'
  <2>1. PICK r : r = [page |-> p, arg |-> Len(shown[p]) + 1, answer |-> None]
    OBVIOUS
  <2>2. Becomes(c, r) /\ c[1] = p /\ c[2] = "poll" /\ poll[p] = None /\ UNCHANGED post
        /\ poll' = [poll EXCEPT ![p] = c]
    BY <1>8, <2>1 DEF Polls
  <2>3. Len(shown[p]) + 1 \in Nat
    BY DEF Core, Typed
  <2>4. r \in Requests /\ r.page = p /\ p # None
    BY <2>1, <2>3, RequestIs DEF Requests
  <2> QED  BY <1>0, <2>2, <2>4, PairedPoll
<1>9. ASSUME NEW c \in Callers, NEW ok \in BOOLEAN, NEW rows \in Seq(Nat), Serves(c, ok, rows)
      PROVE  Paired'
  <2>1. PICK r : r = Told(c, ok, rows)
    OBVIOUS
  <2>2. Becomes(c, r) /\ requests[c] # None /\ UNCHANGED <<post, poll>>
    BY <1>9, <2>1 DEF Serves
  <2>3. c[1] \in Pages /\ c # None
    BY CallerIs
  <2>4. CASE c[2] = "post"
    <3>1. (post[c[1]] = c => r # None) /\ (r # None => r.page = c[1] /\ post[c[1]] = c /\ c[1] # None)
      BY <2>1, <2>2, <2>3, <2>4, ToldIs, RequestIs
    <3>2. post' = [post EXCEPT ![c[1]] = post[c[1]]]
      BY <1>0, <2>2, <2>3
    <3> QED  BY <2>2, <2>3, <2>4, <3>1, <3>2, PairedPost
  <2>5. CASE c[2] = "poll"
    <3>1. (poll[c[1]] = c => r # None) /\ (r # None => r.page = c[1] /\ poll[c[1]] = c /\ c[1] # None)
      BY <2>1, <2>2, <2>3, <2>5, ToldIs, RequestIs
    <3>2. poll' = [poll EXCEPT ![c[1]] = poll[c[1]]]
      BY <1>0, <2>2, <2>3
    <3> QED  BY <2>2, <2>3, <2>5, <3>1, <3>2, PairedPoll
  <2> QED  BY <2>4, <2>5, CallerIs
<1>10. ASSUME NEW c \in Callers, NEW ok \in BOOLEAN, Stores(c, ok) PROVE Paired'
  <2>1. <<>> \in Seq(Nat)
    OBVIOUS
  <2> QED  BY <1>9, <1>10, <2>1 DEF Stores
<1>11. ASSUME NEW c \in Callers, NEW ok \in BOOLEAN, NEW rows \in Seq(Nat), Fetches(c, ok, rows)
       PROVE  Paired'
  BY <1>9, <1>11 DEF Fetches
<1>12. ASSUME Crash PROVE Paired'
  <2>1. /\ requests' = [c \in Callers |-> None]
        /\ post' = [p \in Pages |-> None] /\ poll' = [p \in Pages |-> None]
    BY <1>12 DEF Crash
  <2> QED  BY <2>1 DEF Paired
<1> QED  BY <1>1, <1>2, <1>3, <1>4, <1>5, <1>6, <1>7, <1>8, <1>10, <1>11, <1>12 DEF Step

\* What a page lists, and what it lists with the rows it has been answered.
LEMMA ListedMore ==
  ASSUME NEW s \in Seq(Nat), NEW rows \in Seq(Nat), Following(s, 0), Following(rows, Len(s))
  PROVE  s \o rows \in Seq(Nat) /\ Len(s \o rows) = Len(s) + Len(rows) /\ Following(s \o rows, 0)
<1>1. /\ s \o rows \in Seq(Nat) /\ Len(s \o rows) = Len(s) + Len(rows)
      /\ Len(s) \in Nat /\ Len(rows) \in Nat
  BY ConcatProperties
<1>2. ASSUME NEW k \in 1..Len(s) + Len(rows) PROVE (s \o rows)[k] = k
  <2>1. CASE k <= Len(s)
    <3>1. (s \o rows)[k] = s[k] /\ k \in 1..Len(s)
      BY <1>1, <2>1, ConcatProperties
    <3> QED  BY <3>1 DEF Following
  <2>2. CASE k > Len(s)
    <3>1. k - Len(s) \in 1..Len(rows) /\ Len(s) + (k - Len(s)) = k
      BY <1>1, <2>2
    <3>2. (s \o rows)[k] = rows[k - Len(s)]
      BY <1>1, <2>2, ConcatProperties
    <3> QED  BY <3>1, <3>2 DEF Following
  <2> QED  BY <1>1, <2>1, <2>2
<1>3. ASSUME NEW t, t = s \o rows PROVE Following(t, 0)
  BY <1>1, <1>2, <1>3 DEF Following
<1> QED  BY <1>1, <1>3

\* Every page still lists the first messages, and is answered what follows.
LEMMA PolledKept ==
  ASSUME Core, Step
  PROVE  Polled'
<1>0. Typed' /\ Typed /\ poll \in [Pages -> Callers \cup {None}] /\ Len(log) \in Nat
  BY TypedKept, SMTT(40) DEF Core, Typed
<1> DEFINE Quiet == UNCHANGED <<lastMessageId, shown>> /\ Len(log) <= Len(log')
           Same == \A p \in Pages : poll'[p] # None =>
                     poll'[p] = poll[p] /\ requests'[poll[p]] = requests[poll[p]]
\* What happens to a post does not concern the polls.
<1>a. ASSUME NEW c \in Callers, c[2] = "post", NEW r, Becomes(c, r), UNCHANGED poll PROVE Same
  <2> SUFFICES ASSUME NEW p \in Pages, poll[p] # None PROVE requests'[poll[p]] = requests[poll[p]]
    BY <1>a
  <2>1. poll[p] \in Callers /\ poll[p][2] = "poll"
    BY WaitedFor
  <2> QED  BY <1>a, <2>1 DEF Becomes
\* What ends is one page's poll.
<1>b. ASSUME NEW p \in Pages, NEW r, poll[p] # None, Becomes(poll[p], r),
             poll' = [poll EXCEPT ![p] = None]
      PROVE  Same
  <2> SUFFICES ASSUME NEW q \in Pages, poll'[q] # None
               PROVE  poll'[q] = poll[q] /\ requests'[poll[q]] = requests[poll[q]]
    OBVIOUS
  <2>1. q # p /\ poll'[q] = poll[q]
    BY <1>0, <1>b
  <2>2. poll[q] \in Callers /\ poll[q] # poll[p]
    BY <1>b, <2>1, WaitedFor
  <2> QED  BY <1>b, <2>1, <2>2 DEF Becomes
\* Then the pages list and wait for what they did.
<1>c. ASSUME Same, Quiet PROVE Polled'
  <2> SUFFICES ASSUME NEW p \in Pages PROVE PolledAt(p)'
    BY DEF Polled
  <2> QED  BY <1>0, <1>c, PolledSame
<1>1. ASSUME NEW p \in Pages, Type(p) PROVE Polled'
  <2>1. Same /\ UNCHANGED <<lastMessageId, shown, log>>
    BY <1>1 DEF Type
  <2> QED  BY <1>0, <2>1, <1>c
<1>2. ASSUME NEW p \in Pages, Previews(p) \/ GivesUpPost(p) PROVE Polled'
  <2>1. PICK c \in Callers : c[2] = "post" /\ Becomes(c, None)
    BY <1>2, CallerIs, WaitedFor DEF Previews, GivesUpPost, Answered
  <2>2. UNCHANGED <<lastMessageId, shown, log, poll>>
    BY <1>2 DEF Previews, GivesUpPost
  <2>3. Same
    BY <1>a, <2>1, <2>2
  <2> QED  BY <1>0, <2>2, <2>3, <1>c
<1>3. ASSUME NEW p \in Pages, GivesUpPoll(p) PROVE Polled'
  <2>1. poll[p] # None /\ Becomes(poll[p], None)
    BY <1>3, CallerIs DEF GivesUpPoll, Answered
  <2>2. UNCHANGED <<lastMessageId, shown, log>> /\ poll' = [poll EXCEPT ![p] = None]
    BY <1>3 DEF GivesUpPoll
  <2>3. Same
    BY <1>b, <2>1, <2>2
  <2> QED  BY <1>0, <2>2, <2>3, <1>c
<1>4. ASSUME NEW p \in Pages, LosesPost(p) PROVE Polled'
  <2>1. PICK c \in Callers : c[2] = "post" /\ \E r : Becomes(c, r)
    BY <1>4, CallerIs, WaitedFor DEF LosesPost, Breaks
  <2>2. UNCHANGED <<lastMessageId, shown, log, poll>>
    BY <1>4 DEF LosesPost, Breaks
  <2>3. Same
    BY <1>a, <2>1, <2>2
  <2> QED  BY <1>0, <2>2, <2>3, <1>c
<1>5. ASSUME NEW p \in Pages, LosesPoll(p) PROVE Polled'
  <2>1. poll[p] # None /\ \E r : Becomes(poll[p], r)
    BY <1>5, CallerIs DEF LosesPoll, Breaks
  <2>2. UNCHANGED <<lastMessageId, shown, log>> /\ poll' = [poll EXCEPT ![p] = None]
    BY <1>5 DEF LosesPoll, Breaks
  <2>3. Same
    BY <1>b, <2>1, <2>2
  <2> QED  BY <1>0, <2>2, <2>3, <1>c
<1>6. ASSUME NEW p \in Pages, NEW c \in Callers, Submits(p, c) PROVE Polled'
  <2>1. UNCHANGED <<lastMessageId, shown, log, poll>> /\ c[2] = "post" /\ \E r : Becomes(c, r)
    BY <1>6 DEF Submits
  <2>2. Same
    BY <1>a, <2>1
  <2> QED  BY <1>0, <2>1, <2>2, <1>c
<1>7. ASSUME NEW c \in Callers, NEW ok \in BOOLEAN, Stores(c, ok) PROVE Polled'
  <2>1. UNCHANGED <<lastMessageId, shown, poll>> /\ c[2] = "post" /\ \E r : Becomes(c, r)
    BY <1>7 DEF Stores, Serves
  <2>2. Len(log) <= Len(log')
    BY <1>0, <1>7, StoresGrows, GrowsType
  <2>3. Same
    BY <1>a, <2>1
  <2> QED  BY <1>0, <2>1, <2>2, <2>3, <1>c
<1>8. ASSUME Crash PROVE Polled'
  <2>1. UNCHANGED <<lastMessageId, shown, log>> /\ poll' = [p \in Pages |-> None]
    BY <1>8 DEF Crash
  <2>2. Same
    BY <2>1
  <2> QED  BY <1>0, <2>1, <2>2, <1>c
<1>9. ASSUME NEW p \in Pages, NEW c \in Callers, Polls(p, c) PROVE Polled'
  <2>1. /\ requests[c] = None /\ UNCHANGED <<log, lastMessageId, shown>>
        /\ poll' = [poll EXCEPT ![p] = c]
        /\ Becomes(c, [page |-> p, arg |-> Len(shown[p]) + 1, answer |-> None])
    BY <1>9 DEF Polls
  <2>2. poll'[p] = c /\ \A q \in Pages : q # p => poll'[q] = poll[q]
    BY <1>0, <2>1
  <2>3. ASSUME NEW q \in Pages, q # p PROVE PolledAt(q)'
    <3>1. poll'[q] # None => poll'[q] = poll[q] /\ requests'[poll[q]] = requests[poll[q]]
      BY <2>1, <2>2, <2>3, WaitedFor DEF Becomes
    <3> QED  BY <1>0, <2>1, <3>1, PolledSame
  <2>4. PolledAt(p)'
    <3>1. requests'[c].arg = Len(shown[p]) + 1 /\ requests'[c].answer = None
      BY <2>1 DEF Becomes
    <3>2. ~Has(poll[p], TRUE)'
      BY <2>2, <3>1 DEF Has
    <3>3. lastMessageId[p] = <<"number", Len(shown[p])>> /\ Listed(shown[p], 0)
      BY Zenon DEF Core, Polled, PolledAt
    <3>4. Listed(shown[p], 0)' <=> Listed(shown[p], 0)
      BY <2>1 DEF Listed, Following
    <3> QED  BY <2>1, <2>2, <3>1, <3>2, <3>3, <3>4 DEF PolledAt
  <2> QED  BY <2>3, <2>4 DEF Polled
<1>10. ASSUME NEW c \in Callers, NEW ok \in BOOLEAN, NEW rows \in Seq(Nat), Fetches(c, ok, rows)
       PROVE  Polled'
  <2>1. /\ UNCHANGED <<log, lastMessageId, shown, poll>> /\ requests[c] # None
        /\ Becomes(c, Told(c, ok, rows)) /\ (ok => rows = Log!RowsFrom(requests[c].arg))
    BY <1>10 DEF Fetches, Serves
  <2>2. ASSUME NEW p \in Pages, poll[p] # c PROVE PolledAt(p)'
    <3>1. poll[p] # None => requests'[poll[p]] = requests[poll[p]]
      BY <2>1, <2>2, WaitedFor DEF Becomes
    <3> QED  BY <1>0, <2>1, <3>1, PolledSame
  <2>3. ASSUME NEW p \in Pages, poll[p] = c PROVE PolledAt(p)'
    <3>0. c # None /\ shown[p] \in Seq(Nat) /\ Len(shown[p]) \in Nat /\ log \in Seq(Rows)
      BY CallerIs DEF Core, Typed
    <3>1. lastMessageId[p] = <<"number", Len(shown[p])>> /\ Listed(shown[p], 0)
          /\ requests[c].arg = Len(shown[p]) + 1
      BY <2>3, <3>0, Zenon DEF Core, Polled, PolledAt
    <3>2. requests[c].page # None
      BY <2>3, <3>0, WaitedFor, RequestIs
    <3>3. requests'[c].arg = requests[c].arg /\ requests'[c].answer = [ok |-> ok, rows |-> rows]
      BY <2>1, <3>2 DEF Becomes, Told
    <3>4. Listed(shown[p], 0)' <=> Listed(shown[p], 0)
      BY <2>1 DEF Listed, Following
    <3>5. ASSUME Has(poll[p], TRUE)' PROVE Listed(requests[poll[p]].answer.rows, Len(shown[p]))'
      <4>1. ok /\ requests'[poll'[p]].answer.rows = rows
        BY <2>1, <2>3, <3>3, <3>5 DEF Has
      <4>2. PICK n \in Nat : n = Len(shown[p]) /\ n <= Len(log)
        BY <3>0, <3>1 DEF Listed
      <4>3. Listed(Log!RowsFrom(n + 1), n)
        BY <3>0, <4>2, RowsAre
      <4>4. Listed(rows, n)
        BY <2>1, <3>1, <4>1, <4>2, <4>3
      <4>5. Listed(requests[poll[p]].answer.rows, Len(shown[p]))' <=> Listed(rows, n)
        BY <2>1, <4>1, <4>2 DEF Listed, Following
      <4> QED  BY <4>4, <4>5
    <3> QED  BY <2>1, <2>3, <3>1, <3>3, <3>4, <3>5 DEF PolledAt
  <2> QED  BY <2>2, <2>3 DEF Polled
<1>11. ASSUME NEW p \in Pages, NEW rows \in Seq(Nat), Lists(p, rows) PROVE Polled'
  <2>1. /\ UNCHANGED log /\ Listed(rows, Len(shown[p])) /\ Becomes(poll[p], None) /\ poll[p] # None
        /\ shown' = [shown EXCEPT ![p] = @ \o rows]
        /\ lastMessageId' = [lastMessageId EXCEPT ![p] = <<"number", Len(shown[p]) + Len(rows)>>]
        /\ poll' = [poll EXCEPT ![p] = None]
    BY <1>11, CallerIs DEF Lists, Answered
  <2>2. Same
    BY <1>b, <2>1
  <2>3. /\ shown \in [Pages -> Seq(Nat)] /\ lastMessageId \in [Pages -> Ids]
        /\ shown[p] \in Seq(Nat) /\ Len(shown[p]) \in Nat /\ Len(rows) \in Nat
    BY DEF Core, Typed
  <2>4. ASSUME NEW q \in Pages, q # p PROVE PolledAt(q)'
    <3>1. shown'[q] = shown[q] /\ lastMessageId'[q] = lastMessageId[q]
      BY <2>1, <2>3, <2>4
    <3> HIDE DEF Same
    <3>2. poll'[q] # None => poll'[q] = poll[q] /\ requests'[poll[q]] = requests[poll[q]]
      BY <2>2 DEF Same
    <3> QED  BY SMTT(40), <1>0, <2>1, <3>1, <3>2, PolledSame
  <2>5. PolledAt(p)'
    <3>1. PICK t : t = shown[p] \o rows
      OBVIOUS
    <3>2. /\ shown'[p] = t /\ poll'[p] = None
          /\ lastMessageId'[p] = <<"number", Len(shown[p]) + Len(rows)>>
      BY <1>0, <2>1, <2>3, <3>1
    <3>3. Following(shown[p], 0) /\ Following(rows, Len(shown[p]))
          /\ Len(shown[p]) + Len(rows) <= Len(log)
      BY <2>1 DEF Core, Polled, PolledAt, Listed
    <3>4. t \in Seq(Nat) /\ Len(t) = Len(shown[p]) + Len(rows) /\ Following(t, 0)
      BY <2>3, <3>1, <3>3, ListedMore
    <3>5. Listed(shown[p], 0)' <=> Following(t, 0) /\ 0 + Len(t) <= Len(log)
      BY <2>1, <3>2 DEF Listed, Following
    <3>6. ~Has(poll[p], TRUE)'
      BY <3>2 DEF Has
    <3>7. 0 + Len(t) <= Len(log)
      BY <2>3, <3>3, <3>4
    <3> QED  BY <3>2, <3>3, <3>4, <3>5, <3>6, <3>7 DEF PolledAt
  <2> QED  BY <2>4, <2>5 DEF Polled
<1> QED  BY <1>1, <1>2, <1>3, <1>4, <1>5, <1>6, <1>7, <1>8, <1>9, <1>10, <1>11 DEF Step

\* Every step keeps the core.
LEMMA CoreKept ==
  ASSUME Core, Step
  PROVE  Core'
BY TypedKept, PairedKept, KnownKept, PolledKept DEF Core

-----------------------------------------------------------------------------
(* The steps that neither type, nor submit, nor store.                     *)

\* Page p waits for a post of m.
Sends(p, m) == post[p] # None /\ requests[post[p]].arg = m

\* The texts, the posts and what came of them, at such a step: a page only empties
\* its box and stops to wait; it gives a post up, with its text still in the box,
\* when it failed or broke; its previews are of what was stored.
Calm ==
  /\ UNCHANGED log
  /\ \A p \in Pages : box'[p] # None => box'[p] = box[p]
  /\ \A p \in Pages : post'[p] # None => post'[p] = post[p] /\ requests'[post[p]] = requests[post[p]]
  /\ \A c \in Callers : c[2] = "post" /\ requests'[c] # None /\ requests'[c].answer = None =>
       requests[c] # None /\ requests[c].answer = None /\ requests'[c].arg = requests[c].arg
  /\ \A m \in Texts : broken[m] <= broken'[m]
  /\ \A p \in Pages : box'[p] # None /\ post[p] # None /\ post'[p] = None =>
       Has(post[p], FALSE) \/ broken[requests[post[p]].arg] < broken'[requests[post[p]].arg]
  /\ \A p \in Pages : \/ adhoc'[p] = adhoc[p] \/ adhoc'[p] = <<>>
                      \/ /\ Has(post[p], TRUE)
                         /\ adhoc'[p] = Append(adhoc[p], requests[post[p]].arg)
  /\ \A p \in Pages : box[p] # None /\ box'[p] = None => Has(post[p], TRUE)

\* What happens to a page's poll is one of them.
LEMMA PollCalm ==
  ASSUME Core, NEW c \in Callers, c[2] = "poll", NEW r, Becomes(c, r),
         UNCHANGED <<log, box, post, broken>>,
         \A p \in Pages : adhoc'[p] = adhoc[p] \/ adhoc'[p] = <<>>
  PROVE  Calm
<1>1. \A d \in Callers : d[2] = "post" => requests'[d] = requests[d]
  BY DEF Becomes
<1>2. \A p \in Pages : post[p] # None => requests'[post[p]] = requests[post[p]]
  BY <1>1, WaitedFor
<1>3. \A m \in Texts : broken[m] <= broken'[m]
  BY DEF Core, Typed
<1> QED  BY <1>1, <1>2, <1>3 DEF Calm

\* So is the end of a page's post.
LEMMA PostCalm ==
  ASSUME Core, NEW p \in Pages, post[p] # None, NEW r, Becomes(post[p], r),
         r # None => r.answer = None /\ requests[post[p]].answer = None
                     /\ r.arg = requests[post[p]].arg,
         UNCHANGED log, post' = [post EXCEPT ![p] = None],
         \A q \in Pages : q # p => box'[q] = box[q] /\ adhoc'[q] = adhoc[q],
         \A m \in Texts : broken[m] <= broken'[m],
         \/ /\ Has(post[p], TRUE) /\ box'[p] = None
            /\ adhoc'[p] = Append(adhoc[p], requests[post[p]].arg)
         \/ /\ box'[p] = box[p] /\ adhoc'[p] = adhoc[p]
            /\ Has(post[p], FALSE) \/ broken[requests[post[p]].arg] < broken'[requests[post[p]].arg]
  PROVE  Calm
<1>0. post \in [Pages -> Callers \cup {None}] /\ post[p] \in Callers /\ requests[post[p]] # None
  BY WaitedFor DEF Core, Typed
<1>1. post'[p] = None /\ \A q \in Pages : q # p => post'[q] = post[q]
  BY <1>0
<1>2. ASSUME NEW q \in Pages, post'[q] # None
      PROVE  post'[q] = post[q] /\ requests'[post[q]] = requests[post[q]]
  <2>1. q # p /\ post'[q] = post[q] /\ post[q] \in Callers /\ post[q] # post[p]
    BY <1>0, <1>1, <1>2, WaitedFor
  <2> QED  BY <2>1 DEF Becomes
<1>3. ASSUME NEW c \in Callers, requests'[c] # None, requests'[c].answer = None
      PROVE  requests[c] # None /\ requests[c].answer = None /\ requests'[c].arg = requests[c].arg
  <2>1. CASE c = post[p]
    BY <1>0, <1>3, <2>1 DEF Becomes
  <2>2. CASE c # post[p]
    BY <1>3, <2>2 DEF Becomes
  <2> QED  BY <2>1, <2>2
<1>4. \A q \in Pages : box'[q] # None => box'[q] = box[q]
  OBVIOUS
<1>5. \A q \in Pages : box'[q] # None /\ post[q] # None /\ post'[q] = None =>
        Has(post[q], FALSE) \/ broken[requests[post[q]].arg] < broken'[requests[post[q]].arg]
  BY <1>1
<1>6. \A q \in Pages : \/ adhoc'[q] = adhoc[q] \/ adhoc'[q] = <<>>
                       \/ /\ Has(post[q], TRUE)
                          /\ adhoc'[q] = Append(adhoc[q], requests[post[q]].arg)
  OBVIOUS
<1>7. \A q \in Pages : box[q] # None /\ box'[q] = None => Has(post[q], TRUE)
  OBVIOUS
<1> QED  BY <1>2, <1>3, <1>4, <1>5, <1>6, <1>7, Zenon DEF Calm

\* Every other step is one that types, submits or stores.
LEMMA CalmIs ==
  ASSUME Core, Step
  PROVE  \/ Calm
         \/ \E p \in Pages : Type(p) \/ \E c \in Callers : Submits(p, c)
         \/ \E c \in Callers, ok \in BOOLEAN : Stores(c, ok)
<1>0. /\ box \in [Pages -> Texts \cup {None}] /\ adhoc \in [Pages -> Seq(Texts)]
      /\ broken \in [Texts -> Nat]
  BY DEF Core, Typed
<1>1. ASSUME NEW p \in Pages, Previews(p) PROVE Calm
  <2>1. /\ post[p] # None /\ Becomes(post[p], None) /\ Has(post[p], TRUE)
        /\ UNCHANGED <<log, broken>> /\ post' = [post EXCEPT ![p] = None]
        /\ box' = [box EXCEPT ![p] = None]
        /\ adhoc' = [adhoc EXCEPT ![p] = Append(@, requests[post[p]].arg)]
    BY <1>1, CallerIs DEF Previews, Answered, Has
  <2>2. \A m \in Texts : broken[m] <= broken'[m]
    BY <1>0, <2>1
  <2>3. /\ box'[p] = None /\ adhoc'[p] = Append(adhoc[p], requests[post[p]].arg)
        /\ \A q \in Pages : q # p => box'[q] = box[q] /\ adhoc'[q] = adhoc[q]
    BY <1>0, <2>1
  <2> QED  BY <2>1, <2>2, <2>3, PostCalm
<1>2. ASSUME NEW p \in Pages, GivesUpPost(p) PROVE Calm
  <2>1. /\ post[p] # None /\ Becomes(post[p], None) /\ Has(post[p], FALSE)
        /\ UNCHANGED <<log, broken, box, adhoc>> /\ post' = [post EXCEPT ![p] = None]
    BY <1>2, CallerIs DEF GivesUpPost, Answered, Has
  <2>2. \A m \in Texts : broken[m] <= broken'[m]
    BY <1>0, <2>1
  <2> QED  BY <2>1, <2>2, PostCalm
<1>3. ASSUME NEW p \in Pages, LosesPost(p) PROVE Calm
  <2>1. /\ post[p] # None /\ Breaks(post[p]) /\ UNCHANGED <<log, box, adhoc>>
        /\ post' = [post EXCEPT ![p] = None]
        /\ broken' = [broken EXCEPT ![requests[post[p]].arg] = @ + 1]
    BY <1>3, CallerIs DEF LosesPost, Breaks
  <2>2. PICK r : /\ Becomes(post[p], r)
                 /\ r # None => r.answer = None /\ requests[post[p]].answer = None
                                /\ r.arg = requests[post[p]].arg
    BY <2>1 DEF Breaks, Broken
  <2>3. PICK m \in Texts : m = requests[post[p]].arg
    BY <2>1, WaitedFor
  <2>4. broken[m] < broken'[m] /\ \A n \in Texts : broken[n] <= broken'[n]
    BY <1>0, <2>1, <2>3
  <2> QED  BY <2>1, <2>2, <2>3, <2>4, PostCalm
<1>4. ASSUME NEW p \in Pages, GivesUpPoll(p) \/ LosesPoll(p) PROVE Calm
  <2>1. PICK c \in Callers : c[2] = "poll" /\ \E r : Becomes(c, r)
    BY <1>4, CallerIs, WaitedFor DEF GivesUpPoll, LosesPoll, Answered, Breaks
  <2>2. UNCHANGED <<log, box, post, broken, adhoc>>
    BY <1>4 DEF GivesUpPoll, LosesPoll, Breaks
  <2> QED  BY <2>1, <2>2, PollCalm
<1>5. ASSUME NEW p \in Pages, NEW c \in Callers, Polls(p, c) PROVE Calm
  BY <1>5, PollCalm DEF Polls
<1>6. ASSUME NEW c \in Callers, NEW ok \in BOOLEAN, NEW rows \in Seq(Nat), Fetches(c, ok, rows)
      PROVE  Calm
  BY <1>6, PollCalm DEF Fetches, Serves
<1>7. ASSUME NEW p \in Pages, NEW rows \in Seq(Nat), Lists(p, rows) PROVE Calm
  <2>1. PICK c \in Callers : c[2] = "poll" /\ \E r : Becomes(c, r)
    BY <1>7, CallerIs, WaitedFor DEF Lists, Answered
  <2>2. UNCHANGED <<log, box, post, broken>> /\ adhoc' = [adhoc EXCEPT ![p] = <<>>]
    BY <1>7 DEF Lists
  <2>3. \A q \in Pages : adhoc'[q] = adhoc[q] \/ adhoc'[q] = <<>>
    BY <1>0, <2>2
  <2> QED  BY <2>1, <2>2, <2>3, PollCalm
<1>8. ASSUME Crash PROVE Calm
  <2>1. /\ UNCHANGED <<log, box, adhoc>> /\ post' = [p \in Pages |-> None]
        /\ requests' = [c \in Callers |-> None]
    BY <1>8 DEF Crash
  <2> DEFINE lost(m) == {p \in Pages : post[p] # None /\ requests[post[p]].arg = m}
  <2>2. broken' = [m \in Texts |-> broken[m] + Cardinality(lost(m))]
    BY <1>8 DEF Crash
  <2>3. ASSUME NEW m \in Texts
        PROVE  /\ Cardinality(lost(m)) \in Nat
               /\ lost(m) # {} => Cardinality(lost(m)) # 0
    <3>1. lost(m) \in SUBSET Pages
      OBVIOUS
    <3> HIDE DEF lost
    <3>2. IsFiniteSet(lost(m))
      BY <3>1, PagesAssumption, FS_Subset
    <3> QED  BY <3>2, FS_EmptySet, FS_CardinalityType
  <2>4. ASSUME NEW p \in Pages, post[p] # None
        PROVE  requests[post[p]].arg \in Texts /\ lost(requests[post[p]].arg) # {}
    BY <2>4, WaitedFor
  <2> HIDE DEF lost
  <2>5. \A m \in Texts : broken[m] <= broken'[m] /\ (lost(m) # {} => broken[m] < broken'[m])
    BY <1>0, <2>2, <2>3
  <2> QED  BY <2>1, <2>4, <2>5 DEF Calm
<1> QED  BY <1>1, <1>2, <1>3, <1>4, <1>5, <1>6, <1>7, <1>8 DEF Step

-----------------------------------------------------------------------------
(* How often a text is stored, and may yet be.                             *)

\* The places where m is stored, and the posts of it that sqlQuery has not answered.
Stored(m)  == {i \in DOMAIN log : TextOf(log[i]) = m}
Pending(m) == {c \in Callers : /\ c[2] = "post" /\ requests[c] # None
                               /\ requests[c].arg = m /\ requests[c].answer = None}
Spent(m)   == Cardinality(Stored(m)) + Cardinality(Pending(m))

\* A text is in one page's box, and sent by no other page.
Owned ==
  \A p, q \in Pages : box[p] # None /\ (box[q] = box[p] \/ Sends(q, box[p])) => p = q

\* A text is stored at most once for each post that ended without an answer and once
\* more; not even that often while it is in a box whose page does not send it, and
\* when its post has failed.
Counted ==
  /\ \A m \in 1..Len(Kind) : Spent(m) <= 1 + broken[m]
  /\ \A p \in Pages : box[p] # None /\ ~Sends(p, box[p]) => Spent(box[p]) <= broken[box[p]]
  /\ \A p \in Pages : Has(post[p], FALSE) =>
       Spent(requests[post[p]].arg) <= broken[requests[post[p]].arg]

\* What is previewed, and what a post that has succeeded carried, is in the table.
Accepted ==
  \A p \in Pages :
    /\ Has(post[p], TRUE) => Row(requests[post[p]].arg) \in ToSet(log)
    /\ \A k \in 1..Len(adhoc[p]) : Row(adhoc[p][k]) \in ToSet(log)

\* A fault ends at most one post of each page.
Bounded == \A m \in Texts : broken[m] <= faults * Cardinality(Pages)

\* There are finitely many callers.
LEMMA CallersFinite == IsFiniteSet(Callers)
<1> DEFINE A == Pages \X {"post", "poll"}  S == A \X (0..MaxFaults)
           f == [x \in S |-> <<x[1][1], x[1][2], x[2]>>]
<1>1. IsFiniteSet({"post", "poll"})
  <2>1. IsFiniteSet({"post"})
    BY FS_Singleton
  <2>2. {"post", "poll"} = {"post"} \cup {"poll"}
    OBVIOUS
  <2> QED  BY <2>1, <2>2, FS_AddElement
<1>2. IsFiniteSet(A)
  BY <1>1, PagesAssumption, FS_Product
<1>3. IsFiniteSet(S)
  <2>1. IsFiniteSet(0..MaxFaults)
    BY BoundsAssumption, FS_Interval
  <2> HIDE DEF A
  <2> QED  BY <1>2, <2>1, FS_Product
<1>4. f \in Surjection(S, Callers)
  <2>1. f \in [S -> Callers]
    BY DEF Callers
  <2>2. ASSUME NEW c \in Callers PROVE \E x \in S : f[x] = c
    <3>1. c[1] \in Pages /\ c[2] \in {"post", "poll"} /\ c[3] \in 0..MaxFaults /\ c = <<c[1], c[2], c[3]>>
      BY CallerIs
    <3>2. <<<<c[1], c[2]>>, c[3]>> \in S
      BY <3>1
    <3>3. f[<<<<c[1], c[2]>>, c[3]>>] = <<c[1], c[2], c[3]>>
      BY <3>2
    <3> QED  BY <3>1, <3>2, <3>3
  <2> HIDE DEF f, S
  <2> QED  BY <2>1, <2>2 DEF Surjection
<1> HIDE DEF f, S
<1> QED  BY <1>3, <1>4, FS_Surjection

\* So the counts are numbers.
LEMMA SpentType ==
  ASSUME Typed, NEW m
  PROVE  /\ IsFiniteSet(Stored(m)) /\ Cardinality(Stored(m)) \in Nat
         /\ IsFiniteSet(Pending(m)) /\ Cardinality(Pending(m)) \in Nat
         /\ Spent(m) \in Nat
<1>1. IsFiniteSet(DOMAIN log)
  <2>1. DOMAIN log = 1..Len(log) /\ Len(log) \in Nat
    BY DEF Typed
  <2> QED  BY <2>1, FS_Interval
<1>2. Stored(m) \in SUBSET DOMAIN log /\ Pending(m) \in SUBSET Callers
  BY DEF Stored, Pending
<1>3. IsFiniteSet(Stored(m)) /\ IsFiniteSet(Pending(m))
  BY <1>1, <1>2, CallersFinite, FS_Subset
<1>4. Cardinality(Stored(m)) \in Nat /\ Cardinality(Pending(m)) \in Nat
  BY <1>3, FS_CardinalityType
<1> QED  BY <1>3, <1>4 DEF Spent

\* A calm step stores nothing and leaves nothing more to be answered.
LEMMA SpentCalm ==
  ASSUME Typed, Typed', Calm, NEW m
  PROVE  Spent(m)' <= Spent(m)
<1>1. Stored(m)' = Stored(m)
  BY DEF Calm, Stored
<1>2. Pending(m)' \in SUBSET Pending(m)
  BY DEF Calm, Pending
<1>3. Cardinality(Pending(m)') <= Cardinality(Pending(m))
  BY <1>2, SpentType, FS_Subset
<1>4. /\ Cardinality(Stored(m)) \in Nat /\ Cardinality(Pending(m)) \in Nat
      /\ Cardinality(Pending(m)') \in Nat
  <2>1. IsFiniteSet(Pending(m)')
    BY <1>2, SpentType, FS_Subset
  <2> QED  BY <2>1, SpentType, FS_CardinalityType
<1> QED  BY <1>1, <1>3, <1>4 DEF Spent

\* A post adds itself to what may be stored of its text.
LEMMA SpentSubmits ==
  ASSUME Core, NEW p \in Pages, NEW c \in Callers, Submits(p, c), NEW m
  PROVE  Spent(m)' = IF m = box[p] THEN Spent(m) + 1 ELSE Spent(m)
<1>1. Stored(m)' = Stored(m)
  BY DEF Submits, Stored
<1>2. /\ requests[c] = None /\ c[2] = "post"
      /\ requests'[c] = [page |-> p, arg |-> box[p], answer |-> None]
      /\ \A d \in Callers : d # c => requests'[d] = requests[d]
  BY DEF Submits, Becomes
<1>3. requests'[c] # None
  <2>1. box[p] \in Nat
    BY RequestIs DEF Core, Typed, Submits
  <2>2. requests'[c] \in Requests
    BY <1>2, <2>1 DEF Requests
  <2> QED  BY <2>2, RequestIs
<1>4. Pending(m)' = IF m = box[p] THEN Pending(m) \cup {c} ELSE Pending(m)
  BY <1>2, <1>3 DEF Pending
<1>5. c \notin Pending(m)
  BY <1>2 DEF Pending
<1>6. Cardinality(Pending(m)') = IF m = box[p] THEN Cardinality(Pending(m)) + 1
                                 ELSE Cardinality(Pending(m))
  BY <1>4, <1>5, SpentType, FS_AddElement DEF Core
<1> QED  BY <1>1, <1>6, SpentType DEF Spent, Core

\* sendMessage.lua's run turns what may be stored into what is, or is not.
LEMMA SpentStores ==
  ASSUME Core, NEW c \in Callers, NEW ok \in BOOLEAN, Stores(c, ok), NEW m
  PROVE  Spent(m)' = IF m = requests[c].arg /\ ~ok THEN Spent(m) - 1 ELSE Spent(m)
<1>0. log \in Seq(Rows) /\ Len(log) \in Nat
  BY DEF Core, Typed
<1>1. /\ requests[c] # None /\ requests[c].answer = None /\ c[2] = "post"
      /\ requests'[c] = Told(c, ok, <<>>)
      /\ \A d \in Callers : d # c => requests'[d] = requests[d]
      /\ log' = IF ok THEN Append(log, Row(requests[c].arg)) ELSE log
  BY DEF Stores, Serves, Becomes
<1>2. requests'[c] = None \/ requests'[c].answer # None
  <2>1. [ok |-> ok, rows |-> <<>>] \in Answers
    BY DEF Answers
  <2> QED  BY <1>1, <2>1, RequestIs DEF Told
<1>3. Pending(m)' = IF m = requests[c].arg THEN Pending(m) \ {c} ELSE Pending(m)
  BY <1>1, <1>2 DEF Pending
<1>4. m = requests[c].arg => c \in Pending(m)
  BY <1>1 DEF Pending
<1>5. Cardinality(Pending(m)') = IF m = requests[c].arg THEN Cardinality(Pending(m)) - 1
                                 ELSE Cardinality(Pending(m))
  BY <1>3, <1>4, SpentType, FS_RemoveElement DEF Core
<1>6. Stored(m)' = IF ok /\ m = requests[c].arg THEN Stored(m) \cup {Len(log) + 1} ELSE Stored(m)
  <2>1. CASE ~ok
    BY <1>1, <2>1 DEF Stored
  <2>2. CASE ok
    <3>1. PICK r \in Rows : r = Row(requests[c].arg) /\ TextOf(r) = requests[c].arg
      BY StoresGrows
    <3>2. /\ DOMAIN log' = DOMAIN log \cup {Len(log) + 1} /\ TextOf(log'[Len(log) + 1]) = requests[c].arg
          /\ \A i \in DOMAIN log : log'[i] = log[i]
      BY <1>0, <1>1, <2>2, <3>1
    <3>3. Len(log) + 1 \notin DOMAIN log
      BY <1>0
    <3> QED  BY <2>2, <3>2, <3>3 DEF Stored
  <2> QED  BY <2>1, <2>2
<1>7. Len(log) + 1 \notin Stored(m)
  BY <1>0 DEF Stored
<1>8. Cardinality(Stored(m)') = IF ok /\ m = requests[c].arg THEN Cardinality(Stored(m)) + 1
                                ELSE Cardinality(Stored(m))
  BY <1>6, <1>7, SpentType, FS_AddElement DEF Core
<1> QED  BY <1>5, <1>8, SpentType DEF Spent, Core

\* The texts that are sent after a step that does not submit.
LEMMA SendsFewer ==
  ASSUME Core, NEW p \in Pages, NEW m,
         \/ Calm
         \/ \E q \in Pages : Type(q)
         \/ \E c \in Callers, ok \in BOOLEAN : Stores(c, ok)
  PROVE  Sends(p, m)' => Sends(p, m)
<1>1. CASE Calm
  BY <1>1 DEF Calm, Sends
<1>2. ASSUME NEW q \in Pages, Type(q) PROVE Sends(p, m)' => Sends(p, m)
  BY <1>2 DEF Type, Sends
<1>3. ASSUME NEW c \in Callers, NEW ok \in BOOLEAN, Stores(c, ok)
      PROVE  Sends(p, m)' => Sends(p, m)
  <2> SUFFICES ASSUME Sends(p, m)' PROVE Sends(p, m)
    OBVIOUS
  <2>1. post' = post /\ post[p] # None /\ requests'[post[p]].arg = m
    BY <1>3 DEF Stores, Serves, Sends
  <2>2. post[p] \in Callers /\ requests[post[p]].page # None
    BY <2>1, WaitedFor, RequestIs
  <2>3. CASE post[p] = c
    <3>1. requests'[c].arg = requests[c].arg
      BY <1>3, <2>2, <2>3 DEF Stores, Serves, Becomes, Told
    <3> QED  BY <2>1, <2>3, <3>1 DEF Sends
  <2>4. CASE post[p] # c
    BY <1>3, <2>1, <2>2, <2>4 DEF Stores, Serves, Becomes, Sends
  <2> QED  BY <2>3, <2>4
<1> QED  BY <1>1, <1>2, <1>3

\* What a page sends is the same when it has been answered.
LEMMA StoresSends ==
  ASSUME Core, NEW c \in Callers, NEW ok \in BOOLEAN, Stores(c, ok),
         NEW p \in Pages, NEW m, Sends(p, m)
  PROVE  Sends(p, m)'
<1>1. post' = post /\ post[p] # None /\ requests[post[p]].arg = m
  BY DEF Stores, Serves, Sends
<1>2. post[p] \in Callers /\ requests[post[p]].page # None
  BY <1>1, WaitedFor, RequestIs
<1>3. CASE post[p] = c
  <2>1. requests'[c].arg = requests[c].arg
    BY <1>2, <1>3 DEF Stores, Serves, Becomes, Told
  <2> QED  BY <1>1, <1>3, <2>1 DEF Sends
<1>4. CASE post[p] # c
  <2>1. requests'[post[p]] = requests[post[p]]
    BY <1>2, <1>4 DEF Stores, Serves, Becomes
  <2> QED  BY <1>1, <2>1 DEF Sends
<1> QED  BY <1>3, <1>4

\* What the pages send after one has submitted.
LEMMA SendsMore ==
  ASSUME Core, NEW p \in Pages, NEW c \in Callers, Submits(p, c), NEW q \in Pages, NEW m
  PROVE  /\ Sends(q, m)' <=> IF q = p THEN m = box[p] ELSE Sends(q, m)
         /\ q # p => \A ok \in BOOLEAN : Has(post[q], ok)' => Has(post[q], ok)
         /\ q # p /\ post[q] # None => requests'[post'[q]].arg = requests[post[q]].arg
         /\ \A ok \in BOOLEAN : ~Has(post[p], ok)'
<1>1. /\ post' = [post EXCEPT ![p] = c] /\ requests[c] = None
      /\ requests'[c] = [page |-> p, arg |-> box[p], answer |-> None]
      /\ \A d \in Callers : d # c => requests'[d] = requests[d]
  BY DEF Submits, Becomes
<1>2. post'[p] = c /\ c # None /\ \A r \in Pages : r # p => post'[r] = post[r]
  BY <1>1, CallerIs DEF Core, Typed
<1>3. post[q] # None => post[q] \in Callers /\ post[q] # c
  BY <1>1, WaitedFor
<1>4. requests'[c].arg = box[p] /\ requests'[c].answer = None
  BY <1>1
<1> QED  BY <1>1, <1>2, <1>3, <1>4 DEF Sends, Has

\* What is asked of the next state, text by text.
LEMMA OwnedNext ==
  ASSUME Typed',
         \A p, q \in Pages, m \in Texts : box'[p] = m /\ (box'[q] = m \/ Sends(q, m)') => p = q
  PROVE  Owned'
<1> SUFFICES ASSUME NEW p \in Pages, NEW q \in Pages, box'[p] # None,
                    box'[q] = box'[p] \/ Sends(q, box[p])'
             PROVE  p = q
  BY DEF Owned
<1>1. PICK m \in Texts : m = box'[p]
  BY DEF Typed
<1>2. Sends(q, box[p])' => Sends(q, m)'
  BY <1>1 DEF Sends
<1> QED  BY <1>1, <1>2

\* And of this one.
LEMMA OwnedNow ==
  ASSUME Owned
  PROVE  \A p, q \in Pages, m \in Texts :
           m # None /\ box[p] = m /\ (box[q] = m \/ Sends(q, m)) => p = q
BY DEF Owned, Sends

\* A text keeps its owner.
LEMMA OwnedKept ==
  ASSUME Core, Owned, Step
  PROVE  Owned'
<1>0. /\ box \in [Pages -> Texts \cup {None}] /\ \A p \in Pages : box[p] # None => box[p] \in 1..typed
      /\ typed \in Nat
  BY DEF Core, Typed, Known
<1>a. Typed' /\ \A m \in Texts : m # None
  BY CoreKept, RequestIs DEF Core
<1>b. \A p, q \in Pages, m \in Texts : box[p] = m /\ (box[q] = m \/ Sends(q, m)) => p = q
  BY <1>a, OwnedNow
<1> DEFINE Goal == \A p, q \in Pages, m \in Texts :
                     box'[p] = m /\ (box'[q] = m \/ Sends(q, m)') => p = q
<1>1. ASSUME Calm PROVE Goal
  <2>1. \A p \in Pages : box'[p] # None => box'[p] = box[p]
    BY <1>1 DEF Calm
  <2>2. \A p \in Pages : \A m : Sends(p, m)' => Sends(p, m)
    BY <1>1, SendsFewer
  <2> QED  BY <1>a, <1>b, <2>1, <2>2
<1>2. ASSUME NEW p \in Pages, Type(p) PROVE Goal
  <2>1. box'[p] = typed + 1 /\ \A q \in Pages : q # p => box'[q] = box[q]
    BY <1>0, <1>2 DEF Type
  <2>2. ASSUME NEW q \in Pages, NEW m, Sends(q, m)' PROVE Sends(q, m) /\ m \in 1..typed
    <3>1. Sends(q, m)
      BY <1>2, <2>2, SendsFewer
    <3>2. post[q] \in Callers /\ post[q][2] = "post" /\ requests[post[q]] # None
          /\ requests[post[q]].arg = m
      BY <3>1, WaitedFor DEF Sends
    <3> QED  BY <3>1, <3>2 DEF Core, Known
  <2>3. typed + 1 \notin 1..typed
    BY <1>0
  <2>4. ASSUME NEW q \in Pages, NEW r \in Pages, NEW m \in Texts, box'[q] = m,
               box'[r] = m \/ Sends(r, m)'
        PROVE  q = r
    <3>1. CASE q = p
      <4>1. m \notin 1..typed
        BY <2>1, <2>3, <2>4, <3>1
      <4> QED  BY <1>0, <1>a, <2>1, <2>2, <2>4, <3>1, <4>1
    <3>2. CASE q # p
      <4>1. box[q] = m /\ m \in 1..typed
        BY <1>0, <1>a, <2>1, <2>4, <3>2
      <4>2. box[r] = m \/ Sends(r, m)
        BY <2>1, <2>2, <2>3, <2>4, <4>1
      <4> QED  BY <1>b, <4>1, <4>2
    <3> QED  BY <3>1, <3>2
  <2> QED  BY <2>4
<1>3. ASSUME NEW p \in Pages, NEW c \in Callers, Submits(p, c) PROVE Goal
  <2>1. box' = box /\ box[p] # None
    BY <1>3 DEF Submits
  <2>2. \A q \in Pages : \A m : Sends(q, m)' => (IF q = p THEN m = box[p] ELSE Sends(q, m))
    BY <1>3, SendsMore
  <2> QED  BY <1>b, <2>1, <2>2
<1>4. ASSUME NEW c \in Callers, NEW ok \in BOOLEAN, Stores(c, ok) PROVE Goal
  <2>1. box' = box
    BY <1>4 DEF Stores, Serves
  <2>2. \A p \in Pages : \A m : Sends(p, m)' => Sends(p, m)
    BY <1>4, SendsFewer
  <2> QED  BY <1>b, <2>1, <2>2
<1>5. Goal
  <2> HIDE DEF Goal
  <2> QED  BY <1>1, <1>2, <1>3, <1>4, CalmIs
<1> QED  BY <1>a, <1>5, OwnedNext

\* The answer to a post says whether its text is in the table.
LEMMA HasStores ==
  ASSUME Core, NEW c \in Callers, NEW ok \in BOOLEAN, Stores(c, ok),
         NEW p \in Pages, NEW yes \in BOOLEAN,
         Has(post[p], yes)'
  PROVE  /\ post'[p] = post[p] /\ post[p] # None /\ requests'[post'[p]].arg = requests[post[p]].arg
         /\ (post[p] = c /\ yes = ok) \/ Has(post[p], yes)
<1>1. post' = post /\ post[p] # None /\ requests'[post[p]].answer # None
      /\ requests'[post[p]].answer.ok = yes
  BY DEF Stores, Serves, Has
<1>2. post[p] \in Callers /\ requests[post[p]].page # None
  BY <1>1, WaitedFor, RequestIs
<1>3. CASE post[p] = c
  <2>1. requests'[c].arg = requests[c].arg /\ requests'[c].answer = [ok |-> ok, rows |-> <<>>]
    BY <1>2, <1>3 DEF Stores, Serves, Becomes, Told
  <2> QED  BY <1>1, <1>3, <2>1
<1>4. CASE post[p] # c
  <2>1. requests'[post[p]] = requests[post[p]]
    BY <1>2, <1>4 DEF Stores, Serves, Becomes
  <2> QED  BY <1>1, <2>1 DEF Has
<1> QED  BY <1>3, <1>4

\* What is asked of the next state, text by text.
LEMMA CountedNext ==
  ASSUME \A m \in 1..Len(Kind) : Spent(m)' <= 1 + broken'[m],
         \A p \in Pages, m \in Texts : box'[p] = m /\ ~Sends(p, m)' => Spent(m)' <= broken'[m],
         \A p \in Pages, m \in Texts : Has(post[p], FALSE)' /\ Sends(p, m)' => Spent(m)' <= broken'[m],
         Typed', Paired', Known'
  PROVE  Counted'
<1>1. ASSUME NEW p \in Pages, box'[p] # None, ~Sends(p, box[p])'
      PROVE  (Spent(box[p]) <= broken[box[p]])'
  <2>1. PICK m \in Texts : m = box'[p]
    BY <1>1 DEF Typed
  <2>2. ~Sends(p, m)'
    BY <1>1, <2>1 DEF Sends
  <2>3. Spent(m)' <= broken'[m]
    BY <2>1, <2>2
  <2> QED  BY <2>1, <2>3 DEF Spent, Stored, Pending
<1>2. ASSUME NEW p \in Pages, Has(post[p], FALSE)'
      PROVE  (Spent(requests[post[p]].arg) <= broken[requests[post[p]].arg])'
  <2>1. /\ post'[p] # None /\ post'[p] \in Callers /\ post'[p][2] = "post"
        /\ requests'[post'[p]] # None
    BY <1>2 DEF Has, Typed, Paired
  <2>2. requests'[post'[p]].arg \in 1..typed' /\ typed' \in 0..Len(Kind)
    BY <2>1 DEF Known, Typed
  <2>3. PICK m \in Texts : m = requests'[post'[p]].arg
    BY <2>2, KindAssumption DEF Texts
  <2>4. Sends(p, m)'
    BY <2>1, <2>3 DEF Sends
  <2>5. Spent(m)' <= broken'[m]
    BY <1>2, <2>4
  <2> QED  BY <2>3, <2>5 DEF Spent, Stored, Pending
<1> QED  BY <1>1, <1>2 DEF Counted

\* And of this one.
LEMMA CountedNow ==
  ASSUME Counted
  PROVE  /\ \A m \in 1..Len(Kind) : Spent(m) <= 1 + broken[m]
         /\ \A p \in Pages, m \in Texts :
              m # None /\ box[p] = m /\ ~Sends(p, m) => Spent(m) <= broken[m]
         /\ \A p \in Pages, m \in Texts :
              Has(post[p], FALSE) /\ Sends(p, m) => Spent(m) <= broken[m]
BY DEF Counted, Sends

\* The counts are numbers in the next state, too.
LEMMA SpentNext ==
  ASSUME NEW m
  PROVE  Typed' => Spent(m)' \in Nat
<1>1. Typed => Spent(m) \in Nat
  BY SpentType
<1>2. (Typed => Spent(m) \in Nat)'
  BY <1>1, PTL
<1> QED  BY <1>2

\* Every step keeps the counts.
LEMMA CountedKept ==
  ASSUME Core, Owned, Counted, Step
  PROVE  Counted'
<1> DEFINE Ones  == \A m \in 1..Len(Kind) : Spent(m)' <= 1 + broken'[m]
           Boxes == \A p \in Pages, m \in Texts : box'[p] = m /\ ~Sends(p, m)' => Spent(m)' <= broken'[m]
           Fails == \A p \in Pages, m \in Texts :
                      Has(post[p], FALSE)' /\ Sends(p, m)' => Spent(m)' <= broken'[m]
           Goal  == Ones /\ Boxes /\ Fails
<1>0. Core' /\ Typed /\ Typed'
  BY CoreKept DEF Core
<1>a. /\ \A m \in 1..Len(Kind) : m \in Texts
      /\ \A m \in Texts : broken[m] \in Nat /\ broken'[m] \in Nat /\ m # None
  <2>1. \A m \in 1..Len(Kind) : m \in Texts
    BY KindAssumption DEF Texts
  <2> QED  BY <1>0, <2>1, RequestIs DEF Typed
<1>b. \A m : Spent(m) \in Nat /\ Spent(m)' \in Nat
  BY <1>0, SpentType, SpentNext
<1>c. /\ \A m \in 1..Len(Kind) : Spent(m) <= 1 + broken[m]
      /\ \A p \in Pages, m \in Texts : box[p] = m /\ ~Sends(p, m) => Spent(m) <= broken[m]
      /\ \A p \in Pages, m \in Texts :
           Has(post[p], FALSE) /\ Sends(p, m) => Spent(m) <= broken[m]
  BY <1>a, CountedNow
<1>1. ASSUME Calm PROVE Goal
  <2>1. \A m : Spent(m)' <= Spent(m)
    BY <1>0, <1>1, SpentCalm
  <2>2. \A m \in Texts : broken[m] <= broken'[m]
    BY <1>1 DEF Calm
  <2>3. ASSUME NEW m \in Texts, NEW n \in Nat, Spent(m) <= n + broken[m]
        PROVE  Spent(m)' <= n + broken'[m]
    BY <1>a, <1>b, <2>1, <2>2, <2>3
  <2>4. Ones
    BY <1>a, <1>c, <2>3
  <2>5. ASSUME NEW p \in Pages, NEW m \in Texts, box'[p] = m, ~Sends(p, m)'
        PROVE  Spent(m)' <= broken'[m]
    <3>1. box[p] = m
      BY <1>1, <1>a, <2>5 DEF Calm
    <3>2. CASE ~Sends(p, m) \/ Has(post[p], FALSE)
      <4>1. Spent(m) <= broken[m]
        BY <1>c, <3>1, <3>2
      <4> QED  BY <1>a, <1>b, <2>1, <2>2, <4>1
    <3>3. CASE Sends(p, m) /\ ~Has(post[p], FALSE)
      <4>1. post'[p] = None
        BY <1>1, <2>5, <3>3 DEF Calm, Sends
      <4>2. broken[m] < broken'[m]
        BY <1>1, <1>a, <2>5, <3>3, <4>1 DEF Calm, Sends
      <4>3. Spent(m) <= 1 + broken[m]
        <5>1. m \in 1..Len(Kind)
          BY <1>0, <3>1, <1>a, KindAssumption, SMTT(40) DEF Core, Known, Typed
        <5> QED  BY <1>c, <5>1
      <4> QED  BY <1>a, <1>b, <2>1, <4>2, <4>3
    <3> QED  BY <3>2, <3>3
  <2>6. ASSUME NEW p \in Pages, NEW m \in Texts, Has(post[p], FALSE)', Sends(p, m)'
        PROVE  Spent(m)' <= broken'[m]
    <3>1. Has(post[p], FALSE) /\ Sends(p, m)
      BY <1>1, <2>6 DEF Calm, Has, Sends
    <3>2. Spent(m) <= broken[m]
      BY <1>c, <3>1
    <3> QED  BY <1>a, <1>b, <2>1, <2>2, <3>2
  <2> QED  BY <2>4, <2>5, <2>6
<1>2. ASSUME NEW p \in Pages, Type(p) PROVE Goal
  <2>1. /\ UNCHANGED <<log, requests, post, broken>> /\ typed' = typed + 1
        /\ box' = [box EXCEPT ![p] = typed'] /\ typed \in Nat /\ box \in [Pages -> Texts \cup {None}]
    BY <1>0, <1>2 DEF Type, Typed
  <2>2. \A m : Spent(m)' = Spent(m)
    BY <2>1 DEF Spent, Stored, Pending
  <2>3. \A q \in Pages : \A m : (Sends(q, m)' <=> Sends(q, m)) /\ (Has(post[q], FALSE)' <=> Has(post[q], FALSE))
    BY <2>1 DEF Sends, Has
  <2>4. Spent(typed + 1) = 0
    <3>1. Stored(typed + 1) = {}
      <4>1. log \in Seq(Rows) /\ \A i \in 1..Len(log) : TextOf(log[i]) <= typed
        BY <1>0 DEF Core, Known, Typed
      <4>2. \A i \in DOMAIN log : i \in 1..Len(log) /\ TextOf(log[i]) \in Nat
        BY <4>1, RowIs
      <4>3. \A i \in DOMAIN log : TextOf(log[i]) # typed + 1
        BY <2>1, <4>1, <4>2
      <4> QED  BY <4>3 DEF Stored
    <3>2. Pending(typed + 1) = {}
      <4>1. typed + 1 \notin 1..typed
        BY <2>1
      <4> QED  BY <4>1 DEF Pending, Core, Known
    <3>3. Cardinality({}) = 0
      BY FS_EmptySet
    <3> QED  BY <3>1, <3>2, <3>3 DEF Spent
  <2>5. ASSUME NEW q \in Pages, NEW m \in Texts, box'[q] = m, ~Sends(q, m)'
        PROVE  Spent(m)' <= broken'[m]
    <3>1. CASE q = p
      <4>1. m = typed + 1
        BY <2>1, <2>5, <3>1
      <4>2. Spent(m) = 0
        BY <4>1, <2>4
      <4> QED  BY <1>a, <2>1, <2>2, <4>2
    <3>2. CASE q # p
      BY <1>c, <2>1, <2>2, <2>3, <2>5, <3>2
    <3> QED  BY <3>1, <3>2
  <2> QED  BY <1>c, <2>1, <2>2, <2>3, <2>5
<1>3. ASSUME NEW p \in Pages, NEW c \in Callers, Submits(p, c) PROVE Goal
  <2>1. box' = box /\ box[p] # None /\ post[p] = None /\ broken' = broken
    BY <1>3 DEF Submits
  <2>2. \A m : Spent(m)' = IF m = box[p] THEN Spent(m) + 1 ELSE Spent(m)
    BY <1>3, SpentSubmits
  <2>3. \A q \in Pages : \A m : Sends(q, m)' <=> IF q = p THEN m = box[p] ELSE Sends(q, m)
    BY <1>3, SendsMore
  <2>4. \A q \in Pages : Has(post[q], FALSE)' => q # p /\ Has(post[q], FALSE)
    BY <1>3, SendsMore
  <2>5. PICK b \in Texts : b = box[p]
    BY <1>0, <2>1 DEF Typed
  <2>6. Spent(b) <= broken[b]
    BY <1>c, <2>1, <2>5 DEF Sends
  <2>7. \A q \in Pages : box[q] = b \/ Sends(q, b) => q = p
    BY <1>a, <2>5, OwnedNow
  <2>8. Ones
    <3>1. ASSUME NEW m \in 1..Len(Kind) PROVE Spent(m)' <= 1 + broken'[m]
      <4>1. CASE m = b
        <5>1. Spent(m)' = Spent(m) + 1 /\ Spent(m) <= broken[m] /\ broken'[m] = broken[m]
          BY <2>1, <2>2, <2>5, <2>6, <4>1
        <5> QED  BY <1>a, <1>b, <5>1
      <4>2. CASE m # b
        BY <1>c, <2>1, <2>2, <2>5, <4>2
      <4> QED  BY <4>1, <4>2
    <3> QED  BY <3>1
  <2>9. Boxes
    BY <1>c, <2>1, <2>2, <2>3, <2>5, <2>7
  <2>10. Fails
    BY <1>c, <2>1, <2>2, <2>3, <2>4, <2>5, <2>7
  <2> QED  BY <2>8, <2>9, <2>10
<1>4. ASSUME NEW c \in Callers, NEW ok \in BOOLEAN, Stores(c, ok) PROVE Goal
  <2>1. box' = box /\ broken' = broken
    BY <1>4 DEF Stores, Serves
  <2>2. \A m : Spent(m)' = IF m = requests[c].arg /\ ~ok THEN Spent(m) - 1 ELSE Spent(m)
    BY <1>4, SpentStores
  <2>3. \A m : Spent(m)' <= Spent(m)
    BY <1>b, <2>2
  <2>4. Ones
    BY <1>a, <1>b, <1>c, <2>1, <2>3
  <2>5. ASSUME NEW p \in Pages, NEW m \in Texts, box'[p] = m, ~Sends(p, m)'
        PROVE  Spent(m)' <= broken'[m]
    <3>1. ~Sends(p, m)
      BY <1>4, <2>5, StoresSends
    <3>2. Spent(m) <= broken[m]
      BY <1>c, <2>1, <2>5, <3>1
    <3> QED  BY <1>a, <1>b, <2>1, <2>3, <3>2
  <2>6. ASSUME NEW p \in Pages, NEW m \in Texts, Has(post[p], FALSE)', Sends(p, m)'
        PROVE  Spent(m)' <= broken'[m]
    <3>1. /\ post'[p] = post[p] /\ post[p] # None /\ requests'[post'[p]].arg = requests[post[p]].arg
          /\ (post[p] = c /\ FALSE = ok) \/ Has(post[p], FALSE)
      BY <1>4, <2>6, HasStores
    <3>2. requests[post[p]].arg = m /\ Sends(p, m)
      BY <2>6, <3>1 DEF Sends
    <3>3. CASE Has(post[p], FALSE)
      <4>1. Spent(m) <= broken[m]
        BY <1>c, <3>2, <3>3
      <4> QED  BY <1>a, <1>b, <2>1, <2>3, <4>1
    <3>4. CASE post[p] = c /\ FALSE = ok
      <4>1. Spent(m)' = Spent(m) - 1
        BY <2>2, <3>2, <3>4
      <4>2. m \in 1..Len(Kind)
        BY <3>1, <3>2, WaitedFor, KindAssumption DEF Texts
      <4> QED  BY <1>a, <1>b, <1>c, <2>1, <4>1, <4>2
    <3> QED  BY <3>1, <3>3, <3>4
  <2> QED  BY <2>4, <2>5, <2>6
<1>5. Goal
  <2> HIDE DEF Goal
  <2> QED  BY <1>1, <1>2, <1>3, <1>4, CalmIs
<1>6. Typed' /\ Paired' /\ Known'
  BY <1>0 DEF Core
<1> QED  BY <1>5, <1>6, CountedNext

\* What a page is told to be stored is stored, and stays.
LEMMA AcceptedKept ==
  ASSUME Core, Accepted, Step
  PROVE  Accepted'
<1>0. /\ Typed /\ Typed' /\ \A p \in Pages : Has(post[p], TRUE) => Row(requests[post[p]].arg) \in ToSet(log)
      /\ \A p \in Pages : \A k \in 1..Len(adhoc[p]) : Row(adhoc[p][k]) \in ToSet(log)
      /\ \A p \in Pages : adhoc[p] \in Seq(Texts)
  BY CoreKept DEF Core, Accepted, Typed
<1>1. ASSUME Calm PROVE Accepted'
  <2>1. log' = log
    BY <1>1 DEF Calm
  <2>2. ASSUME NEW p \in Pages, Has(post[p], TRUE)' PROVE Row(requests'[post'[p]].arg) \in ToSet(log)
    <3>1. Has(post[p], TRUE) /\ requests'[post'[p]].arg = requests[post[p]].arg
      BY <1>1, <2>2 DEF Calm, Has
    <3> QED  BY <1>0, <3>1
  <2>3. ASSUME NEW p \in Pages, NEW k \in 1..Len(adhoc'[p]) PROVE Row(adhoc'[p][k]) \in ToSet(log)
    <3>1. CASE adhoc'[p] = adhoc[p]
      BY <1>0, <3>1
    <3>2. CASE adhoc'[p] = <<>>
      BY <3>2
    <3>3. CASE Has(post[p], TRUE) /\ adhoc'[p] = Append(adhoc[p], requests[post[p]].arg)
      <4>1. PICK m : m = requests[post[p]].arg
        OBVIOUS
      <4>2. m \in Texts /\ Row(m) \in ToSet(log)
        BY <1>0, <3>3, <4>1, WaitedFor DEF Has
      <4>3. adhoc'[p] = Append(adhoc[p], m) /\ adhoc[p] \in Seq(Texts)
        BY <1>0, <3>3, <4>1
      <4> QED  BY <1>0, <4>2, <4>3
    <3> QED  BY <1>1, <3>1, <3>2, <3>3 DEF Calm
  <2> QED  BY <2>1, <2>2, <2>3 DEF Accepted
<1>2. ASSUME NEW p \in Pages, Type(p) PROVE Accepted'
  <2>1. UNCHANGED <<log, requests, post, adhoc>>
    BY <1>2 DEF Type
  <2> QED  BY <1>0, <2>1 DEF Accepted, Has
<1>3. ASSUME NEW p \in Pages, NEW c \in Callers, Submits(p, c) PROVE Accepted'
  <2>1. UNCHANGED <<log, adhoc>>
    BY <1>3 DEF Submits
  <2>2. ASSUME NEW q \in Pages, Has(post[q], TRUE)' PROVE Row(requests'[post'[q]].arg) \in ToSet(log)
    <3>1. q # p /\ Has(post[q], TRUE)
      BY <1>3, <2>2, SendsMore
    <3>2. requests'[post'[q]].arg = requests[post[q]].arg
      BY <1>3, <3>1, SendsMore DEF Has
    <3> QED  BY <1>0, <3>1, <3>2
  <2> QED  BY <1>0, <2>1, <2>2 DEF Accepted
<1>4. ASSUME NEW c \in Callers, NEW ok \in BOOLEAN, Stores(c, ok) PROVE Accepted'
  <2>1. adhoc' = adhoc /\ ToSet(log) \subseteq ToSet(log')
    BY <1>0, <1>4, StoresGrows, GrowsType DEF Stores, Serves
  <2>2. ASSUME NEW p \in Pages, Has(post[p], TRUE)' PROVE Row(requests'[post'[p]].arg) \in ToSet(log')
    <3>1. /\ requests'[post'[p]].arg = requests[post[p]].arg
          /\ (post[p] = c /\ TRUE = ok) \/ Has(post[p], TRUE)
      BY <1>4, <2>2, HasStores
    <3>2. CASE Has(post[p], TRUE)
      BY <1>0, <2>1, <3>1, <3>2
    <3>3. CASE post[p] = c /\ TRUE = ok
      <4>1. PICK m \in Texts : m = requests[c].arg
        BY <1>4, StoresGrows
      <4>a. PICK r \in Rows : r = Row(m)
        BY <1>4, <4>1, StoresGrows
      <4>2. log' = Append(log, r) /\ log \in Seq(Rows)
        BY <1>0, <1>4, <3>3, <4>1, <4>a DEF Stores, Typed
      <4>3. log'[Len(log) + 1] = Row(m) /\ Len(log) + 1 \in DOMAIN log'
        BY <4>2, <4>a
      <4> QED  BY <3>1, <3>3, <4>1, <4>3 DEF ToSet
    <3> QED  BY <3>1, <3>2, <3>3
  <2> QED  BY <1>0, <2>1, <2>2 DEF Accepted
<1> QED  BY <1>1, <1>2, <1>3, <1>4, CalmIs

\* Multiples of one number.
LEMMA Multiples ==
  ASSUME NEW a \in Nat, NEW b \in Nat, NEW n \in Nat
  PROVE  a * n \in Nat /\ (a + 1) * n = a * n + n /\ (a <= b => a * n <= b * n)
<1>1. a * n \in Nat /\ (a + 1) * n = a * n + n
  OBVIOUS
<1>2. ASSUME a <= b PROVE a * n <= b * n
  <2>1. PICK d \in Nat : b = a + d
    <3>1. b - a \in Nat /\ b = a + (b - a)
      BY <1>2
    <3> QED  BY <3>1
  <2>2. b * n = a * n + d * n /\ d * n \in Nat
    BY <2>1
  <2> QED  BY <1>1, <2>2
<1> QED  BY <1>1, <1>2

\* One fault more allows one post more of each page to be lost.
LEMMA BoundedKept ==
  ASSUME Core, Bounded, Step
  PROVE  Bounded'
<1> DEFINE N == Cardinality(Pages)
<1>0. /\ N \in Nat /\ broken \in [Texts -> Nat] /\ broken' \in [Texts -> Nat]
      /\ faults \in Nat /\ faults' \in Nat
      /\ \A m \in Texts : broken[m] <= faults * N
  <2>1. Typed /\ Typed'
    BY CoreKept DEF Core
  <2>2. N \in Nat
    BY PagesAssumption, FS_CardinalityType
  <2>3. broken \in [Texts -> Nat] /\ broken' \in [Texts -> Nat] /\ faults \in Nat /\ faults' \in Nat
    BY <2>1, BoundsAssumption DEF Typed
  <2> QED  BY <2>2, <2>3 DEF Bounded
<1> HIDE DEF N
<1>a. (faults + 1) * N = faults * N + N /\ faults * N \in Nat
  BY <1>0, Multiples
<1>1. ASSUME broken' = broken, faults <= faults' PROVE Bounded'
  <2>1. faults * N <= faults' * N
    BY <1>0, <1>1, Multiples
  <2>2. faults' * N \in Nat
    BY <1>0, Multiples
  <2>3. ASSUME NEW m \in Texts PROVE broken'[m] <= faults' * N
    BY <1>0, <1>a, <1>1, <2>1, <2>2
  <2> QED  BY <2>3 DEF Bounded, N
<1>2. ASSUME faults' = faults + 1, \A m \in Texts : broken'[m] <= broken[m] + N PROVE Bounded'
  <2>1. ASSUME NEW m \in Texts PROVE broken'[m] <= faults' * N
    <3>1. broken[m] <= faults * N /\ broken'[m] <= broken[m] + N
      BY <1>0, <1>2
    <3>2. broken[m] \in Nat /\ broken'[m] \in Nat
      BY <1>0
    <3> QED  BY <1>0, <1>a, <1>2, <3>1, <3>2
  <2> QED  BY <2>1 DEF Bounded, N
<1>3. ASSUME NEW p \in Pages, LosesPost(p) PROVE Bounded'
  <2>1. N # 0
    BY PagesAssumption, FS_EmptySet DEF N
  <2>2. faults' = faults + 1 /\ broken' = [broken EXCEPT ![requests[post[p]].arg] = @ + 1]
    BY <1>3 DEF LosesPost, Breaks
  <2>3. PICK n : n = requests[post[p]].arg
    OBVIOUS
  <2>4. broken' = [broken EXCEPT ![n] = @ + 1]
    BY <2>2, <2>3
  <2>5. \A m \in Texts : broken'[m] <= broken[m] + N
    BY <1>0, <2>1, <2>4
  <2> QED  BY <1>2, <2>2, <2>5
<1>4. ASSUME Crash PROVE Bounded'
  <2> DEFINE lost(m) == {p \in Pages : post[p] # None /\ requests[post[p]].arg = m}
  <2>1. faults' = faults + 1 /\ broken' = [m \in Texts |-> broken[m] + Cardinality(lost(m))]
    BY <1>4 DEF Crash, Fault
  <2>2. ASSUME NEW m \in Texts PROVE Cardinality(lost(m)) \in Nat /\ Cardinality(lost(m)) <= N
    <3>1. lost(m) \in SUBSET Pages
      OBVIOUS
    <3> HIDE DEF lost
    <3> QED  BY <3>1, PagesAssumption, FS_Subset, FS_CardinalityType DEF N
  <2> HIDE DEF lost
  <2>3. \A m \in Texts : broken'[m] <= broken[m] + N
    BY <1>0, <2>1, <2>2
  <2> QED  BY <1>2, <2>1, <2>3
<1>5. ASSUME NEW p \in Pages, LosesPoll(p) PROVE Bounded'
  <2>1. faults' = faults + 1 /\ broken' = broken
    BY <1>5 DEF LosesPoll, Breaks
  <2>2. faults <= faults'
    BY <1>0, <2>1
  <2> QED  BY <1>1, <2>1, <2>2
<1>6. ASSUME broken' = broken, faults' = faults PROVE Bounded'
  BY <1>0, <1>1, <1>6
<1>7. ASSUME NEW p \in Pages, Type(p) \/ Previews(p) \/ GivesUpPost(p) \/ GivesUpPoll(p) PROVE Bounded'
  BY <1>6, <1>7 DEF Type, Previews, GivesUpPost, GivesUpPoll
<1>8. ASSUME NEW p \in Pages, NEW c \in Callers, Submits(p, c) \/ Polls(p, c) PROVE Bounded'
  BY <1>6, <1>8 DEF Submits, Polls
<1>9. ASSUME NEW p \in Pages, NEW rows \in Seq(Nat), Lists(p, rows) PROVE Bounded'
  BY <1>6, <1>9 DEF Lists
<1>10. ASSUME NEW c \in Callers, NEW ok \in BOOLEAN, NEW rows, Serves(c, ok, rows) PROVE Bounded'
  <2>1. broken' = broken /\ faults <= faults'
    BY <1>10 DEF Serves
  <2> QED  BY <1>1, <2>1
<1>11. ASSUME NEW c \in Callers, NEW ok \in BOOLEAN, Stores(c, ok) PROVE Bounded'
  BY <1>10, <1>11 DEF Stores
<1>12. ASSUME NEW c \in Callers, NEW ok \in BOOLEAN, NEW rows \in Seq(Nat), Fetches(c, ok, rows)
       PROVE  Bounded'
  BY <1>10, <1>12 DEF Fetches
<1> QED  BY <1>3, <1>4, <1>5, <1>7, <1>8, <1>9, <1>11, <1>12 DEF Step

-----------------------------------------------------------------------------
(* The theorems.                                                           *)

\* The inductive invariant.
IInv == Core /\ Owned /\ Counted /\ Accepted /\ Bounded

\* The invariant holds at the start.
LEMMA InvStarts ==
  ASSUME Init
  PROVE  IInv
<1>0. /\ OldLen \in Nat /\ MaxPosts \in Nat /\ MaxFaults \in Nat /\ Len(Kind) \in Nat
      /\ 0 \in Texts
  BY BoundsAssumption, KindAssumption DEF Texts
<1>1. log = Old /\ Old \in Seq(Rows) /\ Len(Old) = OldLen /\ \A i \in 1..OldLen : Old[i] = 0
  BY <1>0, RowIs DEF Init, Old
<1>2. /\ requests = [c \in Callers |-> None] /\ box = [p \in Pages |-> None]
      /\ post = [p \in Pages |-> None] /\ poll = [p \in Pages |-> None]
      /\ lastMessageId = [p \in Pages |-> <<"number", 0>>]
      /\ shown = [p \in Pages |-> <<>>] /\ adhoc = [p \in Pages |-> <<>>]
      /\ typed = 0 /\ posts = 0 /\ faults = 0 /\ broken = [m \in Texts |-> 0]
  BY DEF Init
<1>3. Typed
  <2>1. <<"number", 0>> \in Ids /\ <<>> \in Seq(Nat) /\ <<>> \in Seq(Texts)
    BY DEF Ids
  <2>2. typed \in 0..Len(Kind) /\ posts \in 0..MaxPosts /\ faults \in 0..MaxFaults
    BY <1>0, <1>2
  <2>3. shown \in [Pages -> Seq(Nat)] /\ adhoc \in [Pages -> Seq(Texts)] /\ lastMessageId \in [Pages -> Ids]
    BY <1>2, <2>1
  <2> QED  BY <1>0, <1>1, <1>2, <2>2, <2>3 DEF Typed
<1>4. Paired
  BY <1>2 DEF Paired
<1>5. Known
  BY <1>0, <1>1, <1>2, RowIs DEF Known
<1>6. Polled
  <2>1. \A p \in Pages : shown[p] = <<>> /\ poll[p] = None /\ lastMessageId[p] = <<"number", 0>>
    BY <1>2
  <2>2. Listed(<<>>, 0)
    <3>1. Len(log) \in Nat
      BY <1>0, <1>1
    <3> QED  BY <3>1 DEF Listed, Following
  <2>3. \A p \in Pages : Len(shown[p]) = 0 /\ Listed(shown[p], 0) /\ ~Has(poll[p], TRUE)
    BY <2>1, <2>2 DEF Has
  <2> QED  BY <2>1, <2>3 DEF Polled, PolledAt
<1>7. Owned
  BY <1>2 DEF Owned
<1>8. Counted
  <2>1. ASSUME NEW m \in 1..Len(Kind) PROVE Spent(m) = 0
    <3>1. Stored(m) = {}
      BY <1>0, <1>1, RowIs DEF Stored
    <3>2. Pending(m) = {}
      BY <1>2 DEF Pending
    <3>3. Cardinality({}) = 0
      BY FS_EmptySet
    <3> QED  BY <3>1, <3>2, <3>3 DEF Spent
  <2>2. ASSUME NEW m \in 1..Len(Kind) PROVE Spent(m) <= 1 + broken[m]
    <3>1. m \in Texts
      BY KindAssumption DEF Texts
    <3> QED  BY <1>2, <2>1, <3>1
  <2>3. \A p \in Pages : box[p] = None /\ ~Has(post[p], FALSE)
    BY <1>2 DEF Has
  <2> QED  BY <2>2, <2>3 DEF Counted
<1>9. Accepted
  <2>1. \A p \in Pages : adhoc[p] = <<>> /\ ~Has(post[p], TRUE)
    BY <1>2 DEF Has
  <2>2. \A p \in Pages : \A k \in 1..Len(adhoc[p]) : Row(adhoc[p][k]) \in ToSet(log)
    <3>1. 1..Len(<<>>) = {}
      OBVIOUS
    <3> QED  BY <2>1, <3>1
  <2> QED  BY <2>1, <2>2 DEF Accepted
<1>10. Bounded
  <2>1. Cardinality(Pages) \in Nat
    BY PagesAssumption, FS_CardinalityType
  <2>2. faults * Cardinality(Pages) \in Nat
    BY <1>2, <2>1
  <2> QED  BY <1>2, <2>2 DEF Bounded
<1> QED  BY <1>3, <1>4, <1>5, <1>6, <1>7, <1>8, <1>9, <1>10 DEF IInv, Core

\* And every step keeps it.
LEMMA InvKept ==
  ASSUME IInv, [Next]_vars
  PROVE  IInv'
<1>1. CASE Next
  <2>1. Core /\ Step
    BY <1>1, StepIs DEF IInv
  <2> QED  BY <2>1, CoreKept, OwnedKept, CountedKept, AcceptedKept, BoundedKept DEF IInv
<1>2. CASE UNCHANGED vars
  <2>1. UNCHANGED <<log, requests, box, post, poll, lastMessageId, shown, adhoc, typed, posts, faults, broken>>
    BY <1>2 DEF vars, page
  <2>2. Typed' /\ Known'
    BY <2>1 DEF IInv, Core, Typed, Known
  <2>3. Paired'
    BY <2>1 DEF IInv, Core, Paired, Waits
  <2>4. Polled'
    BY <2>1 DEF IInv, Core, Polled, PolledAt, Listed, Following, Has
  <2>5. Owned'
    BY <2>1 DEF IInv, Owned, Sends
  <2>6. Counted'
    BY <2>1 DEF IInv, Counted, Sends, Has, Spent, Stored, Pending
  <2>7. Accepted' /\ Bounded'
    BY <2>1 DEF IInv, Accepted, Has, Bounded
  <2> QED  BY <2>2, <2>3, <2>4, <2>5, <2>6, <2>7 DEF IInv, Core
<1> QED  BY <1>1, <1>2

\* In every reachable state the pages, their requests and the table agree: what is
\* under way is known to the page it is for, what a page is answered follows what
\* it lists, and how often a text may still be stored is bounded.
THEOREM Invariance == Spec => []IInv
<1>1. Init => IInv
  BY InvStarts
<1>2. IInv /\ [Next]_vars => IInv'
  BY InvKept
<1> QED  BY <1>1, <1>2, PTL DEF Spec

\* What follows from the invariant: the type,
LEMMA InvTypeOK ==
  ASSUME IInv
  PROVE  TypeOK
<1>0. Typed /\ Core
  BY DEF IInv, Core
<1>1. log \in Seq(Rows) /\ IsPrefix(Old, log)
  <2>1. log \in Seq(Rows) /\ OldLen \in Nat /\ OldLen <= Len(log) /\ \A i \in 1..OldLen : log[i] = 0
    BY <1>0, BoundsAssumption DEF Typed
  <2>2. Len(Old) = OldLen /\ SubSeq(Old, 1, OldLen) = SubSeq(log, 1, OldLen)
    BY <2>1 DEF Old
  <2> QED  BY <2>1, <2>2 DEF IsPrefix
<1>2. \A c \in Callers : requests[c] # None => Waits(c)
  BY DEF IInv, Core, Paired
<1>3. ASSUME NEW p \in Pages
      PROVE  /\ box[p] \in Texts \cup {None}
             /\ post[p] # None => post[p][1] = p /\ requests[post[p]] # None
             /\ poll[p] # None => poll[p][1] = p /\ requests[poll[p]] # None
             /\ lastMessageId[p] \in {"string", "number"} \X Nat
             /\ shown[p] \in Seq(DOMAIN log)
             /\ adhoc[p] \in Seq(Texts)
  <2>1. shown[p] \in Seq(Nat) /\ log \in Seq(Rows)
    BY <1>0 DEF Typed
  <2>2. \A k \in 1..Len(shown[p]) : shown[p][k] \in DOMAIN log
    <3>1. Listed(shown[p], 0)
      BY <1>0, Zenon DEF Core, Polled, PolledAt
    <3>2. Len(shown[p]) \in Nat /\ Len(log) \in Nat /\ DOMAIN log = 1..Len(log)
      BY <2>1
    <3> QED  BY <2>1, <3>1, <3>2 DEF Listed, Following
  <2>3. shown[p] \in Seq(DOMAIN log)
    BY <2>1, <2>2
  <2>4. /\ post[p] # None => post[p][1] = p /\ requests[post[p]] # None
        /\ poll[p] # None => poll[p][1] = p /\ requests[poll[p]] # None
    BY <1>0, WaitedFor
  <2> QED  BY <1>0, <2>3, <2>4 DEF Typed, Ids
<1>4. broken \in [Texts -> 0..MaxFaults * Cardinality(Pages)]
  <2>1. Cardinality(Pages) \in Nat
    BY PagesAssumption, FS_CardinalityType
  <2>2. faults \in Nat /\ MaxFaults \in Nat /\ faults <= MaxFaults
    BY <1>0, BoundsAssumption DEF Typed
  <2>3. faults * Cardinality(Pages) \in Nat /\ MaxFaults * Cardinality(Pages) \in Nat
        /\ faults * Cardinality(Pages) <= MaxFaults * Cardinality(Pages)
    BY <2>1, <2>2, Multiples
  <2>4. \A m \in Texts : broken[m] <= faults * Cardinality(Pages)
    BY DEF IInv, Bounded
  <2>5. broken \in [Texts -> Nat]
    BY <1>0 DEF Typed
  <2> QED  BY <2>3, <2>4, <2>5
<1> QED  BY <1>0, <1>1, <1>2, <1>3, <1>4 DEF TypeOK, Typed, Waits

\* The state has its type: a page waits for at most one post and one poll of its own.
THEOREM TypeCorrect == Spec => []TypeOK
BY Invariance, InvTypeOK, PTL

\* the pages' lists,
LEMMA InvShown ==
  ASSUME IInv
  PROVE  ShownOnceInOrder
<1> SUFFICES ASSUME NEW p \in Pages PROVE shown[p] = FirstIds(Len(shown[p]))
  BY DEF ShownOnceInOrder
<1>1. shown[p] \in Seq(Nat)
  BY DEF IInv, Core, Typed
<1>2. \A k \in 1..Len(shown[p]) : shown[p][k] = k
  <2>1. Following(shown[p], 0)
    BY DEF IInv, Core, Polled, PolledAt, Listed
  <2> QED  BY <1>1, <2>1 DEF Following
<1> QED  BY <1>1, <1>2, SMTT(40) DEF FirstIds

\* A page lists the messages of the table in their order, each once and none left out.
THEOREM ShownOnceInOrderHolds == Spec => []ShownOnceInOrder
BY Invariance, InvShown, PTL

\* the number of copies,
LEMMA InvStoredTwice ==
  ASSUME IInv
  PROVE  StoredTwiceNeedsLostAnswer
<1> SUFFICES ASSUME NEW m \in 1..Len(Kind)
             PROVE  Cardinality({i \in DOMAIN log : TextOf(log[i]) = m}) <= 1 + broken[m]
  BY DEF StoredTwiceNeedsLostAnswer
<1>1. Typed /\ Spent(m) <= 1 + broken[m]
  BY DEF IInv, Core, Counted
<1>2. m \in Texts /\ broken[m] \in Nat
  <2>1. m \in Texts
    BY KindAssumption DEF Texts
  <2> QED  BY <1>1, <2>1 DEF Typed
<1>3. Cardinality(Stored(m)) \in Nat /\ Cardinality(Pending(m)) \in Nat
  BY <1>1, SpentType
<1>4. Cardinality(Stored(m)) <= 1 + broken[m]
  BY <1>1, <1>2, <1>3 DEF Spent
<1> QED  BY <1>4 DEF Stored

\* A text is stored more than once only when posts of it ended without an answer.
THEOREM StoredTwiceNeedsLostAnswerHolds == Spec => []StoredTwiceNeedsLostAnswer
BY Invariance, InvStoredTwice, PTL

\* and what a step takes out of a box or previews.
LEMMA StepErases ==
  ASSUME IInv, IInv', [Next]_vars, NEW p \in Pages
  PROVE  /\ \A k \in 1..Len(adhoc'[p]) : Row(adhoc'[p][k]) \in ToSet(log)
         /\ box[p] # None /\ box'[p] = None =>
              Row(box[p]) \in ToSet(log) \/ box[p] # requests[post[p]].arg
<1>0. /\ Core
      /\ Has(post[p], TRUE) => Row(requests[post[p]].arg) \in ToSet(log)
      /\ \A k \in 1..Len(adhoc[p]) : Row(adhoc[p][k]) \in ToSet(log)
  BY DEF IInv, Accepted
<1>1. CASE UNCHANGED vars
  <2>1. UNCHANGED <<box, adhoc>>
    BY <1>1 DEF vars, page
  <2> QED  BY <1>0, <2>1
<1>2. CASE Next
  <2>1. Step
    BY <1>0, <1>2, StepIs
  <2>2. CASE Calm
    <3>1. \A k \in 1..Len(adhoc'[p]) : Row(adhoc'[p][k]) \in ToSet(log)
      <4>1. Accepted' /\ log' = log
        BY <2>2 DEF IInv, Calm
      <4> QED  BY <4>1 DEF Accepted
    <3>2. box[p] # None /\ box'[p] = None => Has(post[p], TRUE)
      BY <2>2 DEF Calm
    <3> QED  BY <1>0, <3>1, <3>2
  <2>3. ASSUME NEW q \in Pages, Type(q)
        PROVE  adhoc' = adhoc /\ (box[p] # None => box'[p] # None)
    <3>1. adhoc' = adhoc /\ box' = [box EXCEPT ![q] = typed + 1] /\ box \in [Pages -> Texts \cup {None}]
      BY <1>0, <2>3 DEF Type, Core, Typed
    <3>2. typed + 1 # None
      <4>1. typed \in 0..Len(Kind) /\ typed < Len(Kind) /\ Len(Kind) \in Nat
        BY <1>0, <2>3, KindAssumption DEF Type, Core, Typed
      <4>2. typed + 1 \in Texts
        BY <4>1 DEF Texts
      <4> QED  BY <4>2, RequestIs
    <3> QED  BY <3>1, <3>2
  <2>4. ASSUME NEW q \in Pages, NEW c \in Callers, Submits(q, c)
        PROVE  adhoc' = adhoc /\ box' = box
    BY <2>4 DEF Submits
  <2>5. ASSUME NEW c \in Callers, NEW ok \in BOOLEAN, Stores(c, ok)
        PROVE  adhoc' = adhoc /\ box' = box
    BY <2>5 DEF Stores, Serves
  <2> QED  BY <1>0, <2>1, <2>2, <2>3, <2>4, <2>5, CalmIs
<1> QED  BY <1>1, <1>2

\* What a page previews, and what it takes out of the text box, has been stored, as
\* it was typed unless sendMessage.lua alters it; only a text typed while the post
\* was under way may be lost.
THEOREM ErasedWasStoredHolds == Spec => ErasedWasStored
<1> DEFINE A == \A p \in Pages :
                  /\ \A k \in 1..Len(adhoc'[p]) : Row(adhoc'[p][k]) \in ToSet(log)
                  /\ box[p] # None /\ box'[p] = None =>
                       Row(box[p]) \in ToSet(log) \/ box[p] # requests[post[p]].arg
<1>1. IInv /\ IInv' /\ [Next]_vars => A
  BY StepErases
<1>2. IInv /\ IInv' /\ [Next]_vars => [A]_vars
  BY <1>1
<1> HIDE DEF A
<1>3. Spec => [][A]_vars
  BY Invariance, <1>2, PTL DEF Spec
<1> QED  BY <1>3 DEF ErasedWasStored, A
=============================================================================
