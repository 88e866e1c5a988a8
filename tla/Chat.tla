-------------------------------- MODULE Chat --------------------------------
(* The chat: the pages that index.lua sends to browsers, the requests they *)
(* make, the scripts sendMessage.lua and getMessages.lua that answer them, *)
(* and the table `messages' as sqlQuery offers it: SqlQuery implements     *)
(* MessageLog, so that a call is one step here, and each script makes at   *)
(* most one, so that a script is one step as well.                         *)
(*                                                                         *)
(* A text is a number; its kind is what the program makes of it:           *)
(*   plain    it is stored as it was typed, and listed so;                 *)
(*   quote    it is stored as it was typed, and with its quotation mark or *)
(*            backslash the rows it is among are no JSON;                  *)
(*   altered  another text is stored, and the post is answered like any    *)
(*            other: the body is decoded before it is split, so that what  *)
(*            follows an & or = is lost; gsub takes % in its replacement   *)
(*            for an escape, and $sender for the sender's name; SQL takes  *)
(*            two apostrophes for one; control characters are left out;    *)
(*   invalid  the statement or the script fails: one apostrophe, a % at    *)
(*            the end or before one of the digits 2 to 9;                  *)
(*   blank    nothing is left for the form's pattern: no text, or one that *)
(*            begins with & or =.                                          *)
(* Left out are texts of two kinds at once, texts that make a statement of *)
(* another shape, and what the sender's name does: it is plain.            *)
(* An answer reaches the request it is for: what overlapping requests do   *)
(* to each other's answers is JorgeLua's.                                  *)
EXTENDS Naturals, Sequences, FiniteSets, SequencesExt

CONSTANTS
  Pages,      \* open pages
  Writers,    \* those of them whose users type
  Kind,       \* the kinds of the texts that users type, in the order they do
  Limit,      \* the LIMIT of getMessages.lua's SELECT
  OldLen,     \* how many messages the table holds at the start
  MaxPosts,   \* a bound: how often users submit
  MaxFaults,  \* a bound: how often a connection breaks, sqlQuery refuses, the server dies
  None

ASSUME KindAssumption ==
  Kind \in Seq({"plain", "quote", "altered", "invalid", "blank"})
ASSUME BoundsAssumption ==
  Limit \in Nat \ {0} /\ OldLen \in Nat /\ MaxPosts \in Nat /\ MaxFaults \in Nat

ASSUME PagesAssumption == IsFiniteSet(Pages)

Texts == 0..Len(Kind)            \* 0 is the text of every old message
Rows  == 0..2 * Len(Kind)        \* what may be in the table
KindOf(m) == IF m \in 1..Len(Kind) THEN Kind[m] ELSE "plain"

\* What is stored of a text, and what text is stored so: of an altered one a row
\* that nobody typed.
Row(m)    == IF KindOf(m) = "altered" THEN m + Len(Kind) ELSE m
TextOf(r) == IF r > Len(Kind) THEN r - Len(Kind) ELSE r

Old   == [i \in 1..OldLen |-> 0]

VARIABLES
  log,         \* the table
  requests,    \* what is under way: whose page it is (None if the page waits no
               \* more), its argument and its answer
  box,         \* what each page's text box holds
  post, poll,  \* the request each page waits for
  lastMessageId,
  shown,       \* the ids of the messages each page lists
  adhoc,       \* the previews below them
  typed, posts, faults,
  broken       \* history: per text, how many posts of it ended without an answer

page == <<box, post, poll, lastMessageId, shown, adhoc>>
vars == <<log, requests, page, typed, posts, faults, broken>>

\* A page's requests: it waits for one of a kind, and others may be under way
\* whose connection broke.
Callers == Pages \X {"post", "poll"} \X (0..MaxFaults)
Log     == INSTANCE MessageLog WITH Texts <- Rows, call <- requests, Firsts <- Nat

Answers  == [ok : BOOLEAN, rows : Seq(Nat)]
Requests == [page : Pages \cup {None}, arg : Nat, answer : Answers \cup {None}]

ASSUME NoneAssumption == None \notin Pages \cup Texts \cup Callers \cup Answers \cup Requests

Ask(p, op, arg, c) ==
  /\ LET free == {k \in 0..MaxFaults : requests[<<p, op, k>>] = None}
     IN  free # {} /\ c = <<p, op, Min(free)>>
  /\ requests' = [requests EXCEPT ![c] = [page |-> p, arg |-> arg, answer |-> None]]

Init ==
  /\ log = Old
  /\ requests = [c \in Callers |-> None]
  /\ box = [p \in Pages |-> None] /\ post = [p \in Pages |-> None] /\ poll = [p \in Pages |-> None]
  /\ lastMessageId = [p \in Pages |-> <<"number", 0>>]
  /\ shown = [p \in Pages |-> <<>>] /\ adhoc = [p \in Pages |-> <<>>]
  /\ typed = 0 /\ posts = 0 /\ faults = 0 /\ broken = [m \in Texts |-> 0]

-----------------------------------------------------------------------------
(* JavaScript's values: ids come as strings or as numbers.                  *)

\* The order of two numbers' strings: the shorter is filled up, and of two that
\* are then the same it comes first.
Digits(n) == CHOOSE w \in 1..n + 1 : n < 10^w /\ (w > 1 => 10^(w - 1) <= n)
Alphabetical(m, n) ==
  LET a == m * 10^Digits(n)
      b == n * 10^Digits(m)
  IN  a < b \/ (a = b /\ m < n)

Less(a, b) == IF a[1] = "string" /\ b[1] = "string" THEN Alphabetical(a[2], b[2])
              ELSE a[2] < b[2]

PlusOne(a) == IF a[1] = "string" THEN 10 * a[2] + 1 ELSE a[2] + 1

-----------------------------------------------------------------------------
(* The user, and the page's two requests.                                  *)

\* The box may be changed while a post is under way.
Type(p) ==
  /\ p \in Writers /\ typed < Len(Kind)
  /\ typed' = typed + 1
  /\ box' = [box EXCEPT ![p] = typed']
  /\ UNCHANGED <<log, requests, post, poll, lastMessageId, shown, adhoc, posts, faults, broken>>

\* Mutant: the button stays enabled.
SubmitAgain(p) ==
  /\ box[p] # None /\ posts < MaxPosts
  /\ \E c \in Callers : Ask(p, "post", box[p], c) /\ post' = [post EXCEPT ![p] = c]
  /\ posts' = posts + 1
  /\ UNCHANGED <<log, box, poll, lastMessageId, shown, adhoc, typed, faults, broken>>

\* The button is disabled while a post is under way.
Submit(p) ==
  /\ box[p] # None /\ post[p] = None /\ posts < MaxPosts
  /\ \E c \in Callers : Ask(p, "post", box[p], c) /\ post' = [post EXCEPT ![p] = c]
  /\ posts' = posts + 1
  /\ UNCHANGED <<log, box, poll, lastMessageId, shown, adhoc, typed, faults, broken>>

\* Mutant: the page asks for the messages from the last one it has.
UpdatesFromLast(p) ==
  /\ poll[p] = None
  /\ \E c \in Callers : Ask(p, "poll", lastMessageId[p][2], c) /\ poll' = [poll EXCEPT ![p] = c]
  /\ UNCHANGED <<log, box, post, lastMessageId, shown, adhoc, typed, posts, faults, broken>>

\* One second after the last poll has ended, in whichever way.
Updates(p) ==
  /\ poll[p] = None
  /\ \E c \in Callers : Ask(p, "poll", PlusOne(lastMessageId[p]), c) /\ poll' = [poll EXCEPT ![p] = c]
  /\ UNCHANGED <<log, box, post, lastMessageId, shown, adhoc, typed, posts, faults, broken>>

-----------------------------------------------------------------------------
(* The scripts, and sqlQuery.                                              *)

Fault == faults < MaxFaults /\ faults' = faults + 1

\* Nobody waits for the answer of a request whose connection broke.
Respond(c, ok, rows) ==
  requests' = [requests EXCEPT ![c] = IF @.page = None THEN None
                                      ELSE [@ EXCEPT !.answer = [ok |-> ok, rows |-> rows]]]

Refused(c) == Respond(c, FALSE, <<>>) /\ UNCHANGED log

\* Mutant: what sqlQuery returns besides the rows is not looked at.
SendMessageAnyway(c) ==
  LET m == requests[c].arg
  IN  \/ KindOf(m) = "blank" /\ Refused(c) /\ UNCHANGED faults
      \/ KindOf(m) = "invalid" /\ Respond(c, TRUE, <<>>) /\ UNCHANGED <<log, faults>>
      \/ /\ KindOf(m) \in {"plain", "quote", "altered"}
         /\ log' = Append(log, Row(m)) /\ Respond(c, TRUE, <<>>)
         /\ UNCHANGED faults

\* A text that leaves no value in the body or breaks the statement is answered
\* with an error; sqlQuery stores what the others have become, or refuses them
\* for reasons of its own.
SendMessage(c) ==
  LET m == requests[c].arg
  IN  \/ KindOf(m) \in {"blank", "invalid"} /\ Refused(c) /\ UNCHANGED faults
      \/ /\ KindOf(m) \in {"plain", "quote", "altered"}
         /\ log' = Append(log, Row(m)) /\ Respond(c, TRUE, <<>>)
         /\ UNCHANGED faults
      \/ KindOf(m) \in {"plain", "quote", "altered"} /\ Refused(c) /\ Fault

GetMessages(c) ==
  \/ Respond(c, TRUE, Log!RowsFrom(requests[c].arg)) /\ UNCHANGED <<log, faults>>
  \/ Refused(c) /\ Fault

Script(c) ==
  /\ requests[c] # None /\ requests[c].answer = None
  /\ c[2] = "post" => SendMessage(c)
  /\ c[2] = "poll" => GetMessages(c)
  /\ UNCHANGED <<page, typed, posts, broken>>

-----------------------------------------------------------------------------
(* The answers.                                                            *)

Has(c, ok) == /\ c # None /\ requests[c].answer # None
                 /\ requests[c].answer.ok = ok

\* Mutant: all ids are in quotes.
IdQuoted(rows, k) == <<"string", rows[k]>>

\* getMessages.lua writes the ids of all rows but the last in quotes.
IdOf(rows, k) == <<IF k < Len(rows) THEN "string" ELSE "number", rows[k]>>

\* lastMessageId after the loop over the rows.
Latest(id, rows) ==
  LET after[k \in 0..Len(rows)] ==
        IF k = 0 THEN id
        ELSE LET last == after[k - 1] IN IF Less(last, IdOf(rows, k)) THEN IdOf(rows, k) ELSE last
  IN  after[Len(rows)]

\* The texts are put between quotes as they are.
Parsable(rows) == \A k \in 1..Len(rows) : KindOf(log[rows[k]]) # "quote"

End(c) == requests' = [requests EXCEPT ![c] = None] /\ UNCHANGED <<log, typed, posts>>

\* Mutant: a stored text stays in the box.
PostDoneKeeps(p) ==
  /\ Has(post[p], TRUE)
  /\ End(post[p])
  /\ adhoc' = [adhoc EXCEPT ![p] = Append(@, requests[post[p]].arg)]
  /\ post' = [post EXCEPT ![p] = None]
  /\ UNCHANGED <<box, poll, lastMessageId, shown, faults, broken>>

\* The box is emptied, whatever it holds now.
PostDone(p) ==
  /\ Has(post[p], TRUE)
  /\ End(post[p])
  /\ box' = [box EXCEPT ![p] = None]
  /\ adhoc' = [adhoc EXCEPT ![p] = Append(@, requests[post[p]].arg)]
  /\ post' = [post EXCEPT ![p] = None]
  /\ UNCHANGED <<poll, lastMessageId, shown, faults, broken>>

PostFails(p) ==
  /\ Has(post[p], FALSE)
  /\ End(post[p])
  /\ post' = [post EXCEPT ![p] = None]
  /\ UNCHANGED <<box, poll, lastMessageId, shown, adhoc, faults, broken>>

PollDone(p) ==
  /\ Has(poll[p], TRUE)
  /\ LET rows == requests[poll[p]].answer.rows
     IN  /\ Parsable(rows)
         /\ shown' = [shown EXCEPT ![p] = @ \o rows]
         /\ lastMessageId' = [lastMessageId EXCEPT ![p] = Latest(@, rows)]
  /\ End(poll[p])
  /\ adhoc' = [adhoc EXCEPT ![p] = <<>>]
  /\ poll' = [poll EXCEPT ![p] = None]
  /\ UNCHANGED <<box, post, faults, broken>>

PollFails(p) ==
  /\ \/ Has(poll[p], FALSE)
     \/ Has(poll[p], TRUE) /\ ~Parsable(requests[poll[p]].answer.rows)
  /\ End(poll[p])
  /\ poll' = [poll EXCEPT ![p] = None]
  /\ UNCHANGED <<box, post, lastMessageId, shown, adhoc, faults, broken>>

Posting(p) == \/ PostDone(p) \/ PostFails(p)
              \/ \E k \in 0..MaxFaults : Script(<<p, "post", k>>)
Polling(p) == \/ Updates(p) \/ PollDone(p) \/ PollFails(p)
              \/ \E k \in 0..MaxFaults : Script(<<p, "poll", k>>)

-----------------------------------------------------------------------------
(* Faults.  The pages' fail handlers run: the button is enabled again and  *)
(* the next poll is due.                                                   *)

\* A connection breaks before its request has come, while the server works on it,
\* which goes on, or under the answer.
Break(p, c) ==
  /\ c # None /\ Fault
  /\ \/ requests' = [requests EXCEPT ![c] = None]
     \/ /\ requests[c].answer = None
        /\ requests' = [requests EXCEPT ![c].page = None]
  /\ post' = [q \in Pages |-> IF post[q] = c THEN None ELSE post[q]]
  /\ poll' = [q \in Pages |-> IF poll[q] = c THEN None ELSE poll[q]]
  /\ broken' = IF c[2] = "post" THEN [broken EXCEPT ![requests[c].arg] = @ + 1] ELSE broken
  /\ UNCHANGED <<log, box, lastMessageId, shown, adhoc, typed, posts>>

\* The server dies and is started again: what was not committed is gone.
Crash ==
  /\ Fault
  /\ \E c \in Callers : requests[c] # None
  /\ requests' = [c \in Callers |-> None]
  /\ broken' = [m \in Texts |->
       broken[m] + Cardinality({p \in Pages : post[p] # None /\ requests[post[p]].arg = m})]
  /\ post' = [p \in Pages |-> None] /\ poll' = [p \in Pages |-> None]
  /\ UNCHANGED <<log, box, lastMessageId, shown, adhoc, typed, posts>>

-----------------------------------------------------------------------------
Next ==
  \/ \E p \in Pages : \/ Type(p) \/ Submit(p) \/ Posting(p) \/ Polling(p)
                       \/ Break(p, post[p]) \/ Break(p, poll[p])
  \/ Crash

Spec     == Init /\ [][Next]_vars
FairSpec == Spec /\ \A p \in Pages : WF_vars(Posting(p)) /\ WF_vars(Polling(p))

-----------------------------------------------------------------------------
(* Properties *)

\* A page waits for at most one post and one poll of its own, and every other
\* request is one whose connection broke.
TypeOK ==
  /\ log \in Seq(Rows) /\ IsPrefix(Old, log)
  /\ \A c \in Callers :
       requests[c] # None =>
         /\ requests[c].page \in {c[1], None}
         /\ requests[c].page = None => requests[c].answer = None
         /\ requests[c].page # None <=> c \in {post[c[1]], poll[c[1]]}
  /\ \A p \in Pages :
       /\ box[p] \in Texts \cup {None}
       /\ post[p] # None => post[p][1] = p /\ requests[post[p]] # None
       /\ poll[p] # None => poll[p][1] = p /\ requests[poll[p]] # None
       /\ lastMessageId[p] \in {"string", "number"} \X Nat
       /\ shown[p] \in Seq(DOMAIN log)
       /\ adhoc[p] \in Seq(Texts)
  /\ typed \in 0..Len(Kind) /\ posts \in 0..MaxPosts /\ faults \in 0..MaxFaults
  /\ broken \in [Texts -> 0..MaxFaults * Cardinality(Pages)]

FirstIds(n) == [k \in 1..n |-> k]

\* A page lists the messages in the order of the table, each once and none
\* left out, whatever polls fail or come back late.
ShownOnceInOrder == \A p \in Pages : shown[p] = FirstIds(Len(shown[p]))

\* What a page previews, and what it takes out of the text box, has been
\* stored, as it was typed unless sendMessage.lua alters it; only a text typed
\* while the post was under way may be lost.
ErasedWasStored ==
  [][\A p \in Pages :
       /\ \A k \in 1..Len(adhoc'[p]) : Row(adhoc'[p][k]) \in ToSet(log)
       /\ box[p] # None /\ box'[p] = None =>
            Row(box[p]) \in ToSet(log) \/ box[p] # requests[post[p]].arg]_vars

\* A text submitted once more than its user wanted, because its answer did
\* not come, is the only one that is stored twice.
StoredTwiceNeedsLostAnswer ==
  \A m \in 1..Len(Kind) : Cardinality({i \in DOMAIN log : TextOf(log[i]) = m}) <= 1 + broken[m]

\* Once users and faults rest, every page lists the whole table and no preview,
\* unless its next poll's rows hold a text that breaks the JSON.
NextRows(p) == Len(shown[p]) + 1 .. Min({Len(shown[p]) + Limit, Len(log)})
Stuck(p)  == \E i \in NextRows(p) : KindOf(log[i]) = "quote"
Settles   == <>[]\A p \in Pages : Stuck(p) \/ (Len(shown[p]) = Len(log) /\ adhoc[p] = <<>>)
=============================================================================
