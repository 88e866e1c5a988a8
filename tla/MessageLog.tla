----------------------------- MODULE MessageLog -----------------------------
(* What sqlQuery promises the chat's scripts: a call takes effect in one   *)
(* step, or is refused and has no effect.  The table is a log, a message's *)
(* id being its place in it: ids are given in order and no row is deleted. *)
EXTENDS Naturals, Sequences

CONSTANTS
  Callers,  \* the requests whose scripts call sqlQuery
  Texts,    \* what may be inserted
  Limit,    \* the LIMIT of getMessages.lua's SELECT
  Firsts,   \* the ids a SELECT may start at
  Old,      \* the log at the start
  None

VARIABLES
  log,   \* the table `messages'
  call   \* each caller's call: its query and its answer, None before it is answered

Insertion(m) == [op |-> "insert", text |-> m]
Selection(i) == [op |-> "select", from |-> i]

\* The rows a SELECT ... WHERE id >= i ORDER BY id LIMIT finds, by their ids.
RowsFrom(i) ==
  LET first == IF i = 0 THEN 1 ELSE i
      last  == IF Len(log) < first + Limit THEN Len(log) ELSE first + Limit - 1
  IN  [k \in 1..(IF last < first THEN 0 ELSE last - first + 1) |-> first + k - 1]

Init == log = Old /\ call = [c \in Callers |-> None]

Ask(c, q) ==
  /\ call[c] = None
  /\ call' = [call EXCEPT ![c] = [query |-> q, answer |-> None]]
  /\ UNCHANGED log

Asked(c)            == call[c] # None /\ call[c].answer = None
Answer(c, err, ids) == call' = [call EXCEPT ![c].answer = [err |-> err, rows |-> ids]]

Insert(c) ==
  /\ Asked(c) /\ call[c].query.op = "insert"
  /\ log' = Append(log, call[c].query.text)
  /\ Answer(c, FALSE, <<>>)

Select(c) ==
  /\ Asked(c) /\ call[c].query.op = "select"
  /\ Answer(c, FALSE, RowsFrom(call[c].query.from))
  /\ UNCHANGED log

Refuse(c) == Asked(c) /\ Answer(c, TRUE, <<>>) /\ UNCHANGED log

Take(c) ==
  /\ call[c] # None /\ call[c].answer # None
  /\ call' = [call EXCEPT ![c] = None]
  /\ UNCHANGED log

Serve(c) == Insert(c) \/ Select(c) \/ Refuse(c)

Next == \E c \in Callers :
          \/ \E m \in Texts : Ask(c, Insertion(m))
          \/ \E i \in Firsts : Ask(c, Selection(i))
          \/ \E o \in {"bad", "missing"} : Ask(c, [op |-> o])
          \/ Serve(c) \/ Take(c)

Spec == Init /\ [][Next]_<<log, call>>
=============================================================================
