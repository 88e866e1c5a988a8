------------------------------ MODULE SqlQuery ------------------------------
(* jluaf_sqlQuery (jorgeLua.cpp), called by the scripts of concurrent       *)
(* requests: every call opens a connection of its own to jorge.db, prepares*)
(* and steps one statement, and gives everything back.  No busy timeout is *)
(* set, so a lock another call holds is an error at once.                  *)
(*                                                                         *)
(* SQLite is a library: its rollback-journal locks are modelled as far as  *)
(* calls meet in them (shared, reserved, pending, exclusive), and the rows *)
(* of the table `messages' by their ids.  Values and types of columns, and *)
(* the Lua tables they are put into, are left out.                         *)
EXTENDS Naturals, Sequences

CONSTANTS
  Callers,  \* the requests whose scripts call sqlQuery
  Texts,    \* what INSERTs may store
  Limit,    \* the LIMIT of SELECTs
  MaxLog,   \* a bound: INSERTs are asked for while the table has fewer rows
  None

Firsts == {0, 2}
Asks ==
  {[op |-> "insert", text |-> m] : m \in Texts} \cup {[op |-> "select", from |-> i] : i \in Firsts}
    \cup {[op |-> "bad"], [op |-> "missing"]}
Answers == [err : BOOLEAN, rows : Seq(Nat)]

ASSUME LimitAssumption == Limit \in Nat \ {0} /\ MaxLog \in Nat
ASSUME NoneAssumption ==
  None \notin Answers \cup [query : Asks, answer : Answers \cup {None}] \cup {"row", "done", "error"}

VARIABLES
  log,       \* the rows of `messages'
  lock,      \* what each caller's connection holds of the database file
  pc,
  query,     \* the argument
  result,    \* what sqlite3_step returned last: "row", "done", "error"
  rows,      \* the table `data' that is returned
  err,       \* whether an error message is returned
  held,      \* what this call has and must give back: "copy", "db", "statement"
  kept,      \* history: <<place, what>> for everything a return did not give back
  troubled   \* history: the call met another one, or a failing disk

locals == <<query, result, rows, err, held>>
vars   == <<log, lock, pc, locals, kept, troubled>>

Queries == {q \in Asks : q.op = "insert" => Len(log) < MaxLog}

Init ==
  /\ log = <<>>
  /\ lock = [c \in Callers |-> "none"]
  /\ pc = [c \in Callers |-> "idle"]
  /\ query = [c \in Callers |-> None] /\ result = [c \in Callers |-> None]
  /\ rows = [c \in Callers |-> <<>>] /\ err = [c \in Callers |-> FALSE]
  /\ held = [c \in Callers |-> {}]
  /\ kept = {} /\ troubled = [c \in Callers |-> FALSE]

Goto(c, to)   == pc' = [pc EXCEPT ![c] = to]
Trouble(c)    == troubled' = [troubled EXCEPT ![c] = TRUE]
Others(c, ls) == \E d \in Callers \ {c} : lock[d] \in ls

-----------------------------------------------------------------------------
(* The call begins: a query that is no string is refused, a string is       *)
(* copied; the database is opened, and the statement compiled against the  *)
(* table's definition, which is read from the file.                        *)

Call(c) ==
  /\ pc[c] = "idle"
  /\ \E q \in Queries : query' = [query EXCEPT ![c] = q]
  /\ Goto(c, "begin")
  /\ LET busy == {d \in Callers \ {c} : pc[d] # "idle"}
     IN  troubled' = [d \in Callers |-> IF d = c THEN busy # {} ELSE d \in busy \/ troubled[d]]
  /\ UNCHANGED <<log, lock, result, rows, err, held, kept>>

Begin(c) ==
  /\ pc[c] = "begin"
  /\ IF query[c].op = "missing"
     THEN Goto(c, "returned") /\ err' = [err EXCEPT ![c] = TRUE] /\ UNCHANGED held
     ELSE Goto(c, "open") /\ held' = [held EXCEPT ![c] = {"copy"}] /\ UNCHANGED err
  /\ UNCHANGED <<log, lock, query, result, rows, kept, troubled>>

\* The early return of a failed open gives back neither the copy nor the handle.
Open(c) ==
  /\ pc[c] = "open"
  /\ \/ /\ held' = [held EXCEPT ![c] = @ \cup {"db"}]
        /\ Goto(c, "prepare")
        /\ UNCHANGED <<err, kept, troubled>>
     \/ /\ held' = [held EXCEPT ![c] = {}]
        /\ kept' = kept \cup {<<"open", "copy">>, <<"open", "db">>}
        /\ err' = [err EXCEPT ![c] = TRUE]
        /\ Goto(c, "returned")
        /\ Trouble(c)
  /\ UNCHANGED <<log, lock, query, result, rows>>

\* sqlite3_prepare_v2, whose result is not looked at: without a statement the
\* first sqlite3_step is the error.
Prepare(c) ==
  /\ pc[c] = "prepare"
  /\ IF query[c].op = "bad" \/ Others(c, {"pending", "exclusive"})
     THEN /\ result' = [result EXCEPT ![c] = "error"]
          /\ Goto(c, "loop")
          /\ UNCHANGED held
     ELSE /\ held' = [held EXCEPT ![c] = @ \cup {"statement"}]
          /\ Goto(c, "step")
          /\ UNCHANGED result
  /\ UNCHANGED <<log, lock, query, rows, err, kept, troubled>>

-----------------------------------------------------------------------------
(* sqlite3_step: SQLite takes its locks one by one.  What it cannot have,  *)
(* and what the disk refuses, ends the statement and gives up its locks.   *)

Stepping(c, op, l) == pc[c] = "step" /\ query[c].op = op /\ lock[c] = l

StepFails(c) ==
  /\ lock' = [lock EXCEPT ![c] = "none"]
  /\ result' = [result EXCEPT ![c] = "error"]
  /\ Goto(c, "loop")
  /\ UNCHANGED log

Raise(c, from, to, blockers) ==
  /\ pc[c] = "step" /\ lock[c] = from
  /\ IF Others(c, blockers) THEN StepFails(c)
     ELSE lock' = [lock EXCEPT ![c] = to] /\ UNCHANGED <<log, pc, result>>

Share(c) == Raise(c, "none", "shared", {"pending", "exclusive"})

Write(c) ==
  \/ Stepping(c, "insert", "shared") /\ Raise(c, "shared", "reserved", {"reserved", "pending", "exclusive"})
  \/ Raise(c, "reserved", "pending", {})
  \/ Raise(c, "pending", "exclusive", {"shared"})

StepEnds(c) ==
  /\ lock' = [lock EXCEPT ![c] = "none"]
  /\ result' = [result EXCEPT ![c] = "done"]
  /\ Goto(c, "loop")

Commit(c) ==
  /\ Stepping(c, "insert", "exclusive")
  /\ log' = Append(log, query[c].text)
  /\ StepEnds(c)

Found(c) == Len(rows[c]) + (IF query[c].from = 0 THEN 1 ELSE query[c].from)

Fetch(c) ==
  /\ Stepping(c, "select", "shared")
  /\ IF Len(rows[c]) < Limit /\ Found(c) <= Len(log)
     THEN /\ result' = [result EXCEPT ![c] = "row"]
          /\ Goto(c, "loop")
          /\ UNCHANGED lock
     ELSE StepEnds(c)
  /\ UNCHANGED log

Step(c) ==
  /\ Share(c) \/ Write(c) \/ Commit(c) \/ Fetch(c)
  /\ UNCHANGED <<query, rows, err, held, kept, troubled>>

DiskFails(c) ==
  /\ pc[c] = "step"
  /\ StepFails(c) /\ Trouble(c)
  /\ UNCHANGED <<query, rows, err, held, kept>>

-----------------------------------------------------------------------------
(* The loop over the rows, and the end. *)

\* Mutant: an error is recorded, the loop goes on.
LoopWithoutBreak(c) ==
  /\ pc[c] = "loop"
  /\ err' = [err EXCEPT ![c] = (result[c] = "error")]
  /\ CASE result[c] = "row"   -> rows' = [rows EXCEPT ![c] = Append(@, Found(c))] /\ Goto(c, "step")
       [] result[c] = "done"  -> UNCHANGED rows /\ Goto(c, "end")
       [] result[c] = "error" -> UNCHANGED <<rows, pc>>
  /\ UNCHANGED <<log, lock, query, result, held, kept, troubled>>

\* Mutant: the loop runs while there are rows, and what ends it is not looked at.
LoopWhileRow(c) ==
  /\ pc[c] = "loop"
  /\ IF result[c] = "row" THEN rows' = [rows EXCEPT ![c] = Append(@, Found(c))] /\ Goto(c, "step")
     ELSE UNCHANGED rows /\ Goto(c, "end")
  /\ UNCHANGED <<log, lock, query, result, err, held, kept, troubled>>

\* Mutant: the function returns with the first row it finds.
LoopReturnsRow(c) ==
  /\ pc[c] = "loop"
  /\ IF result[c] = "row"
     THEN rows' = [rows EXCEPT ![c] = Append(@, Found(c))] /\ Goto(c, "returned") /\ UNCHANGED err
     ELSE Goto(c, "end") /\ err' = [err EXCEPT ![c] = (result[c] = "error")] /\ UNCHANGED rows
  /\ UNCHANGED <<log, lock, query, result, held, kept, troubled>>

Loop(c) ==
  /\ pc[c] = "loop"
  /\ \/ /\ result[c] = "row"
        /\ rows' = [rows EXCEPT ![c] = Append(@, Found(c))]
        /\ Goto(c, "step")
        /\ UNCHANGED err
     \/ /\ result[c] = "done"
        /\ Goto(c, "end")
        /\ UNCHANGED <<rows, err>>
     \/ /\ result[c] = "error"
        /\ err' = [err EXCEPT ![c] = TRUE]
        /\ Goto(c, "end")
        /\ UNCHANGED rows
  /\ UNCHANGED <<log, lock, query, result, held, kept, troubled>>

\* Mutant: after an error the statement and the database are left as they are.
EndIfFine(c) ==
  /\ pc[c] = "end"
  /\ held' = [held EXCEPT ![c] = {}]
  /\ kept' = IF err[c] THEN kept \cup {<<"end", h>> : h \in held[c] \ {"copy"}} ELSE kept
  /\ Goto(c, "returned")
  /\ UNCHANGED <<log, lock, query, result, rows, err, troubled>>

\* sqlite3_finalize, sqlite3_close, free, return.
End(c) ==
  /\ pc[c] = "end"
  /\ lock' = [lock EXCEPT ![c] = "none"]
  /\ held' = [held EXCEPT ![c] = {}]
  /\ Goto(c, "returned")
  /\ UNCHANGED <<log, query, result, rows, err, kept, troubled>>

\* The script goes on; what the call still has is lost.
Resume(c) ==
  /\ pc[c] = "returned"
  /\ kept' = kept \cup {<<"end", h>> : h \in held[c]}
  /\ held' = [held EXCEPT ![c] = {}]
  /\ Goto(c, "idle")
  /\ query' = [query EXCEPT ![c] = None] /\ result' = [result EXCEPT ![c] = None]
  /\ rows' = [rows EXCEPT ![c] = <<>>] /\ err' = [err EXCEPT ![c] = FALSE]
  /\ troubled' = [troubled EXCEPT ![c] = FALSE]
  /\ UNCHANGED <<log, lock>>

Progress(c) == Begin(c) \/ Open(c) \/ Prepare(c) \/ Step(c) \/ DiskFails(c) \/ Loop(c) \/ End(c) \/ Resume(c)
Next        == \E c \in Callers : Call(c) \/ Progress(c)

Spec     == Init /\ [][Next]_vars
FairSpec == Spec /\ \A c \in Callers : WF_vars(Progress(c))

-----------------------------------------------------------------------------
(* Properties *)

\* A lock is held by a call that has a statement, and the locks are as SQLite
\* grants them: one writer, and no reader beside a commit.
TypeOK ==
  /\ log \in Seq(Texts)
  /\ \A c \in Callers :
       /\ lock[c] \in {"none", "shared", "reserved", "pending", "exclusive"}
       /\ lock[c] # "none" => "statement" \in held[c]
       /\ lock[c] \in {"reserved", "pending", "exclusive"} => ~Others(c, {"reserved", "pending", "exclusive"})
       /\ lock[c] = "exclusive" => ~Others(c, {"shared"})
       /\ pc[c] \in {"idle", "begin", "open", "prepare", "step", "loop", "end", "returned"}
       /\ result[c] \in {None, "row", "done", "error"} /\ err[c] \in BOOLEAN
       /\ rows[c] \in Seq(1..Len(log)) /\ Len(rows[c]) <= Limit
       /\ held[c] \subseteq {"copy", "db", "statement"}

\* A call leaves nothing behind, on every path but that of a failed open.
OnlyFailedOpenKeeps == \A k \in kept : k[1] = "open"

\* A call that met no other call and no failing disk is refused only for its
\* query: no call leaves a lock to the ones after it.
AloneNotRefused ==
  \A c \in Callers :
    pc[c] = "returned" /\ err[c] /\ ~troubled[c] => query[c].op \in {"bad", "missing"}

\* Every call returns: where two calls want the same lock one gives up, so no
\* call waits for another.
CallsReturn == \A c \in Callers : pc[c] # "idle" ~> pc[c] = "returned"

\* sqlQuery implements MessageLog: between its call and its return a call takes
\* effect once, at one moment, if it returns no error, and not at all otherwise.
Outcome(c) ==
  IF pc[c] = "returned" THEN [err |-> err[c], rows |-> IF err[c] THEN <<>> ELSE rows[c]]
  ELSE IF result[c] = "done" THEN [err |-> FALSE, rows |-> rows[c]]
  ELSE IF result[c] = "error" THEN [err |-> TRUE, rows |-> <<>>] ELSE None
Log == INSTANCE MessageLog WITH
  Old  <- <<>>,
  call <- [c \in Callers |->
             IF pc[c] = "idle" THEN None ELSE [query |-> query[c], answer |-> Outcome(c)]]
AtomicCalls == Log!Spec
=============================================================================
