--------------------------- MODULE SqlQuery_proofs --------------------------
(* sqlQuery for any number of concurrent calls, any texts and any LIMIT:   *)
(* IInv holds at the start and each step keeps it, and each step is one of *)
(* MessageLog, or one it does not see.                                     *)
EXTENDS SqlQuery, SequenceTheorems, TLAPS

\* The inductive invariant behind TypeOK, OnlyFailedOpenKeeps, AloneNotRefused and
\* AtomicCalls: what a call has, has found and has been told at each place.
Typed ==
  /\ log \in Seq(Texts)
  /\ lock \in [Callers -> {"none", "shared", "reserved", "pending", "exclusive"}]
  /\ pc \in [Callers -> {"idle", "begin", "open", "prepare", "step", "loop", "end", "returned"}]
  /\ query \in [Callers -> Asks \cup {None}]
  /\ result \in [Callers -> {None, "row", "done", "error"}]
  /\ rows \in [Callers -> Seq(Nat)] /\ err \in [Callers -> BOOLEAN]
  /\ held \in [Callers -> SUBSET {"copy", "db", "statement"}] /\ troubled \in [Callers -> BOOLEAN]
Holding(c) ==
  /\ pc[c] \in {"idle", "begin", "returned"} => held[c] = {}
  /\ pc[c] = "open" => held[c] = {"copy"}
  /\ pc[c] = "prepare" => held[c] = {"copy", "db"}
  /\ pc[c] = "step" \/ (pc[c] = "loop" /\ result[c] = "row") => "statement" \in held[c]
  /\ lock[c] # "none" => pc[c] = "step" \/ (pc[c] = "loop" /\ result[c] = "row")
Told(c) ==
  /\ pc[c] # "idle" => query[c] \in Asks
  /\ pc[c] \in {"idle", "begin", "open", "prepare"} => result[c] = None /\ rows[c] = <<>> /\ ~err[c]
  /\ pc[c] = "step" => result[c] \in {None, "row"} /\ ~err[c]
  /\ pc[c] = "loop" => result[c] # None /\ ~err[c]
  /\ pc[c] = "end" => result[c] \in {"done", "error"} /\ (err[c] <=> result[c] = "error")
  /\ pc[c] = "returned" => err[c] \/ result[c] = "done"
  /\ pc[c] = "loop" /\ result[c] = "row" =>
       query[c].op = "select" /\ Len(rows[c]) < Limit /\ Found(c) <= Len(log)
FoundSoFar(c) ==
  /\ Len(rows[c]) <= Limit
  /\ \A k \in 1..Len(rows[c]) :
       /\ query[c].op = "select"
       /\ rows[c][k] = k + (IF query[c].from = 0 THEN 1 ELSE query[c].from) - 1
       /\ rows[c][k] <= Len(log)
Granted ==
  \A c, d \in Callers : c # d =>
    /\ lock[c] \in {"reserved", "pending", "exclusive"} => lock[d] \in {"none", "shared"}
    /\ lock[c] = "exclusive" => lock[d] = "none"
Alone ==
  \A c \in Callers :
    pc[c] # "idle" /\ ~troubled[c] =>
      /\ \A d \in Callers \ {c} : pc[d] = "idle"
      /\ result[c] = "error" \/ err[c] => query[c].op \in {"bad", "missing"}
IInv ==
  /\ Typed /\ Granted /\ Alone /\ kept \subseteq {"open"} \X {"copy", "db"}
  /\ \A c \in Callers : Holding(c) /\ Told(c) /\ FoundSoFar(c)

\* What no other call's step touches.
Only(c) ==
  \A d \in Callers \ {c} :
    /\ lock'[d] = lock[d] /\ pc'[d] = pc[d] /\ query'[d] = query[d] /\ result'[d] = result[d]
    /\ rows'[d] = rows[d] /\ err'[d] = err[d] /\ held'[d] = held[d]

\* While the log grows, what is so of a call stays so when another steps.
LEMMA OthersKeep ==
  ASSUME IInv, NEW c \in Callers, Only(c), Len(log) \in Nat, Len(log') \in Nat, Len(log) <= Len(log'),
         NEW d \in Callers \ {c}
  PROVE  Holding(d)' /\ Told(d)' /\ FoundSoFar(d)'
<1>1. /\ lock'[d] = lock[d] /\ pc'[d] = pc[d] /\ query'[d] = query[d] /\ result'[d] = result[d]
      /\ rows'[d] = rows[d] /\ err'[d] = err[d] /\ held'[d] = held[d]
  BY DEF Only
<1>2. Holding(d)'
  BY <1>1 DEF IInv, Holding
<1>3. rows[d] \in Seq(Nat) /\ Len(rows[d]) \in Nat
  BY LenProperties DEF IInv, Typed
<1>4. FoundSoFar(d)'
  <2> DEFINE first == IF query[d].from = 0 THEN 1 ELSE query[d].from
  <2>1. \A k \in 1..Len(rows[d]) : rows[d][k] \in Nat
    BY <1>3, ElementOfSeq
  <2>2. \A k \in 1..Len(rows[d]) : rows[d][k] <= Len(log')
    BY <2>1 DEF IInv, FoundSoFar
  <2> QED  BY <1>1, <2>2 DEF IInv, FoundSoFar
<1>5. pc[d] = "loop" /\ result[d] = "row" => Found(d) <= Len(log')
  <2> SUFFICES ASSUME pc[d] = "loop", result[d] = "row" PROVE Found(d) <= Len(log')
    OBVIOUS
  <2>1. query[d] \in Asks /\ query[d].op = "select" /\ Found(d) <= Len(log)
    BY DEF IInv, Told
  <2>2. query[d].from \in Nat
    BY <2>1 DEF Asks, Firsts
  <2>3. Found(d) \in Nat
    BY <1>3, <2>2 DEF Found
  <2> QED  BY <2>1, <2>3
<1>6. Told(d)'
  BY <1>1, <1>5 DEF IInv, Told, Found
<1> QED  BY <1>2, <1>4, <1>6

\* Rows are only ever added.
LEMMA LogLonger == ASSUME Typed, Typed', log' = log \/ \E m \in Texts : log' = Append(log, m)
                   PROVE  Len(log) \in Nat /\ Len(log') \in Nat /\ Len(log) <= Len(log')
<1>1. log \in Seq(Texts) /\ Len(log) \in Nat
  BY LenProperties DEF Typed
<1>2. CASE log' = log
  BY <1>1, <1>2
<1>3. ASSUME NEW m \in Texts, log' = Append(log, m)
      PROVE  Len(log') = Len(log) + 1
  BY <1>1, <1>3, AppendProperties
<1> QED  BY <1>1, <1>2, <1>3

\* A step of a call that is under way.
LEMMA StepIInv ==
  ASSUME IInv, NEW c \in Callers, pc[c] # "idle", pc'[c] # "idle", Typed', Only(c), query'[c] = query[c],
         log' = log \/ \E m \in Texts : log' = Append(log, m),
         \A d \in Callers \ {c} : troubled'[d] = troubled[d],
         troubled'[c] = troubled[c] \/ troubled'[c] = TRUE,
         ~troubled'[c] /\ (result'[c] = "error" \/ err'[c]) => query[c].op \in {"bad", "missing"},
         kept' \subseteq {"open"} \X {"copy", "db"},
         Granted', Holding(c)', Told(c)', FoundSoFar(c)'
  PROVE  IInv'
<1>1. \A d \in Callers \ {c} : Holding(d)' /\ Told(d)' /\ FoundSoFar(d)'
  <2>1. Len(log) \in Nat /\ Len(log') \in Nat /\ Len(log) <= Len(log')
    BY LogLonger DEF IInv
  <2> QED  BY <2>1, OthersKeep
<1>2. Alone'
  <2> SUFFICES ASSUME NEW d \in Callers, pc'[d] # "idle", ~troubled'[d]
               PROVE  /\ \A x \in Callers \ {d} : pc'[x] = "idle"
                      /\ result'[d] = "error" \/ err'[d] => query'[d].op \in {"bad", "missing"}
    BY DEF Alone
  <2>1. CASE d = c
    BY <2>1 DEF IInv, Alone, Only
  <2>2. CASE d # c
    BY <2>2 DEF IInv, Alone, Only
  <2> QED  BY <2>1, <2>2
<1> QED  BY <1>1, <1>2 DEF IInv

\* Giving a lock up grants nothing to anybody.
LEMMA GrantedStill ==
  ASSUME IInv, NEW c \in Callers, Only(c), lock'[c] \in {lock[c], "none"}
  PROVE  Granted'
BY DEF IInv, Granted, Only

\* A call alone is in nobody's way.
LEMMA NobodyThere ==
  ASSUME IInv, NEW c \in Callers, pc[c] # "idle", ~troubled[c]
  PROVE  /\ ~Others(c, {"pending", "exclusive"}) /\ ~Others(c, {"shared"}) /\ ~Others(c, {})
         /\ ~Others(c, {"reserved", "pending", "exclusive"})
<1>1. \A d \in Callers \ {c} : lock[d] = "none"
  BY DEF IInv, Alone, Holding
<1> QED  BY <1>1 DEF Others

\* At the start nobody calls.
LEMMA InitIInv == Init => IInv
<1> SUFFICES ASSUME Init PROVE IInv
  OBVIOUS
<1> USE DEF Init
<1>1. Typed
  BY DEF Typed
<1>2. Granted /\ Alone /\ kept \subseteq {"open"} \X {"copy", "db"}
  BY DEF Granted, Alone
<1>3. ASSUME NEW c \in Callers PROVE Holding(c) /\ Told(c) /\ FoundSoFar(c)
  <2>1. Len(rows[c]) = 0
    BY <1>3
  <2>2. Len(rows[c]) <= Limit
    BY <2>1, LimitAssumption
  <2> QED  BY <2>1, <2>2 DEF Holding, Told, FoundSoFar
<1> QED  BY <1>1, <1>2, <1>3 DEF IInv

\* A call that begins is alone or troubles every call it meets.
LEMMA CallIInv == ASSUME IInv, NEW c \in Callers, Call(c) PROVE IInv'
<1>1. PICK q \in Asks : query' = [query EXCEPT ![c] = q]
  BY DEF Call, Queries
<1>2. /\ pc[c] = "idle" /\ pc' = [pc EXCEPT ![c] = "begin"]
      /\ UNCHANGED <<log, lock, result, rows, err, held, kept>>
  BY DEF Call, Goto
<1>3. troubled' = [d \in Callers |-> IF d = c THEN {x \in Callers \ {c} : pc[x] # "idle"} # {}
                                     ELSE d \in {x \in Callers \ {c} : pc[x] # "idle"} \/ troubled[d]]
  BY DEF Call
<1>4. Typed'
  BY <1>1, <1>2, <1>3 DEF IInv, Typed
<1>5. Only(c)
  BY <1>1, <1>2 DEF IInv, Typed, Only
<1>6. \A d \in Callers \ {c} : Holding(d)' /\ Told(d)' /\ FoundSoFar(d)'
  <2>1. Len(log) \in Nat /\ Len(log') \in Nat /\ Len(log) <= Len(log')
    BY <1>2, <1>4, LogLonger DEF IInv
  <2> QED  BY <1>5, <2>1, OthersKeep
<1>7. pc'[c] = "begin" /\ query'[c] = q /\ rows'[c] = <<>>
  BY <1>1, <1>2 DEF IInv, Typed, Told
<1>8. Holding(c)' /\ Told(c)'
  BY <1>1, <1>2, <1>7 DEF IInv, Holding, Told
<1>9. FoundSoFar(c)'
  BY <1>7, LimitAssumption DEF FoundSoFar
<1>10. Granted' /\ kept' \subseteq {"open"} \X {"copy", "db"}
  BY <1>2 DEF IInv, Granted
<1>11. Alone'
  <2> SUFFICES ASSUME NEW d \in Callers, pc'[d] # "idle", ~troubled'[d]
               PROVE  /\ \A x \in Callers \ {d} : pc'[x] = "idle"
                      /\ result'[d] = "error" \/ err'[d] => query'[d].op \in {"bad", "missing"}
    BY DEF Alone
  <2>1. CASE d = c
    <3>1. \A x \in Callers \ {c} : pc[x] = "idle"
      BY <1>3, <2>1
    <3>2. result[c] = None /\ ~err[c]
      BY <1>2 DEF IInv, Told
    <3>3. None # "error"
      BY NoneAssumption
    <3> QED  BY <1>2, <1>5, <2>1, <3>1, <3>2, <3>3 DEF Only
  <2>2. CASE d # c
    <3>1. pc[d] # "idle"
      BY <1>5, <2>2 DEF Only
    <3>2. troubled'[d]
      BY <1>3, <2>2, <3>1
    <3> QED  BY <3>2
  <2> QED  BY <2>1, <2>2
<1> QED  BY <1>4, <1>6, <1>8, <1>9, <1>10, <1>11 DEF IInv

\* A string is copied, anything else is refused.
LEMMA BeginIInv == ASSUME IInv, NEW c \in Callers, Begin(c) PROVE IInv'
<1>1. /\ pc[c] = "begin" /\ query[c] \in Asks
      /\ result[c] = None /\ rows[c] = <<>> /\ ~err[c] /\ held[c] = {} /\ lock[c] = "none"
      /\ UNCHANGED <<log, lock, query, result, rows, kept, troubled>>
  BY DEF Begin, IInv, Told, Holding
<1>2. None \notin {"row", "done", "error"} /\ 0 <= Limit /\ Len(rows[c]) = 0
  BY <1>1, NoneAssumption, LimitAssumption
<1>3. CASE query[c].op = "missing"
  <2>1. pc' = [pc EXCEPT ![c] = "returned"] /\ err' = [err EXCEPT ![c] = TRUE] /\ UNCHANGED held
    BY <1>3 DEF Begin, Goto
  <2>2. Typed'
    BY <1>1, <2>1 DEF IInv, Typed
  <2>3. Only(c) /\ pc'[c] = "returned" /\ err'[c] = TRUE
    BY <1>1, <2>1 DEF IInv, Typed, Only
  <2>4. Holding(c)' /\ Told(c)' /\ FoundSoFar(c)'
    BY <1>1, <1>2, <2>1, <2>3 DEF Holding, Told, FoundSoFar
  <2>5. Granted' /\ kept' \subseteq {"open"} \X {"copy", "db"}
    BY <1>1, <2>3, GrantedStill DEF IInv
  <2> QED  BY <1>1, <1>3, <2>2, <2>3, <2>4, <2>5, StepIInv
<1>4. CASE query[c].op # "missing"
  <2>1. pc' = [pc EXCEPT ![c] = "open"] /\ held' = [held EXCEPT ![c] = {"copy"}] /\ UNCHANGED err
    BY <1>4 DEF Begin, Goto
  <2>2. Typed'
    BY <1>1, <2>1 DEF IInv, Typed
  <2>3. Only(c) /\ pc'[c] = "open" /\ held'[c] = {"copy"}
    BY <1>1, <2>1 DEF IInv, Typed, Only
  <2>4. Holding(c)' /\ Told(c)' /\ FoundSoFar(c)'
    BY <1>1, <1>2, <2>1, <2>3 DEF Holding, Told, FoundSoFar
  <2>5. Granted' /\ kept' \subseteq {"open"} \X {"copy", "db"}
    BY <1>1, <2>3, GrantedStill DEF IInv
  <2> QED  BY <1>1, <1>2, <2>1, <2>2, <2>3, <2>4, <2>5, StepIInv
<1> QED  BY <1>3, <1>4

\* An open that fails is what is kept for ever.
LEMMA OpenIInv == ASSUME IInv, NEW c \in Callers, Open(c) PROVE IInv'
<1>1. /\ pc[c] = "open" /\ query[c] \in Asks
      /\ result[c] = None /\ rows[c] = <<>> /\ ~err[c] /\ held[c] = {"copy"} /\ lock[c] = "none"
      /\ UNCHANGED <<log, lock, query, result, rows>>
  BY DEF Open, IInv, Told, Holding
<1>2. None \notin {"row", "done", "error"} /\ 0 <= Limit /\ Len(rows[c]) = 0
  BY <1>1, NoneAssumption, LimitAssumption
<1>3. CASE /\ held' = [held EXCEPT ![c] = @ \cup {"db"}]
           /\ pc' = [pc EXCEPT ![c] = "prepare"]
           /\ UNCHANGED <<err, kept, troubled>>
  <2>1. Typed'
    BY <1>1, <1>3 DEF IInv, Typed
  <2>2. Only(c) /\ pc'[c] = "prepare" /\ held'[c] = {"copy", "db"}
    BY <1>1, <1>3 DEF IInv, Typed, Only
  <2>3. Holding(c)' /\ Told(c)' /\ FoundSoFar(c)'
    BY <1>1, <1>2, <1>3, <2>2 DEF Holding, Told, FoundSoFar
  <2>4. Granted' /\ kept' \subseteq {"open"} \X {"copy", "db"}
    BY <1>1, <1>3, <2>2, GrantedStill DEF IInv
  <2> QED  BY <1>1, <1>2, <1>3, <2>1, <2>2, <2>3, <2>4, StepIInv
<1>4. CASE /\ held' = [held EXCEPT ![c] = {}]
           /\ kept' = kept \cup {<<"open", "copy">>, <<"open", "db">>}
           /\ err' = [err EXCEPT ![c] = TRUE]
           /\ pc' = [pc EXCEPT ![c] = "returned"]
           /\ troubled' = [troubled EXCEPT ![c] = TRUE]
  <2>1. Typed'
    BY <1>1, <1>4 DEF IInv, Typed
  <2>2. /\ Only(c) /\ pc'[c] = "returned" /\ held'[c] = {} /\ err'[c] = TRUE /\ troubled'[c] = TRUE
        /\ \A d \in Callers \ {c} : troubled'[d] = troubled[d]
    BY <1>1, <1>4 DEF IInv, Typed, Only
  <2>3. Holding(c)' /\ Told(c)' /\ FoundSoFar(c)'
    BY <1>1, <1>2, <2>2 DEF Holding, Told, FoundSoFar
  <2>4. Granted' /\ kept' \subseteq {"open"} \X {"copy", "db"}
    BY <1>1, <1>4, <2>2, GrantedStill DEF IInv
  <2> QED  BY <1>1, <2>1, <2>2, <2>3, <2>4, StepIInv
<1> QED  BY <1>3, <1>4 DEF Open, Goto, Trouble

\* A statement is compiled, or the first step will be the error.
LEMMA PrepareIInv == ASSUME IInv, NEW c \in Callers, Prepare(c) PROVE IInv'
<1>1. /\ pc[c] = "prepare" /\ query[c] \in Asks
      /\ result[c] = None /\ rows[c] = <<>> /\ ~err[c] /\ held[c] = {"copy", "db"} /\ lock[c] = "none"
      /\ UNCHANGED <<log, lock, query, rows, err, kept, troubled>>
  BY DEF Prepare, IInv, Told, Holding
<1>2. None \notin {"row", "done", "error"} /\ 0 <= Limit /\ Len(rows[c]) = 0
  BY <1>1, NoneAssumption, LimitAssumption
<1>3. CASE query[c].op = "bad" \/ Others(c, {"pending", "exclusive"})
  <2>1. result' = [result EXCEPT ![c] = "error"] /\ pc' = [pc EXCEPT ![c] = "loop"] /\ UNCHANGED held
    BY <1>3 DEF Prepare, Goto
  <2>2. Typed'
    BY <1>1, <2>1 DEF IInv, Typed
  <2>3. Only(c) /\ pc'[c] = "loop" /\ result'[c] = "error"
    BY <1>1, <2>1 DEF IInv, Typed, Only
  <2>4. Holding(c)' /\ Told(c)' /\ FoundSoFar(c)'
    BY <1>1, <1>2, <2>1, <2>3 DEF Holding, Told, FoundSoFar
  <2>5. Granted' /\ kept' \subseteq {"open"} \X {"copy", "db"}
    BY <1>1, <2>3, GrantedStill DEF IInv
  <2>6. ~troubled[c] => query[c].op = "bad"
    BY <1>1, <1>3, NobodyThere
  <2> QED  BY <1>1, <2>2, <2>3, <2>4, <2>5, <2>6, StepIInv
<1>4. CASE ~(query[c].op = "bad" \/ Others(c, {"pending", "exclusive"}))
  <2>1. /\ held' = [held EXCEPT ![c] = @ \cup {"statement"}] /\ pc' = [pc EXCEPT ![c] = "step"]
        /\ UNCHANGED result
    BY <1>4 DEF Prepare, Goto
  <2>2. Typed'
    BY <1>1, <2>1 DEF IInv, Typed
  <2>3. Only(c) /\ pc'[c] = "step" /\ "statement" \in held'[c]
    BY <1>1, <2>1 DEF IInv, Typed, Only
  <2>4. Holding(c)' /\ Told(c)' /\ FoundSoFar(c)'
    BY <1>1, <1>2, <2>1, <2>3 DEF Holding, Told, FoundSoFar
  <2>5. Granted' /\ kept' \subseteq {"open"} \X {"copy", "db"}
    BY <1>1, <2>3, GrantedStill DEF IInv
  <2> QED  BY <1>1, <1>2, <2>1, <2>2, <2>3, <2>4, <2>5, StepIInv
<1> QED  BY <1>3, <1>4

\* What is so of every call that steps.
LEMMA Stepper ==
  ASSUME IInv, NEW c \in Callers, pc[c] = "step"
  PROVE  /\ query[c] \in Asks /\ result[c] \in {None, "row"} /\ ~err[c] /\ "statement" \in held[c]
         /\ None \notin {"row", "done", "error"}
         /\ FoundSoFar(c)
         /\ kept \subseteq {"open"} \X {"copy", "db"}
  BY NoneAssumption DEF IInv, Told, Holding

\* What a call found is found whatever else changes of it.
LEMMA FoundStill ==
  ASSUME IInv, Typed', NEW c \in Callers, query'[c] = query[c], rows'[c] = rows[c],
         log' = log \/ \E m \in Texts : log' = Append(log, m)
  PROVE  FoundSoFar(c)'
<1>1. Len(log) \in Nat /\ Len(log') \in Nat /\ Len(log) <= Len(log')
  BY LogLonger DEF IInv
<1>2. rows[c] \in Seq(Nat)
  BY DEF IInv, Typed
<1>3. \A k \in 1..Len(rows[c]) : rows[c][k] \in Nat
  BY <1>2, ElementOfSeq
<1>4. \A k \in 1..Len(rows[c]) : rows[c][k] <= Len(log')
  BY <1>1, <1>3 DEF IInv, FoundSoFar
<1> QED  BY <1>4 DEF IInv, FoundSoFar

\* A statement that fails gives up its lock.
LEMMA StepFailsIInv ==
  ASSUME IInv, NEW c \in Callers, pc[c] = "step", StepFails(c),
         UNCHANGED <<query, rows, err, held, kept>>,
         \/ UNCHANGED troubled /\ troubled[c]
         \/ Trouble(c)
  PROVE  IInv'
<1>1. /\ lock' = [lock EXCEPT ![c] = "none"] /\ result' = [result EXCEPT ![c] = "error"]
      /\ pc' = [pc EXCEPT ![c] = "loop"] /\ log' = log
  BY DEF StepFails, Goto
<1>2. Typed'
  BY <1>1 DEF IInv, Typed, Trouble
<1>3. Only(c) /\ lock'[c] = "none" /\ result'[c] = "error" /\ pc'[c] = "loop"
  BY <1>1 DEF IInv, Typed, Only
<1>4. troubled'[c] = TRUE /\ \A d \in Callers \ {c} : troubled'[d] = troubled[d]
  BY DEF IInv, Typed, Trouble
<1>5. Holding(c)' /\ Told(c)'
  BY <1>1, <1>3, Stepper DEF Holding, Told
<1>6. FoundSoFar(c)'
  BY <1>1, <1>2, FoundStill
<1>7. Granted' /\ kept' \subseteq {"open"} \X {"copy", "db"}
  BY <1>3, GrantedStill, Stepper
<1> QED  BY <1>1, <1>2, <1>3, <1>4, <1>5, <1>6, <1>7, StepIInv

\* A lock is taken, or refused because of another call.
LEMMA RaiseIInv ==
  ASSUME IInv, NEW c \in Callers, NEW from, NEW blockers,
         NEW to \in {"shared", "reserved", "pending", "exclusive"},
         <<from, to, blockers>> \in {<<"none", "shared", {"pending", "exclusive"}>>,
                                     <<"shared", "reserved", {"reserved", "pending", "exclusive"}>>,
                                     <<"reserved", "pending", {}>>,
                                     <<"pending", "exclusive", {"shared"}>>},
         Raise(c, from, to, blockers), UNCHANGED <<query, rows, err, held, kept, troubled>>
  PROVE  IInv'
<1>1. pc[c] = "step" /\ lock[c] = from
  BY DEF Raise
<1>2. CASE Others(c, blockers)
  <2>1. troubled[c]
    BY <1>1, <1>2, NobodyThere
  <2> QED  BY <1>1, <1>2, <2>1, StepFailsIInv DEF Raise
<1>3. CASE ~Others(c, blockers)
  <2>1. lock' = [lock EXCEPT ![c] = to] /\ UNCHANGED <<log, pc, result>>
    BY <1>3 DEF Raise
  <2>2. Typed'
    BY <2>1 DEF IInv, Typed
  <2>3. Only(c) /\ lock'[c] = to
    BY <2>1 DEF IInv, Typed, Only
  <2>4. Holding(c)' /\ Told(c)'
    BY <1>1, <2>1, <2>3, Stepper DEF Holding, Told
  <2>5. FoundSoFar(c)'
    BY <2>1, <2>2, FoundStill
  <2>6. Granted'
    <3>1. \A d \in Callers \ {c} : lock[d] \in {"none", "shared", "reserved", "pending", "exclusive"} \ blockers
      BY <1>3 DEF Others, IInv, Typed
    <3>2. ASSUME NEW d \in Callers \ {c}
          PROVE  /\ lock'[c] \in {"reserved", "pending", "exclusive"} => lock'[d] \in {"none", "shared"}
                 /\ lock'[c] = "exclusive" => lock'[d] = "none"
                 /\ lock'[d] \in {"reserved", "pending", "exclusive"} => lock'[c] \in {"none", "shared"}
                 /\ lock'[d] = "exclusive" => lock'[c] = "none"
      <4>1. lock'[d] = lock[d]
        BY <2>3 DEF Only
      <4> QED  BY <1>1, <2>3, <3>1, <4>1 DEF IInv, Granted
    <3> QED  BY <2>3, <3>2 DEF IInv, Granted, Only
  <2>7. result'[c] # "error" /\ ~err'[c]
    BY <1>1, <2>1, Stepper
  <2> QED  BY <1>1, <2>1, <2>2, <2>3, <2>4, <2>5, <2>6, <2>7, Stepper, StepIInv
<1> QED  BY <1>2, <1>3

\* A row is added when its writer has the file for itself.
LEMMA CommitIInv ==
  ASSUME IInv, NEW c \in Callers, Commit(c), UNCHANGED <<query, rows, err, held, kept, troubled>>
  PROVE  IInv'
<1>1. /\ pc[c] = "step" /\ query[c].op = "insert"
      /\ lock' = [lock EXCEPT ![c] = "none"] /\ result' = [result EXCEPT ![c] = "done"]
      /\ pc' = [pc EXCEPT ![c] = "loop"] /\ log' = Append(log, query[c].text)
  BY DEF Commit, Stepping, StepEnds, Goto
<1>2. query[c].text \in Texts
  BY <1>1, Stepper DEF Asks
<1>3. Typed'
  <2>1. log' \in Seq(Texts)
    BY <1>1, <1>2, AppendProperties DEF IInv, Typed
  <2> QED  BY <1>1, <2>1 DEF IInv, Typed
<1>4. Only(c) /\ lock'[c] = "none" /\ result'[c] = "done" /\ pc'[c] = "loop"
  BY <1>1 DEF IInv, Typed, Only
<1>5. Holding(c)' /\ Told(c)'
  BY <1>1, <1>4, Stepper DEF Holding, Told
<1>6. FoundSoFar(c)'
  <2>1. \E m \in Texts : log' = Append(log, m)
    BY <1>1, <1>2
  <2> QED  BY <1>1, <1>3, <2>1, FoundStill
<1>7. Granted' /\ kept' \subseteq {"open"} \X {"copy", "db"}
  BY <1>1, <1>4, GrantedStill, Stepper
<1>8. log' = log \/ \E m \in Texts : log' = Append(log, m)
  BY <1>1, <1>2
<1>9. result'[c] # "error" /\ ~err'[c]
  BY <1>1, <1>4, Stepper
<1>10. pc[c] # "idle" /\ UNCHANGED <<query, troubled>>
  BY <1>1
<1> QED  BY <1>3, <1>4, <1>5, <1>6, <1>7, <1>8, <1>9, <1>10, StepIInv

\* A SELECT finds its next row, or its end.
LEMMA FetchIInv ==
  ASSUME IInv, NEW c \in Callers, Fetch(c), UNCHANGED <<query, rows, err, held, kept, troubled>>
  PROVE  IInv'
<1>1. /\ pc[c] = "step" /\ query[c].op = "select" /\ lock[c] = "shared" /\ log' = log
      /\ pc' = [pc EXCEPT ![c] = "loop"]
      /\ \/ /\ Len(rows[c]) < Limit /\ Found(c) <= Len(log)
            /\ result' = [result EXCEPT ![c] = "row"] /\ lock' = lock
         \/ result' = [result EXCEPT ![c] = "done"] /\ lock' = [lock EXCEPT ![c] = "none"]
  BY DEF Fetch, Stepping, StepEnds, Goto
<1>2. Typed'
  BY <1>1 DEF IInv, Typed
<1>3. /\ Only(c) /\ pc'[c] = "loop"
      /\ \/ Len(rows[c]) < Limit /\ Found(c) <= Len(log) /\ result'[c] = "row" /\ lock'[c] = "shared"
         \/ result'[c] = "done" /\ lock'[c] = "none"
  BY <1>1 DEF IInv, Typed, Only
<1>4. Holding(c)' /\ Told(c)'
  BY <1>1, <1>3, Stepper DEF Holding, Told, Found
<1>5. FoundSoFar(c)'
  BY <1>1, <1>2, FoundStill
<1>6. Granted' /\ kept' \subseteq {"open"} \X {"copy", "db"}
  BY <1>1, <1>3, GrantedStill, Stepper
<1> QED  BY <1>1, <1>2, <1>3, <1>4, <1>5, <1>6, Stepper, StepIInv

\* A row is put into the table that is returned; anything else ends the loop.
LEMMA LoopIInv == ASSUME IInv, NEW c \in Callers, Loop(c) PROVE IInv'
<1>1. /\ pc[c] = "loop" /\ query[c] \in Asks /\ ~err[c] /\ FoundSoFar(c)
      /\ rows[c] \in Seq(Nat) /\ Len(rows[c]) \in Nat
      /\ UNCHANGED <<log, lock, query, result, held, kept, troubled>>
  BY LenProperties DEF Loop, IInv, Typed, Told
<1>2. None \notin {"row", "done", "error"}
  BY NoneAssumption
<1>3. CASE /\ result[c] = "row"
           /\ rows' = [rows EXCEPT ![c] = Append(@, Found(c))]
           /\ pc' = [pc EXCEPT ![c] = "step"] /\ UNCHANGED err
  <2>1. /\ query[c].op = "select" /\ Len(rows[c]) < Limit /\ Found(c) <= Len(log)
    BY <1>1, <1>3 DEF IInv, Told, Holding
  <2> DEFINE first == IF query[c].from = 0 THEN 1 ELSE query[c].from
             n     == Len(rows[c])
  <2>2. first \in Nat /\ Found(c) = n + first /\ Found(c) \in Nat
    BY <1>1, <2>1 DEF Asks, Firsts, Found
  <2>3. /\ Append(rows[c], Found(c)) \in Seq(Nat) /\ Len(Append(rows[c], Found(c))) = n + 1
        /\ \A k \in 1..n : Append(rows[c], Found(c))[k] = rows[c][k]
        /\ Append(rows[c], Found(c))[n + 1] = Found(c)
    BY <1>1, <2>2, AppendProperties
  <2>4. Typed'
    BY <1>1, <1>3, <2>3 DEF IInv, Typed
  <2>5. Only(c) /\ pc'[c] = "step" /\ rows'[c] = Append(rows[c], Found(c))
    BY <1>1, <1>3 DEF IInv, Typed, Only
  <2>6. FoundSoFar(c)'
    <3>1. n + 1 <= Limit
      BY <1>1, <2>1, LimitAssumption
    <3>2. \A k \in 1..n : rows[c][k] = k + first - 1 /\ rows[c][k] <= Len(log)
      BY <1>1 DEF FoundSoFar
    <3>3. ASSUME NEW k \in 1..(n + 1)
          PROVE  rows'[c][k] = k + first - 1 /\ rows'[c][k] <= Len(log)
      <4>1. CASE k \in 1..n
        BY <2>3, <2>5, <3>2, <4>1
      <4>2. CASE k = n + 1
        <5>1. rows'[c][k] = n + first /\ n + first <= Len(log)
          BY <2>1, <2>2, <2>3, <2>5, <4>2
        <5> HIDE DEF first, n
        <5>2. n \in Nat
          BY <1>1 DEF n
        <5> QED  BY <2>2, <4>2, <5>1, <5>2
      <4> QED  BY <1>1, <4>1, <4>2
    <3> QED  BY <1>1, <2>1, <2>3, <2>5, <3>1, <3>3 DEF FoundSoFar
  <2>7. "statement" \in held[c]
    BY <1>1, <1>3 DEF IInv, Holding
  <2>8. Holding(c)' /\ Told(c)'
    BY <1>1, <1>3, <2>5, <2>7 DEF Holding, Told
  <2>9. Granted' /\ kept' \subseteq {"open"} \X {"copy", "db"}
    BY <1>1, <2>5, GrantedStill DEF IInv
  <2> QED  BY <1>1, <1>2, <1>3, <2>4, <2>5, <2>6, <2>8, <2>9, StepIInv
<1>4. CASE result[c] = "done" /\ pc' = [pc EXCEPT ![c] = "end"] /\ UNCHANGED <<rows, err>>
  <2>1. Typed'
    BY <1>1, <1>4 DEF IInv, Typed
  <2>2. Only(c) /\ pc'[c] = "end"
    BY <1>1, <1>4 DEF IInv, Typed, Only
  <2>3. lock[c] = "none"
    BY <1>1, <1>4 DEF IInv, Holding
  <2>4. Holding(c)' /\ Told(c)'
    BY <1>1, <1>2, <1>4, <2>2, <2>3 DEF Holding, Told
  <2>5. FoundSoFar(c)'
    BY <1>1, <1>4, <2>1, FoundStill
  <2>6. Granted' /\ kept' \subseteq {"open"} \X {"copy", "db"}
    BY <1>1, <2>2, GrantedStill DEF IInv
  <2> QED  BY <1>1, <1>4, <2>1, <2>2, <2>4, <2>5, <2>6, StepIInv
<1>5. CASE /\ result[c] = "error" /\ err' = [err EXCEPT ![c] = TRUE]
           /\ pc' = [pc EXCEPT ![c] = "end"] /\ UNCHANGED rows
  <2>1. Typed'
    BY <1>1, <1>5 DEF IInv, Typed
  <2>2. Only(c) /\ pc'[c] = "end" /\ err'[c] = TRUE
    BY <1>1, <1>5 DEF IInv, Typed, Only
  <2>3. lock[c] = "none"
    BY <1>1, <1>5 DEF IInv, Holding
  <2>4. Holding(c)' /\ Told(c)'
    BY <1>1, <1>2, <1>5, <2>2, <2>3 DEF Holding, Told
  <2>5. FoundSoFar(c)'
    BY <1>1, <1>5, <2>1, FoundStill
  <2>6. Granted' /\ kept' \subseteq {"open"} \X {"copy", "db"}
    BY <1>1, <2>2, GrantedStill DEF IInv
  <2>7. ~troubled[c] => query[c].op \in {"bad", "missing"}
    BY <1>1, <1>5 DEF IInv, Alone
  <2> QED  BY <1>1, <2>1, <2>2, <2>4, <2>5, <2>6, <2>7, StepIInv
<1> QED  BY <1>3, <1>4, <1>5 DEF Loop, Goto

\* Everything the call has is given back.
LEMMA EndIInv == ASSUME IInv, NEW c \in Callers, End(c) PROVE IInv'
<1>1. /\ pc[c] = "end" /\ query[c] \in Asks /\ result[c] \in {"done", "error"}
      /\ err[c] <=> result[c] = "error"
      /\ lock' = [lock EXCEPT ![c] = "none"] /\ held' = [held EXCEPT ![c] = {}]
      /\ pc' = [pc EXCEPT ![c] = "returned"]
      /\ UNCHANGED <<log, query, result, rows, err, kept, troubled>>
  BY DEF End, Goto, IInv, Told
<1>2. Typed'
  BY <1>1 DEF IInv, Typed
<1>3. Only(c) /\ pc'[c] = "returned" /\ held'[c] = {} /\ lock'[c] = "none"
  BY <1>1 DEF IInv, Typed, Only
<1>4. Holding(c)' /\ Told(c)'
  BY <1>1, <1>3 DEF Holding, Told
<1>5. FoundSoFar(c)'
  BY <1>1, <1>2, FoundStill
<1>6. Granted' /\ kept' \subseteq {"open"} \X {"copy", "db"}
  BY <1>1, <1>3, GrantedStill DEF IInv
<1>7. ~troubled[c] /\ (result[c] = "error" \/ err[c]) => query[c].op \in {"bad", "missing"}
  BY <1>1 DEF IInv, Alone
<1> QED  BY <1>1, <1>2, <1>3, <1>4, <1>5, <1>6, <1>7, StepIInv

\* A call that has returned has nothing that could be lost.
LEMMA ResumeIInv == ASSUME IInv, NEW c \in Callers, Resume(c) PROVE IInv'
<1>1. /\ pc[c] = "returned" /\ held[c] = {} /\ lock[c] = "none"
      /\ kept' = kept \cup {<<"end", h>> : h \in held[c]}
      /\ held' = [held EXCEPT ![c] = {}] /\ pc' = [pc EXCEPT ![c] = "idle"]
      /\ query' = [query EXCEPT ![c] = None] /\ result' = [result EXCEPT ![c] = None]
      /\ rows' = [rows EXCEPT ![c] = <<>>] /\ err' = [err EXCEPT ![c] = FALSE]
      /\ troubled' = [troubled EXCEPT ![c] = FALSE]
      /\ UNCHANGED <<log, lock>>
  BY DEF Resume, Goto, IInv, Holding
<1>2. kept' = kept
  BY <1>1
<1>3. Typed'
  <2>1. <<>> \in Seq(Nat)
    OBVIOUS
  <2>2. rows' \in [Callers -> Seq(Nat)]
    BY <1>1, <2>1 DEF IInv, Typed
  <2> QED  BY <1>1, <2>2 DEF IInv, Typed
<1>4. /\ Only(c) /\ pc'[c] = "idle" /\ held'[c] = {} /\ result'[c] = None /\ rows'[c] = <<>>
      /\ err'[c] = FALSE /\ \A d \in Callers \ {c} : troubled'[d] = troubled[d]
  BY <1>1 DEF IInv, Typed, Only
<1>5. \A d \in Callers \ {c} : Holding(d)' /\ Told(d)' /\ FoundSoFar(d)'
  <2>1. Len(log) \in Nat /\ Len(log') \in Nat /\ Len(log) <= Len(log')
    BY <1>1, <1>3, LogLonger DEF IInv
  <2> QED  BY <1>4, <2>1, OthersKeep
<1>6. Holding(c)' /\ Told(c)'
  BY <1>1, <1>4 DEF Holding, Told
<1>7. FoundSoFar(c)'
  BY <1>4, LimitAssumption DEF FoundSoFar
<1>8. Granted' /\ kept' \subseteq {"open"} \X {"copy", "db"}
  BY <1>1, <1>2, <1>4, GrantedStill DEF IInv
<1>9. Alone'
  BY <1>4 DEF IInv, Alone, Only
<1> QED  BY <1>3, <1>5, <1>6, <1>7, <1>8, <1>9 DEF IInv

\* IInv is about the variables only.
LEMMA StutterIInv == ASSUME IInv, UNCHANGED vars PROVE IInv'
BY DEF vars, locals, IInv, Typed, Granted, Alone, Holding, Told, FoundSoFar, Found

\* Every step keeps IInv.
LEMMA NextIInv == ASSUME IInv, [Next]_vars PROVE IInv'
<1>1. ASSUME NEW c \in Callers, Step(c) PROVE IInv'
  <2>1. UNCHANGED <<query, rows, err, held, kept, troubled>>
    BY <1>1 DEF Step
  <2>2. CASE Share(c)
    BY <2>1, <2>2, RaiseIInv DEF Share
  <2>3. CASE Raise(c, "shared", "reserved", {"reserved", "pending", "exclusive"})
    BY <2>1, <2>3, RaiseIInv
  <2>4. CASE Raise(c, "reserved", "pending", {})
    BY <2>1, <2>4, RaiseIInv
  <2>5. CASE Raise(c, "pending", "exclusive", {"shared"})
    BY <2>1, <2>5, RaiseIInv
  <2>6. CASE Commit(c) \/ Fetch(c)
    BY <2>1, <2>6, CommitIInv, FetchIInv
  <2> QED  BY <1>1, <2>2, <2>3, <2>4, <2>5, <2>6 DEF Step, Write
<1>2. ASSUME NEW c \in Callers, DiskFails(c) PROVE IInv'
  BY <1>2, StepFailsIInv DEF DiskFails
<1>3. ASSUME NEW c \in Callers, Call(c) \/ Begin(c) \/ Open(c) \/ Prepare(c) PROVE IInv'
  BY <1>3, CallIInv, BeginIInv, OpenIInv, PrepareIInv
<1>4. ASSUME NEW c \in Callers, Loop(c) \/ End(c) \/ Resume(c) PROVE IInv'
  BY <1>4, LoopIInv, EndIInv, ResumeIInv
<1>5. CASE UNCHANGED vars
  BY <1>5, StutterIInv
<1> QED  BY <1>1, <1>2, <1>3, <1>4, <1>5 DEF Next, Progress

\* Calls of sqlQuery keep IInv for ever.
THEOREM Invariance == Spec => []IInv
<1>1. Init => IInv
  BY InitIInv
<1>2. IInv /\ [Next]_vars => IInv'
  BY NextIInv
<1> QED  BY <1>1, <1>2, PTL DEF Spec

\* Every variable keeps its type; one caller writes at a time, nobody reads beside
\* a commit, and only a call with a statement holds a lock.
THEOREM TypeCorrect == Spec => []TypeOK
<1>1. IInv => TypeOK
  <2> SUFFICES ASSUME IInv PROVE TypeOK
    OBVIOUS
  <2>1. ASSUME NEW c \in Callers PROVE rows[c] \in Seq(1..Len(log)) /\ Len(rows[c]) <= Limit
    <3>1. rows[c] \in Seq(Nat) /\ Len(rows[c]) \in Nat /\ Len(log) \in Nat
      BY LenProperties DEF IInv, Typed
    <3>2. rows[c] \in [1..Len(rows[c]) -> Nat]
      BY <3>1, LenProperties
    <3>3. ASSUME NEW k \in 1..Len(rows[c]) PROVE rows[c][k] \in 1..Len(log)
      <4> DEFINE first == IF query[c].from = 0 THEN 1 ELSE query[c].from
      <4>1. rows[c][k] = k + first - 1 /\ rows[c][k] <= Len(log) /\ query[c].op = "select"
        BY DEF IInv, FoundSoFar
      <4>2. pc[c] # "idle"
        BY <3>1, EmptySeq DEF IInv, Told
      <4>3. query[c] \in Asks
        BY <4>2 DEF IInv, Told
      <4>4. first \in Nat /\ first >= 1
        BY <4>1, <4>3 DEF Asks, Firsts
      <4> HIDE DEF first
      <4>5. rows[c][k] \in Nat /\ rows[c][k] >= 1
        BY <3>1, <4>1, <4>4
      <4> QED  BY <3>1, <4>1, <4>5
    <3>4. rows[c] \in [1..Len(rows[c]) -> 1..Len(log)]
      BY <3>2, <3>3
    <3> QED  BY <3>1, <3>4, SMTT(40) DEF IInv, FoundSoFar
  <2>2. ASSUME NEW c \in Callers
        PROVE  /\ lock[c] # "none" => "statement" \in held[c]
               /\ lock[c] \in {"reserved", "pending", "exclusive"} => ~Others(c, {"reserved", "pending", "exclusive"})
               /\ lock[c] = "exclusive" => ~Others(c, {"shared"})
    BY DEF IInv, Holding, Granted, Others
  <2> QED  BY <2>1, <2>2 DEF IInv, Typed, TypeOK
<1> QED  BY <1>1, Invariance, PTL

\* Nothing is left behind but by a failed open, on any path of any number of calls.
THEOREM OnlyFailedOpenKeepsHolds == Spec => []OnlyFailedOpenKeeps
<1>1. IInv => OnlyFailedOpenKeeps
  BY DEF IInv, OnlyFailedOpenKeeps
<1> QED  BY <1>1, Invariance, PTL

\* Where no other call and no failing disk is met, only the query can be at fault.
THEOREM AloneNotRefusedHolds == Spec => []AloneNotRefused
<1>1. IInv => AloneNotRefused
  BY DEF IInv, Alone, AloneNotRefused
<1> QED  BY <1>1, Invariance, PTL

-----------------------------------------------------------------------------
(* sqlQuery implements MessageLog. *)

Calls == [c \in Callers |->
            IF pc[c] = "idle" THEN None ELSE [query |-> query[c], answer |-> Outcome(c)]]

\* A function on Callers changed at one of them.
LEMMA ChangeAt ==
  ASSUME NEW f, NEW g, f = [x \in Callers |-> f[x]], g = [x \in Callers |-> g[x]],
         NEW c \in Callers, NEW v, g[c] = v, \A x \in Callers \ {c} : g[x] = f[x]
  PROVE  g = [f EXCEPT ![c] = v]
OBVIOUS

\* Nobody's call changes but the one that steps.
LEMMA OthersCalls ==
  ASSUME NEW c \in Callers, Only(c)
  PROVE  \A d \in Callers \ {c} : Calls'[d] = Calls[d]
BY DEF Only, Calls, Outcome

\* A step that changes no call's outcome is not seen.
LEMMA SameOutcome ==
  ASSUME NEW c \in Callers, Only(c), pc[c] # "idle", pc'[c] # "idle", query'[c] = query[c],
         Outcome(c)' = Outcome(c), log' = log
  PROVE  UNCHANGED <<log, Calls>>
<1>1. Calls'[c] = Calls[c]
  BY DEF Calls
<1>2. \A d \in Callers : Calls'[d] = Calls[d]
  BY <1>1, OthersCalls
<1>3. Calls' = Calls
  BY <1>2 DEF Calls
<1> QED  BY <1>3

\* A step that gives a call its outcome answers it.
LEMMA NewOutcome ==
  ASSUME NEW c \in Callers, Only(c), pc[c] # "idle", pc'[c] # "idle", query[c] \in Asks,
         query'[c] = query[c], Outcome(c) = None,
         NEW e \in BOOLEAN, NEW ids, Outcome(c)' = [err |-> e, rows |-> ids]
  PROVE  Log!Asked(c) /\ Log!Answer(c, e, ids) /\ Calls[c].query = query[c]
<1>1. Calls[c] = [query |-> query[c], answer |-> None]
  BY DEF Calls
<1>2. Calls'[c] = [query |-> query[c], answer |-> [err |-> e, rows |-> ids]]
  BY DEF Calls
<1>3. Calls' = [Calls EXCEPT ![c] = [query |-> query[c], answer |-> [err |-> e, rows |-> ids]]]
  <2>1. Calls = [x \in Callers |-> Calls[x]] /\ Calls' = [x \in Callers |-> Calls'[x]]
    BY DEF Calls
  <2>2. \A d \in Callers \ {c} : Calls'[d] = Calls[d]
    BY OthersCalls
  <2> QED  BY <1>2, <2>1, <2>2, ChangeAt
<1>4. Calls' = [Calls EXCEPT ![c].answer = [err |-> e, rows |-> ids]]
  <2> PICK a : a = [err |-> e, rows |-> ids]
    OBVIOUS
  <2>1. [Calls[c] EXCEPT !.answer = a] = [query |-> query[c], answer |-> a]
    BY <1>1
  <2> QED  BY <1>3, <2>1
<1>5. Calls[c] # None /\ Calls[c].answer = None
  BY <1>1, NoneAssumption
<1> QED  BY <1>1, <1>4, <1>5 DEF Log!Asked, Log!Answer, Calls

\* No row and no call at the start.
LEMMA InitLog == Init => Log!Init
BY DEF Init, Log!Init

\* A call asks its query.
LEMMA CallLog == ASSUME IInv, NEW c \in Callers, Call(c) PROVE Log!Next
<1>1. PICK q \in Asks : query' = [query EXCEPT ![c] = q]
  BY DEF Call, Queries
<1>2. /\ pc[c] = "idle" /\ pc' = [pc EXCEPT ![c] = "begin"] /\ result[c] = None
      /\ UNCHANGED <<log, lock, result, rows, err, held, kept>>
  BY DEF Call, Goto, IInv, Told
<1>3. Only(c) /\ pc'[c] = "begin" /\ query'[c] = q
  BY <1>1, <1>2 DEF IInv, Typed, Only
<1>4. Calls[c] = None /\ Calls'[c] = [query |-> q, answer |-> None]
  <2>1. Outcome(c)' = None
    BY <1>2, <1>3, NoneAssumption DEF Outcome
  <2> QED  BY <1>2, <1>3, <2>1 DEF Calls
<1>5. Calls' = [Calls EXCEPT ![c] = [query |-> q, answer |-> None]]
  <2>1. Calls = [x \in Callers |-> Calls[x]] /\ Calls' = [x \in Callers |-> Calls'[x]]
    BY DEF Calls
  <2>2. \A d \in Callers \ {c} : Calls'[d] = Calls[d]
    BY <1>3, OthersCalls
  <2> QED  BY <1>4, <2>1, <2>2, ChangeAt
<1>6. Log!Ask(c, q)
  BY <1>2, <1>4, <1>5 DEF Log!Ask, Calls
<1>7. CASE \E m \in Texts : q = Log!Insertion(m)
  BY <1>6, <1>7 DEF Log!Next
<1>8. CASE \E i \in Firsts : q = Log!Selection(i)
  BY <1>6, <1>8 DEF Log!Next
<1>9. CASE \E o \in {"bad", "missing"} : q = [op |-> o]
  BY <1>6, <1>9 DEF Log!Next
<1> QED  BY <1>7, <1>8, <1>9 DEF Asks, Log!Insertion, Log!Selection

\* The script that goes on takes the answer.
LEMMA ResumeLog == ASSUME IInv, NEW c \in Callers, Resume(c) PROVE Log!Next
<1>1. /\ pc[c] = "returned" /\ pc' = [pc EXCEPT ![c] = "idle"]
      /\ query' = [query EXCEPT ![c] = None] /\ result' = [result EXCEPT ![c] = None]
      /\ rows' = [rows EXCEPT ![c] = <<>>] /\ err' = [err EXCEPT ![c] = FALSE]
      /\ held' = [held EXCEPT ![c] = {}]
      /\ UNCHANGED <<log, lock>>
  BY DEF Resume, Goto
<1>2. Only(c) /\ pc'[c] = "idle"
  BY <1>1 DEF IInv, Typed, Only
<1>3. query[c] \in Asks /\ err[c] \in BOOLEAN /\ rows[c] \in Seq(Nat) /\ <<>> \in Seq(Nat)
  BY <1>1 DEF IInv, Typed, Told
<1>4. Calls[c] = [query |-> query[c], answer |-> Outcome(c)] /\ Calls'[c] = None
  BY <1>1, <1>2 DEF Calls
<1>5. Outcome(c) \in Answers
  BY <1>1, <1>3 DEF Outcome, Answers
<1>6. Calls[c] # None /\ Calls[c].answer # None
  BY <1>3, <1>4, <1>5, NoneAssumption
<1>7. Calls' = [Calls EXCEPT ![c] = None]
  <2>1. Calls = [x \in Callers |-> Calls[x]] /\ Calls' = [x \in Callers |-> Calls'[x]]
    BY DEF Calls
  <2>2. \A d \in Callers \ {c} : Calls'[d] = Calls[d]
    BY <1>2, OthersCalls
  <2> QED  BY <1>4, <2>1, <2>2, ChangeAt
<1>8. Log!Take(c)
  BY <1>1, <1>6, <1>7 DEF Log!Take, Calls
<1> QED  BY <1>8 DEF Log!Next

\* An error is a refusal, whatever it comes from.
LEMMA RefuseLog ==
  ASSUME NEW c \in Callers, Only(c), pc[c] # "idle", pc'[c] # "idle", query[c] \in Asks,
         query'[c] = query[c], log' = log, Outcome(c) = None,
         Outcome(c)' = [err |-> TRUE, rows |-> <<>>]
  PROVE  Log!Next
<1>1. Log!Asked(c) /\ Log!Answer(c, TRUE, <<>>)
  BY NewOutcome
<1>2. Log!Refuse(c)
  BY <1>1 DEF Log!Refuse
<1> QED  BY <1>2 DEF Log!Next, Log!Serve

\* What has no outcome yet.
LEMMA NoOutcome ==
  ASSUME IInv, NEW c \in Callers,
         \/ pc[c] \in {"begin", "open", "prepare", "step"}
         \/ pc[c] = "loop" /\ result[c] = "row"
  PROVE  Outcome(c) = None /\ query[c] \in Asks /\ pc[c] # "idle"
BY NoneAssumption DEF Outcome, IInv, Told

\* What is no string is refused.
LEMMA BeginLog == ASSUME IInv, NEW c \in Callers, Begin(c) PROVE [Log!Next]_<<log, Calls>>
<1>1. /\ pc[c] = "begin" /\ result[c] = None
      /\ UNCHANGED <<log, lock, query, result, rows, kept, troubled>>
  BY DEF Begin, IInv, Told
<1>2. Outcome(c) = None /\ query[c] \in Asks
  BY <1>1, NoOutcome
<1>3. CASE query[c].op = "missing"
  <2>1. pc' = [pc EXCEPT ![c] = "returned"] /\ err' = [err EXCEPT ![c] = TRUE] /\ UNCHANGED held
    BY <1>3 DEF Begin, Goto
  <2>2. Only(c) /\ pc'[c] = "returned" /\ err'[c] = TRUE
    BY <1>1, <2>1 DEF IInv, Typed, Only
  <2>3. Outcome(c)' = [err |-> TRUE, rows |-> <<>>]
    BY <2>2 DEF Outcome
  <2> QED  BY <1>1, <1>2, <2>2, <2>3, RefuseLog
<1>4. CASE query[c].op # "missing"
  <2>1. pc' = [pc EXCEPT ![c] = "open"] /\ held' = [held EXCEPT ![c] = {"copy"}] /\ UNCHANGED err
    BY <1>4 DEF Begin, Goto
  <2>2. Only(c) /\ pc'[c] = "open"
    BY <1>1, <2>1 DEF IInv, Typed, Only
  <2>3. Outcome(c)' = None
    BY <1>1, <2>2, NoneAssumption DEF Outcome
  <2> QED  BY <1>1, <1>2, <2>2, <2>3, SameOutcome
<1> QED  BY <1>3, <1>4

\* A failed open is a refusal.
LEMMA OpenLog == ASSUME IInv, NEW c \in Callers, Open(c) PROVE [Log!Next]_<<log, Calls>>
<1>1. /\ pc[c] = "open" /\ result[c] = None /\ UNCHANGED <<log, lock, query, result, rows>>
  BY DEF Open, IInv, Told
<1>2. Outcome(c) = None /\ query[c] \in Asks
  BY <1>1, NoOutcome
<1>3. CASE /\ held' = [held EXCEPT ![c] = @ \cup {"db"}]
           /\ pc' = [pc EXCEPT ![c] = "prepare"]
           /\ UNCHANGED <<err, kept, troubled>>
  <2>1. Only(c) /\ pc'[c] = "prepare"
    BY <1>1, <1>3 DEF IInv, Typed, Only
  <2>2. Outcome(c)' = None
    BY <1>1, <2>1, NoneAssumption DEF Outcome
  <2> QED  BY <1>1, <1>2, <2>1, <2>2, SameOutcome
<1>4. CASE /\ held' = [held EXCEPT ![c] = {}]
           /\ err' = [err EXCEPT ![c] = TRUE]
           /\ pc' = [pc EXCEPT ![c] = "returned"]
  <2>1. Only(c) /\ pc'[c] = "returned" /\ err'[c] = TRUE
    BY <1>1, <1>4 DEF IInv, Typed, Only
  <2>2. Outcome(c)' = [err |-> TRUE, rows |-> <<>>]
    BY <2>1 DEF Outcome
  <2> QED  BY <1>1, <1>2, <2>1, <2>2, RefuseLog
<1> QED  BY <1>3, <1>4 DEF Open, Goto

\* A statement that is not compiled is a refusal.
LEMMA PrepareLog == ASSUME IInv, NEW c \in Callers, Prepare(c) PROVE [Log!Next]_<<log, Calls>>
<1>1. /\ pc[c] = "prepare" /\ result[c] = None
      /\ UNCHANGED <<log, lock, query, rows, err, kept, troubled>>
  BY DEF Prepare, IInv, Told
<1>2. Outcome(c) = None /\ query[c] \in Asks
  BY <1>1, NoOutcome
<1>3. CASE query[c].op = "bad" \/ Others(c, {"pending", "exclusive"})
  <2>1. result' = [result EXCEPT ![c] = "error"] /\ pc' = [pc EXCEPT ![c] = "loop"] /\ UNCHANGED held
    BY <1>3 DEF Prepare, Goto
  <2>2. Only(c) /\ pc'[c] = "loop" /\ result'[c] = "error"
    BY <1>1, <2>1 DEF IInv, Typed, Only
  <2>3. Outcome(c)' = [err |-> TRUE, rows |-> <<>>]
    BY <2>2 DEF Outcome
  <2> QED  BY <1>1, <1>2, <2>2, <2>3, RefuseLog
<1>4. CASE ~(query[c].op = "bad" \/ Others(c, {"pending", "exclusive"}))
  <2>1. /\ held' = [held EXCEPT ![c] = @ \cup {"statement"}] /\ pc' = [pc EXCEPT ![c] = "step"]
        /\ UNCHANGED result
    BY <1>4 DEF Prepare, Goto
  <2>2. Only(c) /\ pc'[c] = "step"
    BY <1>1, <2>1 DEF IInv, Typed, Only
  <2>3. Outcome(c)' = None
    BY <1>1, <2>1, <2>2, NoneAssumption DEF Outcome
  <2> QED  BY <1>1, <1>2, <2>2, <2>3, SameOutcome
<1> QED  BY <1>3, <1>4

\* So is one that fails.
LEMMA StepFailsLog ==
  ASSUME IInv, NEW c \in Callers, pc[c] = "step", StepFails(c), UNCHANGED <<query, rows, err, held>>
  PROVE  Log!Next
<1>1. /\ lock' = [lock EXCEPT ![c] = "none"] /\ result' = [result EXCEPT ![c] = "error"]
      /\ pc' = [pc EXCEPT ![c] = "loop"] /\ log' = log
  BY DEF StepFails, Goto
<1>2. Only(c) /\ result'[c] = "error" /\ pc'[c] = "loop"
  BY <1>1 DEF IInv, Typed, Only
<1>3. Outcome(c)' = [err |-> TRUE, rows |-> <<>>]
  BY <1>2 DEF Outcome
<1> QED  BY <1>1, <1>2, <1>3, NoOutcome, RefuseLog

\* A lock that is granted is not seen.
LEMMA RaiseLog ==
  ASSUME IInv, NEW c \in Callers, NEW from, NEW to, NEW blockers,
         Raise(c, from, to, blockers), UNCHANGED <<query, rows, err, held>>
  PROVE  [Log!Next]_<<log, Calls>>
<1>1. pc[c] = "step"
  BY DEF Raise
<1>2. CASE Others(c, blockers)
  BY <1>1, <1>2, StepFailsLog DEF Raise
<1>3. CASE ~Others(c, blockers)
  <2>1. lock' = [lock EXCEPT ![c] = to] /\ UNCHANGED <<log, pc, result>>
    BY <1>3 DEF Raise
  <2>2. Only(c)
    BY <2>1 DEF IInv, Typed, Only
  <2>3. Outcome(c)' = Outcome(c)
    BY <2>1 DEF Outcome
  <2> QED  BY <1>1, <2>1, <2>2, <2>3, SameOutcome
<1> QED  BY <1>2, <1>3

\* An INSERT takes effect with its commit.
LEMMA CommitLog ==
  ASSUME IInv, NEW c \in Callers, Commit(c), UNCHANGED <<query, rows, err, held>>
  PROVE  Log!Next
<1>1. /\ pc[c] = "step" /\ query[c].op = "insert"
      /\ lock' = [lock EXCEPT ![c] = "none"] /\ result' = [result EXCEPT ![c] = "done"]
      /\ pc' = [pc EXCEPT ![c] = "loop"] /\ log' = Append(log, query[c].text)
  BY DEF Commit, Stepping, StepEnds, Goto
<1>2. Only(c) /\ result'[c] = "done" /\ pc'[c] = "loop"
  BY <1>1 DEF IInv, Typed, Only
<1>3. rows[c] = <<>>
  <2>1. rows[c] \in Seq(Nat) /\ Len(rows[c]) \in Nat
    BY LenProperties DEF IInv, Typed
  <2>2. Len(rows[c]) = 0
    BY <1>1, <2>1 DEF IInv, FoundSoFar
  <2> QED  BY <2>1, <2>2, EmptySeq
<1>4. Outcome(c)' = [err |-> FALSE, rows |-> <<>>]
  BY <1>2, <1>3 DEF Outcome
<1>5. Log!Asked(c) /\ Log!Answer(c, FALSE, <<>>) /\ Calls[c].query = query[c]
  BY <1>1, <1>2, <1>4, NoOutcome, NewOutcome
<1>6. Log!Insert(c)
  BY <1>1, <1>5 DEF Log!Insert, Calls
<1> QED  BY <1>6 DEF Log!Next, Log!Serve

\* A call whose next row is past its limit, or past the end, found what there is.
LEMMA FoundAll ==
  ASSUME IInv, NEW c \in Callers, pc[c] = "step", query[c].op = "select",
         ~(Len(rows[c]) < Limit /\ Found(c) <= Len(log))
  PROVE  rows[c] = Log!RowsFrom(query[c].from)
<1> DEFINE first == IF query[c].from = 0 THEN 1 ELSE query[c].from
           n     == Len(rows[c])
           last  == IF Len(log) < first + Limit THEN Len(log) ELSE first + Limit - 1
           m     == IF last < first THEN 0 ELSE last - first + 1
<1>1. first \in Nat /\ first >= 1
  BY DEF IInv, Told, Asks, Firsts
<1>2. /\ rows[c] \in Seq(Nat) /\ n \in Nat /\ Len(log) \in Nat /\ Limit \in Nat /\ Limit >= 1
      /\ rows[c] = [k \in 1..n |-> rows[c][k]]
  BY LenProperties, LimitAssumption DEF IInv, Typed
<1>3. n <= Limit /\ \A k \in 1..n : rows[c][k] = k + first - 1 /\ rows[c][k] <= Len(log)
  BY DEF IInv, FoundSoFar
<1>4. ~(n < Limit /\ n + first <= Len(log))
  BY DEF Found
<1>5. Log!RowsFrom(query[c].from) = [k \in 1..m |-> first + k - 1]
  BY DEF Log!RowsFrom
<1> HIDE DEF first, n
<1>6. n >= 1 => n + first - 1 <= Len(log)
  BY <1>1, <1>2, <1>3
<1>7. m = n
  BY <1>1, <1>2, <1>3, <1>4, <1>6, SMTT(40)
<1> HIDE DEF m
<1>8. \A k \in 1..n : rows[c][k] = first + k - 1
  BY <1>1, <1>2, <1>3
<1>9. [k \in 1..n |-> rows[c][k]] = [k \in 1..n |-> first + k - 1]
  BY <1>8
<1> QED  BY <1>2, <1>5, <1>7, <1>9

\* A SELECT takes effect when it meets its end, at the log of that moment.
LEMMA FetchLog ==
  ASSUME IInv, NEW c \in Callers, Fetch(c), UNCHANGED <<query, rows, err, held>>
  PROVE  [Log!Next]_<<log, Calls>>
<1>1. /\ pc[c] = "step" /\ query[c].op = "select" /\ lock[c] = "shared" /\ log' = log
      /\ pc' = [pc EXCEPT ![c] = "loop"]
  BY DEF Fetch, Stepping, StepEnds, Goto
<1>2. Outcome(c) = None /\ query[c] \in Asks
  BY <1>1, NoOutcome
<1>3. CASE Len(rows[c]) < Limit /\ Found(c) <= Len(log)
  <2>1. result' = [result EXCEPT ![c] = "row"] /\ lock' = lock
    BY <1>3 DEF Fetch
  <2>2. Only(c) /\ pc'[c] = "loop" /\ result'[c] = "row"
    BY <1>1, <2>1 DEF IInv, Typed, Only
  <2>3. Outcome(c)' = None
    BY <2>2 DEF Outcome
  <2> QED  BY <1>1, <1>2, <2>2, <2>3, SameOutcome
<1>4. CASE ~(Len(rows[c]) < Limit /\ Found(c) <= Len(log))
  <2>1. result' = [result EXCEPT ![c] = "done"] /\ lock' = [lock EXCEPT ![c] = "none"]
    BY <1>4 DEF Fetch, StepEnds
  <2>2. Only(c) /\ pc'[c] = "loop" /\ result'[c] = "done"
    BY <1>1, <2>1 DEF IInv, Typed, Only
  <2> PICK ids : ids = rows[c]
    OBVIOUS
  <2>3. Outcome(c)' = [err |-> FALSE, rows |-> ids]
    BY <2>2 DEF Outcome
  <2>4. Log!Asked(c) /\ Log!Answer(c, FALSE, ids) /\ Calls[c].query = query[c]
    BY <1>1, <1>2, <2>2, <2>3, NewOutcome
  <2>5. ids = Log!RowsFrom(Calls[c].query.from)
    BY <1>1, <1>4, <2>4, FoundAll
  <2>6. Log!Select(c)
    BY <1>1, <2>4, <2>5 DEF Log!Select, Log!Answer, Calls
  <2> QED  BY <2>6 DEF Log!Next, Log!Serve
<1> QED  BY <1>3, <1>4

\* What the loop does with a row or an error is not seen.
LEMMA LoopLog == ASSUME IInv, NEW c \in Callers, Loop(c) PROVE UNCHANGED <<log, Calls>>
<1>1. /\ pc[c] = "loop" /\ pc'[c] \in {"step", "end"}
      /\ UNCHANGED <<log, lock, query, result, held, kept, troubled>>
      /\ result[c] = "row" \/ (pc'[c] = "end" /\ rows' = rows)
      /\ result[c] \in {"row", "done", "error"}
  BY DEF Loop, Goto, IInv, Typed
<1>2. Only(c)
  BY DEF Loop, Goto, IInv, Typed, Only
<1>3. Outcome(c)' = Outcome(c)
  BY <1>1 DEF Outcome
<1> QED  BY <1>1, <1>2, <1>3, SameOutcome

\* Nor is the way from the loop to the return.
LEMMA EndLog == ASSUME IInv, NEW c \in Callers, End(c) PROVE UNCHANGED <<log, Calls>>
<1>1. /\ pc[c] = "end" /\ pc'[c] = "returned" /\ result[c] \in {"done", "error"}
      /\ UNCHANGED <<log, query, result, rows, err, kept, troubled>>
  BY DEF End, Goto, IInv, Typed, Told
<1>2. Only(c)
  BY DEF End, Goto, IInv, Typed, Only
<1>3. err[c] = (result[c] = "error")
  BY <1>1 DEF IInv, Typed, Told
<1>4. CASE result[c] = "done"
  <2>1. Outcome(c) = [err |-> FALSE, rows |-> rows[c]]
    BY <1>1, <1>4 DEF Outcome
  <2>2. err[c] = FALSE
    BY <1>3, <1>4
  <2>3. Outcome(c)' = [err |-> FALSE, rows |-> rows[c]]
    BY <1>1, <2>2 DEF Outcome
  <2> QED  BY <1>1, <1>2, <2>1, <2>3, SameOutcome
<1>5. CASE result[c] = "error"
  <2>1. Outcome(c) = [err |-> TRUE, rows |-> <<>>]
    BY <1>1, <1>5 DEF Outcome
  <2>2. err[c] = TRUE
    BY <1>3, <1>5
  <2>3. Outcome(c)' = [err |-> TRUE, rows |-> <<>>]
    BY <1>1, <2>2 DEF Outcome
  <2> QED  BY <1>1, <1>2, <2>1, <2>3, SameOutcome
<1> QED  BY <1>1, <1>4, <1>5

\* Every step is one of MessageLog, or one it does not see.
LEMMA NextLog == ASSUME IInv, [Next]_vars PROVE [Log!Next]_<<log, Calls>>
<1>1. ASSUME NEW c \in Callers, Step(c) PROVE [Log!Next]_<<log, Calls>>
  <2>1. UNCHANGED <<query, rows, err, held>>
    BY <1>1 DEF Step
  <2>2. CASE Share(c)
    BY <2>1, <2>2, RaiseLog DEF Share
  <2>3. CASE Write(c)
    BY <2>1, <2>3, RaiseLog DEF Write
  <2>4. CASE Commit(c) \/ Fetch(c)
    BY <2>1, <2>4, CommitLog, FetchLog
  <2> QED  BY <1>1, <2>2, <2>3, <2>4 DEF Step
<1>2. ASSUME NEW c \in Callers, DiskFails(c) PROVE Log!Next
  BY <1>2, StepFailsLog DEF DiskFails
<1>3. ASSUME NEW c \in Callers, Begin(c) \/ Open(c) \/ Prepare(c) PROVE [Log!Next]_<<log, Calls>>
  BY <1>3, BeginLog, OpenLog, PrepareLog
<1>4. ASSUME NEW c \in Callers, Loop(c) \/ End(c) PROVE UNCHANGED <<log, Calls>>
  BY <1>4, LoopLog, EndLog
<1>5. ASSUME NEW c \in Callers, Call(c) \/ Resume(c) PROVE Log!Next
  BY <1>5, CallLog, ResumeLog
<1>6. CASE UNCHANGED vars
  BY <1>6 DEF vars, locals, Calls, Outcome
<1> QED  BY <1>1, <1>2, <1>3, <1>4, <1>5, <1>6 DEF Next, Progress

\* Every call takes effect once, at one moment between its call and its return, or
\* not at all if it returns an error, whatever calls run beside it.
THEOREM AtomicCallsHold == Spec => AtomicCalls
<1>1. Init => Log!Init
  BY InitLog
<1>2. IInv /\ [Next]_vars => [Log!Next]_<<log, Calls>>
  BY NextLog
<1> QED  BY <1>1, <1>2, Invariance, PTL DEF Spec, AtomicCalls, Log!Spec, Calls
=============================================================================
