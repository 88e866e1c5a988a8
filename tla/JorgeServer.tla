---------------------------- MODULE JorgeServer ----------------------------
(* main's accept loop and the life of a request thread (main.cpp).  Each   *)
(* connection's descriptor travels to its thread in a heap cell that main  *)
(* allocates before accept() and the thread frees; the thread closes the   *)
(* connection when it is done.  Nobody joins a thread and none is detached,*)
(* so the stack of a thread that ended is never given back.                *)
(*                                                                         *)
(* Reading, interpreting and answering a request is one step here: RecvLoop,*)
(* RequestParser and JorgeLua have the details.  The files that Lua and    *)
(* sqlite open while a request is served take no descriptors here.         *)
EXTENDS Naturals, Sequences, FiniteSets, FiniteSetsExt, Functions

CONSTANTS
  Clients,     \* connections, each made once
  Fds,         \* the descriptors left for connections, numbers
  Cells,       \* the heap blocks malloc may return for conn_fd
  Backlog,     \* BACKLOG: how many connections the queue holds
  MaxThreads,  \* how many stacks the process may map
  MaxLost,     \* a bound: more lost cells are not counted
  None

ASSUME NumbersAssumption ==
  /\ Fds \subseteq Nat /\ Backlog \in Nat \ {0} /\ MaxThreads \in Nat /\ MaxLost \in Nat
ASSUME NoneAssumption == None \notin Fds /\ None \notin Clients /\ None \notin Cells
\* main holds a cell, and so does every thread that has not started.
ASSUME CellsAssumption ==
  IsFiniteSet(Fds) /\ IsFiniteSet(Cells) /\ Cardinality(Cells) > Cardinality(Fds)

VARIABLES
  queue,     \* connections waiting for accept()
  fds,       \* open descriptors, each with the client at its other end
  cells,     \* live heap cells with their contents, None before the store
  main,      \* where main is
  conn_fd,   \* main's local: a cell
  threads,   \* every thread ever created, in order
  lost,      \* cells nobody frees
  fault,     \* a thread used a cell that is freed or has no value
  seen,      \* history: clients that have connected
  orphans,   \* history: clients accepted for whom no thread was created
  dealt      \* history: <<t, c>> if thread t dealt with client c's request

history == <<seen, orphans, dealt>>
vars    == <<queue, fds, cells, main, conn_fd, threads, lost, fault, history>>

Init ==
  /\ queue = <<>>
  /\ fds = [f \in {} |-> None] /\ cells = [c \in {} |-> None]
  /\ main = "malloc" /\ conn_fd = None
  /\ threads = <<>>
  /\ lost = 0 /\ fault = FALSE
  /\ seen = {} /\ orphans = {} /\ dealt = {}

Connect(c) ==
  /\ c \notin seen /\ Len(queue) < Backlog
  /\ queue' = Append(queue, c)
  /\ seen' = seen \cup {c}
  /\ UNCHANGED <<fds, cells, main, conn_fd, threads, lost, fault, orphans, dealt>>

-----------------------------------------------------------------------------
(* main.                                                                   *)

\* Mutant: one cell for all connections, allocated before the loop.
MallocOnce ==
  /\ main = "malloc"
  /\ conn_fd' = IF conn_fd = None THEN CHOOSE c \in Cells : TRUE ELSE conn_fd
  /\ cells' = [d \in DOMAIN cells \cup {conn_fd'} |-> IF d = conn_fd' THEN None ELSE cells[d]]
  /\ main' = "accept"
  /\ UNCHANGED <<queue, fds, threads, lost, fault, history>>

Malloc ==
  /\ main = "malloc"
  /\ \E c \in Cells \ DOMAIN cells :
       /\ conn_fd' = c
       /\ cells' = [d \in DOMAIN cells \cup {c} |-> IF d = c THEN None ELSE cells[d]]
  /\ main' = "accept"
  /\ UNCHANGED <<queue, fds, threads, lost, fault, history>>

LowestFree == Min(Fds \ DOMAIN fds)

Accept ==
  /\ main = "accept"
  /\ queue # <<>> /\ Fds \ DOMAIN fds # {}
  /\ queue' = Tail(queue)
  /\ fds' = [f \in DOMAIN fds \cup {LowestFree} |-> IF f = LowestFree THEN Head(queue) ELSE fds[f]]
  /\ cells' = [cells EXCEPT ![conn_fd] = LowestFree]
  /\ main' = "create"
  /\ UNCHANGED <<conn_fd, threads, lost, fault, history>>

\* The next round of the loop allocates another cell.
Forget == cells' = Restrict(cells, DOMAIN cells \ {conn_fd}) /\ lost' = Min({lost + 1, MaxLost})

\* Mutant: the result of accept() is passed on unchecked.
AcceptUnchecked ==
  /\ main = "accept" /\ Fds \ DOMAIN fds = {}
  /\ cells' = [cells EXCEPT ![conn_fd] = -1]
  /\ main' = "create"
  /\ UNCHANGED <<queue, fds, conn_fd, threads, lost, fault, history>>

\* accept() fails, as long as no descriptor is free or with a pending error of the
\* connection at the head of the queue.
AcceptFails ==
  /\ main = "accept"
  /\ \/ Fds \ DOMAIN fds = {} /\ UNCHANGED queue
     \/ Fds \ DOMAIN fds # {} /\ queue # <<>> /\ queue' = Tail(queue)
  /\ Forget
  /\ main' = "malloc"
  /\ UNCHANGED <<fds, conn_fd, threads, fault, history>>

\* pthread_create, whose result is not looked at.
Create ==
  /\ main = "create"
  /\ main' = "malloc"
  /\ IF Len(threads) < MaxThreads
     THEN /\ threads' = Append(threads, [at |-> "copy", data |-> conn_fd, conn_fd |-> None])
          /\ UNCHANGED <<cells, lost, orphans>>
     ELSE /\ Forget
          /\ orphans' = orphans \cup {fds[f] : f \in DOMAIN fds \cap {cells[conn_fd]}}
          /\ UNCHANGED threads
  /\ UNCHANGED <<queue, fds, conn_fd, fault, seen, dealt>>

Main == Malloc \/ Accept \/ AcceptFails \/ Create

-----------------------------------------------------------------------------
(* req_thread.                                                             *)

At(t, here) == ~fault /\ threads[t].at = here
Goto(t, to) == threads' = [threads EXCEPT ![t].at = to]

Copy(t) ==
  /\ At(t, "copy")
  /\ LET d == threads[t].data
     IN  IF d \in DOMAIN cells /\ cells[d] # None
         THEN /\ threads' = [threads EXCEPT ![t].conn_fd = cells[d], ![t].at = "free"]
              /\ UNCHANGED fault
         ELSE fault' = TRUE /\ UNCHANGED threads
  /\ UNCHANGED <<queue, fds, cells, main, conn_fd, lost, history>>

Free(t) ==
  /\ At(t, "free")
  /\ IF threads[t].data \in DOMAIN cells
     THEN /\ cells' = Restrict(cells, DOMAIN cells \ {threads[t].data})
          /\ Goto(t, "serve")
          /\ UNCHANGED fault
     ELSE fault' = TRUE /\ UNCHANGED <<cells, threads>>
  /\ UNCHANGED <<queue, fds, main, conn_fd, lost, history>>

\* The request is read over the descriptor, and answered over it if it has a verb.
Serve(t) ==
  /\ At(t, "serve")
  /\ Goto(t, "close")
  /\ dealt' = dealt \cup {<<t, fds[f]>> : f \in DOMAIN fds \cap {threads[t].conn_fd}}
  /\ UNCHANGED <<queue, fds, cells, main, conn_fd, lost, fault, seen, orphans>>

\* Mutant: a thread whose request had no verb returns without the cleanup.
CloseIfVerb(t) ==
  /\ At(t, "close")
  /\ Goto(t, "ended")
  /\ fds' \in {fds, Restrict(fds, DOMAIN fds \ {threads[t].conn_fd})}
  /\ UNCHANGED <<queue, cells, main, conn_fd, lost, fault, history>>

\* Mutant: the connection is closed when the thread ends and once more then.
CloseTwice(t) ==
  /\ threads[t].at \in {"close", "ended"}
  /\ Goto(t, IF threads[t].at = "close" THEN "ended" ELSE "really_ended")
  /\ fds' = Restrict(fds, DOMAIN fds \ {threads[t].conn_fd})
  /\ UNCHANGED <<queue, cells, main, conn_fd, lost, fault, history>>

Close(t) ==
  /\ At(t, "close")
  /\ Goto(t, "ended")
  /\ fds' = Restrict(fds, DOMAIN fds \ {threads[t].conn_fd})
  /\ UNCHANGED <<queue, cells, main, conn_fd, lost, fault, history>>

Thread(t) == Copy(t) \/ Free(t) \/ Serve(t) \/ Close(t)

Next ==
  \/ \E c \in Clients : Connect(c)
  \/ ~fault /\ Main
  \/ \E t \in DOMAIN threads : Thread(t)

Spec     == Init /\ [][Next]_vars
FairSpec == Spec /\ WF_vars(~fault /\ Main)
                 /\ \A t \in 1..MaxThreads : WF_vars(t \in DOMAIN threads /\ Thread(t))

-----------------------------------------------------------------------------
(* Properties *)

TypeOK ==
  /\ queue \in Seq(Clients) /\ Len(queue) <= Backlog
  /\ DOMAIN fds \subseteq Fds /\ \A f \in DOMAIN fds : fds[f] \in Clients
  /\ DOMAIN cells \subseteq Cells /\ \A c \in DOMAIN cells : cells[c] \in Fds \cup {None}
  /\ main \in {"malloc", "accept", "create"} /\ conn_fd \in Cells \cup {None}
  /\ threads \in Seq([at : {"copy", "free", "serve", "close", "ended"},
                      data : Cells, conn_fd : Fds \cup {None}])
  /\ Len(threads) <= MaxThreads /\ lost \in 0..MaxLost /\ fault \in BOOLEAN
  /\ seen \subseteq Clients /\ orphans \subseteq seen
  /\ dealt \subseteq (DOMAIN threads) \X seen

Starting == {t \in DOMAIN threads : threads[t].at \in {"copy", "free"}}
Running  == {t \in DOMAIN threads : threads[t].at \in {"free", "serve", "close"}}
Orphaned == {f \in DOMAIN fds : fds[f] \in orphans}

\* Every cell is one party's: main's, while main fills it, or that of the one
\* thread it was passed to, and no cell is used after it was freed.
CellsPassed ==
  /\ ~fault
  /\ main # "malloc" => conn_fd \in DOMAIN cells
  /\ \A t \in Starting : /\ threads[t].data \in DOMAIN cells
                         /\ threads[t].data = conn_fd => main = "malloc"
                         /\ \A u \in Starting \ {t} : threads[u].data # threads[t].data
  /\ Cardinality(DOMAIN cells) = Cardinality(Starting) + (IF main = "malloc" THEN 0 ELSE 1)

\* An open descriptor is one party's as well: one thread's, that of a thread
\* still to copy it, main's, or nobody's for ever if pthread_create failed.
OneOwner ==
  /\ \A t, u \in Running : threads[t].conn_fd = threads[u].conn_fd => t = u
  /\ \A t \in Running : threads[t].conn_fd \in DOMAIN fds \ Orphaned
  /\ Cardinality(DOMAIN fds \ Orphaned) =
       Cardinality(Running \cup Starting) + (IF main = "create" THEN 1 ELSE 0)

\* main implements Connections: no descriptor is closed under another
\* connection, and every request is dealt with once before its connection is.
Status(c) == IF c \notin seen THEN "new"
             ELSE IF c \in Range(queue) THEN "queued"
             ELSE IF c \in Range(fds) THEN "open" ELSE "closed"
Promise == INSTANCE Connections WITH
  status     <- [c \in Clients |-> Status(c)],
  descriptor <- [c \in Clients |-> IF c \in Range(fds) THEN CHOOSE f \in DOMAIN fds : fds[f] = c
                                   ELSE None],
  dealt      <- [c \in Clients |-> Cardinality({t \in DOMAIN threads : <<t, c>> \in dealt})]
KeepsPromise == Promise!Spec

\* A connection does not wait in the queue for ever, unless every descriptor
\* belongs to a connection that never got a thread; if clients read what they
\* are sent, for to one that does not a thread may be sending for ever.
QueueMoves ==
  \A c \in Clients : c \in Range(queue) ~> (c \notin Range(queue) \/ Orphaned = Fds \/ fault)

\* "the main loop awaits connections e spawns threads for each request"
\* (main.cpp:66; :23 says the same of req_thread).
ThreadForEachRequest == orphans = {}
=============================================================================
