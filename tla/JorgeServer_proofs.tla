------------------------ MODULE JorgeServer_proofs -------------------------
(* The accept loop and its threads, for any number of clients, descriptors,*)
(* cells and stacks.  IInv holds at the start and each step keeps it, and  *)
(* each step is one of Connections, or one it does not see.                *)
EXTENDS JorgeServer, FiniteSetTheorems, SequenceTheorems, WellFoundedInduction, TLAPS

\* The inductive invariant behind TypeOK, CellsPassed, OneOwner and KeepsPromise.
\* A descriptor's party is the thread that has it, or whose cell does, main from
\* accept() to pthread_create, or nobody if that failed; clients wait or are
\* connected once; a thread deals with the client of its own descriptor, and with
\* no other.
Active  == {t \in DOMAIN threads : threads[t].at # "ended"}
Held(t) == IF threads[t].at = "copy" THEN cells[threads[t].data] ELSE threads[t].conn_fd

CellOwners ==
  /\ ~fault
  /\ main # "malloc" => conn_fd \in DOMAIN cells
  /\ \A t \in Starting : /\ threads[t].data \in DOMAIN cells
                         /\ threads[t].data = conn_fd => main = "malloc"
  /\ \A t, u \in Starting : threads[t].data = threads[u].data => t = u
  /\ \A c \in DOMAIN cells :
       (main # "malloc" /\ c = conn_fd) \/ \E t \in Starting : threads[t].data = c
FdOwners ==
  /\ \A t \in Active : Held(t) \in DOMAIN fds \ Orphaned
  /\ \A t, u \in Active : Held(t) = Held(u) => t = u
  /\ main = "create" => /\ cells[conn_fd] \in DOMAIN fds \ Orphaned
                        /\ \A t \in Active : Held(t) # cells[conn_fd]
  /\ \A f \in DOMAIN fds \ Orphaned :
       (main = "create" /\ f = cells[conn_fd]) \/ \E t \in Active : Held(t) = f
ClientsOnce ==
  /\ \A i \in DOMAIN queue : queue[i] \in seen /\ \A j \in DOMAIN queue : queue[i] = queue[j] => i = j
  /\ \A f \in DOMAIN fds : /\ fds[f] \in seen
                          /\ \A g \in DOMAIN fds : fds[f] = fds[g] => f = g
                          /\ \A i \in DOMAIN queue : queue[i] # fds[f]
  /\ \A c \in orphans : \E f \in DOMAIN fds : fds[f] = c
DealtOnce ==
  /\ \A t \in DOMAIN threads : \A c \in Clients :
       <<t, c>> \in dealt =>
         /\ threads[t].at \in {"close", "ended"}
         /\ \A i \in DOMAIN queue : queue[i] # c
         /\ threads[t].at = "ended" => \A f \in DOMAIN fds : fds[f] # c
         /\ threads[t].at = "close" => fds[threads[t].conn_fd] = c
         /\ \A u \in DOMAIN threads : <<u, c>> \in dealt => u = t
  /\ \A t \in DOMAIN threads : threads[t].at = "close" => <<t, fds[threads[t].conn_fd]>> \in dealt
IInv == TypeOK /\ CellOwners /\ FdOwners /\ ClientsOnce /\ DealtOnce

\* accept() takes the lowest free descriptor, which exists.
LEMMA LowestIsFree ==
  ASSUME Fds \ DOMAIN fds # {}
  PROVE  LowestFree \in Fds \ DOMAIN fds
<1> DEFINE S == Fds \ DOMAIN fds
           R == {ss \in Nat \X Nat : ss[1] < ss[2]}
<1>1. IsWellFoundedOn(R, Nat)
  BY NatLessThanWellFounded DEF OpToRel
<1>2. S \subseteq Nat /\ S # {}
  BY NumbersAssumption
<1> HIDE DEF S
<1>3. PICK m \in S : \A x \in S : ~(<<x, m>> \in R)
  <2> HIDE DEF R
  <2> QED  BY <1>1, <1>2, WFMin
<1>4. ASSUME NEW x \in S PROVE m <= x
  <2>1. ~(x < m)
    BY <1>2, <1>3
  <2> QED  BY <1>2, <2>1
<1>5. Min(S) \in S
  BY <1>3, <1>4 DEF Min
<1> QED  BY <1>5 DEF S, LowestFree

\* What the type of threads says of each of them.
LEMMA ThreadsType ==
  ASSUME TypeOK
  PROVE  /\ Len(threads) \in Nat /\ DOMAIN threads = 1..Len(threads)
         /\ \A t \in DOMAIN threads :
              threads[t] \in [at : {"copy", "free", "serve", "close", "ended"},
                              data : Cells, conn_fd : Fds \cup {None}]
<1> DEFINE Record == [at : {"copy", "free", "serve", "close", "ended"},
                      data : Cells, conn_fd : Fds \cup {None}]
<1>1. threads \in Seq(Record)
  BY DEF TypeOK
<1> HIDE DEF Record
<1>2. Len(threads) \in Nat /\ DOMAIN threads = 1..Len(threads) /\ threads \in [1..Len(threads) -> Record]
  BY <1>1, LenProperties
<1> QED  BY <1>2 DEF Record

\* A thread that goes on changes no other.
LEMMA GotoChanges ==
  ASSUME TypeOK, NEW t \in DOMAIN threads, NEW to \in {"copy", "free", "serve", "close", "ended"},
         Goto(t, to)
  PROVE  /\ threads' \in Seq([at : {"copy", "free", "serve", "close", "ended"},
                              data : Cells, conn_fd : Fds \cup {None}])
         /\ Len(threads') = Len(threads)
         /\ DOMAIN threads' = DOMAIN threads
         /\ \A u \in DOMAIN threads :
              /\ threads'[u].at = IF u = t THEN to ELSE threads[u].at
              /\ threads'[u].data = threads[u].data
              /\ threads'[u].conn_fd = threads[u].conn_fd
<1> DEFINE Record == [at : {"copy", "free", "serve", "close", "ended"},
                      data : Cells, conn_fd : Fds \cup {None}]
           new == [threads[t] EXCEPT !.at = to]
<1>1. threads[t] \in Record /\ threads \in Seq(Record) /\ DOMAIN threads = 1..Len(threads)
  BY ThreadsType DEF TypeOK
<1>2. new \in Record /\ new.at = to /\ new.data = threads[t].data /\ new.conn_fd = threads[t].conn_fd
  BY <1>1
<1>3. threads' = [threads EXCEPT ![t] = new]
  BY DEF Goto
<1> HIDE DEF new
<1>4. /\ threads' \in Seq(Record) /\ Len(threads') = Len(threads)
      /\ \A u \in 1..Len(threads) : threads'[u] = IF u = t THEN new ELSE threads[u]
  BY <1>1, <1>2, <1>3, ExceptSeq
<1>5. DOMAIN threads' = DOMAIN threads
  BY <1>3
<1> QED  BY <1>1, <1>2, <1>4, <1>5

\* The two kinds of parties in IInv, said of one thread.
LEMMA ThreadKinds ==
  /\ \A t : t \in Starting <=> t \in DOMAIN threads /\ threads[t].at \in {"copy", "free"}
  /\ \A t : t \in Active <=> t \in DOMAIN threads /\ threads[t].at # "ended"
  /\ \A f : f \in Orphaned <=> f \in DOMAIN fds /\ fds[f] \in orphans
BY DEF Starting, Active, Orphaned

\* At the start there is no thread, no cell, no descriptor and nobody waiting.
LEMMA InitIInv == Init => IInv
<1> SUFFICES ASSUME Init PROVE IInv
  OBVIOUS
<1> USE DEF Init
<1>1. TypeOK
  <2>1. /\ queue \in Seq(Clients) /\ Len(queue) = 0
        /\ threads \in Seq([at : {"copy", "free", "serve", "close", "ended"},
                            data : Cells, conn_fd : Fds \cup {None}]) /\ Len(threads) = 0
    OBVIOUS
  <2>2. DOMAIN fds = {} /\ DOMAIN cells = {} /\ dealt \subseteq (DOMAIN threads) \X seen
    OBVIOUS
  <2>3. Len(queue) <= Backlog /\ Len(threads) <= MaxThreads /\ lost \in 0..MaxLost
    BY <2>1, NumbersAssumption
  <2> QED  BY <2>1, <2>2, <2>3 DEF TypeOK
<1>2. DOMAIN threads = {} /\ DOMAIN queue = {} /\ DOMAIN fds = {} /\ DOMAIN cells = {}
  OBVIOUS
<1>3. CellOwners /\ FdOwners
  BY <1>2 DEF CellOwners, FdOwners, Starting, Active, Orphaned
<1>4. ClientsOnce /\ DealtOnce
  BY <1>2 DEF ClientsOnce, DealtOnce
<1> QED  BY <1>1, <1>3, <1>4 DEF IInv
-----------------------------------------------------------------------------
(* The clients. *)

\* A client that connects is at the end of the queue, and was nowhere before.
LEMMA ConnectIInv == ASSUME IInv, NEW c \in Clients, Connect(c) PROVE IInv'
<1> USE DEF Connect
<1>1. /\ queue' \in Seq(Clients) /\ Len(queue') = Len(queue) + 1 /\ Len(queue) \in Nat
      /\ DOMAIN queue = 1..Len(queue) /\ DOMAIN queue' = 1..Len(queue) + 1
      /\ \A i \in DOMAIN queue : queue'[i] = queue[i]
      /\ queue'[Len(queue) + 1] = c
  BY AppendProperties, LenProperties DEF IInv, TypeOK
<1>2. TypeOK'
  BY <1>1, NumbersAssumption DEF IInv, TypeOK
<1>3. CellOwners' /\ FdOwners'
  BY DEF IInv, CellOwners, FdOwners, Starting, Active, Orphaned, Held
<1>4. ClientsOnce'
  BY <1>1 DEF IInv, TypeOK, ClientsOnce
<1>5. DealtOnce'
  <2>1. \A t : <<t, c>> \notin dealt
    BY DEF IInv, TypeOK
  <2> QED  BY <1>1, <2>1 DEF IInv, DealtOnce
<1> QED  BY <1>2, <1>3, <1>4, <1>5 DEF IInv

-----------------------------------------------------------------------------
(* main. *)

\* The cell main allocates belongs to no thread.
LEMMA MallocIInv == ASSUME IInv, Malloc PROVE IInv'
<1>1. PICK c \in Cells \ DOMAIN cells :
        /\ conn_fd' = c
        /\ cells' = [d \in DOMAIN cells \cup {c} |-> IF d = c THEN None ELSE cells[d]]
  BY DEF Malloc
<1>2. /\ main = "malloc" /\ main' = "accept"
      /\ UNCHANGED <<queue, fds, threads, lost, fault, history>>
  BY DEF Malloc
<1>3. /\ DOMAIN cells' = DOMAIN cells \cup {c} /\ cells'[c] = None
      /\ \A d \in DOMAIN cells : cells'[d] = cells[d]
  BY <1>1
<1>4. TypeOK'
  BY <1>1, <1>2, <1>3 DEF IInv, TypeOK, history
<1>5. Starting' = Starting /\ Active' = Active /\ Orphaned' = Orphaned
  BY <1>2 DEF Starting, Active, Orphaned, history
<1>6. CellOwners'
  BY <1>1, <1>2, <1>3, <1>5 DEF IInv, CellOwners
<1>7. \A t \in Active : Held(t)' = Held(t)
  BY <1>2, <1>3, ThreadKinds DEF IInv, CellOwners, Held
<1>8. FdOwners'
  BY <1>2, <1>5, <1>7 DEF IInv, FdOwners
<1>9. ClientsOnce' /\ DealtOnce'
  BY <1>2 DEF IInv, ClientsOnce, DealtOnce, history
<1> QED  BY <1>4, <1>6, <1>8, <1>9 DEF IInv

\* The new descriptor is in no cell but main's, and its client leaves the queue.
LEMMA AcceptIInv == ASSUME IInv, Accept PROVE IInv'
<1> DEFINE f == LowestFree
           c == Head(queue)
<1>1. f \in Fds \ DOMAIN fds
  BY LowestIsFree DEF Accept
<1>2. /\ DOMAIN queue = 1..Len(queue) /\ Len(queue) \in Nat \ {0}
      /\ c = queue[1] /\ c \in Clients /\ queue' \in Seq(Clients)
      /\ Len(queue') = Len(queue) - 1 /\ DOMAIN queue' = 1..Len(queue')
      /\ \A i \in DOMAIN queue' : queue'[i] = queue[i + 1]
  BY HeadTailProperties, LenProperties, EmptySeq DEF Accept, IInv, TypeOK
<1>3. /\ main = "accept" /\ main' = "create" /\ conn_fd \in DOMAIN cells
      /\ UNCHANGED <<conn_fd, threads, lost, fault, history>>
  BY DEF Accept, IInv, CellOwners
<1>4. /\ DOMAIN fds' = DOMAIN fds \cup {f} /\ fds'[f] = c
      /\ \A g \in DOMAIN fds : fds'[g] = fds[g]
  BY <1>1 DEF Accept
<1>5. /\ DOMAIN cells' = DOMAIN cells /\ cells'[conn_fd] = f
      /\ \A d \in DOMAIN cells \ {conn_fd} : cells'[d] = cells[d]
  BY <1>3 DEF Accept
<1> HIDE DEF f, c
<1>6. TypeOK'
  <2>1. queue' \in Seq(Clients) /\ Len(queue') <= Backlog
    BY <1>2, NumbersAssumption DEF IInv, TypeOK
  <2>2. DOMAIN fds' \subseteq Fds /\ \A g \in DOMAIN fds' : fds'[g] \in Clients
    BY <1>1, <1>2, <1>4 DEF IInv, TypeOK
  <2>3. DOMAIN cells' \subseteq Cells /\ \A d \in DOMAIN cells' : cells'[d] \in Fds \cup {None}
    BY <1>1, <1>5 DEF IInv, TypeOK
  <2> QED  BY <1>3, <2>1, <2>2, <2>3 DEF IInv, TypeOK, history
<1>7. c \notin orphans
  BY <1>2 DEF IInv, ClientsOnce
<1>8. Starting' = Starting /\ Active' = Active /\ Orphaned' = Orphaned
  BY <1>1, <1>3, <1>4, <1>7 DEF Starting, Active, Orphaned, history
<1>9. CellOwners'
  BY <1>3, <1>5, <1>8 DEF IInv, CellOwners
<1>10. \A t \in Active : Held(t)' = Held(t)
  BY <1>3, <1>5, ThreadKinds DEF IInv, CellOwners, Held
<1>11. FdOwners'
  BY <1>1, <1>3, <1>4, <1>5, <1>7, <1>8, <1>10, ThreadKinds DEF IInv, FdOwners
<1>12. ClientsOnce'
  BY <1>1, <1>2, <1>3, <1>4, SMTT(40) DEF IInv, ClientsOnce, history
<1>13. DealtOnce'
  BY <1>1, <1>2, <1>3, <1>4, ThreadKinds, SMTT(40) DEF IInv, DealtOnce, FdOwners, Held, history
<1> QED  BY <1>6, <1>9, <1>11, <1>12, <1>13 DEF IInv

\* What accept() or pthread_create leave behind when they fail: main's cell is gone.
LEMMA ForgetCells ==
  ASSUME IInv, Forget, main # "malloc"
  PROVE  /\ DOMAIN cells' = DOMAIN cells \ {conn_fd}
         /\ \A d \in DOMAIN cells' : cells'[d] = cells[d]
         /\ \A t \in Starting : threads[t].data \in DOMAIN cells'
         /\ \A d \in DOMAIN cells' : \E t \in Starting : threads[t].data = d
         /\ lost' \in 0..MaxLost
<1>1. /\ DOMAIN cells' = DOMAIN cells \ {conn_fd}
      /\ \A d \in DOMAIN cells' : cells'[d] = cells[d]
  BY DEF Forget, Restrict
<1>2. lost' \in 0..MaxLost
  <2> DEFINE S == {lost + 1, MaxLost}
  <2>1. lost \in Nat /\ MaxLost \in Nat /\ lost <= MaxLost
    BY NumbersAssumption DEF IInv, TypeOK
  <2>2. \E x \in S : \A y \in S : x <= y
    BY <2>1
  <2>3. Min(S) \in S /\ Min(S) <= MaxLost
    BY <2>2 DEF Min
  <2> QED  BY <2>1, <2>3 DEF Forget
<1> QED  BY <1>1, <1>2 DEF IInv, CellOwners

\* A failing accept() may cost the head of the queue its place, and main its cell.
LEMMA AcceptFailsIInv == ASSUME IInv, AcceptFails PROVE IInv'
<1>1. /\ main = "accept" /\ main' = "malloc" /\ Forget
      /\ UNCHANGED <<fds, conn_fd, threads, fault, history>>
  BY DEF AcceptFails
<1>2. /\ DOMAIN queue = 1..Len(queue) /\ Len(queue) \in Nat
      /\ queue' \in Seq(Clients) /\ Len(queue') <= Len(queue) /\ DOMAIN queue' = 1..Len(queue')
      /\ \/ queue' = queue
         \/ \A i \in DOMAIN queue' : i + 1 \in DOMAIN queue /\ queue'[i] = queue[i + 1]
  <2>1. queue \in Seq(Clients) /\ DOMAIN queue = 1..Len(queue) /\ Len(queue) \in Nat
    BY LenProperties DEF IInv, TypeOK
  <2>2. CASE queue' = queue
    BY <2>1, <2>2
  <2>3. CASE queue # <<>> /\ queue' = Tail(queue)
    <3>1. /\ queue' \in Seq(Clients) /\ Len(queue') = Len(queue) - 1 /\ DOMAIN queue' = 1..Len(queue')
          /\ \A i \in 1..Len(queue') : queue'[i] = queue[i + 1]
      BY <2>1, <2>3, HeadTailProperties, LenProperties
    <3> QED  BY <2>1, <3>1
  <2> QED  BY <2>2, <2>3 DEF AcceptFails
<1>3. TypeOK'
  <2>1. queue' \in Seq(Clients) /\ Len(queue') <= Backlog
    BY <1>2, NumbersAssumption DEF IInv, TypeOK
  <2>2. DOMAIN cells' \subseteq Cells /\ \A d \in DOMAIN cells' : cells'[d] \in Fds \cup {None}
    BY <1>1, ForgetCells DEF IInv, TypeOK
  <2>3. lost' \in 0..MaxLost
    BY <1>1, ForgetCells
  <2> QED  BY <1>1, <2>1, <2>2, <2>3 DEF IInv, TypeOK, history
<1>4. Starting' = Starting /\ Active' = Active /\ Orphaned' = Orphaned
  BY <1>1 DEF Starting, Active, Orphaned, history
<1>5. CellOwners'
  BY <1>1, <1>4, ForgetCells DEF IInv, CellOwners
<1>6. \A t \in Active : Held(t)' = Held(t)
  BY <1>1, ForgetCells, ThreadKinds DEF Held
<1>7. FdOwners'
  BY <1>1, <1>4, <1>6 DEF IInv, FdOwners
<1>8. ClientsOnce'
  BY <1>1, <1>2 DEF IInv, ClientsOnce, history
<1>9. DealtOnce'
  BY <1>1, <1>2 DEF IInv, DealtOnce, history
<1> QED  BY <1>3, <1>5, <1>7, <1>8, <1>9 DEF IInv

\* pthread_create passes main's cell and its descriptor on to the new thread, or to
\* nobody.
LEMMA CreateIInv == ASSUME IInv, Create PROVE IInv'
<1>1. /\ main = "create" /\ main' = "malloc" /\ conn_fd \in DOMAIN cells
      /\ UNCHANGED <<queue, fds, conn_fd, fault, seen, dealt>>
  BY DEF Create, IInv, CellOwners
<1>2. CASE Len(threads) < MaxThreads
  <2> DEFINE new == [at |-> "copy", data |-> conn_fd, conn_fd |-> None]
  <2> PICK n : n = Len(threads) + 1
    OBVIOUS
  <2>1. UNCHANGED <<cells, lost, orphans>> /\ threads' = Append(threads, new)
    BY <1>2 DEF Create
  <2>2. conn_fd \in Cells
    BY <1>1 DEF IInv, TypeOK
  <2>3. /\ Len(threads) \in Nat /\ DOMAIN threads = 1..Len(threads)
        /\ threads' \in Seq([at : {"copy", "free", "serve", "close", "ended"},
                              data : Cells, conn_fd : Fds \cup {None}])
        /\ Len(threads') = n /\ DOMAIN threads' = 1..n
        /\ \A t \in DOMAIN threads : threads'[t] = threads[t]
        /\ threads'[n] = new
    BY <2>1, <2>2, AppendProperties, LenProperties DEF IInv, TypeOK
  <2>4. TypeOK'
    BY <1>1, <1>2, <2>1, <2>3, NumbersAssumption DEF IInv, TypeOK
  <2>5. n \notin DOMAIN threads /\ new.at = "copy" /\ new.data = conn_fd
    BY <2>3
  <2>6. /\ Starting' = Starting \cup {n} /\ Active' = Active \cup {n} /\ Orphaned' = Orphaned
        /\ n \notin Starting /\ n \notin Active
    BY <1>1, <2>1, <2>3, <2>5 DEF Starting, Active, Orphaned
  <2> HIDE DEF new
  <2>7. \A t \in Active \cup Starting : t \in DOMAIN threads /\ threads'[t] = threads[t]
    BY <2>3, ThreadKinds
  <2>8. CellOwners'
    BY <1>1, <2>1, <2>3, <2>5, <2>6, <2>7 DEF IInv, CellOwners
  <2>9. /\ \A t \in Active : Held(t)' = Held(t)
        /\ Held(n)' = cells[conn_fd]
    BY <1>1, <2>1, <2>3, <2>5, <2>7 DEF Held
  <2>10. FdOwners'
    BY <1>1, <2>1, <2>6, <2>9 DEF IInv, FdOwners
  <2>11. ClientsOnce'
    BY <1>1, <2>1 DEF IInv, ClientsOnce
  <2>12. DealtOnce'
    <3>1. \A c : <<n, c>> \notin dealt
      BY <2>3, <2>5 DEF IInv, TypeOK
    <3>2. \A t \in DOMAIN threads' : t = n \/ t \in DOMAIN threads
      BY <2>3
    <3> QED  BY <1>1, <2>1, <2>3, <2>5, <3>1, <3>2 DEF IInv, DealtOnce
  <2> QED  BY <2>4, <2>8, <2>10, <2>11, <2>12 DEF IInv
<1>3. CASE ~(Len(threads) < MaxThreads)
  <2> DEFINE f == cells[conn_fd]
  <2>1. Forget /\ threads' = threads /\ orphans' = orphans \cup {fds[f]} /\ f \in DOMAIN fds \ Orphaned
    <3>1. f \in DOMAIN fds \ Orphaned
      BY <1>1 DEF IInv, FdOwners
    <3>2. orphans' = orphans \cup {fds[g] : g \in DOMAIN fds \cap {f}}
      BY <1>3 DEF Create
    <3>3. DOMAIN fds \cap {f} = {f}
      BY <3>1
    <3> QED  BY <1>3, <3>1, <3>2, <3>3 DEF Create
  <2>2. TypeOK'
    <3>1. DOMAIN cells' \subseteq Cells /\ \A d \in DOMAIN cells' : cells'[d] \in Fds \cup {None}
      BY <1>1, <2>1, ForgetCells DEF IInv, TypeOK
    <3>2. lost' \in 0..MaxLost
      BY <1>1, <2>1, ForgetCells
    <3>3. orphans' \subseteq seen
      BY <2>1, ThreadKinds DEF IInv, TypeOK, ClientsOnce
    <3> QED  BY <1>1, <2>1, <3>1, <3>2, <3>3 DEF IInv, TypeOK
  <2> HIDE DEF f
  <2>3. Starting' = Starting /\ Active' = Active
    BY <2>1 DEF Starting, Active
  <2>4. Orphaned' = Orphaned \cup {f}
    BY <1>1, <2>1 DEF Orphaned, IInv, ClientsOnce
  <2>5. CellOwners'
    BY <1>1, <2>1, <2>3, ForgetCells DEF IInv, CellOwners
  <2>6. \A t \in Active : Held(t)' = Held(t)
    BY <1>1, <2>1, ForgetCells, ThreadKinds DEF Held
  <2>7. FdOwners'
    BY <1>1, <2>1, <2>3, <2>4, <2>6 DEF IInv, FdOwners, f
  <2>8. ClientsOnce'
    BY <1>1, <2>1 DEF IInv, ClientsOnce
  <2>9. DealtOnce'
    BY <1>1, <2>1 DEF IInv, DealtOnce
  <2> QED  BY <2>2, <2>5, <2>7, <2>8, <2>9 DEF IInv
<1> QED  BY <1>2, <1>3
-----------------------------------------------------------------------------
(* req_thread. *)

\* The thread that copies the descriptor from its cell still holds the same one.
LEMMA CopyIInv == ASSUME IInv, NEW t \in DOMAIN threads, Copy(t) PROVE IInv'
<1> DEFINE d == threads[t].data
<1>1. threads[t].at = "copy" /\ t \in Starting /\ t \in Active /\ d \in DOMAIN cells
  BY ThreadKinds DEF Copy, At, IInv, CellOwners
<1>2. cells[d] \in DOMAIN fds /\ cells[d] \in Fds /\ cells[d] # None
  <2>1. Held(t) = cells[d]
    BY <1>1 DEF Held
  <2> QED  BY <1>1, <2>1, NoneAssumption DEF IInv, TypeOK, FdOwners
<1>3. /\ threads' = [threads EXCEPT ![t].conn_fd = cells[d], ![t].at = "free"]
      /\ UNCHANGED <<queue, fds, cells, main, conn_fd, lost, fault, history>>
  BY <1>1, <1>2 DEF Copy
<1>4. /\ threads' \in Seq([at : {"copy", "free", "serve", "close", "ended"},
                            data : Cells, conn_fd : Fds \cup {None}])
      /\ Len(threads') = Len(threads) /\ DOMAIN threads' = DOMAIN threads
      /\ \A u \in DOMAIN threads :
           /\ threads'[u].at = IF u = t THEN "free" ELSE threads[u].at
           /\ threads'[u].data = threads[u].data
           /\ threads'[u].conn_fd = IF u = t THEN cells[d] ELSE threads[u].conn_fd
  <2> DEFINE Record == [at : {"copy", "free", "serve", "close", "ended"},
                        data : Cells, conn_fd : Fds \cup {None}]
             new == [threads[t] EXCEPT !.conn_fd = cells[d], !.at = "free"]
  <2>1. threads[t] \in Record /\ threads \in Seq(Record) /\ DOMAIN threads = 1..Len(threads)
    BY ThreadsType DEF IInv, TypeOK
  <2>2. new \in Record /\ new.at = "free" /\ new.data = d /\ new.conn_fd = cells[d]
    BY <1>2, <2>1
  <2>3. threads' = [threads EXCEPT ![t] = new]
    BY <1>3
  <2> HIDE DEF new
  <2>4. /\ threads' \in Seq(Record) /\ Len(threads') = Len(threads)
        /\ \A u \in 1..Len(threads) : threads'[u] = IF u = t THEN new ELSE threads[u]
    BY <2>1, <2>2, <2>3, ExceptSeq
  <2>5. DOMAIN threads' = DOMAIN threads
    BY <2>3
  <2> QED  BY <2>1, <2>2, <2>4, <2>5
<1>5. TypeOK'
  BY <1>3, <1>4 DEF IInv, TypeOK, history
<1>6. Starting' = Starting /\ Active' = Active /\ Orphaned' = Orphaned
  BY <1>1, <1>3, <1>4 DEF Starting, Active, Orphaned, history
<1>7. CellOwners'
  BY <1>3, <1>4, <1>6, ThreadKinds DEF IInv, CellOwners
<1>8. \A u \in Active : Held(u)' = Held(u)
  BY <1>1, <1>3, <1>4, ThreadKinds DEF Held
<1>9. FdOwners'
  BY <1>3, <1>6, <1>8 DEF IInv, FdOwners
<1>10. ClientsOnce'
  BY <1>3 DEF IInv, ClientsOnce, history
<1>11. DealtOnce'
  BY <1>1, <1>3, <1>4 DEF IInv, DealtOnce, history
<1> QED  BY <1>5, <1>7, <1>9, <1>10, <1>11 DEF IInv

\* The cell a thread frees is in nobody else's hands.
LEMMA FreeIInv == ASSUME IInv, NEW t \in DOMAIN threads, Free(t) PROVE IInv'
<1> DEFINE d == threads[t].data
<1>1. threads[t].at = "free" /\ t \in Starting /\ t \in Active /\ d \in DOMAIN cells
  BY ThreadKinds DEF Free, At, IInv, CellOwners
<1>2. /\ Goto(t, "serve") /\ cells' = Restrict(cells, DOMAIN cells \ {d})
      /\ UNCHANGED <<queue, fds, main, conn_fd, lost, fault, history>>
  BY <1>1 DEF Free
<1>3. /\ threads' \in Seq([at : {"copy", "free", "serve", "close", "ended"},
                            data : Cells, conn_fd : Fds \cup {None}])
      /\ Len(threads') = Len(threads) /\ DOMAIN threads' = DOMAIN threads
      /\ \A u \in DOMAIN threads :
           /\ threads'[u].at = IF u = t THEN "serve" ELSE threads[u].at
           /\ threads'[u].data = threads[u].data
           /\ threads'[u].conn_fd = threads[u].conn_fd
  BY <1>2, GotoChanges DEF IInv
<1>4. /\ DOMAIN cells' = DOMAIN cells \ {d}
      /\ \A e \in DOMAIN cells' : cells'[e] = cells[e]
  BY <1>2 DEF Restrict
<1> HIDE DEF d
<1>5. TypeOK'
  BY <1>2, <1>3, <1>4 DEF IInv, TypeOK, history
<1>6. Starting' = Starting \ {t} /\ Active' = Active /\ Orphaned' = Orphaned
  BY <1>1, <1>2, <1>3 DEF Starting, Active, Orphaned, history
<1>7. \A u \in Starting' : /\ u \in Starting /\ u \in DOMAIN threads /\ threads'[u].data = threads[u].data
                          /\ threads[u].data \in DOMAIN cells'
  <2>1. \A u \in Starting \ {t} : threads[u].data \in DOMAIN cells /\ threads[u].data # d
    BY <1>1 DEF IInv, CellOwners, d
  <2> QED  BY <1>3, <1>4, <1>6, <2>1, ThreadKinds
<1>8. CellOwners'
  <2>1. main # "malloc" => conn_fd \in DOMAIN cells'
    BY <1>1, <1>4 DEF IInv, CellOwners, d
  <2>2. \A u \in Starting' : threads'[u].data = conn_fd => main = "malloc"
    BY <1>7 DEF IInv, CellOwners
  <2>3. \A u, v \in Starting' : threads'[u].data = threads'[v].data => u = v
    BY <1>7 DEF IInv, CellOwners
  <2>4. \A c \in DOMAIN cells' :
          (main # "malloc" /\ c = conn_fd) \/ \E u \in Starting' : threads'[u].data = c
    <3> SUFFICES ASSUME NEW c \in DOMAIN cells', main = "malloc" \/ c # conn_fd
                 PROVE  \E u \in Starting' : threads'[u].data = c
      OBVIOUS
    <3>1. PICK u \in Starting : threads[u].data = c
      BY <1>4 DEF IInv, CellOwners
    <3>2. u \in Starting'
      BY <1>4, <1>6, <3>1 DEF d
    <3> QED  BY <1>7, <3>1, <3>2
  <2> QED  BY <1>2, <1>7, <2>1, <2>2, <2>3, <2>4 DEF IInv, CellOwners
<1>9. \A u \in Active : Held(u)' = Held(u)
  <2> SUFFICES ASSUME NEW u \in Active PROVE Held(u)' = Held(u)
    OBVIOUS
  <2>1. u \in DOMAIN threads
    BY ThreadKinds
  <2>2. CASE u = t
    BY <1>1, <1>3, <2>2 DEF Held
  <2>3. CASE u # t /\ threads[u].at = "copy"
    <3>1. u \in Starting'
      BY <1>6, <2>1, <2>3, ThreadKinds
    <3> QED  BY <1>3, <1>4, <1>7, <2>1, <2>3, <3>1 DEF Held
  <2>4. CASE u # t /\ threads[u].at # "copy"
    BY <1>3, <2>1, <2>4 DEF Held
  <2> QED  BY <2>2, <2>3, <2>4
<1>10. FdOwners'
  <2>1. main = "create" => cells'[conn_fd] = cells[conn_fd]
    BY <1>1, <1>2, <1>4 DEF IInv, CellOwners, d
  <2> QED  BY <1>2, <1>6, <1>9, <2>1 DEF IInv, FdOwners
<1>11. ClientsOnce'
  BY <1>2 DEF IInv, ClientsOnce, history
<1>12. DealtOnce'
  BY <1>1, <1>2, <1>3 DEF IInv, DealtOnce, history
<1> QED  BY <1>5, <1>8, <1>10, <1>11, <1>12 DEF IInv

\* Nobody has dealt with the client of a thread that is about to.
LEMMA ServeIInv == ASSUME IInv, NEW t \in DOMAIN threads, Serve(t) PROVE IInv'
<1> DEFINE f == threads[t].conn_fd
<1>1. threads[t].at = "serve" /\ t \notin Starting /\ t \in Active /\ f = Held(t) /\ f \in DOMAIN fds
  BY ThreadKinds DEF Serve, At, IInv, FdOwners, Held
<1>2. /\ Goto(t, "close") /\ dealt' = dealt \cup {<<t, fds[f]>>}
      /\ UNCHANGED <<queue, fds, cells, main, conn_fd, lost, fault, seen, orphans>>
  <2>1. DOMAIN fds \cap {f} = {f}
    BY <1>1
  <2> QED  BY <2>1 DEF Serve
<1>3. /\ threads' \in Seq([at : {"copy", "free", "serve", "close", "ended"},
                            data : Cells, conn_fd : Fds \cup {None}])
      /\ Len(threads') = Len(threads) /\ DOMAIN threads' = DOMAIN threads
      /\ \A u \in DOMAIN threads :
           /\ threads'[u].at = IF u = t THEN "close" ELSE threads[u].at
           /\ threads'[u].data = threads[u].data
           /\ threads'[u].conn_fd = threads[u].conn_fd
  BY <1>2, GotoChanges DEF IInv
<1> HIDE DEF f
<1>4. fds[f] \in seen
  BY <1>1 DEF IInv, ClientsOnce
<1>5. TypeOK'
  BY <1>2, <1>3, <1>4 DEF IInv, TypeOK
<1>6. Starting' = Starting /\ Active' = Active /\ Orphaned' = Orphaned
  BY <1>1, <1>2, <1>3 DEF Starting, Active, Orphaned
<1>7. CellOwners'
  BY <1>2, <1>3, <1>6, ThreadKinds DEF IInv, CellOwners
<1>8. \A u \in Active : Held(u)' = Held(u)
  BY <1>1, <1>2, <1>3, ThreadKinds DEF Held
<1>9. FdOwners'
  BY <1>2, <1>6, <1>8 DEF IInv, FdOwners
<1>10. ClientsOnce'
  BY <1>2 DEF IInv, ClientsOnce
<1>11. DealtOnce'
  <2>1. \A u \in DOMAIN threads : <<u, fds[f]>> \notin dealt
    <3> SUFFICES ASSUME NEW u \in DOMAIN threads, <<u, fds[f]>> \in dealt PROVE FALSE
      OBVIOUS
    <3>1. fds[f] \in Clients
      BY <1>1 DEF IInv, TypeOK
    <3>2. threads[u].at = "close" /\ fds[threads[u].conn_fd] = fds[f]
      BY <1>1, <3>1 DEF IInv, DealtOnce
    <3>3. u \in Active /\ threads[u].conn_fd = Held(u) /\ Held(u) \in DOMAIN fds
      BY <3>2, ThreadKinds DEF Held, IInv, FdOwners
    <3>4. threads[u].conn_fd = f
      BY <1>1, <3>2, <3>3 DEF IInv, ClientsOnce
    <3>5. Held(u) = Held(t)
      BY <1>1, <3>3, <3>4
    <3>6. u = t
      BY <1>1, <3>3, <3>5 DEF IInv, FdOwners
    <3> QED  BY <1>1, <3>2, <3>6
  <2>2. \A i \in DOMAIN queue : queue[i] # fds[f]
    BY <1>1 DEF IInv, ClientsOnce
  <2>3. threads'[t].at = "close" /\ threads'[t].conn_fd = f
    BY <1>3 DEF f
  <2>4. ASSUME NEW u \in DOMAIN threads, NEW c \in Clients, <<u, c>> \in dealt'
        PROVE  \/ u = t /\ c = fds[f]
               \/ /\ <<u, c>> \in dealt /\ c # fds[f] /\ u # t
                  /\ threads'[u].at = threads[u].at /\ threads'[u].conn_fd = threads[u].conn_fd
    <3>1. <<u, c>> \in dealt \/ (u = t /\ c = fds[f])
      BY <1>2, <2>4
    <3>2. <<u, c>> \in dealt => u # t /\ c # fds[f]
      BY <1>1, <2>1 DEF IInv, DealtOnce
    <3> QED  BY <1>3, <3>1, <3>2
  <2>5. \A u \in DOMAIN threads : threads'[u].at = "close" => <<u, fds[threads'[u].conn_fd]>> \in dealt'
    BY <1>2, <1>3, <2>3 DEF IInv, DealtOnce
  <2>6. \A u \in DOMAIN threads : \A c \in Clients :
          <<u, c>> \in dealt' =>
            /\ threads'[u].at \in {"close", "ended"}
            /\ \A i \in DOMAIN queue : queue[i] # c
            /\ threads'[u].at = "ended" => \A g \in DOMAIN fds : fds[g] # c
            /\ threads'[u].at = "close" => fds[threads'[u].conn_fd] = c
    BY <2>2, <2>3, <2>4 DEF IInv, DealtOnce
  <2>7. \A u, v \in DOMAIN threads : \A c \in Clients :
          <<u, c>> \in dealt' /\ <<v, c>> \in dealt' => v = u
    BY <2>4 DEF IInv, DealtOnce
  <2> QED  BY <1>2, <1>3, <2>5, <2>6, <2>7 DEF DealtOnce
<1> QED  BY <1>5, <1>7, <1>9, <1>10, <1>11 DEF IInv

\* The descriptor a thread closes is in nobody else's hands.
LEMMA CloseIInv == ASSUME IInv, NEW t \in DOMAIN threads, Close(t) PROVE IInv'
<1> DEFINE f == threads[t].conn_fd
<1>1. /\ threads[t].at = "close" /\ t \notin Starting /\ t \in Active
      /\ f = Held(t) /\ f \in DOMAIN fds /\ f \notin Orphaned
  BY ThreadKinds DEF Close, At, IInv, FdOwners, Held
<1>2. /\ Goto(t, "ended") /\ fds' = Restrict(fds, DOMAIN fds \ {f})
      /\ UNCHANGED <<queue, cells, main, conn_fd, lost, fault, history>>
  BY DEF Close
<1>3. /\ threads' \in Seq([at : {"copy", "free", "serve", "close", "ended"},
                            data : Cells, conn_fd : Fds \cup {None}])
      /\ Len(threads') = Len(threads) /\ DOMAIN threads' = DOMAIN threads
      /\ \A u \in DOMAIN threads :
           /\ threads'[u].at = IF u = t THEN "ended" ELSE threads[u].at
           /\ threads'[u].data = threads[u].data
           /\ threads'[u].conn_fd = threads[u].conn_fd
  BY <1>2, GotoChanges DEF IInv
<1>4. /\ DOMAIN fds' = DOMAIN fds \ {f}
      /\ \A g \in DOMAIN fds' : fds'[g] = fds[g]
  BY <1>2 DEF Restrict
<1> HIDE DEF f
<1>5. TypeOK'
  BY <1>2, <1>3, <1>4 DEF IInv, TypeOK, history
<1>6. Starting' = Starting /\ Active' = Active \ {t}
  BY <1>1, <1>3 DEF Starting, Active
<1>7. Orphaned' = Orphaned
  BY <1>1, <1>2, <1>4 DEF Orphaned, history
<1>8. CellOwners'
  BY <1>2, <1>3, <1>6, ThreadKinds, SMTT(40) DEF IInv, CellOwners
<1>9. \A u \in Active \ {t} : Held(u)' = Held(u) /\ Held(u) # f
  <2>1. \A u \in Active \ {t} : Held(u)' = Held(u)
    BY <1>2, <1>3, ThreadKinds DEF Held
  <2>2. \A u \in Active \ {t} : Held(u) # f
    BY <1>1 DEF IInv, FdOwners
  <2> QED  BY <2>1, <2>2
<1>10. FdOwners'
  BY <1>1, <1>2, <1>4, <1>6, <1>7, <1>9 DEF IInv, FdOwners
<1>11. ClientsOnce'
  <2>1. \A c \in orphans : fds[f] # c
    BY <1>1, ThreadKinds
  <2> QED  BY <1>2, <1>4, <2>1 DEF IInv, ClientsOnce, history
<1>12. DealtOnce'
  <2>1. \A u \in DOMAIN threads : threads[u].at = "close" /\ u # t => threads[u].conn_fd \in DOMAIN fds'
    <3> SUFFICES ASSUME NEW u \in DOMAIN threads, threads[u].at = "close", u # t
                 PROVE  threads[u].conn_fd \in DOMAIN fds'
      OBVIOUS
    <3>1. u \in Active \ {t} /\ Held(u) = threads[u].conn_fd
      BY ThreadKinds DEF Held
    <3> QED  BY <1>4, <1>9, <3>1 DEF IInv, FdOwners
  <2>2. \A g \in DOMAIN fds' : fds'[g] # fds[f]
    BY <1>1, <1>4 DEF IInv, ClientsOnce
  <2>3. \A c \in Clients : <<t, c>> \in dealt => c = fds[f]
    BY <1>1 DEF IInv, DealtOnce, f
  <2>4. \A u \in DOMAIN threads : threads'[u].at = "close" =>
          u # t /\ threads[u].at = "close" /\ fds'[threads'[u].conn_fd] = fds[threads[u].conn_fd]
    BY <1>3, <1>4, <2>1
  <2>5. dealt' = dealt /\ queue' = queue
    BY <1>2 DEF history
  <2>6. \A u \in DOMAIN threads : threads'[u].at = "close" => <<u, fds'[threads'[u].conn_fd]>> \in dealt'
    BY <2>4, <2>5 DEF IInv, DealtOnce
  <2>7. ASSUME NEW u \in DOMAIN threads, NEW c \in Clients, <<u, c>> \in dealt
        PROVE  /\ threads'[u].at \in {"close", "ended"}
               /\ threads'[u].at = "ended" => \A g \in DOMAIN fds' : fds'[g] # c
               /\ threads'[u].at = "close" => fds'[threads'[u].conn_fd] = c
    <3>1. CASE u = t
      BY <1>3, <1>4, <2>2, <2>3, <2>7, <3>1
    <3>2. CASE u # t
      BY <1>3, <1>4, <2>4, <2>7, <3>2 DEF IInv, DealtOnce
    <3> QED  BY <3>1, <3>2
  <2>8. \A u, v \in DOMAIN threads : \A c \in Clients :
          <<u, c>> \in dealt => (\A i \in DOMAIN queue : queue[i] # c) /\ (<<v, c>> \in dealt => v = u)
    BY DEF IInv, DealtOnce
  <2> QED  BY <1>3, <2>5, <2>6, <2>7, <2>8 DEF DealtOnce
<1> QED  BY <1>5, <1>8, <1>10, <1>11, <1>12 DEF IInv

-----------------------------------------------------------------------------
(* The steps together. *)

\* IInv is about the variables only.
LEMMA StutterIInv == ASSUME IInv, UNCHANGED vars PROVE IInv'
<1> USE DEF vars, history
<1>1. TypeOK'
  BY DEF IInv, TypeOK
<1>2. CellOwners' /\ FdOwners'
  BY DEF IInv, CellOwners, FdOwners, Starting, Active, Orphaned, Held
<1>3. ClientsOnce' /\ DealtOnce'
  BY DEF IInv, ClientsOnce, DealtOnce
<1> QED  BY <1>1, <1>2, <1>3 DEF IInv

\* Every step keeps IInv.
LEMMA NextIInv == ASSUME IInv, [Next]_vars PROVE IInv'
<1>1. ASSUME NEW c \in Clients, Connect(c) PROVE IInv'
  BY <1>1, ConnectIInv
<1>2. CASE Main
  BY <1>2, MallocIInv, AcceptIInv, AcceptFailsIInv, CreateIInv DEF Main
<1>3. ASSUME NEW t \in DOMAIN threads, Thread(t) PROVE IInv'
  BY <1>3, CopyIInv, FreeIInv, ServeIInv, CloseIInv DEF Thread
<1>4. CASE UNCHANGED vars
  BY <1>4, StutterIInv
<1> QED  BY <1>1, <1>2, <1>3, <1>4 DEF Next

\* The accept loop and its threads keep IInv for ever.
THEOREM Invariance == Spec => []IInv
<1>1. Init => IInv
  BY InitIInv
<1>2. IInv /\ [Next]_vars => IInv'
  BY NextIInv
<1> QED  BY <1>1, <1>2, PTL DEF Spec

\* No pc, descriptor or cell is ever out of its range, whatever the interleaving.
THEOREM TypeCorrect == Spec => []TypeOK
<1>1. IInv => TypeOK
  BY DEF IInv
<1> QED  BY <1>1, Invariance, PTL

-----------------------------------------------------------------------------
(* How many cells and descriptors there are. *)

\* As many values as arguments, if no two arguments have the same.
LEMMA ImageCardinality ==
  ASSUME NEW S, IsFiniteSet(S), NEW f, DOMAIN f = S, \A x, y \in S : f[x] = f[y] => x = y
  PROVE  /\ IsFiniteSet({f[x] : x \in S})
         /\ Cardinality({f[x] : x \in S}) = Cardinality(S)
<1> DEFINE T == {f[x] : x \in S}
           g == [x \in S |-> f[x]]
<1>1. g \in [S -> T] /\ IsInjective(g) /\ \A v \in T : \E x \in S : g[x] = v
  BY DEF IsInjective
<1>2. g \in Bijection(S, T)
  BY <1>1 DEF Bijection, Injection, Surjection
<1> HIDE DEF g, T
<1>3. ExistsBijection(S, T)
  BY <1>2 DEF ExistsBijection
<1>4. IsFiniteSet(T) /\ Cardinality(T) = Cardinality(S)
  BY <1>3, FS_Bijection
<1> QED  BY <1>4 DEF T

\* There are finitely many threads.
LEMMA FiniteThreads == TypeOK => IsFiniteSet(Starting) /\ IsFiniteSet(Active)
<1> SUFFICES ASSUME TypeOK PROVE IsFiniteSet(Starting) /\ IsFiniteSet(Active)
  OBVIOUS
<1>1. Len(threads) \in Nat /\ DOMAIN threads = 1..Len(threads)
  BY ThreadsType
<1>2. IsFiniteSet(DOMAIN threads)
  BY <1>1, FS_Interval
<1>3. Starting \in SUBSET DOMAIN threads /\ Active \in SUBSET DOMAIN threads
  BY DEF Starting, Active
<1> QED  BY <1>2, <1>3, FS_Subset

\* One cell for each thread that starts, and main's.
LEMMA CellsCounted ==
  IInv => Cardinality(DOMAIN cells) = Cardinality(Starting) + (IF main = "malloc" THEN 0 ELSE 1)
<1> SUFFICES ASSUME IInv
             PROVE  Cardinality(DOMAIN cells) =
                      Cardinality(Starting) + (IF main = "malloc" THEN 0 ELSE 1)
  OBVIOUS
<1> DEFINE data == [t \in Starting |-> threads[t].data]
           passed == {data[t] : t \in Starting}
<1>1. IsFiniteSet(passed) /\ Cardinality(passed) = Cardinality(Starting)
  <2>1. IsFiniteSet(Starting)
    BY FiniteThreads DEF IInv
  <2>2. DOMAIN data = Starting /\ \A t, u \in Starting : data[t] = data[u] => t = u
    BY DEF IInv, CellOwners
  <2> HIDE DEF data
  <2> QED  BY <2>1, <2>2, ImageCardinality
<1>2. Cardinality(Starting) \in Nat
  BY FiniteThreads, FS_CardinalityType DEF IInv
<1>3. CASE main = "malloc"
  <2>1. DOMAIN cells = passed
    BY <1>3 DEF IInv, CellOwners
  <2> QED  BY <1>1, <1>2, <1>3, <2>1
<1>4. CASE main # "malloc"
  <2>1. DOMAIN cells = passed \cup {conn_fd} /\ conn_fd \notin passed
    <3>1. conn_fd \in DOMAIN cells /\ \A t \in Starting : threads[t].data \in DOMAIN cells \ {conn_fd}
      BY <1>4 DEF IInv, CellOwners
    <3>2. passed \subseteq DOMAIN cells \ {conn_fd}
      BY <3>1
    <3>3. DOMAIN cells \subseteq passed \cup {conn_fd}
      BY DEF IInv, CellOwners
    <3> QED  BY <3>1, <3>2, <3>3
  <2> HIDE DEF passed
  <2>2. Cardinality(passed \cup {conn_fd}) = Cardinality(passed) + 1
    BY <1>1, <2>1, FS_AddElement
  <2> QED  BY <1>1, <1>4, <2>1, <2>2
<1> QED  BY <1>3, <1>4

\* One descriptor for each thread at work, and main's.
LEMMA DescriptorsCounted ==
  IInv => Cardinality(DOMAIN fds \ Orphaned) = Cardinality(Active) + (IF main = "create" THEN 1 ELSE 0)
<1> SUFFICES ASSUME IInv
             PROVE  Cardinality(DOMAIN fds \ Orphaned) =
                      Cardinality(Active) + (IF main = "create" THEN 1 ELSE 0)
  OBVIOUS
<1> DEFINE held == [t \in Active |-> Held(t)]
           owned == {held[t] : t \in Active}
<1>1. IsFiniteSet(owned) /\ Cardinality(owned) = Cardinality(Active)
  <2>1. IsFiniteSet(Active)
    BY FiniteThreads DEF IInv
  <2>2. DOMAIN held = Active /\ \A t, u \in Active : held[t] = held[u] => t = u
    BY DEF IInv, FdOwners
  <2> HIDE DEF held
  <2> QED  BY <2>1, <2>2, ImageCardinality
<1>2. Cardinality(Active) \in Nat
  BY FiniteThreads, FS_CardinalityType DEF IInv
<1>3. CASE main # "create"
  <2>1. DOMAIN fds \ Orphaned = owned
    BY <1>3 DEF IInv, FdOwners
  <2> QED  BY <1>1, <1>2, <1>3, <2>1
<1>4. CASE main = "create"
  <2>1. DOMAIN fds \ Orphaned = owned \cup {cells[conn_fd]} /\ cells[conn_fd] \notin owned
    BY <1>4 DEF IInv, FdOwners
  <2> HIDE DEF owned
  <2>2. Cardinality(owned \cup {cells[conn_fd]}) = Cardinality(owned) + 1
    BY <1>1, <2>1, FS_AddElement
  <2> QED  BY <1>1, <1>4, <2>1, <2>2
<1> QED  BY <1>3, <1>4

\* Every heap cell has one party at a time, and none is used after it was freed.
THEOREM CellsPassedHolds == Spec => []CellsPassed
<1>1. IInv => CellsPassed
  <2> SUFFICES ASSUME IInv PROVE CellsPassed
    OBVIOUS
  <2>1. Cardinality(DOMAIN cells) = Cardinality(Starting) + (IF main = "malloc" THEN 0 ELSE 1)
    BY CellsCounted
  <2> QED  BY <2>1 DEF IInv, CellOwners, CellsPassed
<1> QED  BY <1>1, Invariance, PTL

\* Every open descriptor has one party at a time.
THEOREM OneOwnerHolds == Spec => []OneOwner
<1>1. IInv => OneOwner
  <2> SUFFICES ASSUME IInv PROVE OneOwner
    OBVIOUS
  <2>1. \A t \in Running : t \in Active /\ Held(t) = threads[t].conn_fd
    BY DEF Running, Active, Held
  <2>2. Running \cup Starting = Active
    BY ThreadsType DEF Running, Starting, Active, IInv
  <2>3. Cardinality(DOMAIN fds \ Orphaned) = Cardinality(Active) + (IF main = "create" THEN 1 ELSE 0)
    BY DescriptorsCounted
  <2> QED  BY <2>1, <2>2, <2>3 DEF IInv, FdOwners, OneOwner
<1> QED  BY <1>1, Invariance, PTL

-----------------------------------------------------------------------------
(* main implements Connections. *)

Statuses    == [c \in Clients |-> Status(c)]
Descriptors == [c \in Clients |-> IF c \in Range(fds) THEN CHOOSE f \in DOMAIN fds : fds[f] = c
                                  ELSE None]
Counts      == [c \in Clients |-> Cardinality({t \in DOMAIN threads : <<t, c>> \in dealt})]

\* What the refinement mapping says of one client.
Mapped ==
  /\ \A c \in Clients : Statuses[c] = IF c \notin seen THEN "new"
                                     ELSE IF \E i \in DOMAIN queue : queue[i] = c THEN "queued"
                                     ELSE IF \E f \in DOMAIN fds : fds[f] = c THEN "open" ELSE "closed"
  /\ \A f \in DOMAIN fds : Descriptors[fds[f]] = f
  /\ \A c \in Clients : (\A f \in DOMAIN fds : fds[f] # c) => Descriptors[c] = None
  /\ \A c \in Clients : Counts[c] = IF \E t \in DOMAIN threads : <<t, c>> \in dealt THEN 1 ELSE 0

\* Under IInv a client's descriptor is unique, and so is its thread.
LEMMA MappedHolds == IInv => Mapped
<1> SUFFICES ASSUME IInv PROVE Mapped
  OBVIOUS
<1>1. \A c \in Clients : Statuses[c] = IF c \notin seen THEN "new"
                                     ELSE IF \E i \in DOMAIN queue : queue[i] = c THEN "queued"
                                     ELSE IF \E f \in DOMAIN fds : fds[f] = c THEN "open" ELSE "closed"
  BY DEF Statuses, Status, Range
<1>2. ASSUME NEW f \in DOMAIN fds PROVE Descriptors[fds[f]] = f
  <2>1. fds[f] \in Clients /\ fds[f] \in Range(fds)
    BY DEF IInv, TypeOK, Range
  <2>2. \A g \in DOMAIN fds : fds[g] = fds[f] => g = f
    BY DEF IInv, ClientsOnce
  <2>3. (CHOOSE g \in DOMAIN fds : fds[g] = fds[f]) = f
    BY <2>2
  <2> QED  BY <2>1, <2>3 DEF Descriptors
<1>3. \A c \in Clients : (\A f \in DOMAIN fds : fds[f] # c) => Descriptors[c] = None
  BY DEF Descriptors, Range
<1>4. ASSUME NEW c \in Clients
      PROVE  Counts[c] = IF \E t \in DOMAIN threads : <<t, c>> \in dealt THEN 1 ELSE 0
  <2> DEFINE T == {t \in DOMAIN threads : <<t, c>> \in dealt}
  <2>1. Counts[c] = Cardinality(T)
    BY DEF Counts
  <2>2. CASE \E t \in DOMAIN threads : <<t, c>> \in dealt
    <3>1. PICK t \in DOMAIN threads : <<t, c>> \in dealt
      BY <2>2
    <3>2. T = {t}
      BY <3>1 DEF IInv, DealtOnce
    <3> HIDE DEF T
    <3>3. Cardinality(T) = 1
      BY <3>2, FS_Singleton
    <3> QED  BY <2>1, <2>2, <3>3
  <2>3. CASE ~ \E t \in DOMAIN threads : <<t, c>> \in dealt
    <3>1. T = {}
      BY <2>3
    <3> HIDE DEF T
    <3>2. Cardinality(T) = 0
      BY <3>1, FS_EmptySet
    <3> QED  BY <2>1, <2>3, <3>2
  <2> QED  BY <2>2, <2>3
<1> QED  BY <1>1, <1>2, <1>3, <1>4 DEF Mapped

\* A function on Clients changed at one of them.
LEMMA ChangeAt ==
  ASSUME NEW f, NEW g, f = [x \in Clients |-> f[x]], g = [x \in Clients |-> g[x]],
         NEW c \in Clients, NEW v, g[c] = v, \A x \in Clients \ {c} : g[x] = f[x]
  PROVE  g = [f EXCEPT ![c] = v]
OBVIOUS

\* Every client is new at the start.
LEMMA InitPromise == Init => Promise!Init
<1> SUFFICES ASSUME Init PROVE Promise!Init
  OBVIOUS
<1>1. Mapped
  BY InitIInv, MappedHolds
<1>2. /\ \A c \in Clients : Statuses[c] = "new" /\ Descriptors[c] = None /\ Counts[c] = 0
  BY <1>1 DEF Mapped, Init
<1>3. Statuses = [c \in Clients |-> "new"] /\ Descriptors = [c \in Clients |-> None]
      /\ Counts = [c \in Clients |-> 0]
  BY <1>2 DEF Statuses, Descriptors, Counts
<1> QED  BY <1>3 DEF Promise!Init, Statuses, Descriptors, Counts

\* What Connections does not see.
LEMMA Unseen ==
  ASSUME IInv, IInv', UNCHANGED <<queue, fds, seen, dealt>>, DOMAIN threads \subseteq DOMAIN threads'
  PROVE  UNCHANGED Promise!vars
<1>1. Mapped /\ Mapped'
  BY MappedHolds, PTL
<1>2. Statuses' = Statuses /\ Descriptors' = Descriptors
  BY DEF Statuses, Status, Descriptors
<1>3. \A t, c : <<t, c>> \in dealt => t \in DOMAIN threads
  BY DEF IInv, TypeOK
<1>4. \A c \in Clients : Counts'[c] = Counts[c]
  BY <1>1, <1>3 DEF Mapped
<1>5. Counts' = Counts
  BY <1>4 DEF Counts
<1> QED  BY <1>2, <1>5 DEF Promise!vars, Statuses, Descriptors, Counts

\* Connect queues a client.
LEMMA ConnectPromise ==
  ASSUME IInv, IInv', NEW c \in Clients, Connect(c)
  PROVE  Promise!Queue(c)
<1>1. Mapped /\ Mapped'
  BY MappedHolds, PTL
<1>2. /\ queue \in Seq(Clients) /\ c \notin seen /\ seen' = seen \cup {c}
      /\ UNCHANGED <<fds, threads, dealt>>
  BY DEF IInv, TypeOK, Connect
<1>3. /\ Len(queue) \in Nat /\ DOMAIN queue = 1..Len(queue) /\ DOMAIN queue' = 1..Len(queue) + 1
      /\ \A i \in DOMAIN queue : queue'[i] = queue[i]
      /\ queue'[Len(queue) + 1] = c
  BY <1>2, AppendProperties, LenProperties DEF Connect
<1>4. Statuses[c] = "new" /\ Statuses'[c] = "queued"
  BY <1>1, <1>2, <1>3 DEF Mapped
<1>5. \A x \in Clients \ {c} : Statuses'[x] = Statuses[x]
  <2> SUFFICES ASSUME NEW x \in Clients \ {c} PROVE Statuses'[x] = Statuses[x]
    OBVIOUS
  <2>1. (\E i \in DOMAIN queue' : queue'[i] = x) <=> (\E i \in DOMAIN queue : queue[i] = x)
    BY <1>3
  <2> QED  BY <1>1, <1>2, <2>1 DEF Mapped
<1>6. Statuses' = [Statuses EXCEPT ![c] = "queued"]
  <2>1. Statuses = [x \in Clients |-> Statuses[x]] /\ Statuses' = [x \in Clients |-> Statuses'[x]]
    BY DEF Statuses
  <2> QED  BY <1>4, <1>5, <2>1, ChangeAt
<1>7. Descriptors' = Descriptors /\ Counts' = Counts
  BY <1>2 DEF Descriptors, Counts
<1> QED  BY <1>4, <1>6, <1>7 DEF Promise!Queue, Promise!Change, Statuses, Descriptors, Counts

\* A client that is taken from the queue is at its head, and waits there once.
LEMMA Taken ==
  ASSUME IInv, queue # <<>>, queue' = Tail(queue)
  PROVE  /\ Head(queue) \in Clients /\ Head(queue) \in seen
         /\ \E i \in DOMAIN queue : queue[i] = Head(queue)
         /\ ~ \E i \in DOMAIN queue' : queue'[i] = Head(queue)
         /\ \A f \in DOMAIN fds : fds[f] # Head(queue)
         /\ \A x : x # Head(queue) => ((\E i \in DOMAIN queue' : queue'[i] = x) <=>
                                      (\E i \in DOMAIN queue : queue[i] = x))
<1>1. /\ DOMAIN queue = 1..Len(queue) /\ Len(queue) \in Nat \ {0}
      /\ Head(queue) = queue[1] /\ Head(queue) \in Clients
      /\ Len(queue') = Len(queue) - 1 /\ DOMAIN queue' = 1..Len(queue')
      /\ \A i \in DOMAIN queue' : queue'[i] = queue[i + 1]
  BY HeadTailProperties, LenProperties, EmptySeq DEF IInv, TypeOK
<1>2. 1 \in DOMAIN queue
  BY <1>1
<1>3. \A i \in DOMAIN queue' : i + 1 \in DOMAIN queue /\ i + 1 # 1
  BY <1>1
<1>4. ~ \E i \in DOMAIN queue' : queue'[i] = Head(queue)
  BY <1>1, <1>2, <1>3 DEF IInv, ClientsOnce
<1>5. ASSUME NEW x, x # Head(queue), NEW i \in DOMAIN queue, queue[i] = x
      PROVE  \E j \in DOMAIN queue' : queue'[j] = x
  <2>1. i - 1 \in DOMAIN queue' /\ queue'[i - 1] = x
    BY <1>1, <1>5
  <2> QED  BY <2>1
<1>6. ASSUME NEW x, x # Head(queue)
      PROVE  (\E i \in DOMAIN queue' : queue'[i] = x) <=> (\E i \in DOMAIN queue : queue[i] = x)
  <2>1. ASSUME NEW j \in DOMAIN queue', queue'[j] = x PROVE \E i \in DOMAIN queue : queue[i] = x
    BY <1>1, <1>3, <2>1
  <2>2. (\E i \in DOMAIN queue : queue[i] = x) => \E j \in DOMAIN queue' : queue'[j] = x
    BY <1>5, <1>6
  <2> QED  BY <2>1, <2>2
<1> QED  BY <1>1, <1>2, <1>4, <1>6 DEF IInv, ClientsOnce

\* Accept opens the client at the head of the queue.
LEMMA AcceptPromise ==
  ASSUME IInv, IInv', Accept
  PROVE  \E c \in Clients : Promise!Open(c)
<1> PICK c \in Clients : c = Head(queue)
  BY Taken DEF Accept
<1> DEFINE f == LowestFree
<1>1. f \in Fds \ DOMAIN fds /\ f # None
  BY LowestIsFree, NoneAssumption DEF Accept
<1>2. Mapped /\ Mapped'
  BY MappedHolds, PTL
<1>3. /\ c \in Clients /\ c \in seen
      /\ \E i \in DOMAIN queue : queue[i] = c
      /\ ~ \E i \in DOMAIN queue' : queue'[i] = c
      /\ \A g \in DOMAIN fds : fds[g] # c
      /\ \A x : x # c => ((\E i \in DOMAIN queue' : queue'[i] = x) <=> (\E i \in DOMAIN queue : queue[i] = x))
  BY Taken DEF Accept
<1>4. /\ DOMAIN fds' = DOMAIN fds \cup {f} /\ fds'[f] = c
      /\ \A g \in DOMAIN fds : fds'[g] = fds[g]
      /\ UNCHANGED <<threads, seen, dealt>>
  BY <1>1 DEF Accept, history
<1> HIDE DEF f
<1>5. Statuses[c] = "queued" /\ Statuses'[c] = "open"
  BY <1>2, <1>3, <1>4 DEF Mapped
<1>6. ASSUME NEW x \in Clients \ {c}
      PROVE  Statuses'[x] = Statuses[x] /\ Descriptors'[x] = Descriptors[x]
  <2>1. (\E g \in DOMAIN fds' : fds'[g] = x) <=> (\E g \in DOMAIN fds : fds[g] = x)
    BY <1>4
  <2>2. Statuses'[x] = Statuses[x]
    BY <1>2, <1>3, <1>4, <2>1 DEF Mapped
  <2>3. CASE \E g \in DOMAIN fds : fds[g] = x
    BY <1>2, <1>4, <2>2, <2>3 DEF Mapped
  <2>4. CASE ~ \E g \in DOMAIN fds : fds[g] = x
    BY <1>2, <2>1, <2>2, <2>4 DEF Mapped
  <2> QED  BY <2>3, <2>4
<1>7. Descriptors'[c] = f
  BY <1>2, <1>4 DEF Mapped
<1>8. Statuses' = [Statuses EXCEPT ![c] = "open"] /\ Descriptors' = [Descriptors EXCEPT ![c] = f]
  <2>1. /\ Statuses = [x \in Clients |-> Statuses[x]] /\ Statuses' = [x \in Clients |-> Statuses'[x]]
        /\ Descriptors = [x \in Clients |-> Descriptors[x]]
        /\ Descriptors' = [x \in Clients |-> Descriptors'[x]]
    BY DEF Statuses, Descriptors
  <2>2. Statuses' = [Statuses EXCEPT ![c] = "open"]
    BY <1>3, <1>5, <1>6, <2>1, ChangeAt
  <2>3. Descriptors' = [Descriptors EXCEPT ![c] = f]
    BY <1>3, <1>6, <1>7, <2>1, ChangeAt
  <2> QED  BY <2>2, <2>3
<1>9. f \in Fds \ {Descriptors[x] : x \in Clients}
  <2>1. ASSUME NEW x \in Clients PROVE Descriptors[x] # f
    <3>1. CASE \E g \in DOMAIN fds : fds[g] = x
      BY <1>1, <1>2, <3>1 DEF Mapped
    <3>2. CASE ~ \E g \in DOMAIN fds : fds[g] = x
      BY <1>1, <1>2, <3>2 DEF Mapped
    <3> QED  BY <3>1, <3>2
  <2> QED  BY <1>1, <2>1
<1>10. Counts' = Counts
  BY <1>4 DEF Counts
<1>11. \E g \in Fds \ {Descriptors[x] : x \in Clients} : Descriptors' = [Descriptors EXCEPT ![c] = g]
  BY <1>8, <1>9
<1>12. Promise!Open(c)
  BY <1>5, <1>8, <1>10, <1>11 DEF Promise!Open, Promise!Change, Statuses, Descriptors, Counts
<1> QED  BY <1>12

\* An error of a connection that waits closes it.
LEMMA DropPromise ==
  ASSUME IInv, IInv', queue # <<>>, queue' = Tail(queue), UNCHANGED <<fds, threads, seen, dealt>>
  PROVE  \E c \in Clients : Promise!Drop(c)
<1> PICK c \in Clients : c = Head(queue)
  BY Taken
<1>1. Mapped /\ Mapped'
  BY MappedHolds, PTL
<1>2. /\ c \in Clients /\ c \in seen
      /\ \E i \in DOMAIN queue : queue[i] = c
      /\ ~ \E i \in DOMAIN queue' : queue'[i] = c
      /\ \A g \in DOMAIN fds : fds[g] # c
      /\ \A x : x # c => ((\E i \in DOMAIN queue' : queue'[i] = x) <=> (\E i \in DOMAIN queue : queue[i] = x))
  BY Taken
<1>3. Statuses[c] = "queued" /\ Statuses'[c] = "closed"
  BY <1>1, <1>2 DEF Mapped
<1>4. ASSUME NEW x \in Clients \ {c} PROVE Statuses'[x] = Statuses[x]
  <2>1. (\E i \in DOMAIN queue' : queue'[i] = x) <=> (\E i \in DOMAIN queue : queue[i] = x)
    BY <1>2
  <2> QED  BY <1>1, <2>1 DEF Mapped
<1>5. Statuses' = [Statuses EXCEPT ![c] = "closed"]
  <2>1. Statuses = [x \in Clients |-> Statuses[x]] /\ Statuses' = [x \in Clients |-> Statuses'[x]]
    BY DEF Statuses
  <2> QED  BY <1>2, <1>3, <1>4, <2>1, ChangeAt
<1>6. Descriptors' = Descriptors /\ Counts' = Counts
  BY DEF Descriptors, Counts
<1>7. Promise!Drop(c)
  BY <1>3, <1>5, <1>6 DEF Promise!Drop, Promise!Change, Statuses, Descriptors, Counts
<1> QED  BY <1>7

\* Serve deals with the client of the thread's descriptor, for the first time.
LEMMA ServePromise ==
  ASSUME IInv, IInv', NEW t \in DOMAIN threads, Serve(t)
  PROVE  \E c \in Clients : Promise!Deal(c)
<1> DEFINE f == threads[t].conn_fd
<1> PICK c : c = fds[f]
  OBVIOUS
<1>1. Mapped /\ Mapped'
  BY MappedHolds, PTL
<1>2. threads[t].at = "serve" /\ t \in Active /\ f = Held(t) /\ f \in DOMAIN fds
  BY ThreadKinds DEF Serve, At, IInv, FdOwners, Held
<1>3. c \in Clients /\ c \in seen /\ \A i \in DOMAIN queue : queue[i] # c
  BY <1>2 DEF IInv, TypeOK, ClientsOnce
<1>4. /\ dealt' = dealt \cup {<<t, c>>} /\ DOMAIN threads' = DOMAIN threads
      /\ UNCHANGED <<queue, fds, seen>>
  <2>1. DOMAIN fds \cap {f} = {f}
    BY <1>2
  <2> QED  BY <2>1 DEF Serve, Goto
<1>5. ~ \E u \in DOMAIN threads : <<u, c>> \in dealt
  <2> SUFFICES ASSUME NEW u \in DOMAIN threads, <<u, c>> \in dealt PROVE FALSE
    OBVIOUS
  <2>1. threads[u].at = "close" /\ fds[threads[u].conn_fd] = c
    BY <1>2, <1>3 DEF IInv, DealtOnce
  <2>2. u \in Active /\ threads[u].conn_fd = Held(u) /\ Held(u) \in DOMAIN fds
    BY <2>1, ThreadKinds DEF Held, IInv, FdOwners
  <2>3. Held(u) = Held(t)
    BY <1>2, <2>1, <2>2 DEF IInv, ClientsOnce
  <2>4. u = t
    BY <1>2, <2>2, <2>3 DEF IInv, FdOwners
  <2> QED  BY <1>2, <2>1, <2>4
<1> HIDE DEF f
<1>6. Statuses[c] = "open" /\ Counts[c] = 0 /\ Counts'[c] = 1
  BY <1>1, <1>2, <1>3, <1>4, <1>5 DEF Mapped
<1>7. \A x \in Clients \ {c} : Counts'[x] = Counts[x]
  BY <1>1, <1>4 DEF Mapped
<1>8. Counts' = [Counts EXCEPT ![c] = 1]
  <2>1. Counts = [x \in Clients |-> Counts[x]] /\ Counts' = [x \in Clients |-> Counts'[x]]
    BY DEF Counts
  <2> QED  BY <1>3, <1>6, <1>7, <2>1, ChangeAt
<1>9. Statuses' = Statuses /\ Descriptors' = Descriptors
  BY <1>4 DEF Statuses, Status, Descriptors
<1>10. Promise!Deal(c)
  BY <1>6, <1>8, <1>9 DEF Promise!Deal, Statuses, Descriptors, Counts
<1> QED  BY <1>3, <1>10

\* Close closes the client of the thread's descriptor, which has been dealt with.
LEMMA ClosePromise ==
  ASSUME IInv, IInv', NEW t \in DOMAIN threads, Close(t)
  PROVE  \E c \in Clients : Promise!Close(c)
<1> DEFINE f == threads[t].conn_fd
<1> PICK c : c = fds[f]
  OBVIOUS
<1>1. Mapped /\ Mapped'
  BY MappedHolds, PTL
<1>2. threads[t].at = "close" /\ t \in Active /\ f = Held(t) /\ f \in DOMAIN fds
  BY ThreadKinds DEF Close, At, IInv, FdOwners, Held
<1>3. /\ c \in Clients /\ c \in seen /\ <<t, c>> \in dealt
      /\ \A i \in DOMAIN queue : queue[i] # c
      /\ \A g \in DOMAIN fds \ {f} : fds[g] # c
  BY <1>2 DEF IInv, TypeOK, ClientsOnce, DealtOnce
<1>4. /\ DOMAIN fds' = DOMAIN fds \ {f} /\ \A g \in DOMAIN fds' : fds'[g] = fds[g]
      /\ DOMAIN threads' = DOMAIN threads /\ UNCHANGED <<queue, seen, dealt>>
  BY DEF Close, Restrict, Goto, history
<1>5. Statuses[c] = "open" /\ Statuses'[c] = "closed" /\ Counts[c] = 1 /\ Descriptors'[c] = None
  BY <1>1, <1>2, <1>3, <1>4 DEF Mapped
<1> HIDE DEF f
<1>6. ASSUME NEW x \in Clients \ {c}
      PROVE  Statuses'[x] = Statuses[x] /\ Descriptors'[x] = Descriptors[x]
  <2>1. \A g \in DOMAIN fds : fds[g] = x => g \in DOMAIN fds' /\ fds'[g] = x
    BY <1>4
  <2>2. (\E g \in DOMAIN fds' : fds'[g] = x) <=> (\E g \in DOMAIN fds : fds[g] = x)
    BY <1>4, <2>1
  <2>3. Statuses'[x] = Statuses[x]
    BY <1>1, <1>4, <2>2 DEF Mapped
  <2>4. CASE \E g \in DOMAIN fds : fds[g] = x
    BY <1>1, <2>1, <2>3, <2>4 DEF Mapped
  <2>5. CASE ~ \E g \in DOMAIN fds : fds[g] = x
    BY <1>1, <2>2, <2>3, <2>5 DEF Mapped
  <2> QED  BY <2>4, <2>5
<1>7. Statuses' = [Statuses EXCEPT ![c] = "closed"] /\ Descriptors' = [Descriptors EXCEPT ![c] = None]
  <2>1. /\ Statuses = [x \in Clients |-> Statuses[x]] /\ Statuses' = [x \in Clients |-> Statuses'[x]]
        /\ Descriptors = [x \in Clients |-> Descriptors[x]]
        /\ Descriptors' = [x \in Clients |-> Descriptors'[x]]
    BY DEF Statuses, Descriptors
  <2>2. Statuses' = [Statuses EXCEPT ![c] = "closed"]
    BY <1>3, <1>5, <1>6, <2>1, ChangeAt
  <2>3. Descriptors' = [Descriptors EXCEPT ![c] = None]
    BY <1>3, <1>5, <1>6, <2>1, ChangeAt
  <2> QED  BY <2>2, <2>3
<1>8. Counts' = Counts
  BY <1>4 DEF Counts
<1>9. Promise!Close(c)
  BY <1>5, <1>7, <1>8 DEF Promise!Close, Promise!Change, Statuses, Descriptors, Counts
<1> QED  BY <1>3, <1>9

\* Every step is one of Connections, or one it does not see.
LEMMA NextPromise == ASSUME IInv, IInv', [Next]_vars PROVE [Promise!Next]_(Promise!vars)
<1>1. ASSUME NEW c \in Clients, Connect(c) PROVE Promise!Next
  BY <1>1, ConnectPromise DEF Promise!Next
<1>2. CASE Malloc
  BY <1>2, Unseen DEF Malloc, history
<1>3. CASE Accept
  BY <1>3, AcceptPromise DEF Promise!Next
<1>4. CASE AcceptFails
  <2>1. CASE UNCHANGED queue
    BY <1>4, <2>1, Unseen DEF AcceptFails, history
  <2>2. CASE queue # <<>> /\ queue' = Tail(queue)
    BY <1>4, <2>2, DropPromise DEF Promise!Next, AcceptFails, history
  <2> QED  BY <1>4, <2>1, <2>2 DEF AcceptFails
<1>5. CASE Create
  <2>1. DOMAIN threads \subseteq DOMAIN threads'
    <3>1. CASE threads' = threads
      BY <3>1
    <3>2. CASE threads' = Append(threads, [at |-> "copy", data |-> conn_fd, conn_fd |-> None])
      <4>1. threads \in Seq([at : {"copy", "free", "serve", "close", "ended"},
                              data : Cells, conn_fd : Fds \cup {None}])
        BY DEF IInv, TypeOK
      <4>2. Len(threads) \in Nat /\ DOMAIN threads = 1..Len(threads)
        BY <4>1, LenProperties
      <4>3. DOMAIN threads' = 1..Len(threads) + 1
        BY <3>2, <4>1, <4>2
      <4> QED  BY <4>2, <4>3
    <3> QED  BY <1>5, <3>1, <3>2 DEF Create
  <2> QED  BY <1>5, <2>1, Unseen DEF Create
<1>6. ASSUME NEW t \in DOMAIN threads, Copy(t) \/ Free(t) PROVE UNCHANGED Promise!vars
  <2>1. UNCHANGED <<queue, fds, seen, dealt>> /\ DOMAIN threads' = DOMAIN threads
    BY <1>6 DEF Copy, Free, Goto, history
  <2> QED  BY <2>1, Unseen
<1>7. ASSUME NEW t \in DOMAIN threads, Serve(t) \/ Close(t) PROVE Promise!Next
  BY <1>7, ServePromise, ClosePromise DEF Promise!Next
<1>8. CASE UNCHANGED vars
  BY <1>8, Unseen DEF vars, history
<1> QED  BY <1>1, <1>2, <1>3, <1>4, <1>5, <1>6, <1>7, <1>8 DEF Next, Main, Thread

\* No descriptor is closed under another connection, and every request is dealt
\* with once before its connection is closed, for any number of clients.
THEOREM KeepsPromiseHolds == Spec => KeepsPromise
<1>1. Init => Promise!Init
  BY InitPromise
<1>2. IInv /\ IInv' /\ [Next]_vars => [Promise!Next]_(Promise!vars)
  BY NextPromise
<1> QED  BY <1>1, <1>2, Invariance, PTL DEF Spec, KeepsPromise, Promise!Spec
=============================================================================
