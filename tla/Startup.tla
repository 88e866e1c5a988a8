------------------------------ MODULE Startup ------------------------------
(* How jorge starts (main and jlua_setup_environment), on a disk and a port *)
(* it may share with other starts of itself: the folder of scripts, the    *)
(* database, the socket.  A process may die at any step and be started     *)
(* again; what it wrote stays.                                             *)
(*                                                                         *)
(* The addresses getaddrinfo returns are the wildcards of IPv4 and IPv6,   *)
(* which exclude each other (Linux's default for IPv6 sockets).            *)
EXTENDS Naturals, Sequences

CONSTANTS
  Processes,
  Addresses,  \* how many addresses getaddrinfo returns
  Own,        \* the scripts the owner may write himself
  MaxStarts,  \* a bound: starts of all processes together
  None

ASSUME BoundsAssumption == Addresses \in Nat \ {0} /\ MaxStarts \in Nat /\ None \notin Processes

Files == <<"index.lua", "404.lua">>
Names == {Files[k] : k \in DOMAIN Files}
ASSUME OwnAssumption == Own \subseteq Names

VARIABLES
  folder,     \* whether jorgeScripts exists
  script,     \* per name "none", "empty", "default", "own", or "early": written by the
              \* owner while a first start fills the folder
  table,      \* whether jorge.db has its table
  writer,     \* the process that holds the database's write lock
  lingering,  \* connections of a server that ended still occupy the port
  pc,
  at,         \* the file that is written, or the address that is tried
  sock,       \* sock_fd: "none", "open", "reuse", "bound", "listening"
  starts,
  troubled    \* history: the start met another process, or a call that failed

disk == <<folder, script, table, writer>>
vars == <<disk, lingering, pc, at, sock, starts, troubled>>

Init ==
  /\ folder = FALSE /\ script = [f \in Names |-> "none"]
  /\ table = FALSE /\ writer = None
  /\ lingering = FALSE
  /\ pc = [p \in Processes |-> "off"] /\ at = [p \in Processes |-> 1]
  /\ sock = [p \in Processes |-> "none"]
  /\ starts = 0 /\ troubled = [p \in Processes |-> FALSE]

Ended    == {"off", "exited"}
Goto(p, to) == pc' = [pc EXCEPT ![p] = to]
First(p, to) == Goto(p, to) /\ at' = [at EXCEPT ![p] = 1]
Trouble(p)  == troubled' = [troubled EXCEPT ![p] = TRUE]
Others(p)   == {q \in Processes \ {p} : pc[q] \notin Ended}

Start(p) ==
  /\ pc[p] \in Ended /\ starts < MaxStarts
  /\ starts' = starts + 1
  /\ First(p, "getaddrinfo")
  /\ troubled' = [q \in Processes |-> IF q = p THEN Others(p) # {} ELSE troubled[q] \/ q \in Others(p)]
  /\ UNCHANGED <<disk, lingering, sock>>

Exit(p) == Goto(p, "exited") /\ sock' = [sock EXCEPT ![p] = "none"]

GetAddrInfo(p) ==
  /\ pc[p] = "getaddrinfo"
  /\ \/ Goto(p, "mkdir") /\ UNCHANGED troubled
     \/ Goto(p, "exited") /\ Trouble(p)
  /\ UNCHANGED <<disk, lingering, at, sock, starts>>

-----------------------------------------------------------------------------
(* jlua_setup_environment: the scripts.                                    *)

\* Mutant: the scripts are written whether mkdir made the folder or not.
MkdirUnchecked(p) ==
  /\ pc[p] = "mkdir"
  /\ folder' = TRUE
  /\ First(p, "fopen")
  /\ UNCHANGED <<script, table, writer, lingering, sock, starts, troubled>>

Mkdir(p) ==
  /\ pc[p] = "mkdir"
  /\ \/ ~folder /\ folder' = TRUE /\ First(p, "fopen") /\ UNCHANGED troubled
     \/ folder /\ Goto(p, "sqlite3_open") /\ UNCHANGED <<folder, at, troubled>>
     \/ ~folder /\ Goto(p, "sqlite3_open") /\ Trouble(p) /\ UNCHANGED <<folder, at>>
  /\ UNCHANGED <<script, table, writer, lingering, sock, starts>>

\* "w" empties the file.  (Without a file fputs gets NULL, and the process dies.)
Fopen(p) ==
  /\ pc[p] = "fopen"
  /\ script' = [script EXCEPT ![Files[at[p]]] = "empty"]
  /\ Goto(p, "fclose")
  /\ UNCHANGED <<folder, table, writer, lingering, at, sock, starts, troubled>>

\* The text is in the stream's buffer until now; nobody asks whether it was written.
\* (It is not in the script if the owner put another file under the name.)
Fclose(p) ==
  /\ pc[p] = "fclose"
  /\ \/ script' = [script EXCEPT ![Files[at[p]]] = "default"] /\ UNCHANGED troubled
     \/ script[Files[at[p]]] = "early" /\ UNCHANGED <<script, troubled>>
     \/ UNCHANGED script /\ Trouble(p)
  /\ IF at[p] < Len(Files) THEN Goto(p, "fopen") /\ at' = [at EXCEPT ![p] = @ + 1]
     ELSE Goto(p, "sqlite3_open") /\ UNCHANGED at
  /\ UNCHANGED <<folder, table, writer, lingering, sock, starts>>

-----------------------------------------------------------------------------
(* jlua_setup_environment: the database.                                   *)

OpenDatabase(p) ==
  /\ pc[p] = "sqlite3_open"
  /\ \/ Goto(p, "sqlite3_step") /\ UNCHANGED <<at, troubled>>
     \/ First(p, "socket") /\ Trouble(p)
  /\ UNCHANGED <<disk, lingering, sock, starts>>

\* CREATE TABLE is an error where the table exists, and where another process
\* writes or, if that one serves, reads; the error is looked at by nobody.
CreateTable(p) ==
  /\ pc[p] = "sqlite3_step"
  /\ \/ /\ ~table /\ writer = None
        /\ writer' = p /\ Goto(p, "commit")
        /\ UNCHANGED at
     \/ /\ table \/ writer # None \/ \E q \in Others(p) : pc[q] = "accept"
        /\ First(p, "socket")
        /\ UNCHANGED writer
  /\ UNCHANGED <<folder, script, table, lingering, sock, starts, troubled>>

Commit(p) ==
  /\ pc[p] = "commit"
  /\ writer' = None
  /\ First(p, "socket")
  /\ \/ table' = TRUE /\ UNCHANGED troubled
     \/ UNCHANGED table /\ Trouble(p)
  /\ UNCHANGED <<folder, script, lingering, sock, starts>>

-----------------------------------------------------------------------------
(* main: the socket.                                                       *)

NextAddress(p) ==
  /\ sock' = [sock EXCEPT ![p] = "none"]
  /\ IF at[p] < Addresses THEN Goto(p, "socket") /\ at' = [at EXCEPT ![p] = @ + 1]
     ELSE Goto(p, "exited") /\ UNCHANGED at

Socket(p) ==
  /\ pc[p] = "socket"
  /\ \/ /\ sock' = [sock EXCEPT ![p] = "open"]
        /\ Goto(p, "setsockopt")
        /\ UNCHANGED <<at, troubled>>
     \/ NextAddress(p) /\ Trouble(p)
  /\ UNCHANGED <<disk, lingering, starts>>

\* Mutant: the option is not set.
SetsockoptNot(p) ==
  /\ pc[p] = "setsockopt"
  /\ Goto(p, "bind")
  /\ UNCHANGED <<disk, lingering, at, sock, starts, troubled>>

Setsockopt(p) ==
  /\ pc[p] = "setsockopt"
  /\ \/ sock' = [sock EXCEPT ![p] = "reuse"] /\ Goto(p, "bind") /\ UNCHANGED troubled
     \/ Exit(p) /\ Trouble(p)
  /\ UNCHANGED <<disk, lingering, at, starts>>

\* What bind() meets: sockets that do not share the port with others that bind it
\* with the same option, which those that listen never do.
InUse(p) ==
  \/ lingering /\ sock[p] # "reuse"
  \/ \E q \in Processes \ {p} : sock[q] = "listening" \/ (sock[q] = "bound" /\ sock[p] # "reuse")

\* Mutant: after a failure the same address is tried again.
BindAgain(p) ==
  /\ pc[p] = "bind"
  /\ IF InUse(p) THEN sock' = [sock EXCEPT ![p] = "none"] /\ Goto(p, "socket")
     ELSE sock' = [sock EXCEPT ![p] = "bound"] /\ Goto(p, "listen")
  /\ UNCHANGED <<disk, lingering, at, starts, troubled>>

Bind(p) ==
  /\ pc[p] = "bind"
  /\ \/ /\ ~InUse(p)
        /\ sock' = [sock EXCEPT ![p] = "bound"]
        /\ Goto(p, "listen")
        /\ UNCHANGED <<at, troubled>>
     \/ InUse(p) /\ NextAddress(p) /\ UNCHANGED troubled
     \/ ~InUse(p) /\ NextAddress(p) /\ Trouble(p)
  /\ UNCHANGED <<disk, lingering, starts>>

\* Mutant: the result of listen() is not looked at.
ListenUnchecked(p) ==
  /\ pc[p] = "listen"
  /\ Goto(p, "accept")
  /\ sock' = [sock EXCEPT ![p] = IF \E q \in Processes : sock[q] = "listening" THEN @ ELSE "listening"]
  /\ UNCHANGED <<disk, lingering, at, starts, troubled>>

\* Two processes may have bound the port; the second to listen is refused.
Listen(p) ==
  /\ pc[p] = "listen"
  /\ \/ /\ \A q \in Processes : sock[q] # "listening"
        /\ sock' = [sock EXCEPT ![p] = "listening"]
        /\ Goto(p, "accept")
        /\ UNCHANGED troubled
     \/ (\E q \in Processes : sock[q] = "listening") /\ Exit(p) /\ UNCHANGED troubled
     \/ (\A q \in Processes : sock[q] # "listening") /\ Exit(p) /\ Trouble(p)
  /\ UNCHANGED <<disk, lingering, at, starts>>

-----------------------------------------------------------------------------
(* The world around. *)

\* The process dies: the system closes its socket, SQLite's next user rolls back
\* what it had not committed.
Crash(p) ==
  /\ pc[p] \notin Ended
  /\ Goto(p, "off")
  /\ sock' = [sock EXCEPT ![p] = "none"]
  /\ writer' = IF writer = p THEN None ELSE writer
  /\ lingering' = (lingering \/ sock[p] = "listening")
  /\ UNCHANGED <<folder, script, table, at, starts, troubled>>

PortClears ==
  /\ lingering /\ lingering' = FALSE
  /\ UNCHANGED <<disk, pc, at, sock, starts, troubled>>

Filling == \E p \in Processes : pc[p] \in {"fopen", "fclose"}

\* The owner puts a script into the folder.
WriteOwn(f) ==
  /\ f \in Own /\ script[f] # "own"
  /\ folder' = TRUE
  /\ script' = [script EXCEPT ![f] = IF Filling THEN "early" ELSE "own"]
  /\ UNCHANGED <<table, writer, lingering, pc, at, sock, starts, troubled>>

SetUp(p) == \/ Mkdir(p) \/ Fopen(p) \/ Fclose(p)
            \/ OpenDatabase(p) \/ CreateTable(p) \/ Commit(p)
Main(p)  == GetAddrInfo(p) \/ SetUp(p) \/ Socket(p) \/ Setsockopt(p) \/ Bind(p) \/ Listen(p)

Next == \/ \E p \in Processes : Start(p) \/ Main(p) \/ Crash(p)
        \/ PortClears \/ \E f \in Names : WriteOwn(f)

Spec     == Init /\ [][Next]_vars
FairSpec == Spec /\ \A p \in Processes : WF_vars(Main(p))

-----------------------------------------------------------------------------
(* Properties *)

Places == {"off", "exited", "getaddrinfo", "mkdir", "fopen", "fclose", "sqlite3_open",
           "sqlite3_step", "commit", "socket", "setsockopt", "bind", "listen", "accept"}

DiskTypes ==
  /\ folder \in BOOLEAN /\ table \in BOOLEAN /\ lingering \in BOOLEAN
  /\ script \in [Names -> {"none", "empty", "default", "own", "early"}]
  /\ writer \in Processes \cup {None}
ProcessTypes ==
  /\ pc \in [Processes -> Places] /\ at \in [Processes -> Nat]
  /\ sock \in [Processes -> {"none", "open", "reuse", "bound", "listening"}]
  /\ starts \in 0..MaxStarts /\ troubled \in [Processes -> BOOLEAN]
InPlace ==
  \A p \in Processes :
    /\ writer = p <=> pc[p] = "commit"
    /\ sock[p] = "open"      <=> pc[p] = "setsockopt"
    /\ sock[p] = "reuse"     <=> pc[p] = "bind"
    /\ sock[p] = "bound"     <=> pc[p] = "listen"
    /\ sock[p] = "listening" <=> pc[p] = "accept"
ScriptsInFolder ==
  /\ \A f \in Names : script[f] # "none" => folder
  /\ \A p \in Processes : /\ pc[p] \in {"fopen", "fclose"} => folder /\ at[p] \in 1..Len(Files)
                          /\ pc[p] \in {"socket", "setsockopt", "bind"} => at[p] \in 1..Addresses

\* The write lock is held by a process that commits, a script is in the folder,
\* and a process has the socket its place in main calls for.
TypeOK == DiskTypes /\ ProcessTypes /\ InPlace /\ ScriptsInFolder

\* A start never replaces a script the owner wrote, however often jorge dies
\* in the middle of its setup and is started again; but for one he wrote between
\* the mkdir of a first start and its last fclose, which that start may empty.
OwnScriptsKept == [][\A f \in Names : script[f] = "own" => script'[f] = "own"]_vars

\* At most one process accepts connections.
OneServer == \A p, q \in Processes : pc[p] = "accept" /\ pc[q] = "accept" => p = q

\* A start that meets no other process and no failing call comes to accept, with
\* the table, whatever the starts before it left: half a setup, an open
\* transaction, a port with connections in TIME_WAIT.
AloneServes ==
  \A p \in Processes : ~troubled[p] => pc[p] # "exited" /\ (pc[p] = "accept" => table)

\* The inductive invariant behind these: while a first start fills the folder there
\* is no script the owner wrote before, of two live starts each knows of the other, and a
\* start without trouble has the table once it is past the database.
NoOwnWhileFilling == Filling => \A f \in Names : script[f] # "own"
KnowEachOther ==
  \A p, q \in Processes : p # q /\ pc[p] \notin Ended /\ pc[q] \notin Ended => troubled[p]
PastDatabase ==
  \A p \in Processes :
    ~troubled[p] => /\ pc[p] # "exited"
                    /\ pc[p] \in {"socket", "setsockopt", "bind", "listen", "accept"} => table
IInv == TypeOK /\ OneServer /\ NoOwnWhileFilling /\ KnowEachOther /\ PastDatabase

\* No start hangs: it comes to accept, exits or dies.
StartsEnd == \A p \in Processes : pc[p] = "getaddrinfo" ~> pc[p] \in Ended \cup {"accept"}

\* jlua_setup_environment "Creates the default folder and hello world lua script,
\* if not existing" (jorgeLua.cpp:21): a start without trouble serves with a script.
ScriptsIfMissing ==
  \A p \in Processes : pc[p] = "accept" /\ ~troubled[p] => script["index.lua"] \in {"default", "own", "early"}
=============================================================================
