--------------------------- MODULE Startup_proofs ---------------------------
(* Startup for any number of processes, addresses and starts.  IInv holds  *)
(* at the start, each step keeps it (a lemma for each action, a step for   *)
(* each of its parts), and it implies what the run checks: TypeOK,         *)
(* OneServer, AloneServes and OwnScriptsKept.                              *)
EXTENDS Startup, TLAPS

\* What the first start writes are the scripts the module tells of.
LEMMA FileNames == \A k \in 1..Len(Files) : Files[k] \in Names
BY DEF Files, Names

\* Nothing is set up and nobody runs.
LEMMA InitIInv == Init => IInv
<1> SUFFICES ASSUME Init PROVE IInv
  OBVIOUS
<1>1. DiskTypes
  BY DEF Init, DiskTypes
<1>2. ProcessTypes
  <2>1. pc \in [Processes -> Places] /\ at \in [Processes -> Nat]
    BY DEF Init, Places
  <2>2. /\ sock \in [Processes -> {"none", "open", "reuse", "bound", "listening"}]
        /\ starts \in 0..MaxStarts /\ troubled \in [Processes -> BOOLEAN]
    BY BoundsAssumption DEF Init
  <2> QED  BY <2>1, <2>2 DEF ProcessTypes
<1>3. InPlace /\ ScriptsInFolder
  BY BoundsAssumption DEF Init, InPlace, ScriptsInFolder
<1>4. OneServer /\ NoOwnWhileFilling
  BY DEF Init, OneServer, NoOwnWhileFilling, Filling
<1>5. KnowEachOther /\ PastDatabase
  BY DEF Init, KnowEachOther, PastDatabase, Ended
<1> QED  BY <1>1, <1>2, <1>3, <1>4, <1>5 DEF IInv, TypeOK

\* A start that meets others is troubled from its first step, and so are they.
LEMMA StartIInv == ASSUME IInv, NEW p \in Processes, Start(p) PROVE IInv'
<1> USE DEF Start, First, Goto, Others, disk
<1>1. DiskTypes'
  BY FileNames DEF IInv, TypeOK, DiskTypes, ProcessTypes
<1>2. ProcessTypes'
  <2>1. pc' \in [Processes -> Places]
    BY DEF IInv, TypeOK, ProcessTypes, Places
  <2>2. at' \in [Processes -> Nat]
    BY DEF IInv, TypeOK, ProcessTypes
  <2>3. /\ sock' \in [Processes -> {"none", "open", "reuse", "bound", "listening"}]
        /\ starts' \in 0..MaxStarts
    BY BoundsAssumption DEF IInv, TypeOK, ProcessTypes
  <2>4. troubled' \in [Processes -> BOOLEAN]
    BY DEF IInv, TypeOK, ProcessTypes
  <2> QED  BY <2>1, <2>2, <2>3, <2>4 DEF ProcessTypes
<1>3. InPlace'
  BY BoundsAssumption DEF IInv, TypeOK, DiskTypes, ProcessTypes, InPlace, Ended
<1>4. ScriptsInFolder'
  BY BoundsAssumption, FileNames DEF IInv, TypeOK, DiskTypes, ProcessTypes, InPlace, ScriptsInFolder, Files
<1>5. OneServer'
  BY DEF IInv, TypeOK, ProcessTypes, InPlace, OneServer
<1>6. NoOwnWhileFilling'
  BY DEF IInv, TypeOK, DiskTypes, ProcessTypes, ScriptsInFolder, NoOwnWhileFilling, Filling
<1>7. KnowEachOther'
  BY DEF IInv, TypeOK, ProcessTypes, KnowEachOther, Ended
<1>8. PastDatabase'
  BY DEF IInv, TypeOK, DiskTypes, ProcessTypes, InPlace, KnowEachOther, PastDatabase, Ended
<1> QED  BY <1>1, <1>2, <1>3, <1>4, <1>5, <1>6, <1>7, <1>8 DEF IInv, TypeOK

\* A failure of getaddrinfo is trouble.
LEMMA GetAddrInfoIInv == ASSUME IInv, NEW p \in Processes, GetAddrInfo(p) PROVE IInv'
<1> USE DEF GetAddrInfo, Goto, Trouble, disk
<1>1. DiskTypes'
  BY FileNames DEF IInv, TypeOK, DiskTypes, ProcessTypes
<1>2. ProcessTypes'
  BY BoundsAssumption DEF IInv, TypeOK, ProcessTypes, Places
<1>3. InPlace'
  BY BoundsAssumption DEF IInv, TypeOK, DiskTypes, ProcessTypes, InPlace, Ended
<1>4. ScriptsInFolder'
  BY BoundsAssumption, FileNames DEF IInv, TypeOK, DiskTypes, ProcessTypes, InPlace, ScriptsInFolder, Files
<1>5. OneServer'
  BY DEF IInv, TypeOK, ProcessTypes, InPlace, OneServer
<1>6. NoOwnWhileFilling'
  BY DEF IInv, TypeOK, DiskTypes, ProcessTypes, ScriptsInFolder, NoOwnWhileFilling, Filling
<1>7. KnowEachOther'
  BY DEF IInv, TypeOK, ProcessTypes, KnowEachOther, Ended
<1>8. PastDatabase'
  BY DEF IInv, TypeOK, DiskTypes, ProcessTypes, InPlace, KnowEachOther, PastDatabase, Ended
<1> QED  BY <1>1, <1>2, <1>3, <1>4, <1>5, <1>6, <1>7, <1>8 DEF IInv, TypeOK

\* Who makes the folder finds no script in it; who finds one leaves it alone.
LEMMA MkdirIInv == ASSUME IInv, NEW p \in Processes, Mkdir(p) PROVE IInv'
<1> USE DEF Mkdir, First, Goto, Trouble
<1>1. DiskTypes'
  BY FileNames DEF IInv, TypeOK, DiskTypes, ProcessTypes
<1>2. ProcessTypes'
  <2>1. pc' \in [Processes -> Places]
    BY DEF IInv, TypeOK, ProcessTypes, Places
  <2>2. at' \in [Processes -> Nat]
    BY DEF IInv, TypeOK, ProcessTypes
  <2>3. /\ sock' \in [Processes -> {"none", "open", "reuse", "bound", "listening"}]
        /\ starts' \in 0..MaxStarts
    BY BoundsAssumption DEF IInv, TypeOK, ProcessTypes
  <2>4. troubled' \in [Processes -> BOOLEAN]
    BY DEF IInv, TypeOK, ProcessTypes
  <2> QED  BY <2>1, <2>2, <2>3, <2>4 DEF ProcessTypes
<1>3. InPlace'
  BY BoundsAssumption DEF IInv, TypeOK, DiskTypes, ProcessTypes, InPlace, Ended
<1>4. ScriptsInFolder'
  BY BoundsAssumption, FileNames DEF IInv, TypeOK, DiskTypes, ProcessTypes, InPlace, ScriptsInFolder, Files
<1>5. OneServer'
  BY DEF IInv, TypeOK, ProcessTypes, InPlace, OneServer
<1>6. NoOwnWhileFilling'
  BY DEF IInv, TypeOK, DiskTypes, ProcessTypes, ScriptsInFolder, NoOwnWhileFilling, Filling
<1>7. KnowEachOther'
  BY DEF IInv, TypeOK, ProcessTypes, KnowEachOther, Ended
<1>8. PastDatabase'
  BY DEF IInv, TypeOK, DiskTypes, ProcessTypes, InPlace, KnowEachOther, PastDatabase, Ended
<1> QED  BY <1>1, <1>2, <1>3, <1>4, <1>5, <1>6, <1>7, <1>8 DEF IInv, TypeOK

\* The emptied file is not the owner's.
LEMMA FopenIInv == ASSUME IInv, NEW p \in Processes, Fopen(p) PROVE IInv'
<1> USE DEF Fopen, Goto
<1>1. DiskTypes'
  BY FileNames DEF IInv, TypeOK, DiskTypes, ProcessTypes
<1>2. ProcessTypes'
  BY BoundsAssumption DEF IInv, TypeOK, ProcessTypes, Places
<1>3. InPlace'
  BY BoundsAssumption DEF IInv, TypeOK, DiskTypes, ProcessTypes, InPlace, Ended
<1>4. ScriptsInFolder'
  BY BoundsAssumption, FileNames DEF IInv, TypeOK, DiskTypes, ProcessTypes, InPlace, ScriptsInFolder, Files
<1>5. OneServer'
  BY DEF IInv, TypeOK, ProcessTypes, InPlace, OneServer
<1>6. NoOwnWhileFilling'
  BY DEF IInv, TypeOK, DiskTypes, ProcessTypes, ScriptsInFolder, NoOwnWhileFilling, Filling
<1>7. KnowEachOther'
  BY DEF IInv, TypeOK, ProcessTypes, KnowEachOther, Ended
<1>8. PastDatabase'
  BY DEF IInv, TypeOK, DiskTypes, ProcessTypes, InPlace, KnowEachOther, PastDatabase, Ended
<1> QED  BY <1>1, <1>2, <1>3, <1>4, <1>5, <1>6, <1>7, <1>8 DEF IInv, TypeOK

\* After the second file comes the database.
LEMMA FcloseIInv == ASSUME IInv, NEW p \in Processes, Fclose(p) PROVE IInv'
<1> USE DEF Fclose, Goto, Trouble
<1>1. DiskTypes'
  BY FileNames DEF IInv, TypeOK, DiskTypes, ProcessTypes
<1>2. ProcessTypes'
  <2>1. pc' \in [Processes -> Places]
    BY DEF IInv, TypeOK, ProcessTypes, Places
  <2>2. at' \in [Processes -> Nat]
    BY DEF IInv, TypeOK, ProcessTypes
  <2>3. /\ sock' \in [Processes -> {"none", "open", "reuse", "bound", "listening"}]
        /\ starts' \in 0..MaxStarts
    BY BoundsAssumption DEF IInv, TypeOK, ProcessTypes
  <2>4. troubled' \in [Processes -> BOOLEAN]
    BY DEF IInv, TypeOK, ProcessTypes
  <2> QED  BY <2>1, <2>2, <2>3, <2>4 DEF ProcessTypes
<1>3. InPlace'
  BY BoundsAssumption DEF IInv, TypeOK, DiskTypes, ProcessTypes, InPlace, Ended
<1>4. ScriptsInFolder'
  BY BoundsAssumption, FileNames DEF IInv, TypeOK, DiskTypes, ProcessTypes, InPlace, ScriptsInFolder, Files
<1>5. OneServer'
  BY DEF IInv, TypeOK, ProcessTypes, InPlace, OneServer
<1>6. NoOwnWhileFilling'
  BY DEF IInv, TypeOK, DiskTypes, ProcessTypes, ScriptsInFolder, NoOwnWhileFilling, Filling
<1>7. KnowEachOther'
  BY DEF IInv, TypeOK, ProcessTypes, KnowEachOther, Ended
<1>8. PastDatabase'
  BY DEF IInv, TypeOK, DiskTypes, ProcessTypes, InPlace, KnowEachOther, PastDatabase, Ended
<1> QED  BY <1>1, <1>2, <1>3, <1>4, <1>5, <1>6, <1>7, <1>8 DEF IInv, TypeOK

\* A start that cannot open the database goes on, troubled.
LEMMA OpenDatabaseIInv == ASSUME IInv, NEW p \in Processes, OpenDatabase(p) PROVE IInv'
<1> USE DEF OpenDatabase, First, Goto, Trouble, disk
<1>1. DiskTypes'
  BY FileNames DEF IInv, TypeOK, DiskTypes, ProcessTypes
<1>2. ProcessTypes'
  <2>1. pc' \in [Processes -> Places]
    BY DEF IInv, TypeOK, ProcessTypes, Places
  <2>2. at' \in [Processes -> Nat]
    BY DEF IInv, TypeOK, ProcessTypes
  <2>3. /\ sock' \in [Processes -> {"none", "open", "reuse", "bound", "listening"}]
        /\ starts' \in 0..MaxStarts
    BY BoundsAssumption DEF IInv, TypeOK, ProcessTypes
  <2>4. troubled' \in [Processes -> BOOLEAN]
    BY DEF IInv, TypeOK, ProcessTypes
  <2> QED  BY <2>1, <2>2, <2>3, <2>4 DEF ProcessTypes
<1>3. InPlace'
  BY BoundsAssumption DEF IInv, TypeOK, DiskTypes, ProcessTypes, InPlace, Ended
<1>4. ScriptsInFolder'
  BY BoundsAssumption, FileNames DEF IInv, TypeOK, DiskTypes, ProcessTypes, InPlace, ScriptsInFolder, Files
<1>5. OneServer'
  BY DEF IInv, TypeOK, ProcessTypes, InPlace, OneServer
<1>6. NoOwnWhileFilling'
  BY DEF IInv, TypeOK, DiskTypes, ProcessTypes, ScriptsInFolder, NoOwnWhileFilling, Filling
<1>7. KnowEachOther'
  BY DEF IInv, TypeOK, ProcessTypes, KnowEachOther, Ended
<1>8. PastDatabase'
  BY DEF IInv, TypeOK, DiskTypes, ProcessTypes, InPlace, KnowEachOther, PastDatabase, Ended
<1> QED  BY <1>1, <1>2, <1>3, <1>4, <1>5, <1>6, <1>7, <1>8 DEF IInv, TypeOK

\* Alone, only a table that exists is a reason to fail.
LEMMA CreateTableIInv == ASSUME IInv, NEW p \in Processes, CreateTable(p) PROVE IInv'
<1> USE DEF CreateTable, First, Goto, Others
<1>1. DiskTypes'
  BY FileNames DEF IInv, TypeOK, DiskTypes, ProcessTypes
<1>2. ProcessTypes'
  BY BoundsAssumption DEF IInv, TypeOK, ProcessTypes, Places
<1>3. InPlace'
  BY BoundsAssumption DEF IInv, TypeOK, DiskTypes, ProcessTypes, InPlace, Ended
<1>4. ScriptsInFolder'
  BY BoundsAssumption, FileNames DEF IInv, TypeOK, DiskTypes, ProcessTypes, InPlace, ScriptsInFolder, Files
<1>5. OneServer'
  BY DEF IInv, TypeOK, ProcessTypes, InPlace, OneServer
<1>6. NoOwnWhileFilling'
  BY DEF IInv, TypeOK, DiskTypes, ProcessTypes, ScriptsInFolder, NoOwnWhileFilling, Filling
<1>7. KnowEachOther'
  BY DEF IInv, TypeOK, ProcessTypes, KnowEachOther, Ended
<1>8. PastDatabase'
  BY DEF IInv, TypeOK, DiskTypes, ProcessTypes, InPlace, KnowEachOther, PastDatabase, Ended
<1> QED  BY <1>1, <1>2, <1>3, <1>4, <1>5, <1>6, <1>7, <1>8 DEF IInv, TypeOK

\* The table is there, or the disk failed.
LEMMA CommitIInv == ASSUME IInv, NEW p \in Processes, Commit(p) PROVE IInv'
<1> USE DEF Commit, First, Goto, Trouble
<1>1. DiskTypes'
  BY FileNames DEF IInv, TypeOK, DiskTypes, ProcessTypes
<1>2. ProcessTypes'
  BY BoundsAssumption DEF IInv, TypeOK, ProcessTypes, Places
<1>3. InPlace'
  BY BoundsAssumption DEF IInv, TypeOK, DiskTypes, ProcessTypes, InPlace, Ended
<1>4. ScriptsInFolder'
  BY BoundsAssumption, FileNames DEF IInv, TypeOK, DiskTypes, ProcessTypes, InPlace, ScriptsInFolder, Files
<1>5. OneServer'
  BY DEF IInv, TypeOK, ProcessTypes, InPlace, OneServer
<1>6. NoOwnWhileFilling'
  BY DEF IInv, TypeOK, DiskTypes, ProcessTypes, ScriptsInFolder, NoOwnWhileFilling, Filling
<1>7. KnowEachOther'
  BY DEF IInv, TypeOK, ProcessTypes, KnowEachOther, Ended
<1>8. PastDatabase'
  BY DEF IInv, TypeOK, DiskTypes, ProcessTypes, InPlace, KnowEachOther, PastDatabase, Ended
<1> QED  BY <1>1, <1>2, <1>3, <1>4, <1>5, <1>6, <1>7, <1>8 DEF IInv, TypeOK

\* A failure of socket() is trouble.
LEMMA SocketIInv == ASSUME IInv, NEW p \in Processes, Socket(p) PROVE IInv'
<1> USE DEF Socket, NextAddress, Goto, Trouble, disk
<1>1. DiskTypes'
  BY FileNames DEF IInv, TypeOK, DiskTypes, ProcessTypes
<1>2. ProcessTypes'
  <2>1. pc' \in [Processes -> Places]
    BY DEF IInv, TypeOK, ProcessTypes, Places
  <2>2. at' \in [Processes -> Nat]
    BY DEF IInv, TypeOK, ProcessTypes
  <2>3. /\ sock' \in [Processes -> {"none", "open", "reuse", "bound", "listening"}]
        /\ starts' \in 0..MaxStarts
    BY BoundsAssumption DEF IInv, TypeOK, ProcessTypes
  <2>4. troubled' \in [Processes -> BOOLEAN]
    BY DEF IInv, TypeOK, ProcessTypes
  <2> QED  BY <2>1, <2>2, <2>3, <2>4 DEF ProcessTypes
<1>3. InPlace'
  BY BoundsAssumption DEF IInv, TypeOK, DiskTypes, ProcessTypes, InPlace, Ended
<1>4. ScriptsInFolder'
  BY BoundsAssumption, FileNames DEF IInv, TypeOK, DiskTypes, ProcessTypes, InPlace, ScriptsInFolder, Files
<1>5. OneServer'
  BY DEF IInv, TypeOK, ProcessTypes, InPlace, OneServer
<1>6. NoOwnWhileFilling'
  BY DEF IInv, TypeOK, DiskTypes, ProcessTypes, ScriptsInFolder, NoOwnWhileFilling, Filling
<1>7. KnowEachOther'
  BY DEF IInv, TypeOK, ProcessTypes, KnowEachOther, Ended
<1>8. PastDatabase'
  BY DEF IInv, TypeOK, DiskTypes, ProcessTypes, InPlace, KnowEachOther, PastDatabase, Ended
<1> QED  BY <1>1, <1>2, <1>3, <1>4, <1>5, <1>6, <1>7, <1>8 DEF IInv, TypeOK

\* A failure of setsockopt() is trouble.
LEMMA SetsockoptIInv == ASSUME IInv, NEW p \in Processes, Setsockopt(p) PROVE IInv'
<1> USE DEF Setsockopt, Exit, Goto, Trouble, disk
<1>1. DiskTypes'
  BY FileNames DEF IInv, TypeOK, DiskTypes, ProcessTypes
<1>2. ProcessTypes'
  BY BoundsAssumption DEF IInv, TypeOK, ProcessTypes, Places
<1>3. InPlace'
  BY BoundsAssumption DEF IInv, TypeOK, DiskTypes, ProcessTypes, InPlace, Ended
<1>4. ScriptsInFolder'
  BY BoundsAssumption, FileNames DEF IInv, TypeOK, DiskTypes, ProcessTypes, InPlace, ScriptsInFolder, Files
<1>5. OneServer'
  BY DEF IInv, TypeOK, ProcessTypes, InPlace, OneServer
<1>6. NoOwnWhileFilling'
  BY DEF IInv, TypeOK, DiskTypes, ProcessTypes, ScriptsInFolder, NoOwnWhileFilling, Filling
<1>7. KnowEachOther'
  BY DEF IInv, TypeOK, ProcessTypes, KnowEachOther, Ended
<1>8. PastDatabase'
  BY DEF IInv, TypeOK, DiskTypes, ProcessTypes, InPlace, KnowEachOther, PastDatabase, Ended
<1> QED  BY <1>1, <1>2, <1>3, <1>4, <1>5, <1>6, <1>7, <1>8 DEF IInv, TypeOK

\* With the option set, only another process's socket can be in the way.
LEMMA BindIInv == ASSUME IInv, NEW p \in Processes, Bind(p) PROVE IInv'
<1> USE DEF Bind, InUse, NextAddress, Goto, Trouble, disk
<1>1. DiskTypes'
  BY FileNames DEF IInv, TypeOK, DiskTypes, ProcessTypes
<1>2. ProcessTypes'
  <2>1. pc' \in [Processes -> Places]
    BY DEF IInv, TypeOK, ProcessTypes, Places
  <2>2. at' \in [Processes -> Nat]
    BY DEF IInv, TypeOK, ProcessTypes
  <2>3. /\ sock' \in [Processes -> {"none", "open", "reuse", "bound", "listening"}]
        /\ starts' \in 0..MaxStarts
    BY BoundsAssumption DEF IInv, TypeOK, ProcessTypes
  <2>4. troubled' \in [Processes -> BOOLEAN]
    BY DEF IInv, TypeOK, ProcessTypes
  <2> QED  BY <2>1, <2>2, <2>3, <2>4 DEF ProcessTypes
<1>3. InPlace'
  BY BoundsAssumption DEF IInv, TypeOK, DiskTypes, ProcessTypes, InPlace, Ended
<1>4. ScriptsInFolder'
  BY BoundsAssumption, FileNames DEF IInv, TypeOK, DiskTypes, ProcessTypes, InPlace, ScriptsInFolder, Files
<1>5. OneServer'
  BY DEF IInv, TypeOK, ProcessTypes, InPlace, OneServer
<1>6. NoOwnWhileFilling'
  BY DEF IInv, TypeOK, DiskTypes, ProcessTypes, ScriptsInFolder, NoOwnWhileFilling, Filling
<1>7. KnowEachOther'
  BY DEF IInv, TypeOK, ProcessTypes, KnowEachOther, Ended
<1>8. PastDatabase'
  BY DEF IInv, TypeOK, DiskTypes, ProcessTypes, InPlace, KnowEachOther, PastDatabase, Ended
<1> QED  BY <1>1, <1>2, <1>3, <1>4, <1>5, <1>6, <1>7, <1>8 DEF IInv, TypeOK

\* Only another process's socket can be in the way, and then there is no second server.
LEMMA ListenIInv == ASSUME IInv, NEW p \in Processes, Listen(p) PROVE IInv'
<1> USE DEF Listen, Exit, Goto, Trouble, disk
<1>1. DiskTypes'
  BY FileNames DEF IInv, TypeOK, DiskTypes, ProcessTypes
<1>2. ProcessTypes'
  BY BoundsAssumption DEF IInv, TypeOK, ProcessTypes, Places
<1>3. InPlace'
  BY BoundsAssumption DEF IInv, TypeOK, DiskTypes, ProcessTypes, InPlace, Ended
<1>4. ScriptsInFolder'
  BY BoundsAssumption, FileNames DEF IInv, TypeOK, DiskTypes, ProcessTypes, InPlace, ScriptsInFolder, Files
<1>5. OneServer'
  BY DEF IInv, TypeOK, ProcessTypes, InPlace, OneServer
<1>6. NoOwnWhileFilling'
  BY DEF IInv, TypeOK, DiskTypes, ProcessTypes, ScriptsInFolder, NoOwnWhileFilling, Filling
<1>7. KnowEachOther'
  BY DEF IInv, TypeOK, ProcessTypes, KnowEachOther, Ended
<1>8. PastDatabase'
  BY DEF IInv, TypeOK, DiskTypes, ProcessTypes, InPlace, KnowEachOther, PastDatabase, Ended
<1> QED  BY <1>1, <1>2, <1>3, <1>4, <1>5, <1>6, <1>7, <1>8 DEF IInv, TypeOK

\* Lock and socket of a process go with it.
LEMMA CrashIInv == ASSUME IInv, NEW p \in Processes, Crash(p) PROVE IInv'
<1> USE DEF Crash, Goto
<1>1. DiskTypes'
  BY FileNames DEF IInv, TypeOK, DiskTypes, ProcessTypes
<1>2. ProcessTypes'
  BY BoundsAssumption DEF IInv, TypeOK, ProcessTypes, Places
<1>3. InPlace'
  BY BoundsAssumption DEF IInv, TypeOK, DiskTypes, ProcessTypes, InPlace, Ended
<1>4. ScriptsInFolder'
  BY BoundsAssumption, FileNames DEF IInv, TypeOK, DiskTypes, ProcessTypes, InPlace, ScriptsInFolder, Files
<1>5. OneServer'
  BY DEF IInv, TypeOK, ProcessTypes, InPlace, OneServer
<1>6. NoOwnWhileFilling'
  BY DEF IInv, TypeOK, DiskTypes, ProcessTypes, ScriptsInFolder, NoOwnWhileFilling, Filling
<1>7. KnowEachOther'
  BY DEF IInv, TypeOK, ProcessTypes, KnowEachOther, Ended
<1>8. PastDatabase'
  BY DEF IInv, TypeOK, DiskTypes, ProcessTypes, InPlace, KnowEachOther, PastDatabase, Ended
<1> QED  BY <1>1, <1>2, <1>3, <1>4, <1>5, <1>6, <1>7, <1>8 DEF IInv, TypeOK

\* Time passes at the port, which no part of the invariant mentions.
LEMMA PortClearsIInv == ASSUME IInv, PortClears PROVE IInv'
<1>1. DiskTypes' /\ ProcessTypes'
  BY DEF IInv, TypeOK, DiskTypes, ProcessTypes, PortClears, disk
<1>2. InPlace' /\ ScriptsInFolder' /\ OneServer'
  BY DEF IInv, TypeOK, InPlace, ScriptsInFolder, OneServer, PortClears, disk
<1>3. NoOwnWhileFilling' /\ KnowEachOther' /\ PastDatabase'
  BY DEF IInv, NoOwnWhileFilling, Filling, KnowEachOther, PastDatabase, PortClears, disk
<1> QED  BY <1>1, <1>2, <1>3 DEF IInv, TypeOK

\* The owner's script is his own while no start fills the folder.
LEMMA WriteOwnIInv == ASSUME IInv, NEW f \in Names, WriteOwn(f) PROVE IInv'
<1> USE DEF WriteOwn
<1>1. DiskTypes' /\ ProcessTypes'
  BY DEF IInv, TypeOK, DiskTypes, ProcessTypes
<1>2. InPlace' /\ OneServer'
  BY DEF IInv, TypeOK, InPlace, OneServer
<1>3. ScriptsInFolder'
  BY DEF IInv, TypeOK, DiskTypes, ScriptsInFolder
<1>4. NoOwnWhileFilling'
  BY DEF IInv, TypeOK, DiskTypes, NoOwnWhileFilling, Filling
<1>5. KnowEachOther' /\ PastDatabase'
  BY DEF IInv, KnowEachOther, PastDatabase
<1> QED  BY <1>1, <1>2, <1>3, <1>4, <1>5 DEF IInv, TypeOK

\* A step that changes nothing.
LEMMA StutterIInv == ASSUME IInv, UNCHANGED vars PROVE IInv'
<1> USE DEF vars, disk
<1>1. TypeOK' /\ OneServer'
  BY DEF IInv, TypeOK, DiskTypes, ProcessTypes, InPlace, ScriptsInFolder, OneServer
<1>2. NoOwnWhileFilling' /\ KnowEachOther' /\ PastDatabase'
  BY DEF IInv, NoOwnWhileFilling, Filling, KnowEachOther, PastDatabase
<1> QED  BY <1>1, <1>2 DEF IInv

LEMMA NextIInv == IInv /\ [Next]_vars => IInv'
<1> SUFFICES ASSUME IInv, [Next]_vars PROVE IInv'
  OBVIOUS
<1>1. ASSUME NEW p \in Processes, SetUp(p) PROVE IInv'
  BY <1>1, MkdirIInv, FopenIInv, FcloseIInv, OpenDatabaseIInv, CreateTableIInv, CommitIInv DEF SetUp
<1>2. ASSUME NEW p \in Processes, Main(p) PROVE IInv'
  BY <1>1, <1>2, GetAddrInfoIInv, SocketIInv, SetsockoptIInv, BindIInv, ListenIInv DEF Main
<1> QED
  BY <1>2, StartIInv, CrashIInv, PortClearsIInv, WriteOwnIInv, StutterIInv DEF Next

-----------------------------------------------------------------------------
(* The theorems. *)

\* The inductive invariant: of two live starts each knows of the other, a first
\* start fills a folder without scripts the owner wrote before, and a start without
\* trouble that is past the database has its table (jlua_setup_environment, main).
THEOREM Invariance == Spec => []IInv
<1> QED  BY InitIInv, NextIInv, PTL DEF Spec

\* Locks, sockets and files are as the place of each process in main calls for.
THEOREM TypeCorrect == Spec => []TypeOK
<1>1. IInv => TypeOK
  BY DEF IInv
<1> QED  BY <1>1, Invariance, PTL

\* However many processes start at once, bind() and listen() leave at most one of
\* them accepting connections.
THEOREM OneServerHolds == Spec => []OneServer
<1>1. IInv => OneServer
  BY DEF IInv
<1> QED  BY <1>1, Invariance, PTL

\* A start that meets no other process and no failing call does not exit, and
\* accepts connections with the table, whatever crashed before it.
THEOREM AloneServesHolds == Spec => []AloneServes
<1>1. IInv => AloneServes
  BY DEF IInv, PastDatabase, AloneServes
<1> QED  BY <1>1, Invariance, PTL

\* No step of jorge's replaces a script of the owner's: fopen's "w" is reached
\* only in a folder that mkdir has just made.
LEMMA StepKeepsOwn ==
  IInv /\ [Next]_vars => \A f \in Names : script[f] = "own" => script'[f] = "own"
<1> SUFFICES ASSUME IInv, [Next]_vars, NEW f \in Names, script[f] = "own" PROVE script'[f] = "own"
  OBVIOUS
<1>1. script \in [Names -> {"none", "empty", "default", "own", "early"}]
  BY DEF IInv, TypeOK, DiskTypes
<1>2. ASSUME NEW p \in Processes, SetUp(p) PROVE script'[f] = "own"
  <2>1. CASE Fopen(p) \/ Fclose(p)
    BY <2>1 DEF Fopen, Fclose, IInv, NoOwnWhileFilling, Filling
  <2>2. CASE Mkdir(p) \/ OpenDatabase(p) \/ CreateTable(p) \/ Commit(p)
    BY <2>2 DEF Mkdir, OpenDatabase, CreateTable, Commit, disk
  <2> QED  BY <1>2, <2>1, <2>2 DEF SetUp
<1>3. ASSUME NEW p \in Processes, Main(p) PROVE script'[f] = "own"
  BY <1>2, <1>3 DEF Main, GetAddrInfo, Socket, Setsockopt, Bind, Listen, disk
<1>4. ASSUME NEW p \in Processes, Start(p) \/ Crash(p) PROVE script'[f] = "own"
  BY <1>4 DEF Start, Crash, disk
<1>5. ASSUME NEW g \in Names, WriteOwn(g) PROVE script'[f] = "own"
  BY <1>1, <1>5 DEF WriteOwn
<1>6. CASE PortClears \/ UNCHANGED vars
  BY <1>6 DEF PortClears, vars, disk
<1> QED  BY <1>3, <1>4, <1>5, <1>6 DEF Next

\* The owner's scripts survive every start and every crash, but for those he wrote
\* into a folder that a first start was filling.
THEOREM OwnScriptsKeptHolds == Spec => OwnScriptsKept
<1> QED  BY Invariance, StepKeepsOwn, PTL DEF Spec, OwnScriptsKept
=============================================================================
