---------------------------- MODULE Connections ----------------------------
(* What main.cpp promises of connections, with no word of threads, heap    *)
(* cells or descriptors passed around: a connection is accepted under a    *)
(* descriptor no open connection has, its request is dealt with once, and  *)
(* only then, and only once, is it closed.                                 *)
EXTENDS Naturals

CONSTANTS Clients, Fds, None

VARIABLES
  status,      \* of every client's connection
  descriptor,  \* of open connections, None for others
  dealt        \* how often a client's request has been dealt with

vars == <<status, descriptor, dealt>>

Init ==
  /\ status = [c \in Clients |-> "new"]
  /\ descriptor = [c \in Clients |-> None]
  /\ dealt = [c \in Clients |-> 0]

Change(c, from, to) == status[c] = from /\ status' = [status EXCEPT ![c] = to]

Queue(c) == Change(c, "new", "queued") /\ UNCHANGED <<descriptor, dealt>>
Drop(c)  == Change(c, "queued", "closed") /\ UNCHANGED <<descriptor, dealt>>

Open(c) ==
  /\ Change(c, "queued", "open")
  /\ \E f \in Fds \ {descriptor[d] : d \in Clients} : descriptor' = [descriptor EXCEPT ![c] = f]
  /\ UNCHANGED dealt

\* The request is answered, or found to be none.
Deal(c) ==
  /\ status[c] = "open" /\ dealt[c] = 0
  /\ dealt' = [dealt EXCEPT ![c] = 1]
  /\ UNCHANGED <<status, descriptor>>

Close(c) ==
  /\ dealt[c] = 1 /\ Change(c, "open", "closed")
  /\ descriptor' = [descriptor EXCEPT ![c] = None]
  /\ UNCHANGED dealt

Next == \E c \in Clients : Queue(c) \/ Drop(c) \/ Open(c) \/ Deal(c) \/ Close(c)
Spec == Init /\ [][Next]_vars
=============================================================================
