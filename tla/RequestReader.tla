--------------------------- MODULE RequestReader ----------------------------
(* What jnet_read_request promises its caller: the request it returns is   *)
(* read from the front of what the client sent, in order and with nothing  *)
(* added.  A NUL byte may hide the bytes after it; text is returned whole. *)
EXTENDS Naturals, Sequences

CONSTANTS Messages,  \* what clients may have to send
          Nul        \* the NUL byte

VARIABLES message,   \* what this client would send, if it sent everything
          sent,      \* how many bytes of it have been sent
          result     \* the set of requests returned: none, then one

vars == <<message, sent, result>>

\* What s has at these places, in order.
Kept(s, places) ==
  LET kept[i \in 0..Len(s)] ==
        IF i = 0 THEN <<>>
        ELSE IF i \in places THEN Append(kept[i - 1], s[i])
        ELSE kept[i - 1]
  IN  kept[Len(s)]

\* No NUL is kept, and only what is behind one is left out.
Keepable(s, places) ==
  /\ \A i \in places : s[i] # Nul
  /\ \A i \in DOMAIN s \ places : \E j \in 1..i : s[j] = Nul

\* The ways s can be returned: no byte is moved, only bytes behind a NUL may be missing.
Readings(s) == {Kept(s, places) : places \in {p \in SUBSET DOMAIN s : Keepable(s, p)}}

Init == message \in Messages /\ sent = 0 /\ result = {}

Send == sent < Len(message) /\ sent' \in sent + 1..Len(message) /\ UNCHANGED <<message, result>>

Return ==
  /\ result = {}
  /\ \E n \in 0..sent : \E r \in Readings(SubSeq(message, 1, n)) : result' = {r}
  /\ UNCHANGED <<message, sent>>

Next == Send \/ Return

Spec == Init /\ [][Next]_vars
=============================================================================
