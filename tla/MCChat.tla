------------------------------- MODULE MCChat -------------------------------
(* Chat for TLC. *)
EXTENDS Chat

MCKind == <<"altered", "invalid", "quote">>
=============================================================================
