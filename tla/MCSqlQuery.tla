----------------------------- MODULE MCSqlQuery -----------------------------
(* SqlQuery for TLC. *)
EXTENDS SqlQuery
=============================================================================
