----------------------------- MODULE MCStartup -----------------------------
(* Startup for TLC. *)
EXTENDS Startup

MCOwn  == {"index.lua"}
MCNone == {}
=============================================================================
