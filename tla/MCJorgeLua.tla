----------------------------- MODULE MCJorgeLua -----------------------------
(* JorgeLua for TLC: a script that echoes twice, one that echoes, sets its *)
(* header and fails, 404.lua in their place.                               *)
EXTENDS JorgeLuaInv

MCScripts  == {<<"echo", "echo">>, <<"echo", "setHeader", "fail">>}
MCNotFound == <<"setHeader">>
MCEcho     == {<<"echo">>}
=============================================================================
