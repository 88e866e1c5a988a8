--------------------------- MODULE MCJorgeServer ---------------------------
(* JorgeServer for TLC.                                                    *)
EXTENDS JorgeServer

MCFds    == 4..5
=============================================================================
