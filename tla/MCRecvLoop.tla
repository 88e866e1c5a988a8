----------------------------- MODULE MCRecvLoop -----------------------------
(* RecvLoop by itself for TLC: one request of five bytes, buffers of two.  *)
EXTENDS RecvLoop

MCByte == 1..5
MCText == { <<1, 2, 3, 4, 5>> }
=============================================================================
