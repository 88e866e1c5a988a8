----------------------------- MODULE MCExchange -----------------------------
(* Exchange for TLC: requests of up to six bytes, told apart by their      *)
(* value where they are not NUL, buffers that hold two, responses with an  *)
(* empty chunk and with chunks larger than the connection's buffer.        *)
EXTENDS Exchange

MCByte      == 0..14
MCMessages  == { <<>>, <<1>>, <<1, 2, 3, 4>>, <<1, 2, 3, 4, 5>>, <<1, 0, 2, 3, 0, 4>> }
MCResponses == { << <<11>>, <<>>, <<12, 13, 14>> >>, << <<11, 12, 13>> >> }
=============================================================================
