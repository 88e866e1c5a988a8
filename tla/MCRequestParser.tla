-------------------------- MODULE MCRequestParser --------------------------
(* RequestParser for TLC: requests put together from their parts, broken   *)
(* off anywhere, and with any one character replaced.                      *)
EXTENDS RequestParser, SequencesExt

CRLF == <<CR, LF>>
VersionText == <<"H", "T", "T", "P", "/", "1", ".", "1">>

Lines == {<<"a", ":", "1">>, <<" ", "a", " ", "a", ":", " ", "1", ":", " ">>}
Heads == {<<>>} \cup Lines \cup {h \o CRLF \o g : h, g \in Lines}

Compose(v, p, h, b) ==
  v \o <<" ">> \o p \o <<" ">> \o VersionText \o CRLF
    \o (IF h = <<>> THEN h ELSE h \o CRLF) \o CRLF \o b

Whole == {Compose(v, p, h, b) :
            v \in {<<"G">>, <<" ", "G", "a">>}, p \in {<<"/">>, <<" ", "/", "a">>, <<"/", "a", "/", " ">>},
            h \in Heads, b \in {<<>>, <<"a">> \o CRLF \o CRLF \o <<"=">>}}

Broken(r)    == {SubSeq(r, 1, n) : n \in 0..Len(r)}
Garbled(r, c) == {[r EXCEPT ![i] = c] : i \in DOMAIN r}

Short == {Compose(<<"G">>, <<"/", "a", "/">>, h, <<"a">>) : h \in Heads}

\* A request line without a version, as in HTTP/0.9.
Bare == {<<"G", " ", "/", " ">> \o CRLF \o h \o CRLF : h \in {l \o CRLF : l \in Lines} \cup {<<>>}}

MCBroken   == UNION {Broken(r) : r \in Whole}
MCGarbled  == UNION {Garbled(r, c) : r \in Short, c \in {"@", " ", "a", ":", "/", "_", CR, LF}}
MCRequests == MCBroken \cup MCGarbled \cup Bare
=============================================================================
