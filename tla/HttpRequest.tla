---------------------------- MODULE HttpRequest ----------------------------
(* The requests jorge understands, said without a state machine: a request *)
(* line of three words, header lines, a blank line and the body.  The      *)
(* classes of characters are those of jnet_read_request; one character of  *)
(* a class stands for the others (a letter has no case, a tab is a blank). *)
EXTENDS Naturals, Sequences, FiniteSetsExt

Nul == "NUL"
CR  == "CR"
LF  == "LF"
Blank  == {" "}
Letter == {"G", "H", "T", "P", "i", "n", "d", "e", "x", "l", "u", "a"}
Digit  == {"0", "1", "9"}

PathChar   == Letter \cup Digit \cup {"/", ".", "+", "-", "=", "?", "~", "%"}
FieldChar  == Letter \cup Digit \cup {"-", ".", "+", "*"}
ValueStart == FieldChar \cup {"/", "?"}
ValueChar  == ValueStart \cup Blank \cup {":", "=", "%", "&", "(", ")", "_", ";", ",", LF}

Char == PathChar \cup ValueChar \cup {"@", CR, Nul}

\* The version as the request line ends with it, and its end of line.
VersionLine == << {"H"}, {"T"}, {"T"}, {"P"}, {"/"}, {"1"}, {"."}, {"0", "1"}, {CR}, {LF} >>

IndexName == <<"i", "n", "d", "e", "x", ".", "l", "u", "a">>

-----------------------------------------------------------------------------
(* Lines: a break b is the place of a CR LF.                               *)

Over(s, chars) == \A i \in DOMAIN s : s[i] \in chars

Breaks(r)  == {i \in 1..Len(r) - 1 : r[i] = CR /\ r[i + 1] = LF}
Line(r, b) == SubSeq(r, Max({j + 2 : j \in {k \in Breaks(r) : k < b}} \cup {1}), b - 1)
FirstEnd(r)   == Min(Breaks(r))
BlankLines(r) == {b \in Breaks(r) \ {FirstEnd(r)} : Over(Line(r, b), Blank)}
HeaderEnds(r) == {b \in Breaks(r) : FirstEnd(r) < b /\ b < Min(BlankLines(r))}

\* The words of a line, each a maximal run without blanks.
Runs(l)  == {w \in (DOMAIN l) \X (DOMAIN l) :
              /\ w[1] <= w[2] /\ Over(SubSeq(l, w[1], w[2]), Char \ Blank)
              /\ w[1] = 1 \/ l[w[1] - 1] \in Blank
              /\ w[2] = Len(l) \/ l[w[2] + 1] \in Blank}
Word(l, n) == LET w == CHOOSE w \in Runs(l) : Cardinality({v \in Runs(l) : v[1] < w[1]}) = n - 1
              IN  SubSeq(l, w[1], w[2])

\* The two sides of a header line, and what is left of a side without blanks.
Colon(l)    == Min({i \in DOMAIN l : l[i] = ":"})
TrimLeft(s) == SubSeq(s, Min({i \in DOMAIN s : s[i] \notin Blank} \cup {Len(s) + 1}), Len(s))
Field(l)    == TrimLeft(SubSeq(l, 1, Colon(l) - 1))
Value(l)    == TrimLeft(SubSeq(l, Colon(l) + 1, Len(l)))

-----------------------------------------------------------------------------
RequestLineOK(l) ==
  /\ Cardinality(Runs(l)) = 3
  /\ Over(Word(l, 1), Letter)
  /\ Head(Word(l, 2)) = "/" /\ Over(Word(l, 2), PathChar)
  /\ Len(Word(l, 3)) = 8 /\ \A i \in 1..8 : Word(l, 3)[i] \in VersionLine[i]
  /\ l[Len(l)] \notin Blank

HeaderLineOK(l) ==
  /\ \E i \in DOMAIN l : l[i] = ":"
  /\ Field(l) # <<>> /\ Over(Field(l), FieldChar \cup Blank)
  /\ Value(l) # <<>> /\ Head(Value(l)) \in ValueStart /\ Over(Value(l), ValueChar)

WellFormed(r) ==
  /\ Breaks(r) # {} /\ RequestLineOK(Line(r, FirstEnd(r)))
  /\ BlankLines(r) # {}
  /\ \A b \in HeaderEnds(r) : HeaderLineOK(Line(r, b))

Verb(r)    == Word(Line(r, FirstEnd(r)), 1)
Path(r)    == Word(Line(r, FirstEnd(r)), 2)
Version(r) == Word(Line(r, FirstEnd(r)), 3)[8]
Body(r)    == SubSeq(r, Min(BlankLines(r)) + 2, Len(r))

\* A field is read up to its first blank, a value to the end of its line.
Headers(r) == {<<Word(Field(Line(r, b)), 1), Value(Line(r, b))>> : b \in HeaderEnds(r)}

Script(r) == IF Path(r)[Len(Path(r))] = "/" THEN Path(r) \o IndexName ELSE Path(r)
=============================================================================
