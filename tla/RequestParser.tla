--------------------------- MODULE RequestParser ---------------------------
(* jnet_read_request (jorgeNetwork.cpp), the parsing half, and what        *)
(* req_thread and jlua_interpret do with its result before a script runs.  *)
(*                                                                         *)
(* The parser is a state machine over the one string the receive loop      *)
(* returned.  It copies nothing: the fields of jnet_request_data point     *)
(* into the string, and the strings they point to end where the parser     *)
(* wrote a NUL over a separator.  jlua_interpret writes into it as well,   *)
(* and may write behind it: it completes a path that ends in '/'.  A       *)
(* pointer is the place of its byte here, 0 for NULL and for a pointer     *)
(* that was never set.                                                     *)
EXTENDS HttpRequest

CONSTANT Requests    \* the strings the receive loop may return

ASSUME RequestAssumption == Requests \subseteq Seq(Char \ {Nul})

VARIABLES
  request,     \* history: the string as it was received
  text,        \* its block, up to the last byte that was ever written: the
               \* string now, its final NUL, and what was written behind it
  at,          \* the place of parserIndex
  state,       \* httpParserState
  verb, path, version, header, body,    \* req_data
  script,      \* what jlua_interpret looks for in jorgeScripts
  globals,     \* VERB, PATH and BODY, as pushed to Lua; NULL is <<Nul>>
  phase        \* "parse", then "closed", or "fault" for undefined behaviour

reqData == <<verb, path, version, header, body>>
lua     == <<script, globals>>
vars    == <<request, text, at, state, reqData, lua, phase>>

None == <<Nul>>

Init ==
  /\ request \in Requests
  /\ text = Append(request, Nul)
  /\ at = 1 /\ state = "verb_begin"
  /\ verb = 0 /\ path = 0 /\ version = Nul /\ header = <<>> /\ body = 0
  /\ script = None /\ globals = [VERB |-> None, PATH |-> None, BODY |-> None]
  /\ phase = "parse"

-----------------------------------------------------------------------------
(* Reading the string.                                                     *)

\* What lies behind the string is in no class of characters.
Byte(i) == IF i \in DOMAIN text THEN text[i] ELSE "outside"
Here    == Byte(at)

\* Mutant: a carriage return alone ends a line.
CarriageReturn == Byte(at) = CR

EndOfLine == Byte(at) = CR /\ Byte(at + 1) = LF

\* How many characters of the version, compared one after the other, agree.
Agrees(n) == \A i \in 1..n : Byte(at + i - 1) \in VersionLine[i]

Cut == text' = [text EXCEPT ![at] = Nul]
Move(n, to) == at' = at + n /\ state' = to

\* The C string at place p of s.
Str(s, p) == IF p = 0 THEN None
             ELSE SubSeq(s, p, Min({i \in p..Len(s) : s[i] = Nul} \cup {Len(s) + 1}) - 1)

-----------------------------------------------------------------------------
(* The parser, one action per state.                                       *)

VerbBegin ==
  /\ state = "verb_begin"
  /\ Move(1, IF Here \in Blank THEN state ELSE IF Here \in Letter THEN "verb_end" ELSE "err")
  /\ verb' = IF Here \in Letter THEN at ELSE verb
  /\ UNCHANGED <<request, text, path, version, header, body, lua, phase>>

VerbEnd ==
  /\ state = "verb_end"
  /\ Move(1, IF Here \in Blank THEN "path_begin" ELSE IF Here \in Letter THEN state ELSE "err")
  /\ IF Here \in Blank THEN Cut ELSE UNCHANGED text
  /\ UNCHANGED <<request, reqData, lua, phase>>

PathBegin ==
  /\ state = "path_begin"
  /\ Move(1, IF Here \in Blank THEN state ELSE IF Here = "/" THEN "path_end" ELSE "err")
  /\ path' = IF Here = "/" THEN at ELSE path
  /\ UNCHANGED <<request, text, verb, version, header, body, lua, phase>>

PathEnd ==
  /\ state = "path_end"
  /\ Move(1, IF Here \in Blank THEN "version" ELSE IF Here \in PathChar THEN state ELSE "err")
  /\ IF Here \in Blank THEN Cut ELSE UNCHANGED text
  /\ UNCHANGED <<request, reqData, lua, phase>>

\* Mutant: the version is skipped without its end of line being looked at.
ReadVersionUnended ==
  /\ state = "version"
  /\ IF Here \in Blank THEN Move(1, state) /\ UNCHANGED version
     ELSE IF Agrees(8) THEN Move(10, "field_begin") /\ version' = Byte(at + 7)
     ELSE Move(1, "err") /\ UNCHANGED version
  /\ UNCHANGED <<request, text, verb, path, header, body, lua, phase>>

ReadVersion ==
  /\ state = "version"
  /\ IF Here \in Blank THEN Move(1, state) /\ UNCHANGED version
     ELSE IF Agrees(10) THEN Move(10, "field_begin") /\ version' = Byte(at + 7)
     ELSE Move(1, "err") /\ UNCHANGED version
  /\ UNCHANGED <<request, text, verb, path, header, body, lua, phase>>

\* A header is allocated with its first character, the body found by an empty line.
FieldBegin ==
  /\ state = "field_begin"
  /\ IF EndOfLine THEN Move(3, "halt") /\ body' = at + 2
     ELSE /\ Move(1, IF Here \in Blank THEN state
                     ELSE IF Here \in FieldChar THEN "field_end" ELSE "err")
          /\ UNCHANGED body
  /\ header' = IF Here \in FieldChar THEN Append(header, [field |-> at, value |-> 0]) ELSE header
  /\ UNCHANGED <<request, text, verb, path, version, lua, phase>>

FieldEnd ==
  /\ state = "field_end"
  /\ Move(1, IF Here = ":" THEN "value_begin"
             ELSE IF Here \in FieldChar \cup Blank THEN state ELSE "err")
  /\ IF Here \in Blank \cup {":"} THEN Cut ELSE UNCHANGED text
  /\ UNCHANGED <<request, reqData, lua, phase>>

\* Mutant: every value is that of the first header.
ValueBeginFirst ==
  /\ state = "value_begin"
  /\ Move(1, IF Here \in Blank THEN state ELSE IF Here \in ValueStart THEN "value_end" ELSE "err")
  /\ header' = IF Here \in ValueStart THEN [header EXCEPT ![1].value = at] ELSE header
  /\ UNCHANGED <<request, text, verb, path, version, body, lua, phase>>

ValueBegin ==
  /\ state = "value_begin"
  /\ Move(1, IF Here \in Blank THEN state ELSE IF Here \in ValueStart THEN "value_end" ELSE "err")
  /\ header' = IF Here \in ValueStart
               THEN [header EXCEPT ![Len(header)].value = at] ELSE header
  /\ UNCHANGED <<request, text, verb, path, version, body, lua, phase>>

\* Mutant: a character that no value has is not skipped and not an error.
ValueEndStuck ==
  /\ state = "value_end"
  /\ IF EndOfLine THEN Move(2, "field_begin") /\ Cut
     ELSE Move(IF Here \in ValueChar THEN 1 ELSE 0, state) /\ UNCHANGED text
  /\ UNCHANGED <<request, reqData, lua, phase>>

ValueEnd ==
  /\ state = "value_end"
  /\ IF EndOfLine THEN Move(2, "field_begin") /\ Cut
     ELSE Move(1, IF Here \in ValueChar THEN state ELSE "err") /\ UNCHANGED text
  /\ UNCHANGED <<request, reqData, lua, phase>>

\* "Cleanup" (jorgeNetwork.cpp:298) is a message: what was found stays in req_data.
Error ==
  /\ state = "err"
  /\ state' = "halt"
  /\ UNCHANGED <<request, text, at, reqData, lua, phase>>

Parse == \/ VerbBegin \/ VerbEnd \/ PathBegin \/ PathEnd \/ ReadVersion
         \/ FieldBegin \/ FieldEnd \/ ValueBegin \/ ValueEnd \/ Error

-----------------------------------------------------------------------------
(* req_thread: no verb, no script; else jlua_interpret.                    *)

NoVerb ==
  /\ state = "halt" /\ phase = "parse" /\ verb = 0
  /\ phase' = "closed"
  /\ UNCHANGED <<request, text, at, state, reqData, lua>>

PushGlobals == globals' = [VERB |-> Str(text, verb), PATH |-> Str(text, path), BODY |-> Str(text, body)]

\* jlua_interpret walks the path without asking whether there is one.
NoPath ==
  /\ state = "halt" /\ phase = "parse" /\ verb # 0 /\ path = 0
  /\ PushGlobals
  /\ phase' = "fault"
  /\ UNCHANGED <<request, text, at, state, reqData, script>>

PathEndsAt == path + Len(Str(text, path))

\* Mutant: malloc is asked for as many bytes as there are characters.
BlockOfChars == Len(request) + 1

\* malloc is asked for a pointer's size per character (jorgeNetwork.cpp:70), of
\* the NULs too that were received and are not in the string.
Block == 8 * (Len(request) + 1)

\* index.lua and its NUL, written behind the '/' the path ends with, be that
\* over what follows in the string or behind its end.
Index == IndexName \o <<Nul>>

Complete(end) ==
  LET last == end + Len(Index) - 1
  IN  IF last > Block
      THEN phase' = "fault" /\ UNCHANGED text
      ELSE /\ text' = [i \in 1..Max({Len(text), last}) |->
                         IF i \in end..last THEN Index[i - end + 1] ELSE text[i]]
           /\ phase' = "closed"

\* Mutant: the name is written over the '/'.
InterpretOverSlash ==
  /\ state = "halt" /\ phase = "parse" /\ verb # 0 /\ path # 0
  /\ PushGlobals
  /\ IF Byte(PathEndsAt - 1) = "/" THEN Complete(PathEndsAt - 1)
     ELSE phase' = "closed" /\ UNCHANGED text
  /\ script' = Str(text', path)
  /\ UNCHANGED <<request, at, state, reqData>>

Interpret ==
  /\ state = "halt" /\ phase = "parse" /\ verb # 0 /\ path # 0
  /\ PushGlobals
  /\ IF Byte(PathEndsAt - 1) = "/" THEN Complete(PathEndsAt)
     ELSE phase' = "closed" /\ UNCHANGED text
  /\ script' = Str(text', path)
  /\ UNCHANGED <<request, at, state, reqData>>

Dispatch == NoVerb \/ NoPath \/ Interpret

Next == Parse \/ Dispatch
Spec     == Init /\ [][Next]_vars
FairSpec == Spec /\ WF_vars(Next)

-----------------------------------------------------------------------------
(* Properties *)

Parsed == state = "halt" /\ body # 0

TypeOK ==
  /\ request \in Seq(Char \ {Nul})
  /\ text \in Seq(Char) /\ Len(text) \in Len(request) + 1 .. Block
  /\ phase = "parse" => Len(text) = Len(request) + 1
  /\ at \in 1..Len(text) + 2
  /\ state \in {"verb_begin", "verb_end", "path_begin", "path_end", "version", "field_begin",
                "field_end", "value_begin", "value_end", "halt", "err"}
  /\ verb \in 0..Len(text) /\ path \in 0..Len(text) /\ body \in 0..Len(text)
  /\ version \in Digit \cup {Nul}
  /\ header \in Seq([field : 1..Len(text), value : 0..Len(text)])
  /\ script \in Seq(Char) /\ globals \in [{"VERB", "PATH", "BODY"} -> Seq(Char)]
  /\ phase \in {"parse", "closed", "fault"}

\* The places the next step decides on: a comparison goes on to the next
\* character only if all before it agreed.
Looks ==
  {at} \cup {at + n : n \in {k \in 1..9 : state = "version" /\ Agrees(k)}}
       \cup (IF state \in {"field_begin", "value_end"} /\ Here = CR THEN {at + 1} ELSE {})

\* The parser decides on no byte behind the string, wherever the request
\* breaks off: every state stops at the NUL, and no lookahead passes it.
ReadsInside == state \notin {"halt", "err"} => Looks \subseteq 1..Len(text)

\* A request is parsed to its body exactly if it is well formed.
ParsesWellFormed == state = "halt" => (body # 0 <=> WellFormed(request))

\* Of a request parsed to its body a script sees what the request said, and
\* the NULs written over separators cost no other part a character.
SeesRequest ==
  Parsed /\ phase = "closed" =>
    /\ globals = [VERB |-> Verb(request), PATH |-> Path(request), BODY |-> Body(request)]
    /\ version = Version(request)
    /\ Len(header) = Cardinality(HeaderEnds(request))
    /\ {<<Str(text, header[i].field), Str(text, header[i].value)>> : i \in DOMAIN header} = Headers(request)

\* index.lua is written inside the block, wherever the request breaks off
\* behind the '/', and though an error does not keep it from being dispatched.
IndexInBlock == path # 0 => phase # "fault"

\* A script is looked for under the path the request named, completed if need
\* be.  Its name and its NUL take the place of the blank and the version and
\* end with them: headers and body are in the same string and stay as they were.
IndexSparesRest ==
  Parsed /\ phase = "closed" =>
    /\ script = Script(request)
    /\ Str(text, body) = Body(request)
    /\ path + Len(script) <= FirstEnd(request)
    /\ \A i \in DOMAIN header : header[i].field > path + Len(script)

\* The parser comes to its end and the request is dealt with.
Halts == <>(phase # "parse")

\* "Since the line which contains the path ends with ` HTTP/1.X\r\n` and the
\* version is saved as value, we assume that `index.lua\0` will fit there without
\* messing up the next line" (jorgeLua.cpp:125-127), of every dispatched request.
LinesBelow == IF Breaks(request) = {} THEN {} ELSE FirstEnd(request) + 2 .. Len(request)
IndexFits  == [][phase' # phase => \A i \in LinesBelow : text'[i] = text[i]]_vars
=============================================================================
