------------------------------ MODULE JorgeLua ------------------------------
(***************************************************************************)
(* The Lua subsystem of jorge (jorgeLua.cpp): jlua_interpret, and the      *)
(* functions echo and setHeader it registers for the scripts.  main.cpp    *)
(* runs one thread per request; every thread builds its response in ONE    *)
(* global, jData, with no lock.  One action is one access to jData or to a *)
(* block that other threads can reach through it, so the threads           *)
(* interleave wherever the code lets them.  Two actions take a few         *)
(* accesses at once: FreeNode (a node's next and data, and their frees)    *)
(* and SendHeader (strlen before the second read of jData).                *)
(*                                                                         *)
(* Abstracted: the text of headers and body chunks (a malloc'ed block      *)
(* stands for what it holds), what the scripts compute (a script is the    *)
(* sequence of calls it makes), response_body_length (written, never       *)
(* read), and the chunks send() cuts a block into: jnet_send_all is one    *)
(* step here and assumes a peer that keeps reading.                        *)
(***************************************************************************)
EXTENDS Naturals, Sequences, Functions

CONSTANTS
  Threads,    \* the request threads, each named after the request it serves
  Fds,        \* the descriptors accept() may return
  Scripts,    \* what a script of jorgeScripts/ may do: sequences of Ops
  NotFound,   \* what jorgeScripts/404.lua does
  NULL

Op    == {"echo", "setHeader", "fail"}    \* "fail": the script raises an error
Block == Threads \X Nat                   \* <<t, n>>: thread t's n-th malloc
Ptr   == Block \cup {NULL}

ASSUME ScriptAssumption == Scripts \subseteq Seq(Op) /\ NotFound \in Seq(Op)
ASSUME NullAssumption   == NULL \notin Threads /\ NULL \notin Block /\ NULL \notin Fds

VARIABLES
  jData,        \* struct jlua_global_data jData
  next,         \* live nodes of response bodies, each with its next pointer
  strings,      \* live header strings
  mallocs,      \* blocks each thread has allocated so far
  pc,           \* where each thread is
  fd,           \* the argument conn_fd
  prog,         \* the calls its script has still to make
  rescue,       \* the script is 404.lua run by the error path
  scriptError,  \* the local of that name
  cur,          \* the local `walker'
  fault,        \* the thread that executed undefined behaviour, or NULL
  out,          \* what each request's client has been sent
  built,        \* history: the response each thread's script asked for
  shared        \* history: requests that overlapped others, see Accept and Enter

heap   == <<next, strings, mallocs>>
locals == <<fd, prog, rescue, scriptError>>
aux    == <<built, shared>>
vars   == <<jData, heap, pc, locals, cur, fault, out, aux>>

Open   == {t \in Threads : pc[t] \notin {"new", "closed"}}
Inside == {t \in Open : pc[t] # "reading"}
Empty  == [header |-> NULL, body |-> <<>>]

Init ==
  /\ jData = [connection |-> NULL, response_body |-> NULL, response_header |-> NULL]
  /\ next = [b \in {} |-> NULL] /\ strings = {} /\ mallocs = [t \in Threads |-> 0]
  /\ pc = [t \in Threads |-> "new"]
  /\ fd = [t \in Threads |-> NULL]
  /\ prog = [t \in Threads |-> <<>>]
  /\ rescue = [t \in Threads |-> FALSE]
  /\ scriptError = [t \in Threads |-> FALSE]
  /\ cur = [t \in Threads |-> NULL]
  /\ fault = NULL
  /\ out = [t \in Threads |-> <<>>]
  /\ built = [t \in Threads |-> Empty]
  /\ shared = {}

-----------------------------------------------------------------------------
(* Control: a thread moves from one point of its code to the next as long  *)
(* as no thread has brought the process down.                              *)

At(t, here)  == fault = NULL /\ pc[t] = here
Goto(t, to)  == pc' = [pc EXCEPT ![t] = to]
Fault(t)     == fault' = t /\ UNCHANGED <<jData, heap, pc, locals, cur, out, aux>>

\* The block this thread got from malloc last: the node jluaf_echo is linking.
Newest(t) == <<t, mallocs[t]>>

-----------------------------------------------------------------------------
(* main and req_thread: a connection gets a free descriptor, which may be  *)
(* one a closed connection had; its thread reads the request and closes    *)
(* the connection at once if the parser found no verb.  A request accepted *)
(* while requests that overlap are inside counts as overlapping: jData may *)
(* still name the descriptor it is given.                                  *)

Accept(t) ==
  /\ At(t, "new")
  /\ \E f \in Fds \ {fd[u] : u \in Open} : fd' = [fd EXCEPT ![t] = f]
  /\ Goto(t, "reading")
  /\ shared' = IF Inside \cap shared = {} THEN shared ELSE shared \cup {t}
  /\ UNCHANGED <<jData, heap, prog, rescue, scriptError, cur, fault, out, built>>

NoRequest(t) ==
  /\ At(t, "reading")
  /\ Goto(t, "closed")
  /\ UNCHANGED <<jData, heap, locals, cur, fault, out, aux>>

(* jlua_interpret, entry: four stores, the first of which takes over the   *)
(* connection for every thread.                                            *)

\* Mutant: jData.connection is set by the first request only.
EnterOnce(t) ==
  /\ At(t, "reading")
  /\ jData' = [jData EXCEPT !.connection = IF @ = NULL THEN fd[t] ELSE @]
  /\ Goto(t, "init_body")
  /\ shared' = IF Inside = {} THEN shared ELSE shared \cup Inside \cup {t}
  /\ UNCHANGED <<heap, locals, cur, fault, out, built>>

Enter(t) ==
  /\ At(t, "reading")
  /\ jData' = [jData EXCEPT !.connection = fd[t]]
  /\ Goto(t, "init_body")
  /\ shared' = IF Inside = {} THEN shared ELSE shared \cup Inside \cup {t}
  /\ UNCHANGED <<heap, locals, cur, fault, out, built>>

Clear(t, here, field, to) ==
  /\ At(t, here)
  /\ jData' = [jData EXCEPT ![field] = NULL]
  /\ Goto(t, to)
  /\ UNCHANGED <<heap, locals, cur, fault, out, aux>>

InitStores(t) ==
  \/ Clear(t, "init_body", "response_body", "init_header")
  \/ Clear(t, "init_header", "response_header", "load")

(* The script of the path, else 404.lua, else neither can be loaded.  Then  *)
(* the error path prints an error message that is no longer on the Lua     *)
(* stack: popping the empty stack is undefined, the process may survive.   *)

LoadScript(t) ==
  /\ At(t, "load")
  /\ UNCHANGED <<jData, heap, fd, rescue, cur, out, aux>>
  /\ \/ /\ \E s \in Scripts \cup {NotFound} : prog' = [prog EXCEPT ![t] = s]
        /\ Goto(t, "run")
        /\ UNCHANGED <<scriptError, fault>>
     \/ /\ scriptError' = [scriptError EXCEPT ![t] = TRUE]
        /\ Goto(t, "err_header")
        /\ fault' \in {NULL, t}
        /\ UNCHANGED prog

-----------------------------------------------------------------------------
(* lua_pcall: the script's calls one by one, then the send or error path.  *)

Calls(t, op) ==
  /\ At(t, "run")
  /\ prog[t] # <<>>
  /\ Head(prog[t]) = op
  /\ prog' = [prog EXCEPT ![t] = Tail(@)]

Malloc(t) == mallocs' = [mallocs EXCEPT ![t] = @ + 1]

ScriptReturns(t) ==
  /\ At(t, "run")
  /\ prog[t] = <<>>
  /\ Goto(t, "send_check")
  /\ UNCHANGED <<jData, heap, locals, cur, fault, out, aux>>

\* Only the first lua_pcall is checked; the error path ignores 404.lua's result.
ScriptFails(t) ==
  /\ Calls(t, "fail")
  /\ Goto(t, IF rescue[t] THEN "send_check" ELSE "err_header")
  /\ UNCHANGED <<jData, heap, fd, rescue, scriptError, cur, fault, out, aux>>

\* Mutant: the new node's next pointer is not initialised.
EchoAllocUninit(t) ==
  /\ Calls(t, "echo")
  /\ Malloc(t)
  /\ next' = [b \in DOMAIN next \cup {Newest(t)'} |->
                IF b = Newest(t)' THEN "garbage" ELSE next[b]]
  /\ built' = [built EXCEPT ![t].body = Append(@, Newest(t)')]
  /\ Goto(t, "echo_check")
  /\ UNCHANGED <<jData, strings, fd, rescue, scriptError, cur, fault, out, shared>>

\* jluaf_echo: a new node, linked behind the last one of the global list.
EchoAlloc(t) ==
  /\ Calls(t, "echo")
  /\ Malloc(t)
  /\ next' = [b \in DOMAIN next \cup {Newest(t)'} |->
                IF b = Newest(t)' THEN NULL ELSE next[b]]
  /\ built' = [built EXCEPT ![t].body = Append(@, Newest(t)')]
  /\ Goto(t, "echo_check")
  /\ UNCHANGED <<jData, strings, fd, rescue, scriptError, cur, fault, out, shared>>

\* Mutant: every echo starts the list afresh.
EchoCheckDrops(t) ==
  /\ At(t, "echo_check")
  /\ Goto(t, "echo_first")
  /\ UNCHANGED <<jData, heap, locals, cur, fault, out, aux>>

EchoCheck(t) ==
  /\ At(t, "echo_check")
  /\ Goto(t, IF jData.response_body # NULL THEN "echo_head" ELSE "echo_first")
  /\ UNCHANGED <<jData, heap, locals, cur, fault, out, aux>>

EchoFirst(t) ==
  /\ At(t, "echo_first")
  /\ jData' = [jData EXCEPT !.response_body = Newest(t)]
  /\ Goto(t, "run")
  /\ UNCHANGED <<heap, locals, cur, fault, out, aux>>

EchoWalk(t) ==
  /\ At(t, "echo_walk")
  /\ IF cur[t] \notin DOMAIN next THEN Fault(t)
     ELSE /\ IF next[cur[t]] # NULL
             THEN cur' = [cur EXCEPT ![t] = next[cur[t]]] /\ UNCHANGED pc
             ELSE Goto(t, "echo_link") /\ UNCHANGED cur
          /\ UNCHANGED <<jData, heap, locals, fault, out, aux>>

\* Mutant: the last node is linked to itself.
EchoLinkSelf(t) ==
  /\ At(t, "echo_link")
  /\ IF cur[t] \notin DOMAIN next THEN Fault(t)
     ELSE /\ next' = [next EXCEPT ![cur[t]] = cur[t]]
          /\ Goto(t, "run")
          /\ UNCHANGED <<jData, strings, mallocs, locals, cur, fault, out, aux>>

EchoLink(t) ==
  /\ At(t, "echo_link")
  /\ IF cur[t] \notin DOMAIN next THEN Fault(t)
     ELSE /\ next' = [next EXCEPT ![cur[t]] = Newest(t)]
          /\ Goto(t, "run")
          /\ UNCHANGED <<jData, strings, mallocs, locals, cur, fault, out, aux>>

\* jluaf_setHeader: free the old string, store a copy of the new, return its length.
SetHeader(t) ==
  /\ Calls(t, "setHeader")
  /\ Goto(t, "hdr_free")
  /\ UNCHANGED <<jData, heap, fd, rescue, scriptError, cur, fault, out, aux>>

HeaderDup(t) ==
  /\ At(t, "hdr_dup")
  /\ Malloc(t)
  /\ strings' = strings \cup {Newest(t)'}
  /\ jData' = [jData EXCEPT !.response_header = Newest(t)']
  /\ built' = [built EXCEPT ![t].header = Newest(t)']
  /\ Goto(t, "hdr_len")
  /\ UNCHANGED <<next, locals, cur, fault, out, shared>>

HeaderLen(t) ==
  /\ At(t, "hdr_len")
  /\ IF jData.response_header \notin strings THEN Fault(t)
     ELSE Goto(t, "run") /\ UNCHANGED <<jData, heap, locals, cur, fault, out, aux>>

-----------------------------------------------------------------------------
(* The steps several paths share: `if(header) free(header)', taking the    *)
(* list's head, and freeing the node under the walker.                     *)

FreeHeader(t, here, to) ==
  /\ At(t, here)
  /\ IF jData.response_header \notin strings \cup {NULL} THEN Fault(t)
     ELSE /\ strings' = strings \ {jData.response_header}
          /\ Goto(t, to)
          /\ UNCHANGED <<jData, next, mallocs, locals, cur, fault, out, aux>>

TakeHead(t, here, to) ==
  /\ At(t, here)
  /\ cur' = [cur EXCEPT ![t] = jData.response_body]
  /\ Goto(t, to)
  /\ UNCHANGED <<jData, heap, locals, fault, out, aux>>

FreeNode(t, here, to) ==
  /\ At(t, here)
  /\ cur[t] # NULL
  /\ IF cur[t] \notin DOMAIN next THEN Fault(t)
     ELSE /\ cur' = [cur EXCEPT ![t] = next[cur[t]]]
          /\ next' = Restrict(next, DOMAIN next \ {cur[t]})
          /\ Goto(t, to)
          /\ UNCHANGED <<jData, strings, mallocs, locals, fault, out, aux>>

-----------------------------------------------------------------------------
(* The error path: drop header and body, then run 404.lua with ERR = 503.  *)

\* Mutant: the freed header stays in jData.
ErrorCleanupDangles(t) ==
  \/ FreeHeader(t, "err_header", "err_head")
  \/ TakeHead(t, "err_head", "err_node")
  \/ FreeNode(t, "err_node", "err_node")
  \/ cur[t] = NULL /\ Clear(t, "err_node", "response_body", "err_load")

\* Mutant: the body list is dropped, not freed.
ErrorCleanupLeaks(t) ==
  \/ FreeHeader(t, "err_header", "err_node")
  \/ Clear(t, "err_node", "response_body", "err_clear")
  \/ Clear(t, "err_clear", "response_header", "err_load")

ErrorCleanup(t) ==
  \/ FreeHeader(t, "err_header", "err_head")
  \/ TakeHead(t, "err_head", "err_node")
  \/ FreeNode(t, "err_node", "err_node")
  \/ cur[t] = NULL /\ Clear(t, "err_node", "response_body", "err_clear")
  \/ Clear(t, "err_clear", "response_header", "err_load")

LoadRescue(t) ==
  /\ At(t, "err_load")
  /\ rescue' = [rescue EXCEPT ![t] = TRUE]
  /\ built' = [built EXCEPT ![t] = Empty]
  /\ \/ prog' = [prog EXCEPT ![t] = NotFound] /\ Goto(t, "run")
     \/ UNCHANGED prog /\ Goto(t, "send_check")
  /\ UNCHANGED <<jData, heap, fd, scriptError, cur, fault, out, shared>>

-----------------------------------------------------------------------------
(* Sending: the header, then the body list node by node, to whatever       *)
(* connection has the descriptor jData names; with none, send() fails.     *)

Deliver(b) ==
  out' = [u \in Threads |-> IF u \in Open /\ fd[u] = jData.connection
                            THEN Append(out[u], b) ELSE out[u]]

SendCheck(t) ==
  /\ At(t, "send_check")
  /\ Goto(t, IF jData.response_header # NULL THEN "send_header" ELSE "send_head")
  /\ UNCHANGED <<jData, heap, locals, cur, fault, out, aux>>

SendHeader(t) ==
  /\ At(t, "send_header")
  /\ IF jData.response_header \notin strings THEN Fault(t)
     ELSE /\ Deliver(jData.response_header)
          /\ Goto(t, "send_free")
          /\ UNCHANGED <<jData, heap, locals, cur, fault, aux>>

SendNode(t) ==
  /\ At(t, "send_node")
  /\ cur[t] # NULL
  /\ IF cur[t] \notin DOMAIN next THEN Fault(t)
     ELSE /\ IF scriptError[t] THEN UNCHANGED out ELSE Deliver(cur[t])
          /\ Goto(t, "free_node")
          /\ UNCHANGED <<jData, heap, locals, cur, fault, aux>>

\* lua_close, return to req_thread, close(conn_fd).
Close(t) ==
  /\ At(t, "send_node")
  /\ cur[t] = NULL
  /\ Goto(t, "closed")
  /\ UNCHANGED <<jData, heap, locals, cur, fault, out, aux>>

Send(t) ==
  \/ SendCheck(t)
  \/ SendHeader(t)
  \/ FreeHeader(t, "send_free", "send_head")
  \/ TakeHead(t, "send_head", "send_node")
  \/ SendNode(t)
  \/ FreeNode(t, "free_node", "send_node")
  \/ Close(t)

-----------------------------------------------------------------------------
Echo(t) ==
  \/ EchoAlloc(t)
  \/ EchoCheck(t)
  \/ EchoFirst(t)
  \/ TakeHead(t, "echo_head", "echo_walk")
  \/ EchoWalk(t)
  \/ EchoLink(t)

Header(t) ==
  \/ SetHeader(t)
  \/ FreeHeader(t, "hdr_free", "hdr_dup")
  \/ HeaderDup(t)
  \/ HeaderLen(t)

Step(t) ==
  \/ InitStores(t)
  \/ LoadScript(t)
  \/ ScriptReturns(t)
  \/ ScriptFails(t)
  \/ Echo(t)
  \/ Header(t)
  \/ ErrorCleanup(t)
  \/ LoadRescue(t)
  \/ Send(t)

Next == \E t \in Threads : Accept(t) \/ NoRequest(t) \/ Enter(t) \/ Step(t)

Spec     == Init /\ [][Next]_vars
FairSpec == Spec /\ \A t \in Threads : WF_vars(NoRequest(t) \/ Enter(t) \/ Step(t))

-----------------------------------------------------------------------------
(* Properties *)

Locations == {"new", "reading", "init_body", "init_header", "load", "run", "echo_check",
  "echo_head", "echo_walk", "echo_link", "echo_first", "hdr_free", "hdr_dup",
  "hdr_len", "err_header", "err_head", "err_node", "err_clear", "err_load",
  "send_check", "send_header", "send_free", "send_head", "send_node",
  "free_node", "closed"}

\* Every variable holds a value of its kind; in particular every pointer is
\* NULL or a block malloc returned, and only real blocks are ever sent.
TypeOK ==
  /\ jData \in [connection: Fds \cup {NULL}, response_body: Ptr, response_header: Ptr]
  /\ DOMAIN next \subseteq Block /\ next \in [DOMAIN next -> Ptr]
  /\ strings \subseteq Block
  /\ mallocs \in [Threads -> Nat]
  /\ pc \in [Threads -> Locations]
  /\ fd \in [Threads -> Fds \cup {NULL}]
  /\ prog \in [Threads -> Seq(Op)]
  /\ rescue \in [Threads -> BOOLEAN]
  /\ scriptError \in [Threads -> BOOLEAN]
  /\ cur \in [Threads -> Ptr]
  /\ fault \in Threads \cup {NULL}
  /\ out \in [Threads -> Seq(Block)]
  /\ built \in [Threads -> [header: Ptr, body: Seq(Block)]]
  /\ shared \subseteq Threads

\* What jlua_interpret owes thread t's client: the header its script set, then
\* the chunks it echoed in that order (none if no script could be loaded).
Response(t) ==
  (IF built[t].header = NULL THEN <<>> ELSE <<built[t].header>>)
    \o (IF scriptError[t] THEN <<>> ELSE built[t].body)

\* A request that overlapped no other (its jlua_interpret no other's, its
\* connection no two others' overlap) gets exactly its own response, whatever
\* the other threads did to jData before or do after.
UnsharedResponse ==
  \A t \in Threads \ shared : pc[t] = "closed" => out[t] = Response(t)

\* Undefined behaviour (a NULL or freed header or node is used, a block is
\* freed twice) takes an overlap, or a server with no script to run at all.
FaultNeedsOverlap == fault # NULL => fault \in shared \/ scriptError[fault]

\* A request that never overlapped another's leaves nothing on the heap.
NoLeak ==
  \A b \in DOMAIN next \cup strings : b[1] \in shared \/ pc[b[1]] # "closed"

\* Every connection that was accepted is closed in the end, unless the process
\* goes down first: however echoes race, no walk over a body list is endless.
EveryRequestEnds ==
  \A t \in Threads : pc[t] = "reading" ~> (pc[t] = "closed" \/ fault # NULL)

\* "This global is the way jluaf functions can interact with request data"
\* (jorgeLua.cpp:81): a connection is sent only what its own script produced.
OwnResponse == \A t \in Threads : \A i \in DOMAIN out[t] : out[t][i][1] = t
=============================================================================
