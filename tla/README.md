# Jorge in TLA+

Jorge is a small web server in C++: it accepts connections, starts a thread for
each, reads and parses the request, and runs a Lua script that answers it, with
an SQLite database for the chat page it is delivered with. These modules model
the server's own code (about 1200 lines: `main.cpp`, `jorgeNetwork.cpp`,
`jorgeLua.cpp`, `jorgeScripts/`); LuaJIT and SQLite are libraries here.

## 1. Inventory

| Component | Source | State it keeps | Operations | What makes it correct | Status |
|---|---|---|---|---|---|
| Accept loop, request threads | `main.cpp` | listen queue, descriptor table, the heap cell `conn_fd` handed to each thread, threads (never joined or detached) | malloc, accept, pthread_create; copy, free, serve, close | every cell and descriptor has one owner; a connection is closed once, by its own thread; the queue moves; every request gets a thread | `JorgeServer`, `Connections` |
| Receive loop | `jorgeNetwork.cpp:25-88` | list of buffers, `totalBytes`, the time of the last read | recv, sleep, give up, copy | no byte read is lost or moved; the copy fits; it ends, and not too early | `RecvLoop`, `RequestReader` |
| Parser, script lookup | `jorgeNetwork.cpp:98-305`, `jorgeLua.cpp:109-151` | the request string with the NULs written into it, `req_data` | one step per parser state; push globals; complete the path with `index.lua` | decides on no byte behind the string; finds exactly the parts of a well-formed request; writing into the string harms no other part | `HttpRequest`, `RequestParser` |
| Lua subsystem | `jorgeLua.cpp:81-281` | the global `jData`: connection, body list, header | jlua_interpret, echo, setHeader, the error path, sending | a client gets its own script's response, whole and in order; nothing is used after free or leaked | `JorgeLua`, `JorgeLuaInv` |
| jnet_send_all | `jorgeNetwork.cpp:308-327`, its calls in `jorgeLua.cpp` | bytes sent so far | send until all is sent or an error | a client that stays gets the blocks whole and in order, one that leaves the front of them | `SendAll`, in `Exchange` |
| jluaf_sqlQuery | `jorgeLua.cpp:283-401` | a database connection per call | open, prepare, step, finalize, close | a call takes effect once or not at all, gives everything back and leaves no lock | `SqlQuery`, `MessageLog` |
| Environment setup | `jorgeLua.cpp:21-79` | folder, script files, table | mkdir, write scripts, create table | scripts and table exist when requests are served, also after a crash; the owner's scripts stay | `Startup` |
| Socket startup | `main.cpp:67-127` | the listening socket | getaddrinfo, socket, setsockopt, bind for each address, listen | one process accepts; a start that meets nobody comes to accept | `Startup` |
| Chat scripts and page | `jorgeScripts/*.lua` | table `messages`; the page's text box, preview and `lastMessageId` | send, poll, retry | every message shown once, in order; a page that is told a message is stored can rely on it; none stored twice without a lost answer | `Chat`, over `MessageLog` (partly: see 5) |
| Address formatting, logging, `jlua_run_file`, build, LuaJIT, SQLite | others | - | - | - | not modelled |

How they interact: `main` gives a descriptor to a thread through a heap cell;
the thread (`req_thread`) calls the receive loop, whose string the parser cuts
up in place; `req_data` points into that string. If there is a verb,
`jlua_interpret` writes the globals and, for a path ending in `/`, writes into
the string again; it stores the connection in `jData`, runs the script, whose
`echo` and `setHeader` callbacks work on `jData`, and sends what is there. The
only state threads share is `jData` with its blocks, the allocator, the
descriptor table and the database. Nothing is locked but the database file, by
SQLite and for one statement at a time.

What is hard here: the interleavings of threads on `jData`; descriptors reused
while `jData` still names them; requests that arrive in pieces; a string that
is parsed and written in place; resources that run out while results go
unchecked; a page whose requests may be lost on either way; a setup that can be
cut off anywhere. `PROJECT.json` lists each of these under "hazards", at its
line, with the property that covers it.

## 2. Modules

| Module | What it is |
|---|---|
| `JorgeLua` | jlua_interpret, echo, setHeader and the error path, for any number of threads; one action is one access to `jData` or to a block reachable from it (`FreeNode` and `SendHeader` take a few) |
| `JorgeLuaInv` | its inductive invariant `IInv` |
| `JorgeLua_proofs` | proofs: types; the steps of a request that is alone; the invariant and the three safety theorems |
| `RecvLoop` | the receive loop; implements `RequestReader` |
| `RequestReader` | abstract: the request returned is read in order from the front of what was sent; `Kept` and `Keepable` say which of its bytes a reading may leave out |
| `RecvLoop_proofs` | proofs: concatenation and `Kept` by induction on lengths; the receive loop's invariant, four properties and that it implements `RequestReader` |
| `RequestParser` | the parser's state machine and script lookup |
| `HttpRequest` | reference: the character classes, and what a well-formed request and its parts are, said by lines and words, without a state machine |
| `RequestParser_proofs` | proofs: types; reads stay inside the string; `index.lua` stays inside its block; the parser finds what `HttpRequest` defines |
| `JorgeServer` | main's loop and the life of a thread; implements `Connections` |
| `Connections` | abstract: the life of a connection |
| `JorgeServer_proofs` | proofs: the invariant, two counts of parties, and that `JorgeServer` implements `Connections` |
| `SendAll` | jnet_send_all and the calls jlua_interpret makes of it, the connection and its client |
| `Exchange` | one connection from first byte to close: `RecvLoop` (EXTENDS), then `SendAll` (INSTANCE) |
| `Exchange_proofs` | proofs: the connection reads as `RecvLoop` does; responses arrive in order, prompt exchanges whole |
| `SqlQuery` | jluaf_sqlQuery with SQLite's file locks; implements `MessageLog` |
| `MessageLog` | abstract: what sqlQuery promises the scripts, a log of messages with calls that take effect in one step |
| `SqlQuery_proofs` | proofs: the invariant, two properties, and that `SqlQuery` implements `MessageLog` |
| `Chat` | the pages, their requests, sendMessage.lua and getMessages.lua over the table |
| `Chat_proofs` | proofs: what the page's cursor is after an answer; the invariant and three properties of `Chat` |
| `Startup` | main until it accepts: jlua_setup_environment and the socket, for several starts on one disk and port |
| `Startup_proofs` | proofs: the inductive invariant and four properties of `Startup` |
| `MC*` | values for TLC |

### How state and actions correspond to the code

`JorgeLua`. `jData` is the struct, without `response_body_length`, which is
written and never read. A block is `<<t, n>>`, thread t's n-th malloc; it also
stands for the text it holds, so who produced a chunk is visible in what a
client is sent. `next` holds the live nodes of body lists with their pointers,
`strings` the live headers. Blocks are not reused after `free`: any use of a
freed block already is a `fault`, after which no thread takes a step. `pc` names
the places between two accesses; `FreeHeader`, `TakeHead`, `FreeNode` are the
lines the paths of the code share. Two actions merge accesses that follow each
other: `FreeNode` reads a node's `next` and `data` and frees both, `SendHeader`
takes `strlen` of the header and the second read of `jData` together. A script
is the sequence of calls it makes, `"fail"` an error it raises. `send_all`
appends the block to what the client with `jData.connection`'s descriptor has
received; a descriptor nobody has open loses it.

`RecvLoop`. A node is the bytes in its buffer, `last` the node `last_buffer`
points to. Time is counted in sleeps of 0.1 s; `JNET_RECV_TIMEEXTRA` (0.001 s)
is less than one of them, `Timeout` stands for 200 of them. `LoseCPU` lets a
tick pass while the thread is not asleep. A closed connection is one that sends
no more, as the loop treats 0 and -1 of `recv` alike. `Copy` is `strcpy` of one
buffer, which stops at its first NUL. The copy's result is the parser's input.

`RequestParser`. `text` is the block of the request up to the last byte ever
written: the string and its final NUL, and what `index.lua` adds behind it. The
block is larger, `Block`: jnet_read_request asks `malloc` for the size of a
pointer per character. `at` is the place of `parserIndex`; pointers are places,
0 for NULL. One action per `case` of the `switch`. Characters are the classes
the cases tell apart. A decision on a byte behind the string would see
`"outside"`, which is in no class. (The loop's head does load one byte behind
the string after an error; its value decides nothing and is not modelled.)
`Interpret` is what jlua_interpret does with the path before the script runs,
for requests that were parsed and for those that were not: the name goes over
what follows the path, or behind the end of the string. A write behind the block
would set `phase` to `"fault"`, and the walk of a NULL path (`NoPath`) does.

`JorgeServer`. `fds` maps open descriptors to the client at the other end,
`accept` takes the lowest free one. `cells` are the live heap cells. A thread is
at `copy`, `free`, `serve`, `close` or `ended`; reading, interpreting and
answering are the one step `Serve`. `threads` never shrinks: nobody joins or
detaches, so a stack per thread created stays mapped.

`SendAll`, `Exchange`. `blocks` are the header and the chunks jlua_interpret has
still to send, `bytesSent` is the function's, `inflight` what the connection
holds. The results of jnet_send_all are looked at by nobody, so a failed block
is followed by the next one; a client that left becomes a reset when the kernel
learns of it, and after that `send` fails once or ends the process with SIGPIPE.
`Close` is `close(conn_fd)`: where the receive loop left bytes unread, or the
client sends more, it becomes a reset and any part of `inflight` may be lost.

`SqlQuery`. `pc` names the places between two SQLite calls, `result` is the
variable of that name, `held` what the call has to give back. `Share`, `Write`
and `Commit` are what `sqlite3_step` does with the file's locks; a lock that is
not free is an error at once, for no busy timeout is set. `Outcome` maps a call
to `MessageLog`: it is answered when its last `sqlite3_step` is.

`Chat`. A text is a number and has a kind: what the program makes of it. A plain
one is stored as typed; one with a quotation mark too, but breaks the JSON of
each answer it is in; an altered one is stored as another (`Row`), with a 200:
sendMessage.lua decodes the body before it splits it at `&` and `=`, gives the
text to `gsub` as a replacement, where `%` is an escape, replaces `$sender` in
it, drops control characters, and SQL makes one apostrophe of two; an invalid
one makes the script or the statement fail; a blank one leaves no `msg`. The ids
are places in the log (no row is ever deleted). A script is one step because it
makes at most one call of sqlQuery and `AtomicCalls` holds. `<<"string", n>>`
and `<<"number", n>>` are JavaScript's two forms of an id: getMessages.lua puts
all but the last in quotes, `Less` compares two strings by their characters and
`PlusOne` appends a "1" to a string. `Break` takes a connection away before its
request came, while the script works on it, or under the answer.

`Startup`. `pc[p]` is the next call of main or jlua_setup_environment, `at` the
file or address it is at. Calls whose result is looked at have an action with an
outcome for each branch; those whose result is not (fputs, fclose, CREATE TABLE)
go on either way; without a file, `fputs` gets NULL and the process dies.
`WriteOwn` may come at any time; a script the owner writes while a first start
fills the folder is `"early"`, until he writes it again. `troubled` records
whether a start met another process or a failing call: what is promised, is
promised to the others.

## 3. Runs

| Run | Shows | States |
|---|---|---|
| `lua_two` | two requests at every interleaving, with scripts that echo, set a header twice, fail and are replaced by 404.lua: `UnsharedResponse` (a request that overlaps no other gets exactly its response), `FaultNeedsOverlap`, `NoLeak`, the inductive `IInv`, and `EveryRequestEnds` (racing echoes lose nodes but close no list to a cycle; each accepted connection is closed or the process is down) | 532 000 |
| `lua_global` (violation) | `OwnResponse`: two overlapping requests, one client is sent the other's chunk | |
| `exchange` | a connection from first byte to close: `NothingLost`, `EmptyAfterTimeout`, the refinement `ReadsInOrder` of the receive loop; `ResponseInOrder`, `PromptExchangeWhole` (a prompt request is read whole, so that close does not cut its response), `ExchangeEnds` | 287 000 |
| `recv_wait` (violation) | `ExtraWaitRead`: bytes that arrive during the extra wait are not read | |
| `parse_all` | `ReadsInside`, `ParsesWellFormed`, `SeesRequest`, `IndexInBlock` (also where the request breaks off behind the path), `IndexSparesRest`, `Halts` over 2278 request strings | 36 000 |
| `parse_index` (violation) | `IndexFits`: of a request line without a version, `index.lua` is written over the line below | |
| `server_serve` | `CellsPassed`, `OneOwner`, the refinement `KeepsPromise`, `QueueMoves` | 39 000 |
| `sql_query` | two callers, over and over: `OnlyFailedOpenKeeps`, `AloneNotRefused` (no lock outlives its call), `CallsReturn` (who wants a taken lock gives up), the refinement `AtomicCalls` | 31 000 |
| `chat` | two pages, three posts, one fault: `ShownOnceInOrder`, `ErasedWasStored`, `StoredTwiceNeedsLostAnswer`, `Settles` | 299 000 |
| `startup` | five starts of two processes with crashes anywhere: `OneServer`, `AloneServes`, `OwnScriptsKept`, `StartsEnd` | 107 000 |
| `startup_scripts` (violation) | `ScriptsIfMissing`: a crash between mkdir and fopen, and jorge serves without index.lua from then on | |
| `server_threads` (violation) | `ThreadForEachRequest`: when stacks run out, a connection is accepted and gets no thread | |

Each property of a passing run has a mutant in `PROJECT.json`: an operator of
the module, marked "Mutant", that changes one definition the way a bug in that
code would, and with which TLC finds the property violated.

`UnsharedResponse` speaks of requests outside `shared`. A request is in
`shared` if its jlua_interpret ran while another's did, or if its connection
was accepted while overlapping requests were inside: jData may then name its
descriptor before it is even read. Nothing stronger holds; `lua_global` shows
what goes wrong otherwise.

`ErasedWasStored` and `StoredTwiceNeedsLostAnswer` are as strong as page and
script allow. What is previewed or erased has a row in the table: the text
itself, or, if sendMessage.lua alters it, the row it makes of it; a user who
types `a&b` is shown `a&b` while the table holds `a`. So the property says that
the page is not told of a message that is not there, and not that the message is
always the one typed. The box is emptied by the handler of a post whatever it
holds by then, and a user whose post got no answer finds the text in the box and
may send it again. `ShownOnceInOrder` needs the last row's id to be a number:
with all ids in quotes (its mutant) "9" is greater than "10" and messages are
shown again. `Settles` leaves out a page whose next rows hold a quotation mark:
getMessages.lua does not escape it and that page never parses an answer again.

Deadlock is not checked: every system here stops when all requests of the model
are dealt with (and `main` then waits in `accept`).

### The disagreements

1. `jorgeLua.cpp:81`, "This global is the way jluaf functions can interact with
   request data": true for one request at a time; the threads of `main.cpp:66`
   share it.
2. `jorgeNetwork.cpp:45`, "if you got some data, then wait a little more time":
   it waits, but does not read again: the limit is checked before the next
   `recv`.
3. `jorgeLua.cpp:124-128`, `index.lua` takes the place of ` HTTP/1.X` and does not
   mess up the next line: true (and proved) for requests parsed to their body, not
   for one whose line has no version. That one is an error to the parser, whose
   error state leaves `verb` and `path` set, so it is dispatched, and the ten bytes
   go over the line below. They stay inside the block (`IndexInBlock`, proved), and
   of such a request nobody reads that line again.
4. `main.cpp:66` and `:23`, a thread for every request: not once stacks run out,
   as the result of `pthread_create` is not looked at and threads are never
   joined or detached.
5. `jorgeLua.cpp:21`, the scripts are created "if not existing": they are written
   only by the start whose `mkdir` made the folder; if it ends before they are
   written, no later start writes them.

### Bounds

Two threads reach every pair of accesses to `jData`, and a descriptor that is
used again (the proofs are for any number); scripts are short because after two
echoes and two headers every branch of `echo` and `setHeader` has been taken.
Buffers of two bytes with messages up to six give none, one, two and three full
buffers, a full last buffer and a part of one; `Timeout` 3 and `MaxLate` 2
separate "at once", "after a wait" and "too late". Requests have up to two
headers (a first and a later one, with blanks wherever they are accepted), are
cut at every place, and have every character replaced by a blank, letter, colon,
slash, underscore, CR, LF or a character of no class. Three clients on two
descriptors and two stacks make accept fail, descriptors and cells come back,
and pthread_create fail; the exception of `QueueMoves`, connections without a
thread on every descriptor while another waits, takes five clients and is not
reached. `MaxLost` only stops a counter. A connection that holds two bytes cuts
a chunk of three; an empty chunk needs no `send`. Two callers meet in every pair
of lock steps, and rows up to `MaxLog` 2 with `Limit` 2 give none, some and a
cut off answer. In `chat` the table starts with ten messages because strings and
numbers order one- and two-digit ids differently, and `Limit` 4 makes an answer
that is cut before them; the three kinds of text that are not stored and listed
as they were typed are typed once each (the ten are plain, and a blank one is
refused as an invalid one is), and one fault comes at any time. Five starts of
two processes are a first start, one beside it, and three after a crash of
either; two addresses give a next one and a last one.

### Fairness

Each request thread is weakly fair: threads are preempted, not starved, and no
step of a thread waits for another thread (there is no lock of its own). `main`
is weakly fair in `QueueMoves`, which takes the serving of a request for a step
that comes to its end, and so assumes clients that read: `send` to one that
neither reads nor leaves blocks for ever, and keeps the thread's descriptor.
Clients are not fair: they may connect, send a part or nothing. Scripts end
(those of `jorgeScripts/` do). In `exchange` a client that stays reads what it
is sent (`send` to one that does not would block for ever), but may leave at any
time. In `sql_query` each call's steps are weakly fair, in `startup` each
process's. In `chat` the server and each page's handlers and timer are weakly
fair, posting and polling apart from each other, users are not, and faults are
finite: with a fault at every poll a page would never be up to date.

## 4. Proofs

Every safety property of a passing run has a theorem, and so has each of the
three refinements.

| Theorem | Statement, for all values of the constants |
|---|---|
| `JorgeLua_proofs!TypeCorrect`, `Invariance` | `TypeOK`; `IInv` is an invariant |
| `...!UnsharedResponseHolds`, `FaultNeedsOverlapHolds`, `NoLeakHolds` | the three safety properties of `lua_two`, for any number of requests and any scripts |
| `RecvLoop_proofs!TypeCorrect`, `ReadInvariance` | `TypeOK`; `RInv` is an invariant, for any message, buffer size and timeout |
| `...!NothingLostHolds`, `EmptyAfterTimeoutHolds`, `PromptRequestWholeHolds` | no byte is lost or moved between the socket and the copy; an empty request costs the whole timeout; a text that is there at the first `recv` is returned whole |
| `...!ReadsInOrderHolds` | `RecvLoop` implements `RequestReader` |
| `Exchange_proofs!ExchangeReads`, `ExchangeInvariance` | a connection's receiving half is a `RecvLoop`; `EInv` is an invariant |
| `...!ResponseInOrderHolds`, `PromptExchangeWholeHolds` | the client has a front of the response, all of it if it stays; a prompt request is read whole and its response not cut by `close` |
| `RequestParser_proofs!TypeCorrect` | `TypeOK`, for every request string |
| `...!ReadsInsideHolds`, `IndexInBlockHolds` | no decision on a byte behind the string; `index.lua` is written inside the block, wherever the request breaks off |
| `...!ParsesWellFormedHolds` | the parser halts with a body exactly on a well-formed request, for every string without a NUL |
| `...!SeesRequestHolds`, `IndexSparesRestHolds` | of such a request scripts see what `HttpRequest` says it says; completing the path costs body and headers nothing |
| `JorgeServer_proofs!TypeCorrect`, `CellsPassedHolds`, `OneOwnerHolds` | `TypeOK`, `CellsPassed`, `OneOwner`, for any number of connections, descriptors, cells and stacks |
| `...!KeepsPromiseHolds` | `JorgeServer` implements `Connections` |
| `SqlQuery_proofs!TypeCorrect`, `OnlyFailedOpenKeepsHolds`, `AloneNotRefusedHolds` | the safety properties of `sql_query`, for any number of callers, texts and any `Limit` |
| `...!AtomicCallsHold` | `SqlQuery` implements `MessageLog` |
| `Chat_proofs!TypeCorrect`, `Invariance` | `TypeOK`; `IInv` is an invariant, for any number of pages, texts, posts and faults |
| `...!ShownOnceInOrderHolds`, `ErasedWasStoredHolds`, `StoredTwiceNeedsLostAnswerHolds` | the safety properties of `chat` |
| `Startup_proofs!TypeCorrect`, `OneServerHolds`, `AloneServesHolds`, `OwnScriptsKeptHolds` | the safety properties of `startup`, for any number of processes and addresses |

Assumptions: those named in the modules, and no others.

- `ScriptAssumption`, `NullAssumption` and the `NoneAssumption`s: scripts are
  sequences of calls; NULL and None are none of the values they stand beside.
- `RequestAssumption`, `MessageAssumption`, `ExchangeAssumption`: requests
  contain no NUL because `strcpy` put them together; messages and responses are
  byte strings of any bytes.
- `SizeAssumption`: a receive buffer has room for a byte and its NUL.
- `LimitAssumption` and the `BoundsAssumption`s: bounds are numbers, LIMIT and the
  number of addresses are not 0.
- `NumbersAssumption`, `CellsAssumption`: descriptors are numbers, and there are
  more heap cells than descriptors, so that `malloc` of one succeeds.
- `KindAssumption`, `PagesAssumption`: every text has a kind; pages are finitely many.
- `OwnAssumption`: the owner's scripts are among the two jorge writes.

What a recursive function computes is proved by induction over the naturals
where a proof needs it: `NatSet` says that a set of naturals with 0 and the
successor of each of its members has them all, and each use of it names such a
set. The values are then pinned down by functions that satisfy the recursion
(`Flattens`, `LatestBy`): there is one, and any two agree.

*The Lua subsystem.* `UnsharedResponse` is not inductive: it says what was sent
at the end, and that depends on what `jData` and the heap looked like at each
point of the code before. `IInv` says so for a thread t outside `shared`: t is
then alone inside jlua_interpret, `jData.connection` is its own descriptor, the
body list from `jData.response_body` is the chain of exactly the nodes
`built[t]` lists (less the one being linked, or from the one being freed on),
the header is its own and live, `out[t]` is the prefix of the response sent so
far, and t owns no other block. The proof has two halves. A step of a thread
that is alone takes what `IInv` says of its place to what it says of its next
(one step per action). A step of another thread either cannot happen beside it,
or is outside jlua_interpret and touches nothing it speaks of (the frame
lemmas), or puts it into `shared`. Blocks carry the thread that allocated them,
which is what separates an earlier request's leftovers from its own.

*The receive loop.* `NothingLost` compares the message with what is in four
places; which of them hold it depends on how far the loop is. `RInv` says it for
both halves: before the copy, the bytes in the buffers, in the connection and
still to come are the message (`Whole`), and the buffers from `last_buffer` on
are empty (`Listed`); during it, the request is a reading of the first n bytes
and the buffers left hold what follows them (`Copied`). `Timed` ties an empty
request to the time waited, and `Prompt` says that a message that was there at
once leaves the connection before any time has passed. The lemmas under it are
about `FlattenSeq` (concatenation is associative, has a first part, grows by a
part) and `Kept`. The refinement follows: `Copy`'s last step is
`RequestReader`'s only one, all others stutter.

*A connection.* A step of `Exchange` is one of `RecvLoop` or leaves its variables
alone (`ReadsOrStutters`), so `RInv` carries over. `Staged` says how far the
thread is, `Delivered` that what the client got, what the connection holds and
what is `Ahead` are together the response, until a reset; a client that leaves
keeps a front. `PromptExchangeWhole` needs both halves: a reset at `close` comes
of bytes left unread, and a prompt request leaves none.

*The parser.* `Bounded`: until the machine halts, the string still ends with its
NUL (the NULs written in place go before it) and, outside the error state, `at`
is inside. It is inductive because no character class the machine goes on from
contains the NUL, and a comparison that agreed n times has not passed it.
`TypeOK` needs it to bound the places, and that a header is allocated before its
value is looked for (`Allocated`). For `index.lua`, which goes behind the path
wherever the parser stopped, it is enough that a path that was found is not at
the string's first place and ends no later than the string (`PathBehind`): ten
bytes more are inside a block of eight per character. That they spare the rest
is `RoomInv`: behind a NUL at the end of the path ten characters of version line
lie before `at`, and the first NUL after the path, where the name is written, is
no later than that one.

That the parser agrees with `HttpRequest` is shown by the places of a request's
parts. `ReqParts` and `HdrParts` say where the parts of a request line and of a
header line stand, each a span of one class of characters; the lemmas before the
invariants show that a line is as `HttpRequest` wants it exactly if it has such
places, and what its words and sides are then. `LineInv` and `HeadInv` say of each
state of the machine how far such places are found (`VerbTo` to `ValueTo`) and
which NULs were written for them, `TextInv` that the string is otherwise the
request and that only separators were written over. A machine that stops is at a
character that the next part cannot have, and as spans of classes that share no
character end at one place only (`Meets`), no other division of the line would do:
`EndInv`. What a script sees follows from where the parts end and where the first
NUL behind each is (`StrOfRequest`, `HeadersIn`); the name written behind the path
ends with the version's line, so no C string read later has a character of it.

*The server.* That a cell or a descriptor has one party is not inductive: a
thread's cell may be named by `conn_fd` of main as well, between the `malloc` and
the next. `CellOwners` and `FdOwners` say who holds each at each place of main and
of a thread (before `Copy` a thread holds a descriptor through its cell), and that
no two do; `CellsPassed` and `OneOwner`, which compare numbers, then follow by
counting. For `Connections`, `ClientsOnce` and `DealtOnce` add that a client is
queued or connected once and dealt with by the thread that has its descriptor,
whatever descriptors were used again.

*sqlQuery.* `IInv` says of each call what it holds, has found and has been told at
each place (`Holding`, `Told`, `FoundSoFar`), of two that their locks agree
(`Granted`: one writer, and no reader beside a commit), and of a call that met
nobody that only its query is to blame (`Alone`). A select is mapped to the
moment of its last `sqlite3_step`: while it holds its shared lock nobody commits,
so the rows found are those of the table then.

*The chat.* `ShownOnceInOrder` depends on every answer still on its way. `Known` and
`Polled` say that a page's cursor is the number of the last message it lists, and
that what the page is answered are the messages that follow it;
`LatestIs` shows that going through such rows leaves the cursor at the last one,
though all ids but that one are compared as strings. `Counted` bounds what is
stored and what may yet be (`Spent`: messages of a text and posts of it still at
work) by one more than the posts of it whose connection broke, and by no more than
those while the text is only in a box; without the pending posts it is not
inductive. `Owned` and `Accepted` tie a post to its page
and an answered post to the table. Each action is first put as one of a few
normal forms (`StepIs`: what it does to one request), so that most conjuncts are
shown once per form and not once per action.

*Starting.* `OneServer` follows from sockets fitting their processes' places and
`listen` being refused while another listens, so `TypeOK` carries that relation.
`AloneServes` is not inductive: that the table exists at `accept` was decided at
CREATE TABLE, which failed only because the table was there (`PastDatabase`) or
because another process had the lock, and that one has troubled this start
(`KnowEachOther`). `OwnScriptsKept` needs that in a folder that is being filled
there is no script the owner wrote before (`NoOwnWhileFilling`); what he writes
into it meanwhile, `fopen` and `fclose` may replace, and the property leaves it
out. `Invariance` has a lemma per action, `OwnScriptsKeptHolds` follows step by
step.

Only model-checked: liveness (`EveryRequestEnds`, `ExchangeEnds`, `Halts`,
`QueueMoves`, `CallsReturn`, `Settles`, `StartsEnd`), which the prover does not
reach, as it has no rule for fairness.

## 5. Not modelled

LuaJIT and SQLite (`src/libs/`, 99 % of the lines of the repository) are
vendored: they are the environment here, and only SQLite's file locks are
written down, in `SqlQuery`. `jlua_run_file` is never called. `jnet_get_req_ip`
and the printf lines change nothing that is read again. Of the scripts: what
decoding and `gsub` make of a text character by character (`Chat` has the
outcomes), texts of two kinds at once or that make another statement of the
INSERT, the sender's name, the text of headers and of the page. That overlapping
requests may get each other's answers (`lua_global`) is not in `Chat`. Of
sqlQuery: the types of columns. Memory exhaustion (`malloc` returning NULL)
anywhere. The clock being set while a request is read (`gettimeofday`).
Reordering by the compiler or the processor beyond the interleaving of single
accesses. The descriptors that Lua and SQLite open for a moment. `main` and the
threads end with the process on a fault.

## 6. Plan

Done, in this order: `JorgeLua` (the shared global); `RecvLoop` over
`RequestReader`; `RequestParser` over `HttpRequest`; `JorgeServer` over
`Connections`; `SendAll` and `Exchange`; `SqlQuery` over `MessageLog`; `Chat`;
`Startup` with its proofs.

Left: `Jorge`, the composition of `JorgeServer` with `JorgeLua`'s lifecycle for
`Serve` (each is checked against its own abstraction of the other so far).

Theorems to come: those of that composition.
