# A verification project for ahungry-janet

ahungry-janet is a Janet interpreter with a set of native modules: shared state
between threads, an HTTP server, PostgreSQL, SQLite, UDP, terminal input, JSON,
cryptography and GUI bindings.  The modules here model the parts that carry the
program's own logic, TLC checks them on small instances, and TLAPS proves the
safety properties of all of them for every instance.

Every definition follows the source; `PROJECT.json` ("map") names the lines.
SQLite, PostgreSQL, OpenSSL, the sockets, the terminal and the callers' Janet
code are not part of the repository: they are modelled from how the code uses
them.

## Inventory

| Part | State it keeps | Operations | Hard behaviour |
| --- | --- | --- | --- |
| `conc.atom` / `src/pobox.c` | one linked list of boxes (`office`), one spinlock (`lock`), process-wide | import, make, get, update | all Janet threads share it; nodes are linked before they are filled; early returns and Janet errors jump over the unlock; the caller's function runs under the lock; every VM that imports the module runs `ensure_office` on the shared globals |
| `db.pgsql` / `lib/pq.janet`, `src/janet-pq/pq.c` | a connection, the server's transaction state | connect, exec, all, row, col, val, txn, commit, rollback, close | errors between begin and commit, lost connections, retry, nesting, errors inside the error handler; signals that the body's fiber does not mask |
| `net.tcp.server` / `src/puny-server.c`, `src/puny-server-wrap.c`, its Janet file | listening socket, one thread and one VM per connection, the request buffer | start, accept, read, callback, parse, reply | TCP cuts the stream anywhere; binary data in C strings, one of them without an end; the request becomes part of a Janet program; a one-microsecond receive timeout; clients that hang up or reset; threads that are never joined; a response that outlives its VM; header and body told apart by counting lines from the end |
| `db.sqlite` / `src/sqlite3/main.c` | a connection and FLAG_CLOSED; in eval the current and the next statement | open, close, eval, collection | statements are compiled one ahead; every error path has to finalise two statements; values change type on the way in and pass through an `int` on the way out |
| `net.udp` / `src/udp.c` | one global receive buffer and its length | send-string, listen, the server's loop | a socket per call; threads copy into the global and out of it without a lock; the result is made after the socket is closed; errors end the process, except one that leaves the previous datagram |
| `io` / `src/com_ahungry_io.c` | the saved terminal mode, handlers of `atexit` | wait-for-key, read-key | the terminal outlives the process; exit in another thread; saving a mode that is already raw; failures of `tcgetattr` and `tcsetattr` that are passed over; keys typed ahead |
| `wire.json` / `src/json/json.c` | none between calls | encode, decode | code points and surrogates; the comma taken back from the caller's buffer; a recursion guard on one side only, and values that hold themselves; infinities and NaN; whitespace that is skipped in all places but one |
| `crypt`, `crypt.jwt` | OpenSSL's static MAC array | hashes, base64, make, verify-signature, get-payload | threads share the array; lengths off by one on both sides of a comparison; padding and the URL alphabet; uninitialised bytes behind a short decode |
| `util` | a lazy sequence's position, a buffer with a midpoint | iter, take, reset, push | a scratch file that nothing imports |
| `gui.iup`, `gui.webview`, `gfx.cairo`, `net.tcp.client` | callbacks per widget | wrappers | mostly generated glue |

The parts meet in the process: every connection thread of the server and every
`ev/spawn-thread` has its own Janet VM; the boxes of `conc.atom` are the one
piece of Janet-visible state that they share, and the globals of `udp.c`,
`com_ahungry_io.c` and OpenSSL are shared without being visible.  An error in
`udp.c` ends the process that another thread has put the terminal to raw mode in.

What makes each part correct: the boxes behave like a map with atomic operations and
every call returns; a transaction is durable as a whole or not at all and its result
tells which; a handler sees whole requests and a client gets the answer to its own; a
chain of SQL statements means what its statements mean one after the other, gives back
what was bound as far as SQLite's types can say it, and leaves no statement behind; a
listener hears what it received; the terminal is as it was when nobody waits for a key;
what is encoded comes back and what is not JSON is refused; a token verifies exactly
when its signature says the MAC.

The hazards, each at its line, are listed in `PROJECT.json`.

## Modules

**Pobox** (with **MCPobox**) models `pobox.c` behind the three functions of
`com.ahungry.conc.atom.janet`.  `office` is the list as a sequence, position 1
the sentinel; `lock` the spinlock with its holder; `pc`, `call`, `node`, `reg`
and `res` are one thread's position, arguments, pointer, value buffer and
result.  One action per step that another thread could observe: `Invoke`,
`Lock`, `Walk` (`table_get`), `Copy`, `CallFun` (`janet_call`), `TablePut` (the
walk of `table_put` and its first store), `FillKey`, `FillValue`, `FillLength`,
`Unlock`, `Leave` (the exits without unlock).  `Junk` stands for
uninitialised or freed memory, and a walk that meets it kills the process.

**AtomSpec** is what the module promises: a map of boxes whose operations take
effect at one instant between call and return.  `Pobox!AtomicBoxes` is the
refinement: make and update take effect when `table_put` makes its first store,
get when it copies, a failed get when it misses, a raising update when its
function raises.

**OfficeLoad** (with **MCOfficeLoad**) is what happens before Pobox starts: VMs
that import the module at any time, each through the NULL check, the `malloc`,
the stores and `pthread_spin_init` of `ensure_office`, and then through one
`make`.  A zeroed lock is free or taken, depending on the C library; `raced`
records that a VM came past the NULL check while another was inside.

**PqTxn** (with **MCPqTxn**) models `txn*`.  `stack` holds the `txn*` calls in
progress, the innermost last; each frame has the position, the statements of
the current attempt and the error on its way to the handler.  `db` is the
connection and the server's side of it; its answers (`Begin`, `Statement`,
`Commit`, `Rollback`) include the loss of the connection at every exchange, at
a commit with either outcome; an error is `"torn"` when the connection broke under a
commit, `"lost"` everywhere else.  A begin may also fail by its `:mode`.  The body is
any sequence of statements, caught or uncaught errors, signals, `pq/close` and nested
`txn*`.  Its fiber has the mask `:i0123`: those signals end the body (`BodyEnds`),
while a yield and `user4` to `user9` pass `txn*` as if it were not there
(`BodyLeaves`): nothing is sent, the transaction stays open, and `last.how` is `"left"`.

**PunyServer** (with **MCPunyServer**) models the acceptor, `read_tcp`,
`janet_universal_cb` and the reply, one connection per client.  A request is a
sequence of pieces (part of the header, the Content-Length text, the end of that
line, the empty line, units of the body, a unit with a byte 0, a unit with the three
backquotes that fence a Janet long string), and each `recv` takes any number of
the pieces that have arrived.  `strlen` and `strstr` see what comes before the first
byte 0 (`Visible`).  The copy of the Content-Length that `atoi` reads has no end, so it
reads the number or, if digits stand behind it, one of `Misread`.  A request with the
fence inside is cut there by Janet's parser and answered with something else than
the handler's answer to it (`"other"`).  What was sent and read are lengths, since both
are prefixes of the request.  A client closes (what it has sent can still be
read) or resets; a `send` after the reset is known raises SIGPIPE.  `HeapReuse`
says whether the allocator hands freed memory to another thread before the code
last reads it; with it off, such memory keeps its content.

**HttpParse** is `parse-req` as operators over words, line ends and separators.
MCPunyServer compares it with requests built from their parts.

**SqliteEval** (with **MCSqliteEval**) models `sql_open`, the loop of `sql_eval`
with `stmt` and `stmt_next`, `bindmany`, the rows, the error exit and `closedb`.
A value goes in through `bind1`, where strings, keywords and symbols become text alike,
is stored by the column's affinity (a column of integers makes a number of a text that
spells one, `Numerals`; a NaN becomes NULL) and comes out through the `int` of
`sqlite3_column_int` (`-Half .. Half - 1`).  `Answers` says for every kind of value what
the caller gets back.  `After` is the
reference: the statements one after the other, each compiled against the schema
its predecessors left.

**JsonText** and **Json** (with **MCJson**) model `json.c`: strings byte by byte with
UTF-8, escapes and surrogates (JsonText), containers step by step with the caller's
buffer, the flags and the decoder's recursion guard (Json).  A token knows whether
whitespace comes before it: the decoder skips it everywhere but at the head of its
loops, so that a trailing comma is accepted only if the closer follows at once.  Numbers
are of the kinds that `%.17g` and `strtod` tell apart.  The encoder has no guard:
`CStack` is how deep it can go, and a value can hold itself.  The tab and newline
strings that encode puts between tokens are left out; as long as they are whitespace the
decoder cannot tell, since the encoder never leaves a comma before a closer.  The
references are written independently of the code: well-formed UTF-8 as Unicode tabulates
it (at the end of JsonText), and in MCJson what a value looks like after a round trip
and the meaning of a text as a grammar.

**Jwt** (with **MCJwt**) models `make`, `verify-signature` and `get-payload`
over base64 and HMAC.  HMAC is any function, found out as it is asked; its
answer goes byte by byte into OpenSSL's static array and from there byte by
byte into the result, so that threads can meet in it.  Uninitialised bytes may
compare either way.  Tokens come from us, from node's jsonwebtoken, or back
changed.

**Process**, **Udp**, **IoTerm** and their composition **Console** (with
**MCConsole**).  Process is `exit` with its handlers, death by signal, the
next start, and the number of system calls that have failed.  Udp has one action for
each step of `listen` between which another thread can run: `Receive`, `CopyByte` for
every byte in any order, `StoreLength`, `StoreNul`, `Close`, `Result` with `TakeByte`
for every byte, `CallF`, and `Again` or, if the caller's function raises, `Raises`.  Its
network loses, repeats and reorders.  IoTerm has the terminal (mode, typed line,
readable keys) and the steps of `wait-for-key` and `read-key`; each `tcgetattr` and
`tcsetattr` has an action in which it fails and the code goes on (`SaveFails`,
`EnterRawFails`, `RestoreFails`, `RunHandlerFails`).  A key is the set of the calls that
began after it was typed, `amiss` what happened to a reader's latest call, `spoilt` the
first event that leaves raw mode on.

**PoboxProofs**, **OfficeLoadProofs**, **PqTxnProofs**, **PunyServerProofs**,
**SqliteEvalProofs**, **ConsoleProofs**, **JwtProofs** and **JsonProofs** hold the
proofs.

Definitions with a comment that starts with "variant" are wrong versions of the
definition after them; no specification uses them.  Put in its place, each one
makes TLC report a violation of the property that `PROJECT.json` ("mutants")
names, which shows that the property depends on that piece of the code.

## Runs

| Run | Bounds | Shows |
| --- | --- | --- |
| `pobox_boxes` | 2 threads, 3 calls each, 3 keys, 3 values, functions that count, raise and re-enter | the five safety invariants, that nothing but a leaked lock, re-entry or a dead process keeps a call from returning, and that Pobox implements AtomSpec |
| `office_load` | 3 VMs, both kinds of zeroed lock | without an import that races with the first one no box is lost; once set up, the office is never replaced; no import waits for a lock nobody will free |
| `pq_safety` | 2 top-level calls, nesting 2, 3 statements, 2 failures, retry on | atomicity, agreement of result and durable state, no transaction left open, no work done twice |
| `pq_retry` (violation) | 1 call | a conflict in a statement is not retried as documented: the begin of the retry fails |
| `puny_serve` | 3 connections (one with a body, one with the fence, one with a byte 0), backlog 2, 2 threads, chunks of 3 pieces, a length misread as 9, closes and resets | only whole requests reach the handler, and none that a byte 0 cuts short; `parse-req` takes them apart; every connection is answered or has one of the seven excuses that `AnsweredOrExcused` names |
| `puny_heap` (violation) | 2 connections, `HeapReuse` | the response of a torn-down VM is sent |
| `sqlite_all` | all scripts of up to 3 statements over one table, up to 1 parameter of every type, both affinities, texts that spell a number, ints of 4 bits, 2 evals | order, completeness, what every kind of value comes back as, finalisation, closing |
| `sqlite_chain` (violation) | the same, without parameters | a chain that works statement by statement fails when compiled ahead |
| `json_text` | values of every shape nested up to and beyond the guard, values that hold themselves, numbers of every kind, strings at every UTF-8 boundary, texts of up to 3 tokens, edited longer ones, with and without whitespace, all pairs of escapes | exactly the sound values come back, exactly the decoder's grammar (JSON's and what it adds) is accepted, the caller's text stays, every call ends, if by the end of the C stack |
| `jwt_tokens` | 2 threads, 2 calls, 2 secrets, 3 payloads, 2 MACs, eight ways to change a token | the verdict and the payload are right for readable parts unless two HMACs met |
| `udp_listen` | 2 listeners, 2 sends of 3 strings, sockets of 1, 1 failure | each hears its own datagram unless another stored a byte in between; when a datagram waits, the function is called |
| `io_keys` | 2 readers, 2 keys in the terminal, 2 handlers, 2 failures (one of them may be the one that makes the process exit), kill, 1 restart | the terminal is put back unless one of four named things happened, keys are fresh, a wait ends |

Why the bounds are enough.  *Pobox*: two threads with three calls each make every pair
of calls overlap and leave a call for after a leak; with one key made before the start,
one made during the run and one never made, walks stop at an old node, stop at a new
one, and pass over both.  *OfficeLoad*: three VMs are an import that sets up, one that
races with it and one that comes later.  *PqTxn*: three statements and two failures let
a statement fail, be retried and fail again, before or after a nested call.
*PunyServer*: requests have every place where the stream can be cut, three clients
exceed both backlog and threads; any misread length that is never reached is like 9.
*SqliteEval*: three chained statements are the shortest chain in which a statement is
current, another compiled ahead and a third not read; with ints of four bits, 5 fits and
21 does not, as 2^31 does not in the code, and each is also spelled by a text.  *Json*:
the guard is 2 instead of 1024, and the C stack one deeper than that; the code only
counts down from the one and runs into the other.  *Jwt*: a MAC of 2 bytes leaves the
remainder modulo 3 of one of 32, on which padding depends; payloads have all three
lengths modulo three, and in the URL alphabet none, one or two of the characters that
are undone; threads and secrets are interchangeable, nothing compares them, so symmetry
is sound (the run checks invariants only).  *Console*: two threads on either side are
what one global can be shared by; a restart shows what the last process left behind; two
failures are one in a call and one in the handler that would have made up for it.  A
socket of two datagrams adds only what `Close` drops (that run passes too, in three and
a half minutes).  `MaxCalls`, `MaxStmts`, `MaxFails`, `MaxTxns`, `MaxDepth`,
`MaxThreads`, `MaxParams`, `MaxEvals`, `MaxSends`, `MaxHandlers`, `MaxStarts`, `BufLen`,
`SockLen`, `QueueLen` and `CStack` are the only bounds, and each is a guard named in its
module.

Deadlock checking is off throughout: every model stops when its calls, clients
or evals are used up, and a leaked lock or a dead process really stops.

Fairness.  Pobox and OfficeLoad: a thread inside a call keeps taking steps (the
operating system schedules it); the spinlock gives no order among spinning
threads, so only weak fairness of each thread's steps is assumed, and with a
bounded number of calls that suffices.  PunyServer: the acceptor and the
connection threads are scheduled, and a client that stays connected sends the
whole request.  Json: a call that was made runs on.  Console: threads run, and
the user keeps pressing keys, not necessarily Enter.  No call, connection,
hang-up, exit or failure is ever forced.

## Findings

Eleven disagreements between the code and what a comment, a docstring, a test or a
caller in the repository says; `PROJECT.json` quotes both sides.  Three have a violation
run of their own.  The others are why properties that hold carry a condition, and the
condition is exactly the finding: `LockLeftTaken` and `ReturnsOrWedged` name the exits
that keep the lock; `AllOrNothing` sets a body apart that has called `txn` on its own
connection; `AnsweredOrExcused` lists the client that closes early, the cut and the
misread Content-Length line and the byte 0; `ParsesRequests` says what is left of a body
with line ends; `RoundTripExactly` which four-byte characters survive and which numbers
do not; `VerdictRight` what `Readable` parts are.

## Proofs

All theorems hold for any sets of threads, VMs, clients, keys, values, scripts and
strings and for any bounds, from the named assumptions of the modules: special
values are distinct from ordinary ones, calls, scripts, requests and strings are
well formed, sizes are natural numbers.  None of the properties is inductive
as it stands; what follows is what had to be added.

**Pobox** (`TypeCorrect`, `LockExcludes`, `NeverWild`, `UniqueNodes`, `LockLeaks`).
A walk does not stray because all nodes are whole but the one that the holder of
the lock is writing (`OfficeInv`); that the stores go to the right node needs
`NodeInv`; that nobody else looks meanwhile needs `MutualExclusion`; and that
what is stored is a value needs `CallInv` and `RegInv`.  `RetInv` carries the
reason of a leaked lock from the step that decides to leave to the step that
leaves.  `Refinement` is `Spec => AtomicBoxes`: it needs
`FlowInv`, that the value on its way from the copy to `table_put` still is what the
box holds, or the function of it; `BoxOf` turns the CHOOSE in `Boxes` into "the
node of that key"; then every action maps to one abstract step or to none.

**OfficeLoad** (`LoadTypeCorrect`, `BoxesStay`, `LoadsOnce`).  That a node is linked
at the end of the list everybody sees needs that the walk which found that end was
in the same office and that nobody has linked since, which needs the lock, which
needs that no import resets it under its holder: `Opened`, `Alone`, `Held`, `Cut`,
`Found`, `Listed`, for the behaviours in which no import raced.

**PqTxn** (`TxnTypeCorrect`, `TxnAllOrNothing`, `TxnRaises`, `TxnReturns`,
`TxnCloses`, `TxnRetries`).  The properties speak of a transaction that is over, the
code acts on one in progress.  The invariant follows the innermost call's
statements: in the open transaction and not durable, or gone, or, once the error of a
connection that broke under "commit" is on its way ("torn"), possibly all durable;
so `TxnRaises` excepts that error and no other, and `TxnCloses` the signals that
`txn*` lets pass and nothing else; `Past` says the same of the call that ended
last and `Discarded` of the retried attempts; `Tight` and `Server` tie the open
transaction to the connection, `Clean` says when it must be closed.

**PunyServer** (`ServerTypeCorrect`, `HandlerGetsWhole`, `NothingUnexplained`,
`RequestsParsed`).  `WholeRequest` needs that
what `read_tcp` has found out about a request is true of the whole request and not
only of the part that has arrived (`Known`).  The theorem assumes requests that end
where their header says, that freed memory keeps its content (`~HeapReuse`):
`strstr` runs past the received bytes, so without it the property does not hold;
and that a misread length is only larger (`OnlyMore`), as digits behind the number
make it, short of an overflow of `atoi`.
Under the same conditions `NothingUnexplained` proves the safety half of
`AnsweredOrExcused`: every death of the process and every connection closed or left
without its answer has one of the causes listed there.  It needs that `recv` reports
only resets that happened and that a response waiting to be sent is the handler's
(`Grounds`), and `WholeRequest`, without which a SIGPIPE could meet a client whose
request was not complete.  `RequestsParsed` is what `ParsesRequests` says on its small
grammar, for texts of any length and words: given where the line ends and the first
line's spaces are (`CutsAre`; every text has just one such list), it names the method,
the URL, the headers and the body.  `SplitIs` does the work: the k-th cut is the one
that has k cuts up to it, counted by cardinality.

**SqliteEval** (`EvalFinalises`, `ClosesOnce`, `EvalTypeCorrect`, `EvalInOrder`,
`EvalRows`).  `Compiled`: what is compiled and not finalised is what `stmt` and
`stmt_next` hold; `Rotation`: how these two move through the script.  `Stocked`: every
cell of a table was stored from a value that can be bound, by that column's affinity.
`Track`: the database is what the reference `After` says of the statements that ran, and
the rows are those of the last of them.  `After` is a recursive function on the
positions of the script; that it satisfies its own equation (`AfterDef`) is proved by
looking at the shortest prefix on which no such function would exist.  What comes out is
what `Answers` says by cases on the type and the affinity (`ComesBack`), and an integer
keeps its residue through the `int` (`IntKept`).

**Console** (`TermRestored`, `TermFresh`, `UdpOwn`, `ConsoleTypeCorrect`).  `Guarded`: a
raw terminal has a call in its loop and a handler registered, and the mode that both
would restore is the line mode, since none was ever saved while raw; while the process
runs, every call past `atexit` has its handler.  `Flushed`: once a call polls, no key
typed before it is left, unless its own `tcsetattr` failed.  `Stored`: as long as no
other listener stored into it, `world` holds the bytes of a listener's datagram that its
copy has stored so far (`HoldsBut`), then all of them and the length (`Holds`), and the
string being made has the bytes taken so far (`Took`).  That `strlen` finds an end at
all (`CBytesData`) uses the well-foundedness of the natural numbers.  The bound on the
handlers is not inductive: a call checks for room when it begins and registers two steps
later, so `Room` counts the calls on the way together with the handlers (readers are
assumed finite).

**Jwt** (`TypeCorrect`, `VerdictCorrect`, `GenuineVerify`, `PayloadCorrect`).  The
assumptions: MACs are byte sequences of one length that is two modulo three, as 32 is;
header and payload hold no byte 0, which `json/encode` escapes.  The first half is
base64.  `Encoded` and `Decoded` give each character and each byte by its position,
through the URL alphabet and the padding that is cut off and put back; `RoundTrip`
composes them; `ByteIsBits`, `GroupBits` and `OctBits` turn "decodes to the same bytes"
into "says the same bits", the form `VerdictRight` has.  The second half follows one MAC.
`Unraced`: as long as no other thread wrote the array since a call's HMAC began, the bytes
the call has stored, and those it has copied, are those HMAC answered.
`Issued`: a token's signature is the encoding of the MAC, or of the MAC and one zero
byte, under a question HMAC still remembers.  `Answered` is what the verdict was computed
from, kept after the call.

**Json** (`EncodeAppends`, `DecodesGrammar`, `DecodeStaysBounded`, `StringsSurvive`).
Closing a container takes back the last byte of the buffer if it is a comma.  `Ours`:
while a container is still to be closed, the text is longer than the caller's, so that
byte is the encoder's own; this needs `work` to be well formed, hence `Janet`, the set
of values with everything inside them, and finite tables.

`DecodesGrammar`: when `json/decode` returns a value, what it read up to the byte 0 that
ends it is a text of the grammar, and the value is its meaning; a comma before a closer
is in the grammar only without whitespace between them, and numbers are what `strtod`
reads.  The grammar is a set
of rules over facts "this text is a value, or a list of elements or members, with this
meaning" (`Gives`), and a text has a meaning when a finite derivation ends in that fact
(`Derives`); no recursion over values is needed.  The invariant (`Held`, `Read`) cuts
the tokens read at one mark per open container: between two marks is the text of what
the frame on the stack has collected, behind the last the text of the value just
returned.  The same invariant gives `DecodeStaysBounded`: no token behind the end is
looked at, and the recursion stops at the guard.

`StringsSurvive`: encoding and then decoding a string of any bytes and length gives it
back exactly when `Survives` says so.  Both loops are instances of `Walk`, a recursive
function; its equation and the claim about the rest of a string are proved by
induction from the end, over the set of distances for which they hold (`AllNumbers`).
In one direction, one character is encoded into units that decode to the same bytes; in the
other direction, a position that does not hold a surviving character is refused or
comes back as other bytes.

Model-checked only.  Liveness (`ReturnsOrWedged`, `EveryImportEnds`,
`AnsweredOrExcused` but for its safety half, `EveryCallEnds`, `ReceivedIsHeard`,
`WaitEnds`) is outside what TLAPS 1.4.5 proves.  `AcceptsExactly` is proved in one
direction (`DecodesGrammar`): that every text of the grammar within the guard is also
accepted needs an induction over derivations along with the decoder's run, a
statement about what it will do and not about a state.  `RoundTripExactly` is
proved for strings (`StringsSurvive`); for nested values its reference is recursive in
the value, and induction over such data is out of the prover's reach.
`ParsesRequests` itself speaks of the requests MCPunyServer builds; its content is
`RequestsParsed`.

## What no property covers

A body of `txn` that yields or gives `user4` to `user9` (`pq.janet:171`) leaves `txn*`
and is not resumed in the model: the fiber that is resumed after others have used the
connection is left out.  In PunyServer, the hole that a byte 0 leaves in the buffer
reads as 0 and is never filled with what the block held before; a fenced request is
known to be answered with something else, not with what.  Tab and newline strings given
to encode that are not whitespace can make its text something else.  Below the
abstraction are writes one byte past a block (`pobox.c:24`, `puny-server.c:97`, the
`sprintf` of `sha256` and of the hex digest), the text left in the caller's buffer when
encode raises (`json.c:571`), the error message read after its statement is finalised
(`sqlite3/main.c:333`), and the handle `sql_open` keeps when opening fails
(`sqlite3/main.c:73`).  Nothing bounds the retries of `txn*`: the code means it so.

## Not modelled

About 97 000 of the 100 000 lines of C are vendored (`amalg/janet.c`, of which only the
string functions that HttpParse and Jwt rest on are mapped, `shell.c`, `janet.h`,
`sqlite3.h`, `webview.h`) or generated by SWIG (the curl, cairo and IUP
wrappers), so the share of the lines that the modules map stays small: they map most
of the hand-written C with state or logic of its own, and the Janet files around it.
Of that remain: `util`, a scratch file by its own first line; the Windows branches;
`make_sock` and the constant response headers of the server; parameter encoding and
result accessors of `pq.c`, which keep no state; the webview, curl, cairo and IUP glue,
which passes calls on; program entry and build.

## Plan

Done: Pobox with AtomSpec, OfficeLoad, PqTxn, PunyServer with HttpParse, SqliteEval,
Json, Jwt, Console; proofs of every safety property of the passing runs, except for the
parts named above.

1. PunyServer: what a reply may be, as an action property with its proof.
2. Fibers that yield inside `txn` and are resumed.
3. The client of `examples/gui-conc.janet` on AtomSpec (get, then update).
