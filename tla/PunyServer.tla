----------------------------- MODULE PunyServer -----------------------------
(***************************************************************************)
(* The TCP server of com.ahungry.net.tcp.server: src/puny-server.c and     *)
(* src/puny-server-wrap.c (the POSIX branches).  One thread accepts        *)
(* connections and starts a thread for each; that thread reads the request *)
(* (read_tcp), runs the Janet handler in a VM of its own                   *)
(* (janet_universal_cb), sends what it returned and closes the socket.     *)
(*                                                                         *)
(* A request is a sequence of pieces that TCP may deliver in any grouping: *)
(* "h" part of the header, "n" the text "Content-Length: N", "r" the       *)
(* carriage return that ends that line, "t" the empty line that ends the   *)
(* header, "b" one unit of the body; "z" is a unit that holds a byte 0,    *)
(* where strlen stops, and "q" one that holds the three backquotes that    *)
(* end a long string of Janet.  What a client has sent and what the server *)
(* has read are prefixes of its request, so they are kept as lengths.      *)
(* Memory that the code reads after freeing it, or before writing it,      *)
(* holds its old content unless HeapReuse lets the allocator give it to    *)
(* somebody else in between.                                               *)
(***************************************************************************)
EXTENDS Naturals, Sequences

CONSTANTS
  Clients,      \* one connection each
  Request,      \* [Clients -> the request, a sequence of pieces]
  BodyLen,      \* the N of every Content-Length line
  Misread,      \* what atoi may read instead: the copy of the N has no end, and digits
                \* may stand behind it (0 also stands for a negative number)
  Chunk,        \* CLIENT_CHUNK: the most that one recv returns
  MaxEnqueued,  \* MAX_ENQUEUED: the backlog of the listening socket
  MaxThreads,   \* bound: threads the system allows before pthread_create fails
  MayHangUp,    \* clients may close before their request is complete
  HeapReuse     \* freed memory may be reused before the code last reads it

Pieces == {"h", "n", "r", "t", "b", "z", "q"}

ASSUME SizeAssumption == Chunk \in Nat \ {0} /\ MaxEnqueued \in Nat /\ MaxThreads \in Nat
ASSUME FlagAssumption == MayHangUp \in BOOLEAN /\ HeapReuse \in BOOLEAN
ASSUME RequestAssumption ==
  /\ BodyLen \in Nat /\ Misread \subseteq Nat
  /\ Request \in [Clients -> Seq(Pieces)]

VARIABLES
  queue,    \* the backlog: connections not accepted yet
  sent,     \* per client: pieces it has sent
  gone,     \* per client: "no", or how it went: "closed" (FIN) or "reset" (RST)
  told,     \* connections whose recv has returned the reset
  pc,       \* per connection: where its thread is
  got,      \* per connection: offset, the pieces read into buf
  seen,     \* per connection: has_seen_req_terminator
  more,     \* per connection: final_content_length
  timer,    \* per connection: set_timer, recv no longer blocks
  resp,     \* per connection: what response points to
  answer,   \* per client: what it has received
  threads,  \* threads created; nothing joins or detaches them
  freed,    \* the connections whose request text is in freed memory
  crashed   \* how the process has died: "no", "memcpy" or "SIGPIPE"

vars == <<queue, sent, gone, told, pc, got, seen, more, timer, resp, answer, threads, freed, crashed>>

Labels == {"away", "queued", "recv", "body", "call", "send", "closed", "leaked"}
Responses == {"none", "own", "static", "other", "foreign"}

Init ==
  /\ queue = <<>>
  /\ sent = [c \in Clients |-> 0]
  /\ gone = [c \in Clients |-> "no"]
  /\ told = {}
  /\ pc = [c \in Clients |-> "away"]
  /\ got = [c \in Clients |-> 0]
  /\ seen = [c \in Clients |-> FALSE]
  /\ more = [c \in Clients |-> 0]
  /\ timer = [c \in Clients |-> FALSE]
  /\ resp = [c \in Clients |-> "none"]
  /\ answer = [c \in Clients |-> "none"]
  /\ threads = 0
  /\ freed = {}
  /\ crashed = "no"

Alive == crashed = "no"
At(c, l) == Alive /\ pc[c] = l
Goto(c, l) == pc' = [pc EXCEPT ![c] = l]

-----------------------------------------------------------------------------
(* The clients. *)

Connect(c) ==
  /\ At(c, "away") /\ Len(queue) < MaxEnqueued
  /\ queue' = Append(queue, c)
  /\ Goto(c, "queued")
  /\ UNCHANGED <<sent, gone, told, got, seen, more, timer, resp, answer, threads, freed, crashed>>

Send(c) ==
  /\ Alive /\ pc[c] \notin {"away", "closed"}
  /\ gone[c] = "no" /\ sent[c] < Len(Request[c])
  /\ sent' = [sent EXCEPT ![c] = @ + 1]
  /\ UNCHANGED <<queue, gone, told, pc, got, seen, more, timer, resp, answer, threads, freed, crashed>>

HangUp(c) ==
  /\ Alive /\ MayHangUp /\ pc[c] \notin {"away", "closed"} /\ gone[c] = "no"
  /\ \E how \in {"closed", "reset"} : gone' = [gone EXCEPT ![c] = how]
  /\ UNCHANGED <<queue, sent, told, pc, got, seen, more, timer, resp, answer, threads, freed, crashed>>

-----------------------------------------------------------------------------
(* take_connections_forever: the result of pthread_create is not looked at *)

\* variant: a thread is counted that could not be created
AcceptCountsAll ==
  /\ Alive /\ queue # <<>>
  /\ queue' = Tail(queue)
  /\ threads' = threads + 1
  /\ Goto(Head(queue), IF threads < MaxThreads THEN "recv" ELSE "leaked")
  /\ UNCHANGED <<sent, gone, told, got, seen, more, timer, resp, answer, freed, crashed>>

Accept ==
  /\ Alive /\ queue # <<>>
  /\ queue' = Tail(queue)
  /\ IF threads < MaxThreads
       THEN threads' = threads + 1 /\ Goto(Head(queue), "recv")
       ELSE UNCHANGED threads /\ Goto(Head(queue), "leaked")
  /\ UNCHANGED <<sent, gone, told, got, seen, more, timer, resp, answer, freed, crashed>>

-----------------------------------------------------------------------------
(* read_tcp *)

\* The bytes that strstr and strlen see: what was received up to the first byte 0 (the
\* copy of a chunk stops there, which leaves a hole that reads as 0), then whatever
\* the block from realloc held before, as buf has no terminating 0 yet.
Ends(s) == {SubSeq(s, i, Len(s)) : i \in DOMAIN s}
Tails == {<<>>} \cup (IF HeapReuse THEN UNION {Ends(Request[c]) : c \in freed} ELSE {})
Visible(q, n) == CHOOSE m \in 0 .. n : /\ \A i \in 1 .. m : q[i] # "z"
                                       /\ m < n => q[m + 1] = "z"
Buffer(c, n, tail) == SubSeq(Request[c], 1, Visible(Request[c], n)) \o tail

Has(s, p) == \E i \in DOMAIN s : s[i] = p

\* the Content-Length line is in the buffer and its end is not
CutLine(s) == \E i \in DOMAIN s : s[i] = "n" /\ ~\E j \in DOMAIN s : j > i /\ s[j] = "r"

\* recv: between 1 and Chunk of the pieces that have arrived
Arrivals(c) == {n \in got[c] + 1 .. sent[c] : n <= got[c] + Chunk}

\* one round of the inner loop of the header: a Content-Length line without its
\* end gives memcpy a negative size; the N of one with its end is read by atoi
Recv(c) ==
  /\ At(c, "recv")
  /\ \E n \in Arrivals(c), tail \in Tails :
       LET s == Buffer(c, n, tail) IN
       IF CutLine(s)
         THEN crashed' = "memcpy" /\ UNCHANGED <<got, seen, more, timer>>
         ELSE /\ got' = [got EXCEPT ![c] = n]
              /\ seen' = [seen EXCEPT ![c] = Has(s, "t")]
              /\ \E k \in {BodyLen} \cup Misread :
                   more' = IF Has(s, "n") THEN [more EXCEPT ![c] = k] ELSE more
              /\ timer' = [timer EXCEPT ![c] = TRUE]
              /\ UNCHANGED crashed
  /\ UNCHANGED <<queue, sent, gone, told, pc, resp, answer, threads, freed>>

\* variant: the receive timeout is not set
NoDataBlocks(c) == got[c] = sent[c] /\ gone[c] # "no"

\* recv returns 0 (end of file) or -1 (the receive timeout of one microsecond)
NoData(c) == got[c] = sent[c] /\ (timer[c] \/ gone[c] # "no")

\* that recv, if it is the first since the reset, returns ECONNRESET
Hear(c) == told' = IF gone[c] = "reset" THEN told \cup {c} ELSE told

HeaderLength(s) == CHOOSE i \in DOMAIN s : s[i] = "t" /\ \A j \in 1 .. i - 1 : s[j] # "t"

Enough(c, tail) == LET s == Buffer(c, got[c], tail)
                   IN more[c] = 0 \/ Len(s) >= HeaderLength(s) + more[c]

\* variant: the body that is still to come is not waited for
HeaderDoneIsAll(c) ==
  /\ At(c, "recv") /\ NoData(c) /\ seen[c]
  /\ Goto(c, "call")
  /\ Hear(c)
  /\ UNCHANGED <<queue, sent, gone, got, seen, more, timer, resp, answer, threads, freed, crashed>>

\* The inner loop ends.  Without the empty line the outer loop starts it again,
\* which changes nothing here; with it, the body is read next if it is short.
HeaderDone(c) ==
  /\ At(c, "recv") /\ NoData(c) /\ seen[c]
  /\ \E tail \in {s \in Tails : Has(Buffer(c, got[c], s), "t")} :
       Goto(c, IF Enough(c, tail) THEN "call" ELSE "body")
  /\ Hear(c)
  /\ UNCHANGED <<queue, sent, gone, got, seen, more, timer, resp, answer, threads, freed, crashed>>

RecvBody(c) ==
  /\ At(c, "body")
  /\ \E n \in Arrivals(c) : got' = [got EXCEPT ![c] = n]
  /\ UNCHANGED <<queue, sent, gone, told, pc, seen, more, timer, resp, answer, threads, freed, crashed>>

BodyDone(c) ==
  /\ At(c, "body") /\ NoData(c)
  /\ \E tail \in {s \in Tails : Has(Buffer(c, got[c], s), "t")} : Enough(c, tail)
  /\ Goto(c, "call")
  /\ Hear(c)
  /\ UNCHANGED <<queue, sent, gone, got, seen, more, timer, resp, answer, threads, freed, crashed>>

-----------------------------------------------------------------------------
(***************************************************************************)
(* janet_universal_cb: the VM runs the handler and is torn down; the       *)
(* response points into its freed heap, or to the constant 500 text when   *)
(* no string came back.  The request is written into the program as a long *)
(* string: one with the fence inside is cut there and its rest is read as  *)
(* Janet, so what comes back is not the handler's answer to it ("other").  *)
(* The request's text is freed too.  With HeapReuse this VM's allocations  *)
(* may overwrite responses still unsent.                                   *)
(***************************************************************************)
Unsent(c) == {d \in Clients \ {c} : pc[d] = "send" /\ resp[d] \in {"own", "other"}}

Returned(c) == {IF Has(Request[c], "q") THEN "other" ELSE "own", "static"}

Callback(c) ==
  /\ At(c, "call")
  /\ \E own \in Returned(c), hit \in SUBSET (IF HeapReuse THEN Unsent(c) ELSE {}) :
       resp' = [d \in Clients |-> IF d = c THEN own
                                  ELSE IF d \in hit THEN "foreign" ELSE resp[d]]
  /\ freed' = freed \cup {c}
  /\ Goto(c, "send")
  /\ UNCHANGED <<queue, sent, gone, told, got, seen, more, timer, answer, threads, crashed>>

\* send, shutdown, close.  On a connection that is known to be reset, send
\* raises SIGPIPE, which nobody ignores; if the reset comes later, the answer
\* is only lost.
Reply(c) ==
  /\ At(c, "send")
  /\ IF c \in told
       THEN crashed' = "SIGPIPE" /\ UNCHANGED <<answer, pc>>
       ELSE /\ answer' = IF gone[c] = "reset" THEN answer ELSE [answer EXCEPT ![c] = resp[c]]
            /\ Goto(c, "closed")
            /\ UNCHANGED crashed
  /\ UNCHANGED <<queue, sent, gone, told, got, seen, more, timer, resp, threads, freed>>

Worker(c) == \/ Recv(c)
             \/ HeaderDone(c)
             \/ RecvBody(c)
             \/ BodyDone(c)
             \/ Callback(c)
             \/ Reply(c)

Next == \/ Accept
        \/ \E c \in Clients : \/ Connect(c)
                              \/ Send(c)
                              \/ HangUp(c)
                              \/ Worker(c)

Spec == Init /\ [][Next]_vars

\* The acceptor and every worker thread keep running, and a client that has
\* connected and does not hang up sends the whole of its request.
FairSpec == /\ Spec
            /\ WF_vars(Accept)
            /\ \A c \in Clients : WF_vars(Worker(c)) /\ WF_vars(Send(c))

-----------------------------------------------------------------------------
TypeOK ==
  /\ queue \in Seq(Clients)
  /\ sent \in [Clients -> Nat]
  /\ gone \in [Clients -> {"no", "closed", "reset"}]
  /\ told \subseteq Clients
  /\ pc \in [Clients -> Labels]
  /\ got \in [Clients -> Nat]
  /\ seen \in [Clients -> BOOLEAN]
  /\ more \in [Clients -> Nat]
  /\ timer \in [Clients -> BOOLEAN]
  /\ resp \in [Clients -> Responses]
  /\ answer \in [Clients -> Responses]
  /\ threads \in 0 .. MaxThreads
  /\ freed \subseteq Clients
  /\ crashed \in {"no", "memcpy", "SIGPIPE"}

\* The handler is called with a complete request only: everything up to the empty
\* line and, when the header announces a body, the whole body, however the network
\* cuts the stream and whether or not the client hangs up; and no byte 0 in it hides
\* the rest from the handler.
WholeRequest ==
  \A c \in Clients : pc[c] \in {"call", "send", "closed"} =>
    got[c] = Len(Request[c]) /\ ~Has(Request[c], "z")

\* A client never receives something else than the answer to its own request.
OwnAnswer == \A c \in Clients : answer[c] # "foreign"

\* Every connection is answered, or the reason is one of these: the client went
\* before its request was complete or reset the connection; its request holds a
\* byte 0, behind which the code sees nothing; atoi read digits behind the copied
\* Content-Length, and the thread waits for more than was announced; pthread_create
\* failed for this connection; the process died, and then either on a
\* Content-Length line that the network had cut in two, or of SIGPIPE in the
\* answer to a client that had sent its whole request and reset the connection.
AnsweredOrExcused ==
  \A c \in Clients :
    pc[c] = "queued" ~> \/ answer[c] # "none"
                        \/ gone[c] = "reset"
                        \/ gone[c] = "closed" /\ sent[c] < Len(Request[c])
                        \/ Has(Request[c], "z")
                        \/ pc[c] = "body" /\ more[c] # BodyLen
                        \/ pc[c] = "leaked"
                        \/ /\ crashed = "memcpy"
                           /\ \E d \in Clients : \E n \in Arrivals(d) : CutLine(Buffer(d, n, <<>>))
                        \/ /\ crashed = "SIGPIPE"
                           /\ \E d \in Clients : gone[d] = "reset" /\ got[d] = Len(Request[d])
=============================================================================
