--------------------------------- MODULE Udp --------------------------------
(***************************************************************************)
(* src/udp.c: udp/listen and udp/send-string, and the loop of              *)
(* lib/com.ahungry.net.udp.server.janet around listen.                     *)
(*                                                                         *)
(* Every listen makes a socket, receives one datagram and closes the       *)
(* socket; what arrived behind it is lost.  The datagram goes through the  *)
(* global world, and the result is made from world after the socket is     *)
(* closed: threads that listen at the same time share it.  Nothing orders  *)
(* their stores and loads, so that both copies, into world and out of it,  *)
(* go byte by byte and in any order.  Any error but one of recvfrom ends   *)
(* the process.                                                            *)
(***************************************************************************)
EXTENDS Process, Integers, Sequences

CONSTANTS
  Listeners,   \* threads in listen-on-udp
  Strings,     \* arguments of send-string: sequences of bytes, 0 among them
  BufLen,      \* MAXBUF, for datagrams
  SockLen,     \* datagrams a socket keeps; the kernel drops what comes beyond
  MaxSends     \* bound on the calls of send-string

Byte == 0 .. 255

ASSUME StringsAssumption ==
  BufLen \in Nat /\ \A s \in Strings : s \in Seq(Byte) /\ Len(s) + 2 <= BufLen

ASSUME UdpBoundAssumption == MaxSends \in Nat

VARIABLES
  net,     \* datagrams on their way
  sends,   \* number of datagrams sent
  ul,      \* per listener: the next step
  queue,   \* per listener: the datagrams its socket holds
  bufin,   \* per listener: the datagram recvfrom has returned, or NoDatagram
  world,   \* world.udp_listen_received, and its _len
  todo,    \* per listener: the bytes that its copy has yet to copy
  heard,   \* per listener: the string made from world, which f is called with
  mixed    \* listeners under whose call another has stored into world

udpVars == <<net, sends, ul, queue, bufin, world, todo, heard, mixed>>

NoDatagram == <<-1>>

UdpInit ==
  /\ net = {}
  /\ sends = 0
  /\ ul = [l \in Listeners |-> "socket"]
  /\ queue = [l \in Listeners |-> <<>>]
  /\ bufin = [l \in Listeners |-> NoDatagram]
  /\ world = [bytes |-> [i \in 1 .. BufLen |-> 0], len |-> 0]
  /\ todo = [l \in Listeners |-> {}]
  /\ heard = [l \in Listeners |-> <<>>]
  /\ mixed = {}

\* what the process held is gone: a new one has no sockets, and zero globals
UdpGone ==
  /\ ul' = [l \in Listeners |-> "socket"]
  /\ queue' = [l \in Listeners |-> <<>>]
  /\ bufin' = [l \in Listeners |-> NoDatagram]
  /\ world' = [bytes |-> [i \in 1 .. BufLen |-> 0], len |-> 0]
  /\ todo' = [l \in Listeners |-> {}]
  /\ heard' = [l \in Listeners |-> <<>>]
  /\ mixed' = {}
  /\ UNCHANGED <<net, sends>>

Goes(l, s) == ul' = [ul EXCEPT ![l] = s]

\* variant: the string as Janet sees it
CBytesAll(s) == s

\* the bytes strlen finds in a string
CBytes(s) ==
  SubSeq(s, 1, CHOOSE n \in 0 .. Len(s) : /\ \A i \in 1 .. n : s[i] # 0
                                          /\ n < Len(s) => s[n + 1] = 0)

\* send_string: a datagram leaves ...
Send(s) ==
  /\ Alive
  /\ sends < MaxSends
  /\ sends' = sends + 1
  /\ net' = net \cup {CBytes(s)}
  /\ UNCHANGED <<ul, queue, bufin, world, todo, heard, mixed, procVars>>

\* ... or getaddrinfo, socket or sendto fails: die
SendDies ==
  /\ Exit
  /\ UNCHANGED <<net, sends, ul, queue, bufin, world, todo, heard, mixed>>

\* The network loses, repeats and reorders.  A datagram reaches the one of the
\* sockets bound to the port that the kernel picks, or nobody.
Arrives(d, l) ==
  /\ Alive /\ ul[l] = "recv"
  /\ Len(queue[l]) < SockLen
  /\ queue' = [queue EXCEPT ![l] = Append(@, d)]
  /\ UNCHANGED <<net, sends, ul, bufin, world, todo, heard, mixed, procVars>>

Vanishes(d) ==
  /\ net' = net \ {d}
  /\ UNCHANGED <<sends, ul, queue, bufin, world, todo, heard, mixed, procVars>>

\* udp_listen: socket, setsockopt, bind, getsockname
Listen(l) ==
  /\ Alive /\ ul[l] = "socket"
  /\ Goes(l, "recv")
  /\ UNCHANGED <<net, sends, queue, bufin, world, todo, heard, mixed, procVars>>

\* one of them fails: exit, with status 0 if it is bind
ListenDies(l) ==
  /\ ul[l] = "socket"
  /\ Exit
  /\ Goes(l, "ended")
  /\ UNCHANGED <<net, sends, queue, bufin, world, todo, heard, mixed>>

\* variant: an empty datagram is none
ReceiveSome(l) ==
  /\ Alive /\ ul[l] = "recv"
  /\ queue[l] # <<>> /\ Len(Head(queue[l])) > 0
  /\ bufin' = [bufin EXCEPT ![l] = Head(queue[l])]
  /\ queue' = [queue EXCEPT ![l] = Tail(@)]
  /\ todo' = [todo EXCEPT ![l] = 1 .. Len(Head(queue[l]))]
  /\ Goes(l, "copy")
  /\ UNCHANGED <<net, sends, world, heard, mixed, procVars>>

\* receive_udp
Receive(l) ==
  /\ Alive /\ ul[l] = "recv"
  /\ queue[l] # <<>>
  /\ bufin' = [bufin EXCEPT ![l] = Head(queue[l])]
  /\ queue' = [queue EXCEPT ![l] = Tail(@)]
  /\ todo' = [todo EXCEPT ![l] = 1 .. Len(Head(queue[l]))]
  /\ Goes(l, "copy")
  /\ UNCHANGED <<net, sends, world, heard, mixed, procVars>>

\* n < 0: perror, and nothing is stored
ReceiveFails(l) ==
  /\ Alive /\ ul[l] = "recv"
  /\ Fails
  /\ Goes(l, "close")
  /\ UNCHANGED <<net, sends, queue, bufin, world, todo, heard, mixed, proc, handlers, starts>>

\* the calls that are between their own first store and their result
Under == {m \in Listeners : \/ ul[m] = "copy" /\ todo[m] # 1 .. Len(bufin[m])
                            \/ ul[m] \in {"nul", "close", "result", "take"}}

\* a store into world, under the calls of others
Stores(l, w) ==
  /\ world' = w
  /\ mixed' = mixed \cup (Under \ {l})

\* memcpy: one byte
CopyByte(l) ==
  /\ Alive /\ ul[l] = "copy"
  /\ \E i \in todo[l] : /\ Stores(l, [world EXCEPT !.bytes[i] = bufin[l][i]])
                        /\ todo' = [todo EXCEPT ![l] = @ \ {i}]
  /\ UNCHANGED <<net, sends, ul, queue, bufin, heard, procVars>>

\* variant: the length only grows
StoreLengthGrows(l) ==
  /\ Alive /\ ul[l] = "copy" /\ todo[l] = {}
  /\ LET n == Len(bufin[l])
     IN Stores(l, [world EXCEPT !.len = IF n > @ THEN n ELSE @])
  /\ Goes(l, "nul")
  /\ UNCHANGED <<net, sends, queue, bufin, todo, heard, procVars>>

\* memcpy is over: the length
StoreLength(l) ==
  /\ Alive /\ ul[l] = "copy" /\ todo[l] = {}
  /\ Stores(l, [world EXCEPT !.len = Len(bufin[l])])
  /\ Goes(l, "nul")
  /\ UNCHANGED <<net, sends, queue, bufin, todo, heard, procVars>>

\* a 0 at n + 1, which is one byte behind the end
StoreNul(l) ==
  /\ Alive /\ ul[l] = "nul"
  /\ Stores(l, [world EXCEPT !.bytes[Len(bufin[l]) + 2] = 0])
  /\ Goes(l, "close")
  /\ UNCHANGED <<net, sends, queue, bufin, todo, heard, procVars>>

\* the datagrams left in the socket go with it
Close(l) ==
  /\ Alive /\ ul[l] = "close"
  /\ queue' = [queue EXCEPT ![l] = <<>>]
  /\ Goes(l, "result")
  /\ UNCHANGED <<net, sends, bufin, world, todo, heard, mixed, procVars>>

\* janet_string: a string of the length found in world ...
Result(l) ==
  /\ Alive /\ ul[l] = "result"
  /\ heard' = [heard EXCEPT ![l] = [i \in 1 .. world.len |-> 0]]
  /\ todo' = [todo EXCEPT ![l] = 1 .. world.len]
  /\ Goes(l, "take")
  /\ UNCHANGED <<net, sends, queue, bufin, world, mixed, procVars>>

\* ... gets its bytes one by one ...
TakeByte(l) ==
  /\ Alive /\ ul[l] = "take"
  /\ \E i \in todo[l] : /\ heard' = [heard EXCEPT ![l][i] = world.bytes[i]]
                        /\ todo' = [todo EXCEPT ![l] = @ \ {i}]
  /\ UNCHANGED <<net, sends, ul, queue, bufin, world, mixed, procVars>>

\* ... and f is called with it
CallF(l) ==
  /\ Alive /\ ul[l] = "take" /\ todo[l] = {}
  /\ Goes(l, "f")
  /\ UNCHANGED <<net, sends, queue, bufin, world, todo, heard, mixed, procVars>>

\* f returns, and the loop goes on
Again(l) ==
  /\ Alive /\ ul[l] = "f"
  /\ Goes(l, "socket")
  /\ heard' = [heard EXCEPT ![l] = <<>>]
  /\ bufin' = [bufin EXCEPT ![l] = NoDatagram]
  /\ mixed' = mixed \ {l}
  /\ UNCHANGED <<net, sends, queue, world, todo, procVars>>

\* f raises, which ends the loop
Raises(l) ==
  /\ Alive /\ ul[l] = "f"
  /\ Goes(l, "ended")
  /\ UNCHANGED <<net, sends, queue, bufin, world, todo, heard, mixed, procVars>>

ListenStep(l) ==
  \/ Listen(l) \/ Receive(l)
  \/ CopyByte(l) \/ StoreLength(l) \/ StoreNul(l)
  \/ Close(l)
  \/ Result(l) \/ TakeByte(l) \/ CallF(l)
  \/ Again(l)

UdpNext ==
  \/ \E s \in Strings : Send(s)
  \/ SendDies
  \/ \E d \in net : Vanishes(d)
  \/ \E l \in Listeners :
       \/ \E d \in net : Arrives(d, l)
       \/ ListenStep(l)
       \/ ListenDies(l)
       \/ ReceiveFails(l)
       \/ Raises(l)

-----------------------------------------------------------------------------

UdpTypeOK ==
  /\ \A d \in net : \A i \in DOMAIN d : d[i] \in Byte \ {0}
  /\ sends \in 0 .. MaxSends
  /\ ul \in [Listeners -> {"socket", "recv", "copy", "nul", "close", "result", "take", "f", "ended"}]
  /\ \A i \in 1 .. BufLen : world.bytes[i] \in Byte
  /\ world.len \in 0 .. BufLen
  /\ \A l \in Listeners : todo[l] \subseteq 1 .. BufLen
  /\ mixed \subseteq Listeners

\* f is called with the datagram its own listen received, byte for byte and
\* with its length, whatever was in world before and whichever other threads
\* are listening.  Except when recvfrom failed, and when another thread stored
\* anything into world between the first byte this call stored there and the
\* last it took from there.  Of two calls that copy into world at the same time
\* both can hear a mix, and neither is promised anything.
HearsItsOwn ==
  \A l \in Listeners :
    (ul[l] = "f" /\ l \notin mixed /\ bufin[l] # NoDatagram) => heard[l] = bufin[l]

\* When a datagram waits in the socket of a listen call, be it empty or not, the
\* call ends and f is called, unless the process ends first; with what, is
\* HearsItsOwn's to say.
ReceivedIsHeard ==
  \A l \in Listeners :
    (ul[l] = "recv" /\ queue[l] # <<>>) ~> (ul[l] = "f" \/ proc # "running")
=============================================================================
