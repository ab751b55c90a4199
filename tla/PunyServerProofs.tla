-------------------------- MODULE PunyServerProofs --------------------------
(***************************************************************************)
(* Proofs about PunyServer, for any number of connections, any requests    *)
(* and any sizes.                                                          *)
(*                                                                         *)
(* WholeRequest needs that what read_tcp has found out about a request     *)
(* (has_seen_req_terminator, final_content_length) is true of the request  *)
(* itself and not only of the part that had arrived: Known says so.  It    *)
(* holds for requests that end where their header says, while freed memory *)
(* is not handed out again (strstr runs past the received bytes), and if   *)
(* the digits that atoi may find behind the length only make it larger.    *)
(*                                                                         *)
(* NothingUnexplained is the safety half of AnsweredOrExcused: every death *)
(* of the process and every missing answer has one of the named causes.    *)
(* RequestsParsed says what parse-req (HttpParse) makes of any text that   *)
(* has a line end.                                                         *)
(***************************************************************************)
EXTENDS PunyServer, HttpParse, Integers, SequenceTheorems, FiniteSetTheorems,
        FunctionTheorems, WellFoundedInduction, TLAPS

\* The position of the empty line.
Blank(q) == CHOOSE k \in DOMAIN q : q[k] = "t"

\* A request: one empty line, with nothing but the body behind it, which is as long as
\* the header says.  Bytes 0 and fences may stand anywhere in it.
WellFormed(q) ==
  /\ \E k \in DOMAIN q : q[k] = "t"
  /\ \A i, j \in DOMAIN q : q[i] = "t" /\ q[j] = "t" => i = j
  /\ \A i \in DOMAIN q : i > Blank(q) => q[i] \in {"b", "z", "q"}
  /\ Len(q) = IF Has(q, "n") THEN Blank(q) + BodyLen ELSE Blank(q)

\* What was read was sent, and no more was sent than the request.
Lengths == \A c \in Clients : got[c] <= sent[c] /\ sent[c] <= Len(Request[c])

\* What read_tcp knows of the header is true.
Known == \A c \in Clients :
  /\ seen[c] => /\ got[c] >= Blank(Request[c])
                /\ \A i \in 1 .. Blank(Request[c]) : Request[c][i] # "z"
  /\ seen[c] /\ Has(Request[c], "n") => more[c] >= BodyLen
  /\ pc[c] = "body" => seen[c]

\* Digits behind the length only make it larger.
OnlyMore == \A k \in Misread : k >= BodyLen

PInv == TypeOK /\ Lengths /\ Known /\ WholeRequest

-----------------------------------------------------------------------------
\* Initially nothing has arrived.
LEMMA InitTypeOK == Init => TypeOK
<1>1. <<>> \in Seq(Clients)
  BY EmptySeq
<1> QED
  BY <1>1, SizeAssumption DEF Init, TypeOK, Labels, Responses

\* Types survive every step.
LEMMA NextTypeOK == TypeOK /\ [Next]_vars => TypeOK'
<1> SUFFICES ASSUME TypeOK, [Next]_vars PROVE TypeOK'
  OBVIOUS
<1> USE SizeAssumption DEF Alive, At, Goto
<1>1. CASE UNCHANGED vars
  BY <1>1 DEF vars, TypeOK
<1>2. CASE Accept
  <2>1. Head(queue) \in Clients /\ Tail(queue) \in Seq(Clients)
    BY <1>2, HeadTailProperties DEF Accept, TypeOK
  <2>2. threads' \in 0 .. MaxThreads
    <3>1. MaxThreads \in Nat /\ threads \in 0 .. MaxThreads
      BY DEF TypeOK
    <3> QED
      BY <1>2, <3>1 DEF Accept
  <2>3. pc' \in [Clients -> Labels]
    BY <1>2, <2>1 DEF Accept, TypeOK, Labels
  <2> QED
    BY <1>2, <2>1, <2>2, <2>3 DEF Accept, TypeOK
<1>3. ASSUME NEW c \in Clients, Connect(c) PROVE TypeOK'
  BY <1>3, AppendProperties DEF Connect, TypeOK, Labels
<1>4. ASSUME NEW c \in Clients, Send(c) \/ HangUp(c) PROVE TypeOK'
  <2>1. sent' \in [Clients -> Nat]
    <3>1. CASE Send(c)
      BY <3>1 DEF Send, TypeOK
    <3>2. CASE HangUp(c)
      BY <3>2 DEF HangUp, TypeOK
    <3> QED
      BY <1>4, <3>1, <3>2
  <2>2. gone' \in [Clients -> {"no", "closed", "reset"}]
    BY <1>4 DEF Send, HangUp, TypeOK
  <2> QED
    BY <1>4, <2>1, <2>2 DEF Send, HangUp, TypeOK
<1>5. ASSUME NEW c \in Clients, Recv(c) PROVE TypeOK'
  <2>1. PICK n \in Arrivals(c), tail \in Tails :
          LET s == Buffer(c, n, tail) IN
          IF CutLine(s)
            THEN crashed' = "memcpy" /\ UNCHANGED <<got, seen, more, timer>>
            ELSE /\ got' = [got EXCEPT ![c] = n]
                 /\ seen' = [seen EXCEPT ![c] = Has(s, "t")]
                 /\ \E k \in {BodyLen} \cup Misread :
                      more' = IF Has(s, "n") THEN [more EXCEPT ![c] = k] ELSE more
                 /\ timer' = [timer EXCEPT ![c] = TRUE]
                 /\ UNCHANGED crashed
    BY <1>5 DEF Recv
  <2>2. n \in Nat /\ BodyLen \in Nat /\ Has(Buffer(c, n, tail), "t") \in BOOLEAN
    BY RequestAssumption DEF Arrivals, TypeOK, Has
  <2>3. got' \in [Clients -> Nat] /\ more' \in [Clients -> Nat]
    <3>1. {BodyLen} \cup Misread \subseteq Nat
      BY RequestAssumption
    <3> QED
      BY <2>1, <2>2, <3>1 DEF TypeOK
  <2>4. seen' \in [Clients -> BOOLEAN] /\ timer' \in [Clients -> BOOLEAN]
    BY <2>1, <2>2 DEF TypeOK
  <2>5. crashed' \in {"no", "memcpy", "SIGPIPE"}
    BY <2>1 DEF TypeOK
  <2> QED
    BY <1>5, <2>3, <2>4, <2>5 DEF Recv, TypeOK
<1>6. ASSUME NEW c \in Clients, HeaderDone(c) \/ BodyDone(c) PROVE TypeOK'
  <2>1. told' \subseteq Clients /\ pc' \in [Clients -> Labels]
    BY <1>6 DEF HeaderDone, BodyDone, Hear, TypeOK, Labels
  <2> QED
    BY <1>6, <2>1 DEF HeaderDone, BodyDone, TypeOK
<1>7. ASSUME NEW c \in Clients, RecvBody(c) PROVE TypeOK'
  <2>1. got' \in [Clients -> Nat]
    BY <1>7 DEF RecvBody, Arrivals, TypeOK
  <2> QED
    BY <1>7, <2>1 DEF RecvBody, TypeOK
<1>8. ASSUME NEW c \in Clients, Callback(c) PROVE TypeOK'
  <2>1. resp' \in [Clients -> Responses]
    BY <1>8 DEF Callback, Returned, TypeOK, Responses
  <2>2. pc' \in [Clients -> Labels] /\ freed' \subseteq Clients
    BY <1>8 DEF Callback, TypeOK, Labels
  <2> QED
    BY <1>8, <2>1, <2>2 DEF Callback, TypeOK
<1>9. ASSUME NEW c \in Clients, Reply(c) PROVE TypeOK'
  <2>1. answer' \in [Clients -> Responses]
    BY <1>9 DEF Reply, TypeOK
  <2>2. pc' \in [Clients -> Labels] /\ crashed' \in {"no", "memcpy", "SIGPIPE"}
    BY <1>9 DEF Reply, TypeOK, Labels
  <2> QED
    BY <1>9, <2>1, <2>2 DEF Reply, TypeOK
<1> QED
  BY <1>1, <1>2, <1>3, <1>4, <1>5, <1>6, <1>7, <1>8, <1>9 DEF Next, Worker

\* The variables keep their types, for any connections and sizes.
THEOREM ServerTypeCorrect == Spec => []TypeOK
BY InitTypeOK, NextTypeOK, PTL DEF Spec

-----------------------------------------------------------------------------
\* A set of naturals has a least member.
LEMMA LeastIs ==
  ASSUME NEW S \in SUBSET Nat, S # {}
  PROVE \E k \in S : \A j \in S : k <= j
<1>1. PICK k \in S : \A j \in S : <<j, k>> \notin OpToRel(<, Nat)
  BY NatLessThanWellFounded, WFMin
<1>2. \A j \in S : j \in Nat /\ k \in Nat /\ ~(j < k)
  BY <1>1 DEF OpToRel
<1>3. \A j \in S : k <= j
  BY <1>2
<1> QED
  BY <1>3

\* What is visible of n pieces ends at the first byte 0.
LEMMA VisibleIs ==
  ASSUME NEW q, NEW n \in Nat
  PROVE /\ Visible(q, n) \in 0 .. n /\ \A i \in 1 .. Visible(q, n) : q[i] # "z"
        /\ Visible(q, n) < n => q[Visible(q, n) + 1] = "z"
<1> DEFINE zs == {i \in 1 .. n : q[i] = "z"}
           Fits(m) == (\A i \in 1 .. m : q[i] # "z") /\ (m < n => q[m + 1] = "z")
<1>1. \E m \in 0 .. n : Fits(m)
  <2>1. CASE zs = {}
    <3>1. n \in 0 .. n /\ Fits(n)
      BY <2>1
    <3> QED
      BY <3>1
  <2>2. CASE zs # {}
    <3>1. zs \subseteq Nat
      OBVIOUS
    <3>2. PICK k \in zs : \A j \in zs : k <= j
      <4> HIDE DEF zs
      <4> QED
        BY <2>2, <3>1, LeastIs
    <3>3. k - 1 \in 0 .. n /\ k - 1 < n /\ (k - 1) + 1 = k /\ q[k] = "z"
      BY <3>2
    <3>4. \A i \in 1 .. k - 1 : q[i] # "z"
      <4> SUFFICES ASSUME NEW i \in 1 .. k - 1, q[i] = "z" PROVE FALSE
        OBVIOUS
      <4>1. i \in zs
        BY <3>3
      <4> QED
        BY <3>2, <4>1
    <3> QED
      BY <3>3, <3>4
  <2> QED
    BY <2>1, <2>2
<1> HIDE DEF Fits
<1>2. Visible(q, n) = CHOOSE m \in 0 .. n : Fits(m)
  BY DEF Visible, Fits
<1>3. Visible(q, n) \in 0 .. n /\ Fits(Visible(q, n))
  BY <1>1, <1>2
<1> QED
  BY <1>3 DEF Fits

\* The bytes that strstr sees while freed memory keeps its content.
LEMMA BufferIs ==
  ASSUME ~HeapReuse, NEW c \in Clients, NEW n \in 0 .. Len(Request[c]), NEW tail \in Tails
  PROVE LET s == Buffer(c, n, tail)
            v == Visible(Request[c], n)
        IN /\ v \in 0 .. n /\ Len(s) = v /\ DOMAIN s = 1 .. v
           /\ \A i \in 1 .. v : s[i] = Request[c][i]
           /\ \A i \in 1 .. v : Request[c][i] # "z"
           /\ v < n => Request[c][v + 1] = "z"
           /\ s = Buffer(c, n, <<>>)
<1> DEFINE q == Request[c]
           v == Visible(q, n)
<1>1. q \in Seq(Pieces) /\ Len(q) \in Nat
  BY RequestAssumption, LenProperties
<1>2. tail = <<>>
  BY DEF Tails
<1>3a. n \in Nat
  BY <1>1
<1>3b. v \in 0 .. n /\ (\A i \in 1 .. v : q[i] # "z") /\ (v < n => q[v + 1] = "z")
  BY <1>3a, VisibleIs
<1> HIDE DEF v
<1>3. v \in Int /\ 1 \in Int /\ \A i \in 1 .. v : q[i] \in Pieces
  BY <1>1, <1>3b, LenProperties
<1> HIDE DEF q
<1>4. /\ SubSeq(q, 1, v) \in Seq(Pieces)
      /\ Len(SubSeq(q, 1, v)) = IF 1 <= v THEN v - 1 + 1 ELSE 0
      /\ \A i \in 1 .. v - 1 + 1 : SubSeq(q, 1, v)[i] = q[1 + i - 1]
  BY <1>3, SubSeqProperties
<1>5. Len(SubSeq(q, 1, v)) = v /\ \A i \in 1 .. v : SubSeq(q, 1, v)[i] = q[i]
  BY <1>3, <1>3b, <1>4
<1>6. Buffer(c, n, tail) = SubSeq(q, 1, v)
  BY <1>2, <1>4, ConcatEmptySeq DEF Buffer, q, v
<1>7. DOMAIN SubSeq(q, 1, v) = 1 .. v
  BY <1>4, <1>5, LenProperties
<1> QED
  BY <1>2, <1>3b, <1>5, <1>6, <1>7 DEF q, v

\* The empty line of a request is where Blank says.
LEMMA BlankIs ==
  ASSUME NEW q \in Seq(Pieces), WellFormed(q)
  PROVE /\ Blank(q) \in 1 .. Len(q) /\ q[Blank(q)] = "t"
        /\ \A i \in DOMAIN q : q[i] = "t" => i = Blank(q)
        /\ \A i \in DOMAIN q : q[i] = "n" => i < Blank(q)
<1>1. Blank(q) \in DOMAIN q /\ q[Blank(q)] = "t"
  BY DEF WellFormed, Blank
<1>2. DOMAIN q = 1 .. Len(q) /\ Len(q) \in Nat
  BY LenProperties
<1>3. \A i \in DOMAIN q : q[i] = "t" => i = Blank(q)
  BY <1>1 DEF WellFormed
<1>4. \A i \in DOMAIN q : i > Blank(q) => q[i] \in {"b", "z", "q"}
  BY DEF WellFormed
<1> QED
  BY <1>1, <1>2, <1>3, <1>4

\* Once the header is complete and the buffer is long enough, all has arrived.
LEMMA EnoughIsAll ==
  ASSUME ~HeapReuse, OnlyMore, \A d \in Clients : WellFormed(Request[d]), PInv,
         NEW c \in Clients, seen[c], NEW tail \in Tails, Enough(c, tail)
  PROVE got[c] = Len(Request[c]) /\ ~Has(Request[c], "z")
<1> DEFINE q == Request[c]
           s == Buffer(c, got[c], tail)
           v == Visible(q, got[c])
<1>1. /\ q \in Seq(Pieces) /\ WellFormed(q) /\ Len(q) \in Nat /\ BodyLen \in Nat
      /\ DOMAIN q = 1 .. Len(q)
  BY RequestAssumption, LenProperties
<1>2. /\ got[c] \in 0 .. Len(q) /\ got[c] >= Blank(q) /\ more[c] \in Nat
      /\ \A i \in 1 .. Blank(q) : q[i] # "z"
  BY <1>1 DEF PInv, TypeOK, Lengths, Known
<1>3. /\ v \in 0 .. got[c] /\ Len(s) = v /\ DOMAIN s = 1 .. v
      /\ \A i \in 1 .. v : s[i] = q[i]
      /\ \A i \in 1 .. v : q[i] # "z"
      /\ v < got[c] => q[v + 1] = "z"
  BY <1>2, BufferIs
<1>4. /\ Blank(q) \in 1 .. Len(q) /\ q[Blank(q)] = "t"
      /\ \A i \in DOMAIN q : q[i] = "t" => i = Blank(q)
  BY <1>1, BlankIs
<1> HIDE DEF v
<1>5. v >= Blank(q)
  <2> SUFFICES ASSUME v < Blank(q) PROVE FALSE
    BY <1>3, <1>4
  <2>1. v + 1 \in 1 .. Blank(q) /\ v < got[c]
    BY <1>2, <1>3, <1>4
  <2> QED
    BY <1>2, <1>3, <2>1
<1>6. HeaderLength(s) = Blank(q)
  <2>1. /\ Blank(q) \in DOMAIN s /\ s[Blank(q)] = "t"
        /\ \A i \in DOMAIN s : s[i] = "t" => i = Blank(q)
    BY <1>1, <1>2, <1>3, <1>4, <1>5
  <2>2. \A j \in 1 .. Blank(q) - 1 : s[j] # "t"
    <3> SUFFICES ASSUME NEW j \in 1 .. Blank(q) - 1 PROVE s[j] # "t"
      OBVIOUS
    <3> HIDE DEF q, s
    <3>1. j \in 1 .. v /\ j # Blank(q)
      BY <1>1, <1>3, <1>4, <1>5
    <3> QED
      BY <1>3, <2>1, <3>1
  <2> HIDE DEF q, s
  <2> QED
    BY <2>1, <2>2 DEF HeaderLength
<1>7. more[c] = 0 \/ v >= Blank(q) + more[c]
  BY <1>3, <1>6 DEF Enough
<1>8. Len(q) = IF Has(q, "n") THEN Blank(q) + BodyLen ELSE Blank(q)
  BY <1>1 DEF WellFormed
<1>9. Has(q, "n") => more[c] >= BodyLen
  BY DEF PInv, Known
<1>10. got[c] = Len(q) /\ v = Len(q)
  <2> HIDE DEF q, s
  <2> QED
    BY <1>1, <1>2, <1>3, <1>4, <1>5, <1>7, <1>8, <1>9
<1>11. ~Has(q, "z")
  BY <1>1, <1>3, <1>10 DEF Has
<1> QED
  BY <1>10, <1>11

\* A recv tells the truth about the request.
LEMMA RecvPInv ==
  ASSUME ~HeapReuse, OnlyMore, \A d \in Clients : WellFormed(Request[d]), PInv,
         NEW c \in Clients, Recv(c)
  PROVE Lengths' /\ Known' /\ WholeRequest'
<1>1. /\ TypeOK /\ Lengths /\ Known /\ WholeRequest /\ pc[c] = "recv"
      /\ UNCHANGED <<pc, sent>>
  BY DEF PInv, Recv, At
<1>2. PICK n \in Arrivals(c), tail \in Tails :
        LET s == Buffer(c, n, tail) IN
        IF CutLine(s)
          THEN crashed' = "memcpy" /\ UNCHANGED <<got, seen, more, timer>>
          ELSE /\ got' = [got EXCEPT ![c] = n]
               /\ seen' = [seen EXCEPT ![c] = Has(s, "t")]
               /\ \E k \in {BodyLen} \cup Misread :
                    more' = IF Has(s, "n") THEN [more EXCEPT ![c] = k] ELSE more
               /\ timer' = [timer EXCEPT ![c] = TRUE]
               /\ UNCHANGED crashed
  BY DEF Recv
<1> DEFINE q == Request[c]
           s == Buffer(c, n, tail)
<1>3. q \in Seq(Pieces) /\ WellFormed(q) /\ Len(q) \in Nat /\ DOMAIN q = 1 .. Len(q)
  BY RequestAssumption, LenProperties
<1>4. n \in 0 .. Len(q) /\ n <= sent[c]
  BY <1>1, <1>3 DEF Arrivals, TypeOK, Lengths
<1> DEFINE v == Visible(q, n)
<1>5. /\ v \in 0 .. n /\ Len(s) = v /\ DOMAIN s = 1 .. v
      /\ \A i \in 1 .. v : s[i] = q[i]
      /\ \A i \in 1 .. v : q[i] # "z"
  BY <1>4, BufferIs
<1>6. /\ Blank(q) \in 1 .. Len(q) /\ q[Blank(q)] = "t"
      /\ \A i \in DOMAIN q : q[i] = "t" => i = Blank(q)
      /\ \A i \in DOMAIN q : q[i] = "n" => i < Blank(q)
  BY <1>3, BlankIs
<1>7. Has(s, "t") => /\ n >= Blank(q) /\ (Has(q, "n") => Has(s, "n"))
                     /\ \A i \in 1 .. Blank(q) : q[i] # "z"
  <2> HIDE DEF q, s, v
  <2>1. Has(s, "t") => v >= Blank(q)
    BY <1>3, <1>4, <1>5, <1>6 DEF Has
  <2>2. v >= Blank(q) /\ Has(q, "n") => Has(s, "n")
    BY <1>3, <1>4, <1>5, <1>6 DEF Has
  <2>3. v >= Blank(q) => n >= Blank(q) /\ \A i \in 1 .. Blank(q) : q[i] # "z"
    BY <1>3, <1>4, <1>5, <1>6
  <2> QED
    BY <2>1, <2>2, <2>3
<1>8. CASE UNCHANGED <<got, seen, more>>
  BY <1>1, <1>8 DEF Lengths, Known, WholeRequest
<1>9. CASE /\ got' = [got EXCEPT ![c] = n]
           /\ seen' = [seen EXCEPT ![c] = Has(s, "t")]
           /\ \E k \in {BodyLen} \cup Misread :
                more' = IF Has(s, "n") THEN [more EXCEPT ![c] = k] ELSE more
  <2>1. /\ got'[c] = n /\ seen'[c] = Has(s, "t") /\ (Has(s, "n") => more'[c] >= BodyLen)
        /\ \A d \in Clients \ {c} : got'[d] = got[d] /\ seen'[d] = seen[d] /\ more'[d] = more[d]
    <3>1. \A k \in {BodyLen} \cup Misread : k >= BodyLen
      BY RequestAssumption DEF OnlyMore
    <3>2. PICK k \in {BodyLen} \cup Misread :
            more' = IF Has(s, "n") THEN [more EXCEPT ![c] = k] ELSE more
      BY <1>9
    <3> HIDE DEF s
    <3> QED
      BY <1>1, <1>9, <3>1, <3>2 DEF TypeOK
  <2> HIDE DEF s, v
  <2>2. Lengths'
    BY <1>1, <1>4, <2>1 DEF Lengths
  <2>3. Known'
    BY <1>1, <1>7, <2>1 DEF Known
  <2>4. WholeRequest'
    BY <1>1, <2>1 DEF WholeRequest
  <2> QED
    BY <2>2, <2>3, <2>4
<1> QED
  BY <1>2, <1>8, <1>9

\* Every step keeps what is known of the requests true.
LEMMA NextPInv ==
  ASSUME ~HeapReuse, OnlyMore, \A d \in Clients : WellFormed(Request[d])
  PROVE PInv /\ [Next]_vars => PInv'
<1> SUFFICES ASSUME PInv, [Next]_vars PROVE PInv'
  OBVIOUS
<1> USE DEF At, Goto
<1>1. TypeOK /\ Lengths /\ Known /\ WholeRequest
  BY DEF PInv
<1>2. TypeOK'
  BY <1>1, NextTypeOK
<1>3. \A c \in Clients : Len(Request[c]) \in Nat
  BY RequestAssumption, LenProperties
<1>4. CASE UNCHANGED vars
  BY <1>1, <1>2, <1>4 DEF vars, PInv, Lengths, Known, WholeRequest
<1>5. CASE Accept
  <2>1. Head(queue) \in Clients
    BY <1>1, <1>5, HeadTailProperties DEF Accept, TypeOK
  <2>2. \A d \in Clients : pc'[d] = pc[d] \/ pc'[d] \in {"recv", "leaked"}
    BY <1>1, <1>5, <2>1 DEF Accept, TypeOK
  <2> QED
    BY <1>1, <1>2, <1>5, <2>2 DEF Accept, PInv, Lengths, Known, WholeRequest
<1>6. ASSUME NEW c \in Clients, Connect(c) \/ HangUp(c) PROVE PInv'
  <2>1. \A d \in Clients : pc'[d] = pc[d] \/ pc'[d] = "queued"
    BY <1>1, <1>6 DEF Connect, HangUp, TypeOK
  <2> QED
    BY <1>1, <1>2, <1>6, <2>1 DEF Connect, HangUp, PInv, Lengths, Known, WholeRequest
<1>7. ASSUME NEW c \in Clients, Send(c) PROVE PInv'
  <2>1. Lengths'
    BY <1>1, <1>3, <1>7 DEF Send, TypeOK, Lengths
  <2> QED
    BY <1>1, <1>2, <1>7, <2>1 DEF Send, PInv, Known, WholeRequest
<1>8. ASSUME NEW c \in Clients, Recv(c) PROVE PInv'
  BY <1>2, <1>8, RecvPInv DEF PInv
<1>9. ASSUME NEW c \in Clients, HeaderDone(c) PROVE PInv'
  <2>1. PICK tail \in Tails : pc' = [pc EXCEPT ![c] = IF Enough(c, tail) THEN "call" ELSE "body"]
    BY <1>9 DEF HeaderDone
  <2>2. seen[c] /\ UNCHANGED <<got, sent, seen, more>>
    BY <1>9 DEF HeaderDone
  <2>3. Enough(c, tail) => got[c] = Len(Request[c]) /\ ~Has(Request[c], "z")
    BY <2>2, EnoughIsAll
  <2> QED
    BY <1>1, <1>2, <2>1, <2>2, <2>3 DEF TypeOK, PInv, Lengths, Known, WholeRequest
<1>10. ASSUME NEW c \in Clients, RecvBody(c) PROVE PInv'
  <2>1. PICK n \in Arrivals(c) : got' = [got EXCEPT ![c] = n]
    BY <1>10 DEF RecvBody
  <2>2. got'[c] = n /\ n > got[c] /\ n <= sent[c] /\ \A d \in Clients \ {c} : got'[d] = got[d]
    BY <1>1, <2>1 DEF TypeOK, Arrivals
  <2>3. Lengths'
    BY <1>1, <1>10, <2>2 DEF RecvBody, Lengths
  <2>4. Known'
    <3>1. seen[c] => Blank(Request[c]) \in Nat
      <4>1. Request[c] \in Seq(Pieces)
        BY RequestAssumption
      <4> QED
        BY <1>3, <4>1, BlankIs
    <3>2. got[c] \in Nat /\ n \in Nat
      BY <1>1, <2>1 DEF TypeOK, Arrivals
    <3>3. seen[c] => n >= Blank(Request[c])
      BY <1>1, <2>2, <3>1, <3>2 DEF Known
    <3> QED
      BY <1>1, <1>10, <2>2, <3>3 DEF RecvBody, Known
  <2>5. WholeRequest'
    BY <1>1, <1>10, <2>2 DEF RecvBody, WholeRequest
  <2> QED
    BY <1>2, <2>3, <2>4, <2>5 DEF PInv
<1>11. ASSUME NEW c \in Clients, BodyDone(c) PROVE PInv'
  <2>1. PICK tail \in Tails : Enough(c, tail)
    BY <1>11 DEF BodyDone
  <2>2. seen[c] /\ UNCHANGED <<got, sent, seen, more>> /\ pc' = [pc EXCEPT ![c] = "call"]
    BY <1>1, <1>11 DEF BodyDone, Known
  <2>3. got[c] = Len(Request[c]) /\ ~Has(Request[c], "z")
    BY <2>1, <2>2, EnoughIsAll
  <2> QED
    BY <1>1, <1>2, <2>2, <2>3 DEF TypeOK, PInv, Lengths, Known, WholeRequest
<1>12. ASSUME NEW c \in Clients, Callback(c) \/ Reply(c) PROVE PInv'
  <2>1. /\ pc[c] \in {"call", "send"} /\ UNCHANGED <<got, sent, seen, more>>
        /\ \A d \in Clients : pc'[d] = pc[d] \/ (d = c /\ pc'[d] \in {"send", "closed"})
    BY <1>1, <1>12 DEF Callback, Reply, TypeOK
  <2> QED
    BY <1>1, <1>2, <2>1 DEF PInv, Lengths, Known, WholeRequest
<1> QED
  BY <1>4, <1>5, <1>6, <1>7, <1>8, <1>9, <1>10, <1>11, <1>12 DEF Next, Worker

\* Nothing is known of a request before it arrives.
LEMMA InitPInv == Init => PInv
<1> SUFFICES ASSUME Init PROVE PInv
  OBVIOUS
<1>1. \A c \in Clients : Len(Request[c]) \in Nat
  BY RequestAssumption, LenProperties
<1> QED
  BY <1>1, InitTypeOK DEF Init, PInv, Lengths, Known, WholeRequest

\* The handler gets whole requests, for any number of connections, requests of any
\* length, any cuts of the stream and any hang-ups, and never one that a byte 0 cuts
\* short: if requests end where their header says, freed memory keeps its content and
\* digits behind the length only make it larger.
THEOREM HandlerGetsWhole ==
  ASSUME ~HeapReuse, OnlyMore, \A d \in Clients : WellFormed(Request[d])
  PROVE Spec => []WholeRequest
<1>1. Init => PInv
  BY InitPInv
<1>2. PInv => WholeRequest
  BY DEF PInv
<1> QED
  BY <1>1, <1>2, NextPInv, PTL DEF Spec

-----------------------------------------------------------------------------
(***************************************************************************)
(* Why a connection goes unanswered, in every state: the safety half of    *)
(* AnsweredOrExcused.                                                      *)
(***************************************************************************)

\* The process dies only on a Content-Length line that the network cut in two, or of
\* SIGPIPE in the answer to a client that sent its whole request and reset the
\* connection.  A connection that was closed has its own answer, unless the client
\* reset it or the request holds the fence of a long string, and one is left without a
\* thread only when there are MaxThreads.
Explained ==
  /\ crashed = "memcpy" => \E d \in Clients : \E n \in Arrivals(d) : CutLine(Buffer(d, n, <<>>))
  /\ crashed = "SIGPIPE" => \E d \in Clients : gone[d] = "reset" /\ got[d] = Len(Request[d])
  /\ \A c \in Clients : pc[c] = "closed" => answer[c] \in Returned(c) \/ gone[c] = "reset"
  /\ \A c \in Clients : pc[c] = "leaked" => threads = MaxThreads

\* recv reported only resets that happened, and an unsent response is the handler's
Grounds ==
  /\ \A c \in told : gone[c] = "reset"
  /\ \A c \in Clients : pc[c] = "send" => resp[c] \in Returned(c)

EInv == Explained /\ Grounds

\* what EInv says of one connection
Accounted(c) ==
  /\ pc[c] = "send" => resp[c] \in Returned(c)
  /\ pc[c] = "closed" => answer[c] \in Returned(c) \/ gone[c] = "reset"
  /\ pc[c] = "leaked" => threads = MaxThreads

\* As long as the process lives, a step may change these only one connection at a time.
LEMMA AliveExplained ==
  ASSUME EInv, TypeOK, TypeOK', Alive, crashed' = "no",
         \A c \in told' : gone'[c] = "reset",
         \A c \in Clients : Accounted(c)'
  PROVE  EInv'
BY DEF EInv, Explained, Grounds, Accounted

\* What the other connections are is not changed.
LEMMA KeptOf ==
  ASSUME EInv, NEW c \in Clients, pc'[c] = pc[c], resp'[c] = resp[c], answer'[c] = answer[c],
         gone[c] = "reset" => gone'[c] = "reset", threads = MaxThreads => threads' = MaxThreads
  PROVE  Accounted(c)'
BY DEF EInv, Explained, Grounds, Accounted

\* Every step keeps the explanations.
LEMMA NextExplained ==
  ASSUME ~HeapReuse, PInv, EInv, [Next]_vars
  PROVE  EInv'
<1>1. TypeOK /\ TypeOK' /\ WholeRequest /\ Lengths
  BY NextTypeOK DEF PInv
<1>2. \A c \in told : gone[c] = "reset"
  BY DEF EInv, Grounds
<1>3. CASE UNCHANGED vars
  <2>1. UNCHANGED <<pc, resp, answer, gone, threads, crashed, got, told, sent>>
    BY <1>3 DEF vars
  <2>2. \A d \in Clients : Arrivals(d)' = Arrivals(d)
    BY <2>1 DEF Arrivals
  <2> QED
    BY <2>1, <2>2 DEF EInv, Explained, Grounds
<1>4. CASE Accept
  <2>1. Alive /\ UNCHANGED <<gone, told, resp, answer, crashed>>
    BY <1>4 DEF Accept
  <2>2. Head(queue) \in Clients
    BY <1>1, <1>4, HeadTailProperties DEF Accept, TypeOK
  <2>3. MaxThreads \in Nat /\ threads \in 0 .. MaxThreads
    BY <1>1, SizeAssumption DEF TypeOK
  <2>4. threads = MaxThreads => threads' = MaxThreads
    BY <1>4, <2>3 DEF Accept
  <2>5. ASSUME NEW c \in Clients
        PROVE  pc'[c] = pc[c] \/ pc'[c] = "recv" \/ (pc'[c] = "leaked" /\ threads' = MaxThreads)
    <3>1. CASE threads < MaxThreads
      BY <1>1, <1>4, <2>2, <3>1 DEF Accept, Goto, TypeOK
    <3>2. CASE ~(threads < MaxThreads)
      <4>1. threads' = threads /\ threads = MaxThreads
        BY <1>4, <2>3, <3>2 DEF Accept
      <4> QED
        BY <1>1, <1>4, <2>2, <3>2, <4>1 DEF Accept, Goto, TypeOK
    <3> QED
      BY <3>1, <3>2
  <2>6. ASSUME NEW c \in Clients
        PROVE  Accounted(c)'
    <3>1. CASE pc'[c] = pc[c]
      BY <2>1, <2>4, <3>1, KeptOf
    <3>2. CASE pc'[c] # pc[c]
      BY <2>5, <3>2 DEF Accounted
    <3> QED
      BY <3>1, <3>2
  <2> QED
    BY <1>1, <1>2, <2>1, <2>6, AliveExplained DEF Alive
<1>5. ASSUME NEW c \in Clients, Connect(c) \/ Send(c) \/ HangUp(c) PROVE EInv'
  <2>1. Alive /\ UNCHANGED <<told, resp, answer, threads, crashed>>
    BY <1>5 DEF Connect, Send, HangUp, At
  <2>2. \A d \in Clients : gone[d] = "reset" => gone'[d] = "reset"
    BY <1>1, <1>5 DEF Connect, Send, HangUp, TypeOK
  <2>3. \A d \in Clients : pc'[d] = pc[d] \/ pc'[d] = "queued"
    BY <1>1, <1>5 DEF Connect, Send, HangUp, Goto, TypeOK
  <2>4. ASSUME NEW d \in Clients
        PROVE  Accounted(d)'
    <3>1. CASE pc'[d] = pc[d]
      BY <2>1, <2>2, <3>1, KeptOf
    <3> QED
      BY <2>3, <3>1 DEF Accounted
  <2>5. \A d \in told' : gone'[d] = "reset"
    BY <1>1, <1>2, <2>1, <2>2 DEF TypeOK
  <2> QED
    BY <1>1, <2>1, <2>4, <2>5, AliveExplained DEF Alive
<1>6. ASSUME NEW c \in Clients, Recv(c) PROVE EInv'
  <2>1. /\ Alive /\ UNCHANGED <<sent, gone, told, pc, resp, answer, threads>>
    BY <1>6 DEF Recv, At
  <2>2. PICK n \in Arrivals(c), tail \in Tails :
          IF CutLine(Buffer(c, n, tail))
            THEN crashed' = "memcpy" /\ UNCHANGED got
            ELSE UNCHANGED crashed
    BY <1>6 DEF Recv
  <2>3. CASE UNCHANGED crashed
    <3>1. ASSUME NEW d \in Clients
          PROVE  Accounted(d)'
      BY <2>1, KeptOf
    <3> QED
      BY <1>1, <1>2, <2>1, <2>3, <3>1, AliveExplained DEF Alive
  <2>4. CASE CutLine(Buffer(c, n, tail)) /\ crashed' = "memcpy" /\ UNCHANGED got
    <3>1. Len(Request[c]) \in Nat
      BY RequestAssumption, LenProperties
    <3>2. n \in 0 .. Len(Request[c])
      BY <1>1, <3>1 DEF Arrivals, TypeOK, Lengths
    <3>3. Buffer(c, n, tail) = Buffer(c, n, <<>>)
      BY <3>2, BufferIs
    <3>6. CutLine(Buffer(c, n, <<>>))
      BY <2>4, <3>3
    <3>7. n \in Arrivals(c)'
      BY <2>1, <2>4 DEF Arrivals
    <3>8. \E d \in Clients : \E m \in Arrivals(d)' : CutLine(Buffer(d, m, <<>>))
      BY <3>6, <3>7
    <3> QED
      BY <2>1, <2>4, <3>8 DEF EInv, Explained, Grounds
  <2> QED
    BY <2>2, <2>3, <2>4
<1>7. ASSUME NEW c \in Clients, HeaderDone(c) \/ BodyDone(c) \/ RecvBody(c) PROVE EInv'
  <2>1. Alive /\ UNCHANGED <<gone, resp, answer, threads, crashed>>
    BY <1>7 DEF HeaderDone, BodyDone, RecvBody, At
  <2>2. \A d \in Clients : pc'[d] = pc[d] \/ pc'[d] \in {"call", "body"}
    <3>1. CASE HeaderDone(c)
      BY <1>1, <3>1 DEF HeaderDone, Goto, TypeOK
    <3>2. CASE BodyDone(c)
      BY <1>1, <3>2 DEF BodyDone, Goto, TypeOK
    <3>3. CASE RecvBody(c)
      BY <3>3 DEF RecvBody
    <3> QED
      BY <1>7, <3>1, <3>2, <3>3
  <2>3. \A d \in told' : gone'[d] = "reset"
    BY <1>2, <1>7, <2>1 DEF HeaderDone, BodyDone, RecvBody, Hear
  <2>4. ASSUME NEW d \in Clients
        PROVE  Accounted(d)'
    <3>1. CASE pc'[d] = pc[d]
      BY <2>1, <3>1, KeptOf
    <3> QED
      BY <2>2, <3>1 DEF Accounted
  <2> QED
    BY <1>1, <2>1, <2>3, <2>4, AliveExplained DEF Alive
<1>8. ASSUME NEW c \in Clients, Callback(c) PROVE EInv'
  <2>1. Alive /\ UNCHANGED <<gone, told, answer, threads, crashed>>
    BY <1>8 DEF Callback, At
  <2>2. PICK own \in Returned(c) : resp' = [d \in Clients |-> IF d = c THEN own ELSE resp[d]]
    BY <1>8 DEF Callback
  <2>3. pc' = [pc EXCEPT ![c] = "send"]
    BY <1>8 DEF Callback, Goto
  <2>4. ASSUME NEW d \in Clients
        PROVE  Accounted(d)'
    <3>1. CASE d = c
      BY <1>1, <2>2, <2>3, <3>1 DEF TypeOK, Accounted
    <3>2. CASE d # c
      <4>1. pc'[d] = pc[d] /\ resp'[d] = resp[d]
        BY <1>1, <2>2, <2>3, <3>2 DEF TypeOK
      <4> QED
        BY <2>1, <4>1, KeptOf
    <3> QED
      BY <3>1, <3>2
  <2> QED
    BY <1>1, <1>2, <2>1, <2>4, AliveExplained DEF Alive
<1>9. ASSUME NEW c \in Clients, Reply(c) PROVE EInv'
  <2>1. Alive /\ pc[c] = "send" /\ UNCHANGED <<gone, told, got, resp, threads>>
    BY <1>9 DEF Reply, At
  <2>2. CASE c \in told
    <3>1. crashed' = "SIGPIPE" /\ UNCHANGED <<answer, pc>>
      BY <1>9, <2>2 DEF Reply
    <3>2. gone'[c] = "reset" /\ got'[c] = Len(Request[c])
      BY <1>1, <1>2, <2>1, <2>2 DEF WholeRequest
    <3> QED
      BY <2>1, <3>1, <3>2 DEF EInv, Explained, Grounds
  <2>3. CASE c \notin told
    <3>1. /\ answer' = IF gone[c] = "reset" THEN answer ELSE [answer EXCEPT ![c] = resp[c]]
          /\ pc' = [pc EXCEPT ![c] = "closed"] /\ UNCHANGED crashed
      BY <1>9, <2>3 DEF Reply, Goto
    <3>2. resp[c] \in Returned(c)
      BY <2>1 DEF EInv, Grounds
    <3>3. ASSUME NEW d \in Clients
          PROVE  Accounted(d)'
      <4>1. CASE d = c
        <5>1. pc'[d] = "closed" /\ (gone[c] # "reset" => answer'[d] = resp[c])
          BY <1>1, <3>1, <4>1 DEF TypeOK
        <5> QED
          BY <2>1, <3>2, <4>1, <5>1 DEF Accounted
      <4>2. CASE d # c
        <5>1. pc'[d] = pc[d] /\ answer'[d] = answer[d]
          BY <1>1, <3>1, <4>2 DEF TypeOK
        <5> QED
          BY <2>1, <5>1, KeptOf
      <4> QED
        BY <4>1, <4>2
    <3> QED
      BY <1>1, <1>2, <2>1, <3>1, <3>3, AliveExplained DEF Alive
  <2> QED
    BY <2>2, <2>3
<1> QED
  BY <1>3, <1>4, <1>5, <1>6, <1>7, <1>8, <1>9 DEF Next, Worker

\* Every death of the server and every missing answer has one of the named causes, for
\* any number of connections and threads, any cuts of the stream and any hang-ups, under
\* the conditions of HandlerGetsWhole.
THEOREM NothingUnexplained ==
  ASSUME ~HeapReuse, OnlyMore, \A d \in Clients : WellFormed(Request[d])
  PROVE  Spec => []Explained
<1>1. Init => PInv /\ EInv
  BY InitPInv DEF Init, EInv, Explained, Grounds
<1>2. PInv /\ EInv /\ [Next]_vars => (PInv /\ EInv)'
  BY NextPInv, NextExplained
<1>3. EInv => Explained
  BY DEF EInv
<1> QED
  BY <1>1, <1>2, <1>3, PTL DEF Spec

-----------------------------------------------------------------------------
(***************************************************************************)
(* parse-req, on texts of any length.                                      *)
(***************************************************************************)

\* o lists where s has the delimiter, between the ends of s
CutsAre(delim, s, m, o) ==
  /\ m \in Nat /\ o \in [0 .. m + 1 -> Nat] /\ o[0] = 0 /\ o[m + 1] = Len(s) + 1
  /\ \A j, k \in 0 .. m + 1 : j < k => o[j] < o[k]
  /\ \A i \in 1 .. Len(s) : s[i] = delim <=> \E k \in 1 .. m : i = o[k]

\* So many are as many.
LEMMA Counted ==
  ASSUME NEW k \in Nat, NEW f \in [1 .. k -> Nat], \A i, j \in 1 .. k : f[i] = f[j] => i = j
  PROVE  Cardinality({f[i] : i \in 1 .. k}) = k
<1> DEFINE T == {f[i] : i \in 1 .. k}
<1>1. f \in [1 .. k -> T]
  OBVIOUS
<1>2. \A t \in T : \E i \in 1 .. k : f[i] = t
  OBVIOUS
<1> HIDE DEF T
<1>3. f \in Bijection(1 .. k, T)
  BY <1>1, <1>2, Fun_IsBij
<1>4. ExistsBijection(1 .. k, T)
  BY <1>3 DEF ExistsBijection
<1>5. Cardinality(T) = k
  BY <1>4, FS_CountingElements
<1> QED
  BY <1>5 DEF T

\* string/split cuts at every delimiter, in order.
LEMMA SplitIs ==
  ASSUME NEW W, NEW s \in Seq(W), NEW delim, NEW m, NEW o, CutsAre(delim, s, m, o)
  PROVE  Split(delim, s) = [k \in 1 .. m + 1 |-> SubSeq(s, o[k - 1] + 1, o[k] - 1)]
<1> DEFINE C == Cuts(delim, s)
<1>1. m \in Nat /\ o \in [0 .. m + 1 -> Nat] /\ o[0] = 0 /\ o[m + 1] = Len(s) + 1 /\ Len(s) \in Nat
  BY LenProperties DEF CutsAre
<1>2. \A j, k \in 0 .. m + 1 : j < k => o[j] < o[k]
  BY DEF CutsAre
<1>3. \A j, k \in 0 .. m + 1 : o[j] <= o[k] => j <= k
  <2>1. \A j, k \in 0 .. m + 1 : j \in Int /\ k \in Int /\ o[j] \in Nat /\ o[k] \in Nat
    BY <1>1
  <2>2. \A x, y \in Int : ~(x <= y) => y < x
    OBVIOUS
  <2>3. \A x, y \in Nat : y < x => ~(x <= y)
    OBVIOUS
  <2> QED
    BY <1>2, <2>1, <2>2, <2>3
<1>4. \A k \in 1 .. m : k \in 0 .. m + 1 /\ o[k] \in 1 .. Len(s)
  <2>1. ASSUME NEW k \in 1 .. m
        PROVE  k \in 0 .. m + 1 /\ o[k] \in 1 .. Len(s)
    <3>1. k \in 0 .. m + 1 /\ 0 \in 0 .. m + 1 /\ m + 1 \in 0 .. m + 1 /\ 0 < k /\ k < m + 1
      BY <1>1
    <3>2. o[0] < o[k] /\ o[k] < o[m + 1] /\ o[k] \in Nat
      BY <1>1, <1>2, <3>1
    <3> QED
      BY <1>1, <3>1, <3>2
  <2> QED
    BY <2>1
<1>5. C = {o[k] : k \in 1 .. m}
  <2>1. DOMAIN s = 1 .. Len(s)
    BY LenProperties
  <2>2. \A i \in 1 .. Len(s) : s[i] = delim <=> \E k \in 1 .. m : i = o[k]
    BY DEF CutsAre
  <2> QED
    BY <1>4, <2>1, <2>2 DEF Cuts
<1> HIDE DEF C
<1>6. ASSUME NEW k \in 0 .. m
      PROVE  Cardinality({o[l] : l \in 1 .. k}) = k
  <2> DEFINE f == [l \in 1 .. k |-> o[l]]
  <2>1. k \in Nat /\ \A l \in 1 .. k : l \in 0 .. m + 1 /\ o[l] \in Nat
    BY <1>1
  <2>2. f \in [1 .. k -> Nat] /\ \A l \in 1 .. k : f[l] = o[l]
    BY <2>1
  <2>3. ASSUME NEW i \in 1 .. k, NEW j \in 1 .. k, o[i] = o[j]
        PROVE  i = j
    <3>1. i \in 0 .. m + 1 /\ j \in 0 .. m + 1 /\ o[i] \in Nat
      BY <2>1
    <3>2. o[i] <= o[j] /\ o[j] <= o[i]
      BY <2>3, <3>1
    <3>3. i <= j /\ j <= i
      BY <1>3, <3>1, <3>2
    <3> QED
      BY <3>3
  <2> HIDE DEF f
  <2>4. \A i, j \in 1 .. k : f[i] = f[j] => i = j
    BY <2>2, <2>3
  <2>5. Cardinality({f[i] : i \in 1 .. k}) = k
    BY <2>1, <2>2, <2>4, Counted
  <2>6. {f[i] : i \in 1 .. k} = {o[l] : l \in 1 .. k}
    BY <2>2
  <2> QED
    BY <2>5, <2>6
<1>7. Cardinality(C) = m
  <2>1. m \in 0 .. m
    BY <1>1
  <2> QED
    BY <1>5, <1>6, <2>1
<1>8. ASSUME NEW k \in 1 .. m
      PROVE  {j \in C : j <= o[k]} = {o[l] : l \in 1 .. k}
  <2>1. \A l \in 1 .. m : l \in 0 .. m + 1 /\ (o[l] <= o[k] => l \in 1 .. k)
    <3>1. ASSUME NEW l \in 1 .. m
          PROVE  l \in 0 .. m + 1 /\ (o[l] <= o[k] => l \in 1 .. k)
      <4>1. l \in 0 .. m + 1 /\ k \in 0 .. m + 1
        BY <1>1
      <4>2. o[l] <= o[k] => l <= k
        BY <1>3, <4>1
      <4> QED
        BY <4>1, <4>2
    <3> QED
      BY <3>1
  <2>2. \A l \in 1 .. k : l \in 1 .. m /\ o[l] <= o[k]
    <3>1. ASSUME NEW l \in 1 .. k
          PROVE  l \in 1 .. m /\ o[l] <= o[k]
      <4>1. l \in 0 .. m + 1 /\ k \in 0 .. m + 1 /\ l \in 1 .. m /\ (l = k \/ l < k)
        BY <1>1
      <4>2. l < k => o[l] < o[k]
        BY <1>2, <4>1
      <4>3. o[l] \in Nat /\ o[k] \in Nat
        BY <1>1, <4>1
      <4> QED
        BY <4>1, <4>2, <4>3
    <3> QED
      BY <3>1
  <2> QED
    BY <1>5, <2>1, <2>2
<1>9. ASSUME NEW k \in 1 .. m
      PROVE  CutAt(C, k) = o[k]
  <2>1. \A l \in 1 .. m : Cardinality({j \in C : j <= o[l]}) = l
    <3>1. \A l \in 1 .. m : l \in 0 .. m
      BY <1>1
    <3> QED
      BY <1>6, <1>8, <3>1
  <2>2. o[k] \in C /\ Cardinality({j \in C : j <= o[k]}) = k
    BY <1>5, <2>1
  <2>3. ASSUME NEW i \in C, Cardinality({j \in C : j <= i}) = k
        PROVE  i = o[k]
    <3>1. PICK l \in 1 .. m : i = o[l]
      BY <1>5
    <3>2. l = k
      BY <2>1, <2>3, <3>1
    <3> QED
      BY <3>1, <3>2
  <2> QED
    BY <2>2, <2>3 DEF CutAt
<1>10. ASSUME NEW k \in 1 .. m + 1
       PROVE  /\ (IF k = 1 THEN 1 ELSE CutAt(C, k - 1) + 1) = o[k - 1] + 1
              /\ (IF k > m THEN Len(s) ELSE CutAt(C, k) - 1) = o[k] - 1
  <2>1. (IF k = 1 THEN 1 ELSE CutAt(C, k - 1) + 1) = o[k - 1] + 1
    <3>1. CASE k = 1
      <4>1. k - 1 = 0 /\ 0 + 1 = 1
        BY <3>1
      <4> QED
        BY <1>1, <3>1, <4>1
    <3>2. CASE k # 1
      <4>1. k - 1 \in 1 .. m
        BY <1>1, <3>2
      <4>2. CutAt(C, k - 1) = o[k - 1]
        BY <1>9, <4>1
      <4> QED
        BY <3>2, <4>2
    <3> QED
      BY <3>1, <3>2
  <2>2. (IF k > m THEN Len(s) ELSE CutAt(C, k) - 1) = o[k] - 1
    <3>1. CASE k > m
      <4>1. k = m + 1 /\ Len(s) + 1 - 1 = Len(s)
        BY <1>1, <3>1
      <4> QED
        BY <1>1, <3>1, <4>1
    <3>2. CASE ~(k > m)
      <4>1. k \in 1 .. m
        BY <1>1, <3>2
      <4>2. CutAt(C, k) = o[k]
        BY <1>9, <4>1
      <4> QED
        BY <3>2, <4>2
    <3> QED
      BY <3>1, <3>2
  <2> QED
    BY <2>1, <2>2
<1> QED
  BY <1>7, <1>10 DEF Split, C

\* A part of a sequence, by its members.
LEMMA PartIs ==
  ASSUME NEW W, NEW s \in Seq(W), NEW x \in Seq(W), NEW i \in Nat, i + Len(x) <= Len(s),
         \A j \in 1 .. Len(x) : s[i + j] = x[j]
  PROVE  SubSeq(s, i + 1, i + Len(x)) = x
<1> DEFINE n == Len(x)  r == SubSeq(s, i + 1, i + n)
<1>1. n \in Nat /\ Len(s) \in Nat
  BY LenProperties
<1>2. \A k \in i + 1 .. i + n : s[k] \in W
  <2>1. \A k \in i + 1 .. i + n : k \in 1 .. Len(s)
    BY <1>1
  <2> QED
    BY <2>1, ElementOfSeq
<1> HIDE DEF n
<1> DEFINE p == i + 1  e == i + n
<1>3. p \in Int /\ e \in Int /\ \A k \in p .. e : s[k] \in W
  BY <1>1, <1>2
<1> HIDE DEF p, e
<1>3a. /\ SubSeq(s, p, e) \in Seq(W)
       /\ Len(SubSeq(s, p, e)) = IF p <= e THEN e - p + 1 ELSE 0
       /\ \A j \in 1 .. e - p + 1 : SubSeq(s, p, e)[j] = s[p + j - 1]
  BY <1>3, SubSeqProperties
<1>4. r = SubSeq(s, p, e)
  BY DEF p, e
<1> HIDE DEF r
<1>5. r \in Seq(W) /\ Len(r) = n
  <2>1. n \in Nat /\ (IF p <= e THEN e - p + 1 ELSE 0) = n
    BY <1>1 DEF p, e
  <2> QED
    BY <1>3a, <1>4, <2>1
<1>6. ASSUME NEW j \in 1 .. n
      PROVE  r[j] = x[j]
  <2>1. j \in 1 .. e - p + 1 /\ p + j - 1 = i + j
    BY <1>1 DEF p, e
  <2>2. r[j] = s[i + j]
    BY <1>3a, <1>4, <2>1
  <2> QED
    BY <2>2 DEF n
<1>7. r = x
  BY <1>5, <1>6, SeqEqual DEF n
<1> QED
  BY <1>7 DEF r, n

\* no piece of x is the delimiter
Free(delim, x) == \A i \in 1 .. Len(x) : x[i] # delim

\* The members of two texts with a delimiter between them.
LEMMA Between ==
  ASSUME NEW W, NEW a \in Seq(W), NEW b \in Seq(W), NEW d \in W
  PROVE  LET s == a \o <<d>> \o b
         IN /\ s \in Seq(W) /\ Len(a) \in Nat /\ Len(b) \in Nat /\ Len(s) = Len(a) + 1 + Len(b)
            /\ \A j \in 1 .. Len(a) : s[j] = a[j]
            /\ s[Len(a) + 1] = d
            /\ \A j \in 1 .. Len(b) : s[Len(a) + 1 + j] = b[j]
<1> DEFINE m == Len(a)  n == Len(b)  c == a \o <<d>>  s == c \o b
<1>1. m \in Nat /\ n \in Nat /\ <<d>> \in Seq(W) /\ Len(<<d>>) = 1 /\ <<d>>[1] = d
  BY LenProperties
<1>2. c \in Seq(W) /\ Len(c) = m + 1 /\ \A i \in 1 .. m + 1 : c[i] = IF i <= m THEN a[i] ELSE <<d>>[i - m]
  BY <1>1, ConcatProperties
<1> HIDE DEF c
<1>2a. c \in Seq(W)
  BY <1>2
<1>2b. c \o b \in Seq(W) /\ Len(c \o b) = Len(c) + n /\ \A i \in 1 .. Len(c) + n : (c \o b)[i] = IF i <= Len(c) THEN c[i] ELSE b[i - Len(c)]
  <2> HIDE DEF s, m, n
  <2>1. c \o b \in Seq(W) /\ Len(c \o b) = Len(c) + Len(b) /\ \A i \in 1 .. Len(c) + Len(b) : (c \o b)[i] = IF i <= Len(c) THEN c[i] ELSE b[i - Len(c)]
    BY <1>2a, ConcatProperties
  <2> QED
    BY <2>1 DEF n
<1>3. s \in Seq(W) /\ Len(s) = m + 1 + n /\ \A i \in 1 .. m + 1 + n : s[i] = IF i <= m + 1 THEN c[i] ELSE b[i - (m + 1)]
  BY <1>2, <1>2b
<1> HIDE DEF s, m, n
<1>4. ASSUME NEW j \in 1 .. m
      PROVE  s[j] = a[j]
  <2>1. j \in 1 .. m + 1 + n /\ j \in 1 .. m + 1 /\ j <= m + 1 /\ j <= m
    BY <1>1
  <2> QED
    BY <1>2, <1>3, <2>1
<1>5. s[m + 1] = d
  <2>1. m + 1 \in 1 .. m + 1 + n /\ m + 1 \in 1 .. m + 1 /\ m + 1 <= m + 1 /\ ~(m + 1 <= m) /\ (m + 1) - m = 1
    BY <1>1
  <2> QED
    BY <1>1, <1>2, <1>3, <2>1
<1>6. ASSUME NEW j \in 1 .. n
      PROVE  s[m + 1 + j] = b[j]
  <2>1. m + 1 + j \in 1 .. m + 1 + n /\ ~(m + 1 + j <= m + 1) /\ (m + 1 + j) - (m + 1) = j
    BY <1>1
  <2> QED
    BY <1>3, <2>1
<1> QED
  BY <1>1, <1>3, <1>4, <1>5, <1>6 DEF s, c, m, n

\* "name: value" is cut in two.
LEMMA SplitOne ==
  ASSUME NEW W, NEW d \in W, NEW a \in Seq(W), NEW b \in Seq(W), Free(d, a), Free(d, b)
  PROVE  LET r == Split(d, a \o <<d>> \o b)
         IN Len(r) = 2 /\ r[1] = a /\ r[2] = b
<1> DEFINE s == a \o <<d>> \o b  m == Len(a)  n == Len(b)
           o == [k \in 0 .. 2 |-> IF k = 0 THEN 0 ELSE IF k = 1 THEN m + 1 ELSE m + n + 2]
           r == Split(d, s)
<1>1. /\ s \in Seq(W) /\ m \in Nat /\ n \in Nat /\ Len(s) = m + 1 + n
      /\ \A j \in 1 .. m : s[j] = a[j]
      /\ s[m + 1] = d
      /\ \A j \in 1 .. n : s[m + 1 + j] = b[j]
  BY Between
<1>2. (\A i \in 1 .. m : a[i] # d) /\ (\A i \in 1 .. n : b[i] # d)
  BY DEF Free
<1> HIDE DEF s, m, n
<1>3. o[0] = 0 /\ o[1] = m + 1 /\ o[2] = m + n + 2 /\ o \in [0 .. 2 -> Nat]
  BY <1>1
<1> HIDE DEF o
<1>4. ASSUME NEW i \in 1 .. Len(s)
      PROVE  s[i] = d <=> i = m + 1
  <2>1. CASE i \in 1 .. m
    BY <1>1, <1>2, <2>1
  <2>2. CASE i = m + 1
    BY <1>1, <2>2
  <2>3. CASE i \notin 1 .. m /\ i # m + 1
    <3>1. i - (m + 1) \in 1 .. n /\ m + 1 + (i - (m + 1)) = i
      BY <1>1, <2>3
    <3>2. s[i] = b[i - (m + 1)]
      BY <1>1, <3>1
    <3> QED
      BY <1>2, <2>3, <3>1, <3>2
  <2> QED
    BY <2>1, <2>2, <2>3
<1>5. CutsAre(d, s, 1, o)
  <2>1. 1 \in Nat /\ 1 + 1 = 2 /\ o \in [0 .. 1 + 1 -> Nat] /\ o[0] = 0 /\ o[1 + 1] = Len(s) + 1
    BY <1>1, <1>3
  <2>2. \A j, k \in 0 .. 1 + 1 : j < k => o[j] < o[k]
    <3>1. \A j \in 0 .. 1 + 1 : j = 0 \/ j = 1 \/ j = 2
      OBVIOUS
    <3>2. 0 < m + 1 /\ 0 < m + n + 2 /\ m + 1 < m + n + 2
      BY <1>1
    <3> QED
      BY <1>3, <3>1, <3>2
  <2>3. \A i \in 1 .. Len(s) : s[i] = d <=> \E k \in 1 .. 1 : i = o[k]
    BY <1>3, <1>4
  <2> QED
    BY <2>1, <2>2, <2>3 DEF CutsAre
<1>5a. s \in Seq(W)
  BY <1>1
<1>6. Split(d, s) = [k \in 1 .. 1 + 1 |-> SubSeq(s, o[k - 1] + 1, o[k] - 1)]
  <2> DEFINE l == 1
  <2>1. CutsAre(d, s, l, o)
    BY <1>5
  <2> HIDE DEF l
  <2>2. Split(d, s) = [k \in 1 .. l + 1 |-> SubSeq(s, o[k - 1] + 1, o[k] - 1)]
    BY <1>5a, <2>1, SplitIs
  <2> QED
    BY <2>2 DEF l
<1>7. Len(r) = 2 /\ r[1] = SubSeq(s, o[0] + 1, o[1] - 1) /\ r[2] = SubSeq(s, o[1] + 1, o[2] - 1)
  <2>1. 1 \in 1 .. 1 + 1 /\ 2 \in 1 .. 1 + 1 /\ 1 - 1 = 0 /\ 2 - 1 = 1 /\ 1 .. 1 + 1 = 1 .. 2
    OBVIOUS
  <2>2. r[1] = SubSeq(s, o[1 - 1] + 1, o[1] - 1) /\ r[2] = SubSeq(s, o[2 - 1] + 1, o[2] - 1)
    BY <1>6, <2>1
  <2>3. DOMAIN r = 1 .. 2
    BY <1>6, <2>1
  <2>4. Len(r) = 2
    BY <1>6, <2>1
  <2> HIDE DEF r
  <2> QED
    BY <2>1, <2>2, <2>4
<1> HIDE DEF r
<1>8. r[1] = SubSeq(s, 0 + 1, 0 + m) /\ r[2] = SubSeq(s, (m + 1) + 1, (m + 1) + n)
  <2>1. o[0] + 1 = 0 + 1 /\ o[1] - 1 = 0 + m /\ o[1] + 1 = (m + 1) + 1 /\ o[2] - 1 = (m + 1) + n
    BY <1>1, <1>3
  <2> QED
    BY <1>7, <2>1
<1>9. SubSeq(s, 0 + 1, 0 + Len(a)) = a
  <2>1. 0 \in Nat /\ 0 + m <= Len(s) /\ \A j \in 1 .. m : 0 + j = j
    BY <1>1
  <2>2. \A j \in 1 .. Len(a) : s[0 + j] = a[j]
    BY <1>1, <2>1 DEF m
  <2> QED
    BY <1>1, <2>1, <2>2, PartIs DEF m
<1>10. SubSeq(s, (m + 1) + 1, (m + 1) + Len(b)) = b
  <2> DEFINE q == m + 1
  <2>1. q \in Nat /\ q + n <= Len(s)
    BY <1>1
  <2>2. \A j \in 1 .. Len(b) : s[q + j] = b[j]
    BY <1>1 DEF n
  <2> HIDE DEF q
  <2>3. SubSeq(s, q + 1, q + Len(b)) = b
    BY <1>1, <2>1, <2>2, PartIs DEF n
  <2> QED
    BY <2>3 DEF q
<1> QED
  BY <1>7, <1>8, <1>9, <1>10 DEF r, s, m, n

\* piece k of a text with the delimiter at o
Piece(s, o, k) == SubSeq(s, o[k - 1] + 1, o[k] - 1)

\* Pieces of texts are texts.
LEMMA PiecesAre ==
  ASSUME NEW W, NEW s \in Seq(W), NEW delim, NEW m, NEW o, CutsAre(delim, s, m, o)
  PROVE  \A k \in 1 .. m + 1 : Piece(s, o, k) \in Seq(W)
<1> SUFFICES ASSUME NEW k \in 1 .. m + 1
             PROVE  Piece(s, o, k) \in Seq(W)
  OBVIOUS
<1> DEFINE p == o[k - 1] + 1  e == o[k] - 1
<1>1. m \in Nat /\ o \in [0 .. m + 1 -> Nat] /\ o[m + 1] = Len(s) + 1 /\ Len(s) \in Nat
  BY LenProperties DEF CutsAre
<1>2. k - 1 \in 0 .. m + 1 /\ k \in 0 .. m + 1 /\ m + 1 \in 0 .. m + 1 /\ (k = m + 1 \/ k < m + 1)
  BY <1>1
<1>3. k < m + 1 => o[k] < o[m + 1]
  BY <1>2 DEF CutsAre
<1>4. o[k - 1] \in Nat /\ o[k] \in Nat /\ o[k] <= Len(s) + 1
  BY <1>1, <1>2, <1>3
<1>5. p \in Int /\ e \in Int /\ \A i \in p .. e : i \in 1 .. Len(s)
  BY <1>1, <1>4
<1> HIDE DEF p, e
<1>6. \A i \in p .. e : s[i] \in W
  BY <1>5, ElementOfSeq
<1>7. SubSeq(s, p, e) \in Seq(W)
  BY <1>5, <1>6, SubSeqProperties
<1> QED
  BY <1>7 DEF Piece, p, e

\* string/split gives the pieces in order.
LEMMA SplitPieces ==
  ASSUME NEW W, NEW s \in Seq(W), NEW delim, NEW m, NEW o, CutsAre(delim, s, m, o)
  PROVE  LET xs == Split(delim, s)
         IN /\ xs \in Seq(Seq(W)) /\ m \in Nat /\ Len(xs) = m + 1
            /\ \A k \in 1 .. m + 1 : xs[k] = Piece(s, o, k)
<1> DEFINE xs == Split(delim, s)  n == m + 1
<1>1. xs = [k \in 1 .. n |-> Piece(s, o, k)]
  BY SplitIs DEF Piece
<1>2. m \in Nat /\ n \in Nat
  BY DEF CutsAre
<1>3. \A k \in 1 .. n : Piece(s, o, k) \in Seq(W)
  BY PiecesAre
<1> HIDE DEF xs, n
<1>4. xs \in [1 .. n -> Seq(W)]
  BY <1>1, <1>3
<1>5. xs \in Seq(Seq(W)) /\ Len(xs) = n
  BY <1>2, <1>4, SeqDef
<1> QED
  BY <1>1, <1>2, <1>5 DEF xs, n

\* The header lines are the lines between the first one and the last two.
LEMMA HeaderLinesAre ==
  ASSUME NEW S, NEW xs \in Seq(S), NEW m \in Nat, m >= 1, Len(xs) = m + 1
  PROVE  LET hs == HeaderLines(xs)
         IN /\ DOMAIN hs = {k - 1 : k \in 2 .. m - 1}
            /\ \A k \in 2 .. m - 1 : hs[k - 1] = xs[k]
<1> DEFINE hs == HeaderLines(xs)  p == 2  e == Len(xs) - 2
<1>1. p \in Int /\ e \in Int /\ e = m - 1 /\ \A i \in p .. e : i \in 1 .. Len(xs)
  OBVIOUS
<1>2. hs = SubSeq(xs, p, e)
  BY DEF HeaderLines
<1>3. p = 2
  OBVIOUS
<1> HIDE DEF hs, p, e
<1>4. \A i \in p .. e : xs[i] \in S
  BY <1>1, ElementOfSeq
<1>5. /\ hs \in Seq(S) /\ Len(hs) = (IF p <= e THEN e - p + 1 ELSE 0)
      /\ \A i \in 1 .. e - p + 1 : hs[i] = xs[p + i - 1]
  BY <1>1, <1>2, <1>4, SubSeqProperties
<1>6. DOMAIN hs = 1 .. Len(hs)
  BY <1>5, LenProperties
<1>7. 1 .. Len(hs) = 1 .. m - 2
  BY <1>1, <1>3, <1>5
<1>8. 1 .. m - 2 = {k - 1 : k \in 2 .. m - 1}
  <2>1. \A i \in 1 .. m - 2 : i + 1 \in 2 .. m - 1 /\ i = (i + 1) - 1
    OBVIOUS
  <2>2. \A k \in 2 .. m - 1 : k - 1 \in 1 .. m - 2
    OBVIOUS
  <2> QED
    BY <2>1, <2>2
<1>9. ASSUME NEW k \in 2 .. m - 1
      PROVE  hs[k - 1] = xs[k]
  <2>1. k - 1 \in 1 .. e - p + 1 /\ p + (k - 1) - 1 = k
    BY <1>1, <1>3
  <2> QED
    BY <1>5, <2>1
<1> QED
  BY <1>6, <1>7, <1>8, <1>9 DEF hs

\* On every text with a line end, whatever it holds: parse-req takes the method and
\* the URL from between the first spaces of the first line; every line but the first and the last
\* two for a header, and nothing else; under a name in lower case the value of the last line that
\* has it, when it is a name, one ": " and a value; and for the body what follows the last line
\* end, which is the body when that has no line end inside.
THEOREM RequestsParsed ==
  ASSUME NEW W, Sep \in W, NEW s \in Seq(W), NEW m, NEW o, CutsAre(CRLF, s, m, o), m >= 1
  PROVE  LET r == ParseReq(s)
             line(k) == Piece(s, o, k)
         IN /\ r.body = SubSeq(s, o[m] + 1, Len(s))
            /\ \A n, q : CutsAre(Space, line(1), n, q) /\ n >= 1 =>
                 r.method = Piece(line(1), q, 1) /\ r.url = Piece(line(1), q, 2)
            /\ DOMAIN r.headers = {HeaderName(line(k)) : k \in 2 .. m - 1}
            /\ \A k \in 2 .. m - 1 : \A name, value \in Seq(W) :
                 /\ Free(Sep, name) /\ Free(Sep, value)
                 /\ line(k) = name \o <<Sep>> \o value
                 /\ \A l \in k + 1 .. m - 1 : HeaderName(line(l)) # LowerAll(name)
                 => /\ LowerAll(name) \in DOMAIN r.headers
                    /\ r.headers[LowerAll(name)] = value
<1> DEFINE r == ParseReq(s)  xs == Split(CRLF, s)  hs == HeaderLines(xs)
           line(k) == Piece(s, o, k)
<1>1. xs \in Seq(Seq(W)) /\ m \in Nat /\ Len(xs) = m + 1 /\ \A k \in 1 .. m + 1 : xs[k] = line(k)
  BY SplitPieces
<1>2. r = [headers |-> ParseReqHeaders(hs), method |-> ParseMethodUrl(xs[1]).method,
           url |-> ParseMethodUrl(xs[1]).url, body |-> LastOf(xs)]
  BY DEF ParseReq
<1>3. /\ r.headers = ParseReqHeaders(hs) /\ r.body = LastOf(xs)
      /\ r.method = ParseMethodUrl(xs[1]).method /\ r.url = ParseMethodUrl(xs[1]).url
  BY <1>2
<1> HIDE DEF r, xs, line
<1>4. DOMAIN hs = {k - 1 : k \in 2 .. m - 1} /\ \A k \in 2 .. m - 1 : hs[k - 1] = xs[k]
  BY <1>1, HeaderLinesAre
<1> HIDE DEF hs
<1>5. \A k \in 2 .. m - 1 : hs[k - 1] = line(k) /\ k - 1 \in DOMAIN hs
  <2>1. \A k \in 2 .. m - 1 : k \in 1 .. m + 1
    BY <1>1
  <2> QED
    BY <1>1, <1>4, <2>1
<1>6. r.body = SubSeq(s, o[m] + 1, Len(s))
  <2>1. m + 1 \in 1 .. m + 1 /\ (m + 1) - 1 = m
    BY <1>1
  <2>2. o[m + 1] = Len(s) + 1 /\ Len(s) + 1 - 1 = Len(s)
    <3>1. Len(s) \in Nat
      BY LenProperties
    <3> QED
      BY <3>1 DEF CutsAre
  <2>3. LastOf(xs) = Piece(s, o, m + 1)
    BY <1>1, <2>1 DEF LastOf, line
  <2>4. Piece(s, o, m + 1) = SubSeq(s, o[(m + 1) - 1] + 1, o[m + 1] - 1)
    BY DEF Piece
  <2>5. o[(m + 1) - 1] + 1 = o[m] + 1 /\ o[m + 1] - 1 = Len(s)
    BY <2>1, <2>2
  <2>6. Piece(s, o, m + 1) = SubSeq(s, o[m] + 1, Len(s))
    BY <2>4, <2>5
  <2> QED
    BY <1>3, <2>3, <2>6
<1>7. ASSUME NEW n, NEW q, CutsAre(Space, line(1), n, q), n >= 1
      PROVE  r.method = Piece(line(1), q, 1) /\ r.url = Piece(line(1), q, 2)
  <2> DEFINE ys == Split(Space, line(1))
  <2>1. 1 \in 1 .. m + 1
    BY <1>1
  <2>2. line(1) \in Seq(W) /\ xs[1] = line(1)
    BY <1>1, <2>1, ElementOfSeq
  <2>3. ys \in Seq(Seq(W)) /\ n \in Nat /\ Len(ys) = n + 1 /\ \A k \in 1 .. n + 1 : ys[k] = Piece(line(1), q, k)
    BY <1>7, <2>2, SplitPieces
  <2>4. ParseMethodUrl(xs[1]) = [method |-> ys[1], url |-> IF Len(ys) > 1 THEN ys[2] ELSE <<>>]
    BY <2>2 DEF ParseMethodUrl
  <2> HIDE DEF ys
  <2>5. Len(ys) > 1 /\ 1 \in 1 .. n + 1 /\ 2 \in 1 .. n + 1
    BY <1>7, <2>3
  <2>6. ParseMethodUrl(xs[1]).method = ys[1] /\ ParseMethodUrl(xs[1]).url = ys[2]
    BY <2>4, <2>5
  <2> QED
    BY <1>3, <2>3, <2>5, <2>6
<1>8. DOMAIN r.headers = {HeaderName(line(k)) : k \in 2 .. m - 1}
  <2>1. DOMAIN r.headers = {HeaderName(hs[i]) : i \in DOMAIN hs}
    BY <1>3 DEF ParseReqHeaders
  <2> QED
    BY <1>4, <1>5, <2>1
<1>9. ASSUME NEW k \in 2 .. m - 1, NEW name \in Seq(W), NEW value \in Seq(W),
             Free(Sep, name), Free(Sep, value), line(k) = name \o <<Sep>> \o value,
             \A l \in k + 1 .. m - 1 : HeaderName(line(l)) # LowerAll(name)
      PROVE  LowerAll(name) \in DOMAIN r.headers /\ r.headers[LowerAll(name)] = value
  <2> DEFINE K == LowerAll(name)  at == {i \in DOMAIN hs : HeaderName(hs[i]) = K}
             last == CHOOSE i \in at : \A j \in at : j <= i
  <2>1. Len(Split(Sep, line(k))) = 2 /\ Split(Sep, line(k))[1] = name /\ Split(Sep, line(k))[2] = value
    BY <1>9, SplitOne
  <2>2. HeaderName(line(k)) = K
    BY <2>1 DEF HeaderName
  <2> HIDE DEF K
  <2>3. K \in DOMAIN r.headers
    BY <1>8, <2>2
  <2>4. r.headers[K] = LastOf(Split(Sep, hs[last]))
    <3>1. K \in {HeaderName(hs[i]) : i \in DOMAIN hs}
      BY <1>5, <2>2
    <3> QED
      BY <1>3, <3>1 DEF ParseReqHeaders
  <2>5. k - 1 \in at
    BY <1>5, <2>2
  <2>6. ASSUME NEW j \in at
        PROVE  j <= k - 1 /\ j \in Int
    <3>1. PICK l \in 2 .. m - 1 : j = l - 1
      BY <1>4
    <3>2. HeaderName(line(l)) = K
      BY <1>5, <3>1
    <3>3. l \notin k + 1 .. m - 1
      BY <1>9, <3>2 DEF K
    <3> QED
      BY <1>1, <3>1, <3>3
  <2> HIDE DEF at
  <2>7. last = k - 1
    <3>1. k - 1 \in Int /\ \A j \in at : j <= k - 1
      BY <2>6
    <3>2. ASSUME NEW i \in at, \A j \in at : j <= i
          PROVE  i = k - 1
      <4>1. i <= k - 1 /\ k - 1 <= i /\ i \in Int
        BY <2>5, <2>6, <3>2
      <4> QED
        BY <3>1, <4>1
    <3> QED
      BY <2>5, <3>1, <3>2
  <2>8. LastOf(Split(Sep, line(k))) = value
    BY <2>1 DEF LastOf
  <2>9. r.headers[K] = value
    BY <1>5, <2>4, <2>7, <2>8
  <2> QED
    BY <2>3, <2>9 DEF K
<1> QED
  BY <1>6, <1>7, <1>8, <1>9 DEF r, line
=============================================================================
