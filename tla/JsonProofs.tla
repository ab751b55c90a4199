------------------------------ MODULE JsonProofs ----------------------------
(***************************************************************************)
(* Three results about json/encode and json/decode, for any value, buffer, *)
(* text and nesting.                                                       *)
(*                                                                         *)
(* Encode never touches what the caller's buffer held.  Closing a          *)
(* container is the one step that takes a byte back.  It is the encoder's  *)
(* own because a container that is still to be closed was opened behind    *)
(* the caller's text: that is Ours, and it makes the property inductive.   *)
(*                                                                         *)
(* Decode returns only what the grammar gives the text as its meaning.     *)
(* The invariant cuts what was read at marks q: between two of them is the *)
(* text of one open container, which derives what its frame on the stack   *)
(* holds, and behind the last mark the text of the value just returned.    *)
(*                                                                         *)
(* The strings that come back from encode and decode are exactly the ones  *)
(* the UTF-8 reference of JsonText names.  The walks over a string are     *)
(* recursive functions; the induction runs from the end of the string,     *)
(* over the set of distances for which the claim holds (AllNumbers).       *)
(***************************************************************************)
EXTENDS Json, Integers, TLAPS, FiniteSetTheorems, SequenceTheorems, WellFoundedInduction

\* an item of work
Item == [do : {"value", "key", "token", "close"}, x : Janet \cup {Nil},
         k : {"", ",", ":", "]", "}"}]

\* q is g with something behind it
Behind(g, q) ==
  /\ \E T : q \in Seq(T) /\ g \in Seq(T)
  /\ Len(g) <= Len(q)
  /\ \A i \in 1 .. Len(g) : q[i] = g[i]

Closes(w) == \E i \in 1 .. Len(w) : w[i].do = "close"

\* what the encoder has to close it has opened
Ours == Closes(work) => Len(text) > Len(given)

KInv ==
  /\ value \in Janet \cup {Nil}
  /\ source = "none" => work \in Seq(Item) /\ Behind(given, text) /\ Ours

-----------------------------------------------------------------------------
\* A token is written behind the caller's text.
LEMMA Written ==
  ASSUME NEW g, NEW q, Behind(g, q), NEW x
  PROVE  /\ Behind(g, Append(q, x))
         /\ Len(Append(q, x)) > Len(g)
         /\ Len(g) \in Nat /\ Len(q) \in Nat
<1>1. PICK T : q \in Seq(T) /\ g \in Seq(T)
  BY DEF Behind
<1> DEFINE U == T \cup {x}
<1>2. q \in Seq(U) /\ g \in Seq(U) /\ x \in U
  <2>1. T \subseteq U
    OBVIOUS
  <2> HIDE DEF U
  <2>2. q \in Seq(U)
    BY <1>1, <2>1, SeqMonotonic
  <2>3. g \in Seq(U)
    BY <1>1, <2>1, SeqMonotonic
  <2>4. x \in U
    BY DEF U
  <2> QED
    BY <2>2, <2>3, <2>4
<1> HIDE DEF U
<1> DEFINE a == Append(q, x)
<1>3. a \in Seq(U) /\ Len(a) = Len(q) + 1 /\ \A i \in 1 .. Len(q) : a[i] = q[i]
  BY <1>2, AppendProperties
<1>4. Len(q) \in Nat /\ Len(g) \in Nat /\ Len(g) <= Len(q) /\ \A i \in 1 .. Len(g) : q[i] = g[i]
  BY <1>1 DEF Behind
<1> HIDE DEF a
<1>5. Len(a) > Len(g) /\ \A i \in 1 .. Len(g) : a[i] = g[i]
  BY <1>3, <1>4
<1>6. Behind(g, a)
  BY <1>2, <1>3, <1>4, <1>5 DEF Behind
<1> QED
  BY <1>4, <1>5, <1>6 DEF a

\* The last token of a text that goes on behind the caller's can be taken back.
LEMMA TakenBack ==
  ASSUME NEW g, NEW q, Behind(g, q), Len(q) > Len(g)
  PROVE  Behind(g, SubSeq(q, 1, Len(q) - 1))
<1> DEFINE b == SubSeq(q, 1, Len(q) - 1)
<1>1. PICK T : q \in Seq(T) /\ g \in Seq(T)
  BY DEF Behind
<1>2. Len(q) \in Nat /\ Len(g) \in Nat /\ \A i \in 1 .. Len(g) : q[i] = g[i]
  BY <1>1 DEF Behind
<1>3. \A i \in 1 .. Len(q) - 1 : q[i] \in T
  BY <1>1, <1>2
<1>4. b \in Seq(T) /\ Len(b) = Len(q) - 1 /\ \A i \in 1 .. Len(q) - 1 : b[i] = q[i]
  <2>1. 1 \in Int /\ Len(q) - 1 \in Int
    BY <1>2
  <2>2. /\ b \in Seq(T)
        /\ Len(b) = IF 1 <= Len(q) - 1 THEN Len(q) - 1 - 1 + 1 ELSE 0
        /\ \A i \in 1 .. (Len(q) - 1) - 1 + 1 : b[i] = q[1 + i - 1]
    BY <1>3, <2>1, SubSeqProperties
  <2> HIDE DEF b
  <2>3. Len(b) = Len(q) - 1
    <3>1. ASSUME NEW m \in Nat, NEW n \in Nat, m > n
          PROVE  (IF 1 <= m - 1 THEN m - 1 - 1 + 1 ELSE 0) = m - 1
      BY <3>1
    <3> QED
      BY <1>2, <2>2, <3>1
  <2>4. ASSUME NEW i \in 1 .. Len(q) - 1
        PROVE  b[i] = q[i]
    <3>1. i \in 1 .. (Len(q) - 1) - 1 + 1 /\ 1 + i - 1 = i
      BY <1>2
    <3>2. b[i] = q[1 + i - 1]
      BY <2>2, <3>1
    <3> QED
      BY <3>1, <3>2
  <2> QED
    BY <2>2, <2>3, <2>4
<1> HIDE DEF b
<1>5. Len(g) <= Len(b) /\ \A i \in 1 .. Len(g) : b[i] = g[i]
  BY <1>2, <1>4
<1>6. Behind(g, b)
  BY <1>1, <1>4, <1>5 DEF Behind
<1> QED
  BY <1>6 DEF b

\* A function on the first numbers is a sequence.
LEMMA AsSequence ==
  ASSUME NEW S, NEW n \in Nat, NEW f \in [1 .. n -> S]
  PROVE  f \in Seq(S)
OBVIOUS

\* The work for a container: its items or entries, the bracket, and what was there.
LEMMA ContainerWork ==
  ASSUME NEW v \in Janet, NEW w \in Seq(Item)
  PROVE  /\ ItemWork(v.arr) \o <<Close("]")>> \o w \in Seq(Item)
         /\ \A o \in Orders(v.tab) : EntryWork(o) \o <<Close("}")>> \o w \in Seq(Item)
<1>1. ASSUME NEW x \in Janet
      PROVE  Write(x) \in Item /\ WriteKey(x) \in Item
  BY DEF Write, WriteKey, Item
<1>2. Put(",") \in Item /\ Put(":") \in Item /\ Close("]") \in Item /\ Close("}") \in Item
  BY DEF Put, Close, Item
<1>3. ItemWork(v.arr) \in Seq(Item)
  <2> DEFINE a == v.arr
  <2>1. a \in Seq(Janet) /\ Len(a) \in Nat
    BY ValueAssumption
  <2> HIDE DEF a
  <2>2. ASSUME NEW i \in 1 .. 2 * Len(a)
        PROVE  (IF i % 2 = 1 THEN Write(a[(i + 1) \div 2]) ELSE Put(",")) \in Item
    <3>1. (i + 1) \div 2 \in 1 .. Len(a)
      BY <2>1
    <3>2. a[(i + 1) \div 2] \in Janet
      BY <2>1, <3>1, ElementOfSeq
    <3> QED
      BY <1>1, <1>2, <3>2
  <2>3. ItemWork(a) \in [1 .. 2 * Len(a) -> Item]
    BY <2>2 DEF ItemWork
  <2>4. 2 * Len(a) \in Nat
    BY <2>1
  <2>5. ItemWork(a) \in Seq(Item)
    BY <2>3, <2>4, AsSequence
  <2> QED
    BY <2>5 DEF a
<1>4. ASSUME NEW o \in Orders(v.tab)
      PROVE  EntryWork(o) \in Seq(Item)
  <2> DEFINE n == Cardinality(v.tab)
  <2>1. n \in Nat
    BY ValueAssumption, FS_CardinalityType
  <2>2. o \in [1 .. n -> v.tab]
    BY DEF Orders
  <2> HIDE DEF n
  <2>3. Len(o) = n
    BY <2>1, <2>2
  <2>4. ASSUME NEW i \in 1 .. 4 * n
        PROVE  LET entry == o[(i + 3) \div 4]
               IN (CASE i % 4 = 1 -> WriteKey(entry[1])
                     [] i % 4 = 2 -> Put(":")
                     [] i % 4 = 3 -> Write(entry[2])
                     [] i % 4 = 0 -> Put(",")) \in Item
    <3> DEFINE entry == o[(i + 3) \div 4]
    <3>1. (i + 3) \div 4 \in 1 .. n /\ i % 4 \in 0 .. 3
      BY <2>1
    <3>2. entry \in Janet \X Janet
      BY <2>2, <3>1, ValueAssumption
    <3>3. entry[1] \in Janet /\ entry[2] \in Janet
      BY <3>2
    <3> HIDE DEF entry
    <3>4. WriteKey(entry[1]) \in Item /\ Write(entry[2]) \in Item
      BY <1>1, <3>3
    <3>5. ASSUME NEW y, NEW a \in Item, NEW c \in Item, NEW d \in Item, NEW e \in Item,
                 NEW r \in 0 .. 3,
                 y = CASE r = 1 -> a [] r = 2 -> c [] r = 3 -> d [] r = 0 -> e
          PROVE  y \in Item
      <4>1. r = 0 \/ r = 1 \/ r = 2 \/ r = 3
        OBVIOUS
      <4>2. r = 0 => y = e
        BY <3>5
      <4>3. r = 1 => y = a
        BY <3>5
      <4>4. r = 2 => y = c
        BY <3>5
      <4>5. r = 3 => y = d
        BY <3>5
      <4> QED
        BY <4>1, <4>2, <4>3, <4>4, <4>5
    <3> QED
      BY <1>2, <3>1, <3>4, <3>5 DEF entry
  <2>5. EntryWork(o) \in [1 .. 4 * n -> Item]
    BY <2>3, <2>4 DEF EntryWork
  <2>6. 4 * n \in Nat
    BY <2>1
  <2> QED
    BY <2>5, <2>6, AsSequence
<1>5. ASSUME NEW s \in Seq(Item), NEW c \in Item
      PROVE  s \o <<c>> \o w \in Seq(Item)
  <2>1. <<c>> \in Seq(Item)
    OBVIOUS
  <2>2. s \o <<c>> \in Seq(Item)
    BY <2>1, ConcatProperties
  <2> QED
    BY <2>2, ConcatProperties
<1> QED
  BY <1>2, <1>3, <1>4, <1>5

\* What a step of the encoder does to the text and to the work.
LEMMA Steps ==
  ASSUME work \in Seq(Item), value \in Janet \cup {Nil}, EncodeStep
  PROVE  /\ work # <<>> /\ Head(work) \in Item /\ Tail(work) \in Seq(Item)
         /\ \/ text' = text /\ work' = work
            \/ (\E tok : text' = Append(text, tok)) /\ work' \in {work, Tail(work)}
            \/ (\E tok : text' = Append(text, tok)) /\ work' \in Seq(Item)
            \/ Head(work).do = "close" /\ CloseContainer
<1> DEFINE w == Head(work)
<1>1. work # <<>> /\ w \in Item /\ Tail(work) \in Seq(Item)
  <2>1. work # <<>>
    BY DEF EncodeStep
  <2> QED
    BY <2>1, HeadTailProperties
<1>2. w.do \in {"value", "key", "token", "close"} /\ w.x \in Janet \cup {Nil}
  BY <1>1 DEF Item
<1>3. CASE w.do = "close"
  BY <1>1, <1>3 DEF EncodeStep
<1>4. CASE w.do = "token"
  BY <1>1, <1>4 DEF EncodeStep
<1>5. ASSUME NEW s, EncodeBytes(s)
      PROVE  (\E tok : text' = Append(text, tok)) /\ work' \in {work, Tail(work)}
  <2>1. \E tok : text' = Append(text, tok)
    BY <1>5 DEF EncodeBytes
  <2>2. work' \in {work, Tail(work)}
    BY <1>5 DEF EncodeBytes, EncodeError
  <2> QED
    BY <2>1, <2>2
<1> DEFINE Wrote ==
      \/ text' = text /\ work' = work
      \/ (\E tok : text' = Append(text, tok)) /\ work' \in {work, Tail(work)}
      \/ (\E tok : text' = Append(text, tok)) /\ work' \in Seq(Item)
<1>6. ASSUME NEW x \in Janet \cup {Nil}, EncodeValue(x)
      PROVE  Wrote
  <2>1. CASE x.t \in {"str", "kw"}
    <3>1. EncodeBytes(x.s)
      BY <1>6, <2>1 DEF EncodeValue, Numbers
    <3> QED
      BY <1>5, <3>1
  <2>2. CASE x.t \in {"true", "false", "nil"} \cup Numbers
    <3>1. x.t \notin {"str", "kw"}
      BY <2>2 DEF Numbers
    <3>2. text' = Append(text, Token(IF x.t = "nil" THEN "null" ELSE x.t)) /\ work' = Tail(work)
      BY <1>6, <2>2, <3>1 DEF EncodeValue, Numbers
    <3> QED
      BY <3>2
  <2>3. CASE x.t \in {"arr", "tab"}
    <3>1. x \in Janet
      BY <2>3 DEF Nil, Val
    <3>2. /\ \E tok : text' = Append(text, tok)
          /\ \/ work' = ItemWork(x.arr) \o <<Close("]")>> \o Tail(work)
             \/ \E o \in Orders(x.tab) : work' = EntryWork(o) \o <<Close("}")>> \o Tail(work)
      BY <1>6, <2>3 DEF EncodeValue, Numbers
    <3> QED
      BY <1>1, <3>1, <3>2, ContainerWork
  <2>4. CASE x.t \notin {"str", "kw", "true", "false", "nil", "arr", "tab"} \cup Numbers
    BY <1>6, <2>4 DEF EncodeValue, EncodeError
  <2> QED
    BY <2>1, <2>2, <2>3, <2>4
<1>7. CASE w.do \in {"value", "key"}
  <2>1. \/ EncodeOne(w.x)
        \/ EncodeError("object key must be a byte sequence") /\ UNCHANGED text
    BY <1>7 DEF EncodeStep
  <2>2. \/ \E x \in Janet \cup {Nil} : EncodeValue(x)
        \/ text' = text /\ work' = work
    BY <1>2, <2>1 DEF EncodeOne, EncodeError
  <2>3. Wrote
    BY <1>6, <2>2
  <2> QED
    BY <1>1, <2>3
<1> QED
  BY <1>2, <1>3, <1>4, <1>7

\* A step of the encoder keeps the caller's text.
LEMMA EncodeStepKeeps ==
  ASSUME work \in Seq(Item), value \in Janet \cup {Nil}, Behind(given, text), Ours, EncodeStep
  PROVE  work' \in Seq(Item) /\ Behind(given, text') /\ (Closes(work') => Len(text') > Len(given))
<1>1. Closes(Tail(work)) => Closes(work)
  <2>1. work # <<>> /\ work \in Seq(Item)
    BY Steps
  <2>2. Len(Tail(work)) = Len(work) - 1 /\ \A i \in 1 .. Len(Tail(work)) : Tail(work)[i] = work[i + 1]
    BY <2>1
  <2>3. \A i \in 1 .. Len(Tail(work)) : i + 1 \in 1 .. Len(work)
    BY <2>1, <2>2
  <2> QED
    BY <2>2, <2>3 DEF Closes
<1>2. CASE text' = text /\ work' = work
  BY <1>2 DEF Ours
<1>3. ASSUME NEW tok, text' = Append(text, tok)
      PROVE  Behind(given, text') /\ Len(text') > Len(given)
  BY <1>3, Written
<1>4. CASE (\E tok : text' = Append(text, tok)) /\ work' \in {work, Tail(work)}
  BY <1>3, <1>4, Steps
<1>5. CASE (\E tok : text' = Append(text, tok)) /\ work' \in Seq(Item)
  BY <1>3, <1>5
<1>6. CASE Head(work).do = "close" /\ CloseContainer
  <2>1. Closes(work)
    <3>1. work \in Seq(Item) /\ work # <<>>
      BY Steps
    <3>2. 1 \in 1 .. Len(work) /\ Head(work) = work[1]
      BY <3>1
    <3> QED
      BY <1>6, <3>2 DEF Closes
  <2>2. Len(text) > Len(given)
    BY <2>1 DEF Ours
  <2> DEFINE b == IF text[Len(text)].k = "," THEN SubSeq(text, 1, Len(text) - 1) ELSE text
             x == Token(Head(work).k)
  <2>3. text' = Append(b, x) /\ work' = Tail(work)
    BY <1>6 DEF CloseContainer
  <2>4. Behind(given, b)
    BY <2>2, TakenBack
  <2> HIDE DEF b, x
  <2>5. Behind(given, text') /\ Len(text') > Len(given)
    BY <2>3, <2>4, Written
  <2> QED
    BY <2>3, <2>5, Steps
<1> QED
  BY <1>2, <1>4, <1>5, <1>6, Steps

-----------------------------------------------------------------------------
\* Every step keeps the invariant.
LEMMA KeepsK ==
  ASSUME KInv, [Next]_vars
  PROVE  KInv'
<1>1. ASSUME NEW v \in Values, NEW b \in Buffers, Encode(v, b)
      PROVE  KInv'
  <2>1. text' = b /\ given' = b /\ work' = <<Write(v)>> /\ value' = v /\ v \in Janet
    BY <1>1, ValueAssumption DEF Encode
  <2>2. Write(v) \in Item /\ Write(v).do = "value"
    BY ValueAssumption DEF Write, Item
  <2>3. work' \in Seq(Item)
    BY <2>1, <2>2
  <2>4. ~Closes(work')
    BY <2>1, <2>2 DEF Closes
  <2>5. \E T : b \in Seq(T)
    BY BufferAssumption
  <2>6. Len(b) <= Len(b)
    <3>1. Len(b) \in Nat
      BY <2>5
    <3> QED
      BY <3>1
  <2>7. Behind(given', text')
    BY <2>1, <2>5, <2>6 DEF Behind
  <2>8. Closes(work')  => Len(text') > Len(given')
    BY <2>4
  <2> QED
    BY <2>1, <2>3, <2>7, <2>8 DEF KInv, Ours, Closes
<1>2. CASE EncodeStep
  <2>1. given' = given /\ source' = source /\ value' = value
    BY <1>2 DEF EncodeStep
  <2>2. SUFFICES ASSUME source = "none"
                 PROVE  work' \in Seq(Item) /\ Behind(given', text') /\ Ours'
    BY <2>1 DEF KInv, Behind
  <2>3. work' \in Seq(Item) /\ Behind(given, text') /\ (Closes(work') => Len(text') > Len(given))
    BY <1>2, <2>2, EncodeStepKeeps DEF KInv
  <2> QED
    BY <2>1, <2>3 DEF Ours, Closes
<1>3. CASE UNCHANGED <<encoding, text, source>>
  BY <1>3 DEF KInv, Ours, Closes, Behind, encoding
<1>4. CASE DecodeOwn \/ DecodeForeign
  <2>1. source' # "none" /\ value' = value
    BY <1>4 DEF DecodeOwn, DecodeForeign, Decode, encoding
  <2> QED
    BY <2>1 DEF KInv
<1>5. CASE EncodeEnds \/ DecodeOne \/ DecodeLoop \/ DecodeReturn \/ UNCHANGED vars
  <2>1. EncodeEnds => UNCHANGED <<encoding, text, source>>
    BY DEF EncodeEnds
  <2>2. DecodeOne => UNCHANGED <<encoding, text, source>>
    BY DEF DecodeOne
  <2>3. DecodeLoop => UNCHANGED <<encoding, text, source>>
    BY DEF DecodeLoop
  <2>4. DecodeReturn => UNCHANGED <<encoding, text, source>>
    BY DEF DecodeReturn
  <2>5. UNCHANGED vars => UNCHANGED <<encoding, text, source>>
    BY DEF vars, encoding
  <2> QED
    BY <1>3, <1>5, <2>1, <2>2, <2>3, <2>4, <2>5
<1> QED
  BY <1>1, <1>2, <1>4, <1>5 DEF Next

\* The invariant says that the text starts with the caller's.
LEMMA KImplies ==
  ASSUME KInv
  PROVE  CallerTextKept
<1>1. SUFFICES ASSUME source = "none"
               PROVE  Len(text) >= Len(given) /\ SubSeq(text, 1, Len(given)) = given
  BY DEF CallerTextKept
<1>2. Behind(given, text)
  BY <1>1 DEF KInv
<1>3. PICK T : text \in Seq(T) /\ given \in Seq(T)
  BY <1>2 DEF Behind
<1> DEFINE n == Len(given)
           s == SubSeq(text, 1, n)
<1>4. n \in Nat /\ Len(text) \in Nat /\ n <= Len(text) /\ \A i \in 1 .. n : text[i] = given[i]
  BY <1>2, <1>3 DEF Behind
<1>5. \A i \in 1 .. n : text[i] \in T
  BY <1>3, <1>4
<1>6. 1 \in Int /\ n \in Int
  BY <1>4
<1> HIDE DEF n
<1>7. /\ s \in Seq(T)
      /\ Len(s) = IF 1 <= n THEN n - 1 + 1 ELSE 0
      /\ \A i \in 1 .. n - 1 + 1 : s[i] = text[1 + i - 1]
  BY <1>5, <1>6, SubSeqProperties
<1> HIDE DEF s
<1>8. Len(s) = n
  <2>1. \A m \in Nat : (IF 1 <= m THEN m - 1 + 1 ELSE 0) = m
    OBVIOUS
  <2> QED
    BY <1>4, <1>7, <2>1
<1>9. ASSUME NEW i \in 1 .. n
      PROVE  s[i] = given[i]
  <2>1. i \in 1 .. n - 1 + 1 /\ 1 + i - 1 = i
    BY <1>4
  <2>2. s[i] = text[1 + i - 1]
    BY <1>7, <2>1
  <2> QED
    BY <1>4, <2>1, <2>2
<1>10. s = given
  BY <1>3, <1>7, <1>8, <1>9, SeqEqual DEF n
<1> QED
  BY <1>4, <1>10 DEF s, n

\* It holds at the start: nothing is written yet.
LEMMA InitK == Init => KInv
<1>1. SUFFICES ASSUME Init
               PROVE  KInv
  OBVIOUS
<1>2. text = <<>> /\ given = <<>> /\ work = <<>> /\ value = Nil
  BY <1>1 DEF Init
<1>3. work \in Seq(Item) /\ text \in Seq(Item) /\ given \in Seq(Item)
  BY <1>2
<1>4. Len(text) = 0 /\ Len(given) = 0 /\ Len(work) = 0
  BY <1>2
<1> QED
  BY <1>2, <1>3, <1>4 DEF KInv, Behind, Ours, Closes

\* json/encode appends: whatever value is encoded, whatever the buffer held and however
\* deep the containers nest, the caller's text stays in front of what is written.
THEOREM EncodeAppends == Spec => []CallerTextKept
<1>1. Init => KInv
  BY InitK
<1>2. KInv /\ [Next]_vars => KInv'
  BY KeepsK
<1>3. KInv => CallerTextKept
  BY KImplies
<1> QED
  BY <1>1, <1>2, <1>3, PTL DEF Spec

-----------------------------------------------------------------------------
(***************************************************************************)
(* What json/decode accepts.  The grammar is given by rules about facts    *)
(* <<name, text, meaning>>.  The names: "value"; "string", for a key; and  *)
(* "items", "entries" and "keyed" (after the colon) for the text of an     *)
(* array or an object that is still open.  A text means what some          *)
(* derivation by the rules ends in.  g is <<keywords, nils>>.              *)
(***************************************************************************)
\* x comes with whitespace in front of it after a comma that ends t
Apart(t, x) == t # <<>> /\ t[Len(t)].k = "," /\ x.w

Entry(g, e, k, v) == Store(e, IF g[1] THEN Kw(k.s) ELSE k, v)

\* one of the rules gives the fact f from facts in F
Gives(g, F, f) ==
  \/ \E x : x.k = "null" /\ f = <<"value", <<x>>, IF g[2] THEN Nil ELSE NullKeyword>>
  \/ \E x : x.k \in {"true", "false"} /\ f = <<"value", <<x>>, Val(x.k)>>
  \/ \E x : x.k \in NumberTexts /\ f = <<"value", <<x>>, Val(Strtod(x.k))>>
  \/ \E x : /\ x.k = "str" /\ DecodeString(x.u).ok
            /\ \E n \in {"value", "string"} : f = <<n, <<x>>, Str(DecodeString(x.u).out)>>
  \/ \E x : x.k = "[" /\ f = <<"items", <<x>>, <<>>>>
  \/ \E x : x.k = "{" /\ f = <<"entries", <<x>>, {}>>
  \/ \E t, a, x : /\ <<"items", t, a>> \in F /\ x.k = "]" /\ ~Apart(t, x)
                  /\ f = <<"value", Append(t, x), Arr(a)>>
  \/ \E t, e, x : /\ <<"entries", t, e>> \in F /\ x.k = "}" /\ ~Apart(t, x)
                  /\ f = <<"value", Append(t, x), Tab(e)>>
  \/ \E t, a, s, v, x :
       /\ <<"items", t, a>> \in F /\ <<"value", s, v>> \in F
       /\ \/ x.k = "," /\ f = <<"items", Append(t \o s, x), Append(a, v)>>
          \/ x.k = "]" /\ f = <<"value", Append(t \o s, x), Arr(Append(a, v))>>
  \/ \E t, e, s, k, x :
       /\ <<"entries", t, e>> \in F /\ <<"string", s, k>> \in F
       /\ x.k = ":" /\ f = <<"keyed", Append(t \o s, x), <<e, k>>>>
  \/ \E t, e, k, s, v, x :
       /\ <<"keyed", t, <<e, k>>>> \in F /\ <<"value", s, v>> \in F
       /\ \/ x.k = "," /\ f = <<"entries", Append(t \o s, x), Entry(g, e, k, v)>>
          \/ x.k = "}" /\ f = <<"value", Append(t \o s, x), Tab(Entry(g, e, k, v))>>

IsSeq(s) == \E T : s \in Seq(T)

\* every fact of d follows from the ones before it
Derivation(g, d) ==
  IsSeq(d) /\ \A i \in 1 .. Len(d) : Gives(g, {d[j] : j \in 1 .. i - 1}, d[i])

Derives(g, f) == \E d : Derivation(g, d) /\ d # <<>> /\ d[Len(d)] = f

\* What decode accepted is, up to the byte 0 that ends it, a text of the grammar, and
\* what decode returned is its meaning.
DecodesMeaning ==
  outcome = "decoded" => Kind = "eos" /\ Derives(flags, <<"value", SubSeq(text, 1, p), ret>>)

\* decode_one neither reads past the end of the text nor calls itself deeper than the guard
DecodeBounded == source # "none" => p <= Len(text) /\ Len(stack) <= Guard + 1

-----------------------------------------------------------------------------
(* Sequences *)

\* A sequence with a member more.
LEMMA Longer ==
  ASSUME NEW s, IsSeq(s), NEW x
  PROVE  /\ IsSeq(Append(s, x)) /\ Len(s) \in Nat /\ Len(Append(s, x)) = Len(s) + 1
         /\ Append(s, x)[Len(s) + 1] = x /\ \A i \in 1 .. Len(s) : Append(s, x)[i] = s[i]
<1>1. PICK T : s \in Seq(T)
  BY DEF IsSeq
<1> DEFINE U == T \cup {x}
<1>2. s \in Seq(U) /\ x \in U
  <2>1. T \subseteq U /\ x \in U
    OBVIOUS
  <2> HIDE DEF U
  <2> QED
    BY <1>1, <2>1, SeqMonotonic
<1> HIDE DEF U
<1>3. Append(s, x) \in Seq(U)
  BY <1>2, AppendProperties
<1>4. IsSeq(Append(s, x))
  BY <1>3 DEF IsSeq
<1>5. Len(s) \in Nat
  BY <1>2, LenProperties
<1> QED
  BY <1>2, <1>4, <1>5, AppendProperties

\* A sequence with a member less.
LEMMA Shorter ==
  ASSUME NEW s, IsSeq(s), s # <<>>
  PROVE  LET r == SubSeq(s, 1, Len(s) - 1)
         IN IsSeq(r) /\ Len(s) \in Nat /\ 1 <= Len(s) /\ Len(r) = Len(s) - 1 /\ \A i \in 1 .. Len(s) - 1 : r[i] = s[i]
<1>1. PICK T : s \in Seq(T)
  BY DEF IsSeq
<1> DEFINE n == Len(s)  r == SubSeq(s, 1, n - 1)
<1>2. n \in Nat /\ 1 <= n
  BY <1>1, EmptySeq
<1>3. \A i \in 1 .. n - 1 : s[i] \in T
  BY <1>1, <1>2, ElementOfSeq
<1> HIDE DEF n
<1>4. /\ r \in Seq(T) /\ Len(r) = IF 1 <= n - 1 THEN n - 1 - 1 + 1 ELSE 0
      /\ \A i \in 1 .. (n - 1) - 1 + 1 : r[i] = s[1 + i - 1]
  <2>1. 1 \in Int /\ n - 1 \in Int
    BY <1>2
  <2> QED
    BY <1>3, <2>1, SubSeqProperties
<1> HIDE DEF r
<1>5. Len(r) = n - 1
  BY <1>2, <1>4
<1>6. ASSUME NEW i \in 1 .. n - 1
      PROVE  r[i] = s[i]
  <2>1. i \in 1 .. (n - 1) - 1 + 1 /\ 1 + i - 1 = i
    BY <1>2
  <2> QED
    BY <1>4, <2>1
<1>7. IsSeq(r)
  BY <1>4 DEF IsSeq
<1> QED
  BY <1>2, <1>5, <1>6, <1>7 DEF r, n

\* a piece of a text
Cut(t, a, b) == SubSeq(t, a + 1, b)

\* Pieces that meet.
LEMMA Cuts ==
  ASSUME NEW t, IsSeq(t), NEW a \in Nat, NEW b \in Nat, NEW c \in Nat, a <= b, b <= c, c <= Len(t)
  PROVE  /\ Cut(t, a, b) \o Cut(t, b, c) = Cut(t, a, c)
         /\ c < Len(t) => /\ <<t[c + 1]>> = Cut(t, c, c + 1)
                          /\ Append(Cut(t, a, c), t[c + 1]) = Cut(t, a, c + 1)
<1>1. PICK T : t \in Seq(T)
  BY DEF IsSeq
<1> DEFINE n == Len(t)
<1>2. n \in Nat
  BY <1>1, LenProperties
<1>3. a + 1 \in 1 .. n + 1 /\ b \in a + 1 - 1 .. n /\ c \in b .. n
  BY <1>2
<1>4. SubSeq(t, a + 1, b) \o SubSeq(t, b + 1, c) = SubSeq(t, a + 1, c)
  BY <1>1, <1>3, ConcatAdjacentSubSeq
<1>5. ASSUME NEW d \in Nat, d <= c, c < n
      PROVE  SubSeq(t, d + 1, c) \o <<t[c + 1]>> = SubSeq(t, d + 1, c + 1)
  <2>1. d + 1 \in 1 .. n /\ c + 1 \in d + 1 .. n /\ c + 1 - 1 = c
    BY <1>2, <1>5
  <2>2. SubSeq(t, d + 1, c + 1) = SubSeq(t, d + 1, c + 1 - 1) \o <<t[c + 1]>>
    BY <1>1, <2>1, SubSeqRecursiveSecond
  <2> QED
    BY <2>1, <2>2
<1>6. ASSUME c < n
      PROVE  /\ <<t[c + 1]>> = Cut(t, c, c + 1)
             /\ Append(Cut(t, a, c), t[c + 1]) = Cut(t, a, c + 1)
  <2>1. SubSeq(t, c + 1, c) = <<>>
    BY SubSeqEmpty
  <2>2. t[c + 1] \in T
    <3>1. c + 1 \in 1 .. n
      BY <1>2, <1>6
    <3> QED
      BY <1>1, <3>1, ElementOfSeq
  <2>3. <<t[c + 1]>> \in Seq(T)
    BY <2>2
  <2>4. <<>> \o <<t[c + 1]>> = <<t[c + 1]>>
    BY <2>3, ConcatEmptySeq
  <2>5. c <= c /\ a <= c
    OBVIOUS
  <2>6. <<t[c + 1]>> = SubSeq(t, c + 1, c + 1)
    BY <1>5, <1>6, <2>1, <2>4, <2>5
  <2>7. SubSeq(t, a + 1, c) \in Seq(T)
    <3>1. a + 1 \in Int /\ c \in Int /\ \A i \in a + 1 .. c : i \in 1 .. n
      BY <1>2, <1>6
    <3>2. \A i \in a + 1 .. c : t[i] \in T
      BY <1>1, <3>1, ElementOfSeq
    <3> QED
      BY <3>1, <3>2, SubSeqProperties
  <2>8. Append(SubSeq(t, a + 1, c), t[c + 1]) = SubSeq(t, a + 1, c) \o <<t[c + 1]>>
    BY <2>2, <2>7, AppendIsConcat
  <2>9. SubSeq(t, a + 1, c) \o <<t[c + 1]>> = SubSeq(t, a + 1, c + 1)
    BY <1>5, <1>6, <2>5
  <2> QED
    BY <2>6, <2>8, <2>9 DEF Cut
<1> QED
  BY <1>4, <1>6 DEF Cut

-----------------------------------------------------------------------------
(* Derivations *)

\* More facts give no fewer.
LEMMA MoreFacts ==
  ASSUME NEW g, NEW F, NEW G, F \subseteq G, NEW f, Gives(g, F, f)
  PROVE  Gives(g, G, f)
BY DEF Gives

\* Derivations can be joined.
LEMMA Chained ==
  ASSUME NEW g, NEW c, NEW d, Derivation(g, c), Derivation(g, d)
  PROVE  /\ Derivation(g, c \o d) /\ Len(c \o d) = Len(c) + Len(d) /\ Len(c) \in Nat /\ Len(d) \in Nat
         /\ \A i \in 1 .. Len(c) : (c \o d)[i] = c[i]
         /\ \A i \in 1 .. Len(d) : (c \o d)[Len(c) + i] = d[i]
<1>1. PICK S : c \in Seq(S)
  BY DEF Derivation, IsSeq
<1>2. PICK T : d \in Seq(T)
  BY DEF Derivation, IsSeq
<1> DEFINE U == S \cup T  e == c \o d  m == Len(c)  n == Len(d)
<1>3. S \subseteq U /\ T \subseteq U
  OBVIOUS
<1> HIDE DEF U
<1>4. c \in Seq(U) /\ d \in Seq(U)
  BY <1>1, <1>2, <1>3, SeqMonotonic
<1>5. m \in Nat /\ n \in Nat
  BY <1>4, LenProperties
<1>6. /\ e \in Seq(U) /\ Len(e) = m + n
      /\ \A i \in 1 .. m + n : e[i] = IF i <= m THEN c[i] ELSE d[i - m]
  BY <1>4, ConcatProperties
<1> HIDE DEF e, m, n
<1>7. \A i \in 1 .. m : e[i] = c[i]
  <2>1. \A i \in 1 .. m : i \in 1 .. m + n /\ i <= m
    BY <1>5
  <2> QED
    BY <1>6, <2>1
<1>8. ASSUME NEW i \in 1 .. n
      PROVE  e[m + i] = d[i]
  <2>1. m + i \in 1 .. m + n /\ ~(m + i <= m) /\ (m + i) - m = i
    BY <1>5
  <2> QED
    BY <1>6, <2>1
<1>9. ASSUME NEW i \in 1 .. m + n
      PROVE  Gives(g, {e[j] : j \in 1 .. i - 1}, e[i])
  <2>1. CASE i \in 1 .. m
    <3>1. Gives(g, {c[j] : j \in 1 .. i - 1}, c[i])
      BY <2>1 DEF Derivation, m
    <3>2. \A j \in 1 .. i - 1 : j \in 1 .. m
      BY <1>5, <2>1
    <3>3. {c[j] : j \in 1 .. i - 1} \subseteq {e[j] : j \in 1 .. i - 1}
      BY <1>7, <3>2
    <3>4. e[i] = c[i]
      BY <1>7, <2>1
    <3> QED
      BY <3>1, <3>3, <3>4, MoreFacts
  <2>2. CASE i \notin 1 .. m
    <3> DEFINE k == i - m
    <3>1. k \in 1 .. n /\ m + k = i
      BY <1>5, <2>2
    <3>2. \A j \in 1 .. k - 1 : j \in 1 .. n /\ m + j \in 1 .. i - 1
      BY <1>5, <3>1
    <3> HIDE DEF k
    <3>3. Gives(g, {d[j] : j \in 1 .. k - 1}, d[k])
      BY <3>1 DEF Derivation, n
    <3>4. ASSUME NEW j \in 1 .. k - 1
          PROVE  d[j] \in {e[l] : l \in 1 .. i - 1}
      <4>1. d[j] = e[m + j] /\ m + j \in 1 .. i - 1
        BY <1>8, <3>2
      <4> QED
        BY <4>1
    <3>5. {d[j] : j \in 1 .. k - 1} \subseteq {e[j] : j \in 1 .. i - 1}
      BY <3>4
    <3>6. e[i] = d[k]
      BY <1>8, <3>1
    <3> QED
      BY <3>3, <3>5, <3>6, MoreFacts
  <2> QED
    BY <2>1, <2>2
<1>10. Derivation(g, e)
  BY <1>6, <1>9 DEF Derivation, IsSeq
<1> QED
  BY <1>5, <1>6, <1>7, <1>8, <1>10 DEF e, m, n

\* A derivation goes on with a fact that follows.
LEMMA Extended ==
  ASSUME NEW g, NEW d, Derivation(g, d), NEW f, Gives(g, {d[j] : j \in 1 .. Len(d)}, f)
  PROVE  Derives(g, f)
<1> DEFINE n == Len(d)  e == Append(d, f)
<1>1. /\ IsSeq(e) /\ n \in Nat /\ Len(e) = n + 1
      /\ e[n + 1] = f /\ \A i \in 1 .. n : e[i] = d[i]
  BY Longer DEF Derivation
<1>2. e # <<>>
  BY <1>1
<1> HIDE DEF e
<1>3. ASSUME NEW i \in 1 .. n + 1
      PROVE  Gives(g, {e[j] : j \in 1 .. i - 1}, e[i])
  <2>1. \A j \in 1 .. i - 1 : j \in 1 .. n
    BY <1>1
  <2>2. {d[j] : j \in 1 .. i - 1} \subseteq {e[j] : j \in 1 .. i - 1}
    BY <1>1, <2>1
  <2>3. CASE i = n + 1
    <3>1. i - 1 = n
      BY <1>1, <2>3
    <3> QED
      BY <1>1, <2>2, <2>3, <3>1, MoreFacts
  <2>4. CASE i \in 1 .. n
    <3>1. Gives(g, {d[j] : j \in 1 .. i - 1}, d[i])
      BY <2>4 DEF Derivation
    <3> QED
      BY <1>1, <2>2, <2>4, <3>1, MoreFacts
  <2>5. i = n + 1 \/ i \in 1 .. n
    BY <1>1
  <2> QED
    BY <2>3, <2>4, <2>5
<1>4. Derivation(g, e)
  BY <1>1, <1>3 DEF Derivation
<1> QED
  BY <1>1, <1>2, <1>4 DEF Derives

\* A fact that a rule gives outright.
LEMMA Given ==
  ASSUME NEW g, NEW f, Gives(g, {}, f)
  PROVE  Derives(g, f)
<1> DEFINE d == <<>>
<1>1. IsSeq(d) /\ Len(d) = 0
  BY EmptySeq DEF IsSeq
<1>2. {d[j] : j \in 1 .. Len(d)} = {} /\ 1 .. Len(d) = {}
  BY <1>1
<1> HIDE DEF d
<1>3. Derivation(g, d)
  BY <1>1, <1>2 DEF Derivation
<1> QED
  BY <1>2, <1>3, Extended

\* A fact that a rule gives from two facts.
LEMMA FromTwo ==
  ASSUME NEW g, NEW x, NEW y, Derives(g, x), Derives(g, y), NEW f, Gives(g, {x, y}, f)
  PROVE  Derives(g, f)
<1>1. PICK c : Derivation(g, c) /\ c # <<>> /\ c[Len(c)] = x
  BY DEF Derives
<1>2. PICK d : Derivation(g, d) /\ d # <<>> /\ d[Len(d)] = y
  BY DEF Derives
<1> DEFINE e == c \o d
<1>3. /\ Derivation(g, e) /\ Len(e) = Len(c) + Len(d) /\ Len(c) \in Nat /\ Len(d) \in Nat
      /\ \A i \in 1 .. Len(c) : e[i] = c[i] /\ \A j \in 1 .. Len(d) : e[Len(c) + j] = d[j]
  BY <1>1, <1>2, Chained
<1>4. Len(c) # 0 /\ Len(d) # 0
  BY <1>1, <1>2, EmptySeq DEF Derivation, IsSeq
<1>5. Len(c) \in 1 .. Len(c) /\ Len(d) \in 1 .. Len(d) /\ Len(c) \in 1 .. Len(e) /\ Len(c) + Len(d) \in 1 .. Len(e)
  BY <1>3, <1>4
<1> HIDE DEF e
<1>6. e[Len(c)] = x /\ e[Len(c) + Len(d)] = y
  BY <1>1, <1>2, <1>3, <1>5
<1>7. {x, y} \subseteq {e[j] : j \in 1 .. Len(e)}
  BY <1>5, <1>6
<1>8. Gives(g, {e[j] : j \in 1 .. Len(e)}, f)
  BY <1>7, MoreFacts
<1> QED
  BY <1>3, <1>8, Extended

-----------------------------------------------------------------------------
(* Containers that are open *)

\* what the text t of an open container says of what it holds
Frame(g, t, f) ==
  \/ f.t = "arr" /\ f.want = "item" /\ Derives(g, <<"items", t, f.arr>>)
  \/ f.t = "tab" /\ f.want = "key" /\ Derives(g, <<"entries", t, f.tab>>)
  \/ f.t = "tab" /\ f.want = "value" /\ Derives(g, <<"keyed", t, <<f.tab, f.key>>>>)

\* q marks where in t the texts of the containers begin, and where that of the last ends
Held(g, t, st, q) ==
  /\ \A m \in 1 .. Len(st) + 1 : q[m] \in Nat /\ q[m] <= Len(t)
  /\ q[1] = 0
  /\ \A m \in 1 .. Len(st) : q[m] <= q[m + 1] /\ Frame(g, Cut(t, q[m], q[m + 1]), st[m])

\* A container is opened.
LEMMA Pushed ==
  ASSUME NEW g, NEW t, NEW st, IsSeq(st), NEW q, Held(g, t, st, q), NEW b \in Nat, b <= Len(t),
         q[Len(st) + 1] <= b, NEW f, Frame(g, Cut(t, q[Len(st) + 1], b), f)
  PROVE  \E z : Held(g, t, Append(st, f), z) /\ z[Len(Append(st, f)) + 1] = b
<1> DEFINE n == Len(st)  u == Append(st, f)
           z == [m \in 1 .. n + 2 |-> IF m = n + 2 THEN b ELSE q[m]]
<1>1. n \in Nat /\ Len(u) = n + 1 /\ u[n + 1] = f /\ \A i \in 1 .. n : u[i] = st[i]
  BY Longer
<1>2. /\ \A m \in 1 .. n + 1 : q[m] \in Nat /\ q[m] <= Len(t)
      /\ q[1] = 0
      /\ \A m \in 1 .. n : q[m] <= q[m + 1] /\ Frame(g, Cut(t, q[m], q[m + 1]), st[m])
  BY DEF Held
<1> HIDE DEF u, n
<1>3. z[n + 2] = b /\ \A m \in 1 .. n + 1 : z[m] = q[m]
  BY <1>1
<1> HIDE DEF z
<1>4. ASSUME NEW m \in 1 .. n + 2
      PROVE  z[m] \in Nat /\ z[m] <= Len(t)
  <2>1. m = n + 2 \/ m \in 1 .. n + 1
    BY <1>1
  <2> QED
    BY <1>2, <1>3, <2>1
<1>5. z[1] = 0
  <2>1. 1 \in 1 .. n + 1
    BY <1>1
  <2> QED
    BY <1>2, <1>3, <2>1
<1>6. ASSUME NEW m \in 1 .. n + 1
      PROVE  z[m] <= z[m + 1] /\ Frame(g, Cut(t, z[m], z[m + 1]), u[m])
  <2>1. CASE m = n + 1
    <3>1. z[m] = q[n + 1] /\ z[m + 1] = b /\ u[m] = f
      <4>1. m + 1 = n + 2
        BY <1>1, <2>1
      <4> QED
        BY <1>1, <1>3, <2>1, <4>1
    <3> QED
      BY <3>1 DEF n
  <2>2. CASE m \in 1 .. n
    <3>1. m + 1 \in 1 .. n + 1
      BY <1>1, <2>2
    <3>2. z[m] = q[m] /\ z[m + 1] = q[m + 1] /\ u[m] = st[m]
      BY <1>1, <1>3, <2>2, <3>1
    <3> QED
      BY <1>2, <2>2, <3>2
  <2>3. m = n + 1 \/ m \in 1 .. n
    BY <1>1
  <2> QED
    BY <2>1, <2>2, <2>3
<1>7. Len(u) + 1 = n + 2
  BY <1>1
<1>8. Held(g, t, u, z) /\ z[Len(u) + 1] = b
  BY <1>1, <1>3, <1>4, <1>5, <1>6, <1>7 DEF Held
<1> QED
  BY <1>8 DEF u

\* The last container is closed.
LEMMA Popped ==
  ASSUME NEW g, NEW t, NEW st, IsSeq(st), st # <<>>, NEW q, Held(g, t, st, q)
  PROVE  LET r == SubSeq(st, 1, Len(st) - 1)
         IN /\ Held(g, t, r, q) /\ Len(r) + 1 = Len(st)
            /\ q[Len(st)] \in Nat /\ q[Len(st)] <= q[Len(st) + 1]
            /\ q[Len(st) + 1] \in Nat /\ q[Len(st) + 1] <= Len(t)
            /\ Frame(g, Cut(t, q[Len(st)], q[Len(st) + 1]), st[Len(st)])
<1> DEFINE n == Len(st)  r == SubSeq(st, 1, n - 1)
<1>1. n \in Nat /\ 1 <= n /\ Len(r) = n - 1 /\ \A i \in 1 .. n - 1 : r[i] = st[i]
  BY Shorter
<1>2. /\ \A m \in 1 .. n + 1 : q[m] \in Nat /\ q[m] <= Len(t)
      /\ q[1] = 0
      /\ \A m \in 1 .. n : q[m] <= q[m + 1] /\ Frame(g, Cut(t, q[m], q[m + 1]), st[m])
  BY DEF Held
<1> HIDE DEF r, n
<1>3. Len(r) + 1 = n /\ n \in 1 .. n /\ n \in 1 .. n + 1 /\ n + 1 \in 1 .. n + 1
  BY <1>1
<1>4. \A m \in 1 .. n : m \in 1 .. n + 1
  BY <1>1
<1>5. \A m \in 1 .. n - 1 : m \in 1 .. n
  BY <1>1
<1>6. Held(g, t, r, q)
  <2>1. \A m \in 1 .. Len(r) + 1 : q[m] \in Nat /\ q[m] <= Len(t)
    BY <1>2, <1>3, <1>4
  <2>2. \A m \in 1 .. Len(r) : q[m] <= q[m + 1] /\ Frame(g, Cut(t, q[m], q[m + 1]), r[m])
    BY <1>1, <1>2, <1>5
  <2> QED
    BY <1>2, <2>1, <2>2 DEF Held
<1>7. /\ q[n] \in Nat /\ q[n] <= q[n + 1] /\ q[n + 1] \in Nat /\ q[n + 1] <= Len(t)
      /\ Frame(g, Cut(t, q[n], q[n + 1]), st[n])
  BY <1>2, <1>3
<1> QED
  BY <1>3, <1>6, <1>7 DEF r, n

\* What an open container holds changes, with the text up to b.
LEMMA Replaced ==
  ASSUME NEW g, NEW t, NEW st, IsSeq(st), st # <<>>, NEW q, Held(g, t, st, q), NEW b \in Nat, b <= Len(t),
         q[Len(st) + 1] <= b, NEW f, Frame(g, Cut(t, q[Len(st)], b), f)
  PROVE  LET u == Append(SubSeq(st, 1, Len(st) - 1), f)
         IN \E z : Held(g, t, u, z) /\ z[Len(u) + 1] = b
<1> DEFINE r == SubSeq(st, 1, Len(st) - 1)  n == Len(st)
<1>1. IsSeq(r)
  BY Shorter
<1>2. /\ Held(g, t, r, q) /\ Len(r) + 1 = n /\ q[n] \in Nat /\ q[n + 1] \in Nat /\ q[n] <= q[n + 1]
  BY Popped
<1>3. q[n] <= b
  <2>1. \A x, y, v \in Nat : x <= y /\ y <= v => x <= v
    OBVIOUS
  <2> QED
    BY <1>2, <2>1
<1>4. q[Len(r) + 1] <= b /\ Frame(g, Cut(t, q[Len(r) + 1], b), f)
  BY <1>2, <1>3
<1> HIDE DEF r
<1>5. \E z : Held(g, t, Append(r, f), z) /\ z[Len(Append(r, f)) + 1] = b
  BY <1>1, <1>2, <1>4, Pushed
<1> QED
  BY <1>5 DEF r

-----------------------------------------------------------------------------
(* The states of the decoder *)

Inner(st) == st[Len(st)]
Outer(st) == SubSeq(st, 1, Len(st) - 1)

IsFrame(f) ==
  /\ f = [t |-> f.t, arr |-> f.arr, tab |-> f.tab, key |-> f.key, want |-> f.want]
  /\ (f.t = "arr" /\ f.want = "item") \/ (f.t = "tab" /\ f.want \in {"key", "value"})

\* only the innermost container may wait for a key, and then a string comes next
Shape(t, st, at, c) ==
  /\ IsSeq(t) /\ IsSeq(st) /\ at \in Nat /\ at <= Len(t) /\ Len(st) <= Guard + 1
  /\ \A m \in 1 .. Len(st) : IsFrame(st[m]) /\ (m < Len(st) => st[m].want # "key")
  /\ c = "loop" => st # <<>> /\ Inner(st).want # "value"
  /\ c = "one" /\ st # <<>> /\ Inner(st).want = "key" => at < Len(t) /\ t[at + 1].k = "str"

Wanted(st) == IF st # <<>> /\ Inner(st).want = "key" THEN "string" ELSE "value"

\* what was read are the containers that are open and, after decode_one, the value v
Reads(g, t, st, at, c, v) ==
  \E q : /\ Held(g, t, st, q) /\ q[Len(st) + 1] <= at
         /\ c # "ret" => q[Len(st) + 1] = at
         /\ c = "ret" => Derives(g, <<Wanted(st), Cut(t, q[Len(st) + 1], at), v>>)

\* Where a marked text ends.
LEMMA Marked ==
  ASSUME NEW g, NEW t, NEW st, IsSeq(st), NEW q, Held(g, t, st, q)
  PROVE  Len(st) \in Nat /\ q[Len(st) + 1] \in Nat /\ q[Len(st) + 1] <= Len(t)
<1>1. Len(st) \in Nat
  BY LenProperties DEF IsSeq
<1>2. Len(st) + 1 \in 1 .. Len(st) + 1
  BY <1>1
<1> QED
  BY <1>1, <1>2 DEF Held

\* decode_one reads one token.
LEMMA Atom ==
  ASSUME NEW g, NEW t, NEW st, NEW at, Shape(t, st, at, "one"), at < Len(t), NEW v, NEW w,
         Derives(g, <<Wanted(st), <<t[at + 1]>>, v>>), Reads(g, t, st, at, "one", w)
  PROVE  Reads(g, t, st, at + 1, "ret", v)
<1>1. PICK q : Held(g, t, st, q) /\ q[Len(st) + 1] = at
  BY DEF Reads
<1>2. IsSeq(t) /\ at \in Nat /\ at <= Len(t)
  BY DEF Shape
<1>3. <<t[at + 1]>> = Cut(t, at, at + 1)
  <2>1. at <= at
    BY <1>2
  <2> QED
    BY <1>2, <2>1, Cuts
<1>4. at <= at + 1
  BY <1>2
<1> QED
  BY <1>1, <1>3, <1>4 DEF Reads

\* decode_one enters a container.
LEMMA Entered ==
  ASSUME NEW g, NEW t, NEW st, NEW at, Shape(t, st, at, "one"), at < Len(t), NEW f, NEW v, NEW w,
         Frame(g, <<t[at + 1]>>, f), Reads(g, t, st, at, "one", w)
  PROVE  Reads(g, t, Append(st, f), at + 1, "loop", v)
<1>1. PICK q : Held(g, t, st, q) /\ q[Len(st) + 1] = at
  BY DEF Reads
<1>2. IsSeq(t) /\ IsSeq(st) /\ at \in Nat /\ at <= Len(t)
  BY DEF Shape
<1>3. <<t[at + 1]>> = Cut(t, at, at + 1)
  <2>1. at <= at
    BY <1>2
  <2> QED
    BY <1>2, <2>1, Cuts
<1>4. at <= at + 1 /\ at + 1 \in Nat /\ at + 1 <= Len(t)
  <2>1. Len(t) \in Nat
    BY <1>2, LenProperties DEF IsSeq
  <2> QED
    BY <1>2, <2>1
<1> DEFINE u == Append(st, f)
<1>5. \E z : Held(g, t, u, z) /\ z[Len(u) + 1] = at + 1
  <2> DEFINE e == at + 1
  <2>1. e \in Nat /\ e <= Len(t) /\ q[Len(st) + 1] <= e /\ Frame(g, Cut(t, q[Len(st) + 1], e), f)
    BY <1>1, <1>3, <1>4
  <2>2. IsSeq(st) /\ Held(g, t, st, q)
    BY <1>1, <1>2
  <2> HIDE DEF e, u
  <2>3. \E z : Held(g, t, Append(st, f), z) /\ z[Len(Append(st, f)) + 1] = e
    BY <2>1, <2>2, Pushed
  <2> QED
    BY <2>3 DEF e, u
<1> HIDE DEF u
<1>6. at + 1 <= at + 1
  BY <1>2
<1>7. Reads(g, t, u, at + 1, "loop", v)
  BY <1>5, <1>6 DEF Reads
<1> QED
  BY <1>7 DEF u

\* The last token of what was read.
LEMMA LastOfCut ==
  ASSUME NEW t, IsSeq(t), NEW a \in Nat, NEW b \in Nat, a <= b, b <= Len(t), Cut(t, a, b) # <<>>
  PROVE  Cut(t, a, b)[Len(Cut(t, a, b))] = t[b]
<1>1. PICK T : t \in Seq(T)
  BY DEF IsSeq
<1> DEFINE c == Cut(t, a, b)
<1>2. \A i \in a + 1 .. b : t[i] \in T
  BY <1>1, LenProperties
<1>3. a + 1 \in Int /\ b \in Int
  OBVIOUS
<1>4. /\ c \in Seq(T)
      /\ Len(c) = IF a + 1 <= b THEN b - (a + 1) + 1 ELSE 0
      /\ \A i \in 1 .. b - (a + 1) + 1 : c[i] = t[a + 1 + i - 1]
  BY <1>2, <1>3, SubSeqProperties DEF Cut
<1>5. Len(c) # 0
  BY <1>4, EmptySeq
<1> HIDE DEF c
<1>6. a + 1 <= b /\ Len(c) = b - a
  BY <1>4, <1>5
<1> DEFINE i == b - a
<1>7. i \in 1 .. b - (a + 1) + 1 /\ a + 1 + i - 1 = b
  BY <1>6
<1> HIDE DEF i
<1>8. c[i] = t[b]
  BY <1>4, <1>7
<1>9. Len(c) = i
  BY <1>6 DEF i
<1> QED
  BY <1>8, <1>9 DEF c

\* A container is closed by the token after what was read.
LEMMA Closed ==
  ASSUME NEW g, NEW t, NEW st, NEW at, NEW c \in {"loop", "ret"}, Shape(t, st, at, c), at < Len(t),
         st # <<>>, NEW v, NEW w, Reads(g, t, st, at, c, w), Wanted(Outer(st)) = "value",
         c = "loop" => \A s : Frame(g, s, Inner(st)) /\ (s # <<>> => s[Len(s)] = t[at]) =>
                         Derives(g, <<"value", Append(s, t[at + 1]), v>>),
         c = "ret" => \A s, r : Frame(g, s, Inner(st)) /\ Derives(g, <<Wanted(st), r, w>>) =>
                        Derives(g, <<"value", Append(s \o r, t[at + 1]), v>>)
  PROVE  Reads(g, t, Outer(st), at + 1, "ret", v)
<1> DEFINE n == Len(st)  f == Outer(st)
<1>0. IsSeq(t) /\ IsSeq(st) /\ at \in Nat /\ at <= Len(t)
  BY DEF Shape
<1>1. PICK q : /\ Held(g, t, st, q) /\ q[n + 1] <= at
               /\ c # "ret" => q[n + 1] = at
               /\ c = "ret" => Derives(g, <<Wanted(st), Cut(t, q[n + 1], at), w>>)
  BY DEF Reads
<1>2. /\ Held(g, t, f, q) /\ Len(f) + 1 = n
      /\ q[n] \in Nat /\ q[n] <= q[n + 1] /\ q[n + 1] \in Nat /\ q[n + 1] <= Len(t)
      /\ Frame(g, Cut(t, q[n], q[n + 1]), Inner(st))
  BY <1>0, <1>1, Popped DEF Outer, Inner
<1> HIDE DEF n, f
<1> DEFINE a == q[n]  b == q[n + 1]
<1>3. a \in Nat /\ b \in Nat /\ a <= b /\ b <= at /\ a <= at + 1
  <2>1. \A x, y, z \in Nat : x <= y /\ y <= z => x <= z + 1
    OBVIOUS
  <2> QED
    BY <1>0, <1>1, <1>2, <2>1
<1> HIDE DEF a, b
<1>4. /\ Cut(t, a, b) \o Cut(t, b, at) = Cut(t, a, at)
      /\ Append(Cut(t, a, at), t[at + 1]) = Cut(t, a, at + 1)
  BY <1>0, <1>3, Cuts
<1>5. Derives(g, <<"value", Cut(t, a, at + 1), v>>)
  <2>1. CASE c = "loop"
    <3>1. b = at
      BY <1>1, <2>1 DEF b
    <3>2. Frame(g, Cut(t, a, at), Inner(st))
      BY <1>2, <3>1 DEF a, b
    <3>3. Cut(t, a, at) # <<>> => Cut(t, a, at)[Len(Cut(t, a, at))] = t[at]
      BY <1>0, <1>3, <3>1, LastOfCut
    <3> QED
      BY <1>4, <2>1, <3>2, <3>3
  <2>2. CASE c = "ret"
    <3>1. Frame(g, Cut(t, a, b), Inner(st)) /\ Derives(g, <<Wanted(st), Cut(t, b, at), w>>)
      BY <1>1, <1>2, <2>2 DEF a, b
    <3> QED
      BY <1>4, <2>2, <3>1
  <2> QED
    BY <2>1, <2>2
<1>6. q[Len(f) + 1] = a
  BY <1>2 DEF a
<1>7. Reads(g, t, f, at + 1, "ret", v)
  BY <1>2, <1>3, <1>5, <1>6 DEF Reads, f
<1> QED
  BY <1>7 DEF f

\* A container takes what decode_one returned, and the token after it.
LEMMA TakenIn ==
  ASSUME NEW g, NEW t, NEW st, NEW at, Shape(t, st, at, "ret"), at < Len(t), st # <<>>, NEW w, NEW v,
         Reads(g, t, st, at, "ret", w), NEW f, NEW c \in {"one", "loop"},
         \A s, r : Frame(g, s, Inner(st)) /\ Derives(g, <<Wanted(st), r, w>>) =>
                     Frame(g, Append(s \o r, t[at + 1]), f)
  PROVE  Reads(g, t, Append(Outer(st), f), at + 1, c, v)
<1> DEFINE n == Len(st)
<1>0. IsSeq(t) /\ IsSeq(st) /\ at \in Nat /\ at <= Len(t)
  BY DEF Shape
<1>1. PICK q : /\ Held(g, t, st, q) /\ q[n + 1] <= at
               /\ Derives(g, <<Wanted(st), Cut(t, q[n + 1], at), w>>)
  BY DEF Reads
<1>2. /\ q[n] \in Nat /\ q[n] <= q[n + 1] /\ q[n + 1] \in Nat /\ q[n + 1] <= Len(t)
      /\ Frame(g, Cut(t, q[n], q[n + 1]), Inner(st))
  BY <1>0, <1>1, Popped DEF Inner
<1> HIDE DEF n
<1> DEFINE a == q[n]  b == q[n + 1]
<1>3. a \in Nat /\ b \in Nat /\ a <= b /\ b <= at
  BY <1>1, <1>2
<1>4. /\ Frame(g, Cut(t, a, b), Inner(st)) /\ Derives(g, <<Wanted(st), Cut(t, b, at), w>>)
  BY <1>1, <1>2
<1> HIDE DEF a, b
<1>5. /\ Cut(t, a, b) \o Cut(t, b, at) = Cut(t, a, at)
      /\ Append(Cut(t, a, at), t[at + 1]) = Cut(t, a, at + 1)
  BY <1>0, <1>3, Cuts
<1>6. Frame(g, Append(Cut(t, a, b) \o Cut(t, b, at), t[at + 1]), f)
  BY <1>4
<1>7. Frame(g, Cut(t, a, at + 1), f)
  BY <1>5, <1>6
<1>8. at + 1 \in Nat /\ at + 1 <= Len(t) /\ b <= at + 1
  <2>1. Len(t) \in Nat
    BY <1>0, LenProperties DEF IsSeq
  <2> QED
    BY <1>0, <1>3, <2>1
<1> DEFINE u == Append(Outer(st), f)
<1>9. \E z : Held(g, t, u, z) /\ z[Len(u) + 1] = at + 1
  <2> DEFINE e == at + 1  r == SubSeq(st, 1, Len(st) - 1)
  <2>1. e \in Nat /\ e <= Len(t) /\ q[Len(st) + 1] <= e /\ Frame(g, Cut(t, q[Len(st)], e), f)
    BY <1>7, <1>8 DEF a, b, n
  <2>2. IsSeq(st) /\ Held(g, t, st, q)
    BY <1>0, <1>1
  <2> HIDE DEF e, u
  <2>3. \E z : Held(g, t, Append(r, f), z) /\ z[Len(Append(r, f)) + 1] = e
    BY <2>1, <2>2, Replaced
  <2> QED
    BY <2>3 DEF Outer, e, u
<1> HIDE DEF u
<1>10. at + 1 <= at + 1
  BY <1>8
<1>11. Reads(g, t, u, at + 1, c, v)
  BY <1>9, <1>10 DEF Reads
<1> QED
  BY <1>11 DEF u

-----------------------------------------------------------------------------
(* What one token adds *)

\* The facts about single tokens.
LEMMA Tokens ==
  ASSUME NEW g, NEW x
  PROVE  /\ x.k = "null" => Derives(g, <<"value", <<x>>, IF g[2] THEN Nil ELSE NullKeyword>>)
         /\ x.k \in {"true", "false"} => Derives(g, <<"value", <<x>>, Val(x.k)>>)
         /\ x.k \in NumberTexts => Derives(g, <<"value", <<x>>, Val(Strtod(x.k))>>)
         /\ x.k = "str" /\ DecodeString(x.u).ok =>
              \A n \in {"value", "string"} : Derives(g, <<n, <<x>>, Str(DecodeString(x.u).out)>>)
         /\ x.k = "[" => Derives(g, <<"items", <<x>>, <<>>>>)
         /\ x.k = "{" => Derives(g, <<"entries", <<x>>, {}>>)
<1>1. ASSUME x.k = "null"
      PROVE  Derives(g, <<"value", <<x>>, IF g[2] THEN Nil ELSE NullKeyword>>)
  <2>1. Gives(g, {}, <<"value", <<x>>, IF g[2] THEN Nil ELSE NullKeyword>>)
    BY <1>1, Zenon DEF Gives
  <2> QED
    BY <2>1, Given, Zenon
<1>6. ASSUME x.k \in NumberTexts
      PROVE  Derives(g, <<"value", <<x>>, Val(Strtod(x.k))>>)
  <2>1. Gives(g, {}, <<"value", <<x>>, Val(Strtod(x.k))>>)
    BY <1>6, Zenon DEF Gives
  <2> QED
    BY <2>1, Given, Zenon
<1>2. ASSUME x.k \in {"true", "false"}
      PROVE  Derives(g, <<"value", <<x>>, Val(x.k)>>)
  <2>1. \E z : z.k \in {"true", "false"} /\ <<"value", <<x>>, Val(x.k)>> = <<"value", <<z>>, Val(z.k)>>
    BY <1>2
  <2>2. Gives(g, {}, <<"value", <<x>>, Val(x.k)>>)
    BY <2>1, Zenon DEF Gives
  <2> QED
    BY <2>2, Given, Zenon
<1>3. ASSUME x.k = "str", DecodeString(x.u).ok, NEW n \in {"value", "string"}
      PROVE  Derives(g, <<n, <<x>>, Str(DecodeString(x.u).out)>>)
  <2>1. Gives(g, {}, <<n, <<x>>, Str(DecodeString(x.u).out)>>)
    BY <1>3, Zenon DEF Gives
  <2> QED
    BY <2>1, Given, Zenon
<1>4. ASSUME x.k = "["
      PROVE  Derives(g, <<"items", <<x>>, <<>>>>)
  <2>1. Gives(g, {}, <<"items", <<x>>, <<>>>>)
    BY <1>4, Zenon DEF Gives
  <2> QED
    BY <2>1, Given, Zenon
<1>5. ASSUME x.k = "{"
      PROVE  Derives(g, <<"entries", <<x>>, {}>>)
  <2>1. Gives(g, {}, <<"entries", <<x>>, {}>>)
    BY <1>5, Zenon DEF Gives
  <2> QED
    BY <2>1, Given, Zenon
<1> QED
  BY <1>1, <1>2, <1>3, <1>4, <1>5, <1>6

CloserOf(f) == IF f.t = "arr" THEN "]" ELSE "}"

\* the open container f with the value w
Full(g, f, w) == IF f.t = "arr" THEN [f EXCEPT !.arr = Append(@, w)]
                 ELSE [f EXCEPT !.tab = Entry(g, f.tab, f.key, w), !.want = "key"]

\* A container that is closed before a further item.
LEMMA Ended ==
  ASSUME NEW g, NEW f, IsFrame(f), f.want # "value", NEW s, Frame(g, s, f), NEW x, x.k = CloserOf(f),
         ~Apart(s, x)
  PROVE  Derives(g, <<"value", Append(s, x), ClosedValue(f)>>)
<1>1. CASE f.t = "arr"
  <2>1. Derives(g, <<"items", s, f.arr>>) /\ x.k = "]" /\ ClosedValue(f) = Arr(f.arr)
    BY <1>1 DEF Frame, CloserOf, ClosedValue
  <2>2. Gives(g, {<<"items", s, f.arr>>, <<"items", s, f.arr>>}, <<"value", Append(s, x), Arr(f.arr)>>)
    BY <2>1, Zenon DEF Gives
  <2> QED
    BY <2>1, <2>2, FromTwo
<1>2. CASE f.t = "tab"
  <2>1. Derives(g, <<"entries", s, f.tab>>) /\ x.k = "}" /\ ClosedValue(f) = Tab(f.tab)
    BY <1>2 DEF Frame, CloserOf, ClosedValue, IsFrame
  <2>2. Gives(g, {<<"entries", s, f.tab>>, <<"entries", s, f.tab>>}, <<"value", Append(s, x), Tab(f.tab)>>)
    BY <2>1, Zenon DEF Gives
  <2> QED
    BY <2>1, <2>2, FromTwo
<1> QED
  BY <1>1, <1>2 DEF IsFrame

\* A key and the colon after it.
LEMMA Keyed ==
  ASSUME NEW g, NEW f, IsFrame(f), f.want = "key", NEW s, Frame(g, s, f), NEW x, x.k = ":",
         NEW r, NEW w, Derives(g, <<"string", r, w>>)
  PROVE  /\ Frame(g, Append(s \o r, x), [f EXCEPT !.key = w, !.want = "value"])
         /\ IsFrame([f EXCEPT !.key = w, !.want = "value"])
<1> DEFINE h == [f EXCEPT !.key = w, !.want = "value"]  e == f.tab
<1>1. Derives(g, <<"entries", s, e>>) /\ f.t = "tab"
  BY DEF Frame, IsFrame
<1>2. /\ h = [t |-> h.t, arr |-> h.arr, tab |-> h.tab, key |-> h.key, want |-> h.want]
      /\ h.t = "tab" /\ h.want = "value" /\ h.tab = e /\ h.key = w
  <2>1. f = [t |-> f.t, arr |-> f.arr, tab |-> f.tab, key |-> f.key, want |-> f.want]
    BY DEF IsFrame
  <2> DEFINE y == [f EXCEPT !.key = w]
  <2>2. y = [t |-> f.t, arr |-> f.arr, tab |-> f.tab, key |-> w, want |-> f.want]
    BY <2>1
  <2>3. h = [y EXCEPT !.want = "value"]
    OBVIOUS
  <2> HIDE DEF y, h
  <2>4. h = [t |-> f.t, arr |-> f.arr, tab |-> f.tab, key |-> w, want |-> "value"]
    BY <2>2, <2>3
  <2> QED
    BY <1>1, <2>4
<1> HIDE DEF h, e
<1>3. Gives(g, {<<"entries", s, e>>, <<"string", r, w>>}, <<"keyed", Append(s \o r, x), <<e, w>>>>)
  BY Zenon DEF Gives
<1>4. Derives(g, <<"keyed", Append(s \o r, x), <<e, w>>>>)
  BY <1>1, <1>3, FromTwo
<1>5. Frame(g, Append(s \o r, x), h) /\ IsFrame(h)
  BY <1>2, <1>4 DEF Frame, IsFrame
<1> QED
  BY <1>5 DEF h

\* The container with the value.
LEMMA FullFrame ==
  ASSUME NEW g, NEW f, IsFrame(f), f.want # "key", NEW w
  PROVE  IsFrame(Full(g, f, w)) /\ Full(g, f, w).want # "value"
<1> DEFINE h == Full(g, f, w)
<1>1. CASE f.t = "arr"
  <2>1. /\ h = [t |-> h.t, arr |-> h.arr, tab |-> h.tab, key |-> h.key, want |-> h.want]
        /\ h.t = "arr" /\ h.want = "item"
    BY <1>1 DEF IsFrame, Full
  <2> HIDE DEF h
  <2>2. IsFrame(h) /\ h.want # "value"
    BY <2>1 DEF IsFrame
  <2> QED
    BY <2>2 DEF h
<1>2. CASE f.t = "tab"
  <2>1. f.t # "arr"
    BY <1>2
  <2>2. /\ h = [t |-> h.t, arr |-> h.arr, tab |-> h.tab, key |-> h.key, want |-> h.want]
        /\ h.t = "tab" /\ h.want = "key"
    BY <1>2, <2>1 DEF IsFrame, Full
  <2> HIDE DEF h
  <2>3. IsFrame(h) /\ h.want # "value"
    BY <2>2 DEF IsFrame
  <2> QED
    BY <2>3 DEF h
<1> QED
  BY <1>1, <1>2 DEF IsFrame

\* A value and the comma or the closing bracket after it.
LEMMA Valued ==
  ASSUME NEW g, NEW f, IsFrame(f), f.want # "key", NEW s, Frame(g, s, f), NEW x,
         NEW r, NEW w, Derives(g, <<"value", r, w>>)
  PROVE  /\ x.k = "," => Frame(g, Append(s \o r, x), Full(g, f, w))
         /\ x.k = CloserOf(f) => Derives(g, <<"value", Append(s \o r, x), ClosedValue(Full(g, f, w))>>)
<1> DEFINE h == Full(g, f, w)  y == Append(s \o r, x)
<1>1. CASE f.t = "arr"
  <2> DEFINE a == f.arr
  <2>1. Derives(g, <<"items", s, a>>) /\ f.want = "item"
    BY <1>1 DEF Frame, IsFrame
  <2>2. /\ h = [t |-> h.t, arr |-> h.arr, tab |-> h.tab, key |-> h.key, want |-> h.want]
        /\ h.t = "arr" /\ h.want = "item" /\ h.arr = Append(a, w)
    BY <1>1, <2>1 DEF IsFrame, Full
  <2> HIDE DEF h, a, y
  <2>3. ASSUME x.k = ","
        PROVE  Frame(g, y, h)
    <3>1. Gives(g, {<<"items", s, a>>, <<"value", r, w>>}, <<"items", y, Append(a, w)>>)
      BY <2>3, Zenon DEF Gives, y
    <3>2. Derives(g, <<"items", y, Append(a, w)>>)
      BY <2>1, <3>1, FromTwo
    <3> QED
      BY <2>2, <3>2 DEF Frame
  <2>4. ASSUME x.k = CloserOf(f)
        PROVE  Derives(g, <<"value", y, ClosedValue(h)>>)
    <3>1. x.k = "]" /\ ClosedValue(h) = Arr(Append(a, w))
      BY <1>1, <2>2, <2>4 DEF CloserOf, ClosedValue
    <3>2. Gives(g, {<<"items", s, a>>, <<"value", r, w>>}, <<"value", y, Arr(Append(a, w))>>)
      BY <3>1, Zenon DEF Gives, y
    <3> QED
      BY <2>1, <3>1, <3>2, FromTwo
  <2> QED
    BY <2>3, <2>4 DEF h, y
<1>2. CASE f.t = "tab"
  <2> DEFINE e == f.tab  k == f.key
  <2>1. Derives(g, <<"keyed", s, <<e, k>>>>) /\ f.t # "arr"
    BY <1>2 DEF Frame, IsFrame
  <2>2. /\ h = [t |-> h.t, arr |-> h.arr, tab |-> h.tab, key |-> h.key, want |-> h.want]
        /\ h.t = "tab" /\ h.want = "key" /\ h.tab = Entry(g, e, k, w)
    BY <1>2, <2>1 DEF IsFrame, Full
  <2> HIDE DEF h, e, k, y
  <2>3. ASSUME x.k = ","
        PROVE  Frame(g, y, h)
    <3>1. Gives(g, {<<"keyed", s, <<e, k>>>>, <<"value", r, w>>}, <<"entries", y, Entry(g, e, k, w)>>)
      BY <2>3, Zenon DEF Gives, y
    <3>2. Derives(g, <<"entries", y, Entry(g, e, k, w)>>)
      BY <2>1, <3>1, FromTwo
    <3> QED
      BY <2>2, <3>2 DEF Frame
  <2>4. ASSUME x.k = CloserOf(f)
        PROVE  Derives(g, <<"value", y, ClosedValue(h)>>)
    <3>1. x.k = "}" /\ ClosedValue(h) = Tab(Entry(g, e, k, w))
      BY <1>2, <2>2, <2>4 DEF CloserOf, ClosedValue
    <3>2. Gives(g, {<<"keyed", s, <<e, k>>>>, <<"value", r, w>>}, <<"value", y, Tab(Entry(g, e, k, w))>>)
      BY <3>1, Zenon DEF Gives, y
    <3> QED
      BY <2>1, <3>1, <3>2, FromTwo
  <2> QED
    BY <2>3, <2>4 DEF h, y
<1> QED
  BY <1>1, <1>2 DEF IsFrame

-----------------------------------------------------------------------------
(* The shape of the state is kept *)

\* A token is read.
LEMMA Further ==
  ASSUME NEW t, NEW st, NEW at, NEW c, Shape(t, st, at, c), at < Len(t)
  PROVE  Len(t) \in Nat /\ Len(st) \in Nat /\ at + 1 \in Nat /\ at + 1 <= Len(t)
<1>1. Len(t) \in Nat /\ Len(st) \in Nat /\ at \in Nat
  BY LenProperties DEF Shape, IsSeq
<1> QED
  BY <1>1

\* decode_one returns a value of one token.
LEMMA AtomShape ==
  ASSUME NEW t, NEW st, NEW at, Shape(t, st, at, "one"), at < Len(t)
  PROVE  Shape(t, st, at + 1, "ret")
BY Further DEF Shape

\* decode_one enters a container.
LEMMA EnterShape ==
  ASSUME NEW t, NEW st, NEW at, Shape(t, st, at, "one"), at < Len(t), t[at + 1].k # "str", Len(st) <= Guard,
         NEW f, IsFrame(f), f.want # "value"
  PROVE  Shape(t, Append(st, f), at + 1, "loop")
<1> DEFINE n == Len(st)  u == Append(st, f)
<1>1. IsSeq(u) /\ n \in Nat /\ Len(u) = n + 1 /\ u[n + 1] = f /\ \A i \in 1 .. n : u[i] = st[i]
  BY Longer DEF Shape
<1>2. \A m \in 1 .. n : IsFrame(st[m]) /\ (m < n => st[m].want # "key")
  BY DEF Shape
<1>3. n # 0 => st[n].want # "key"
  BY <1>1 DEF Shape, Inner
<1>4. u # <<>>
  BY <1>1
<1>5. Inner(u) = f
  BY <1>1 DEF Inner
<1> HIDE DEF u
<1>6. ASSUME NEW m \in 1 .. n + 1
      PROVE  IsFrame(u[m]) /\ (m < n + 1 => u[m].want # "key")
  <2>1. CASE m = n + 1
    BY <1>1, <2>1
  <2>2. CASE m = n
    <3>1. m \in 1 .. n /\ n # 0
      BY <1>1, <2>2
    <3> QED
      BY <1>1, <1>2, <1>3, <2>2, <3>1
  <2>3. CASE m \in 1 .. n /\ m < n
    BY <1>1, <1>2, <2>3
  <2>4. m = n + 1 \/ m = n \/ (m \in 1 .. n /\ m < n)
    BY <1>1
  <2> QED
    BY <2>1, <2>2, <2>3, <2>4
<1>7. Len(u) <= Guard + 1
  BY <1>1, GuardAssumption
<1>8. IsSeq(t) /\ at + 1 \in Nat /\ at + 1 <= Len(t)
  BY Further DEF Shape
<1>9. Shape(t, u, at + 1, "loop")
  BY <1>1, <1>4, <1>5, <1>6, <1>7, <1>8 DEF Shape
<1> QED
  BY <1>9 DEF u

\* A container is closed.
LEMMA CloseShape ==
  ASSUME NEW t, NEW st, NEW at, NEW c, Shape(t, st, at, c), at < Len(t), st # <<>>
  PROVE  Shape(t, Outer(st), at + 1, "ret") /\ Wanted(Outer(st)) = "value"
<1> DEFINE n == Len(st)  u == Outer(st)
<1>1. IsSeq(u) /\ n \in Nat /\ 1 <= n /\ Len(u) = n - 1 /\ \A i \in 1 .. n - 1 : u[i] = st[i]
  BY Shorter DEF Shape, Outer
<1>2. \A m \in 1 .. n : IsFrame(st[m]) /\ (m < n => st[m].want # "key")
  BY DEF Shape
<1> HIDE DEF u
<1>3. \A m \in 1 .. n - 1 : m \in 1 .. n /\ m < n
  BY <1>1
<1>4. \A m \in 1 .. n - 1 : IsFrame(u[m]) /\ u[m].want # "key"
  BY <1>1, <1>2, <1>3
<1>5. Len(u) <= Guard + 1
  <2>1. n <= Guard + 1
    BY DEF Shape
  <2> QED
    BY <1>1, <2>1, GuardAssumption
<1>6. IsSeq(t) /\ at + 1 \in Nat /\ at + 1 <= Len(t)
  BY Further DEF Shape
<1>7. Shape(t, u, at + 1, "ret")
  BY <1>1, <1>4, <1>5, <1>6 DEF Shape
<1>8. u # <<>> => u[Len(u)].want # "key"
  <2>1. ASSUME u # <<>>
        PROVE  Len(u) \in 1 .. n - 1
    <3>1. Len(u) # 0
      BY <1>1, <2>1, EmptySeq DEF IsSeq
    <3> QED
      BY <1>1, <3>1
  <2> QED
    BY <1>4, <2>1
<1>9. Wanted(u) = "value"
  BY <1>8 DEF Wanted, Inner
<1> QED
  BY <1>7, <1>9 DEF u

\* What the innermost container holds changes.
LEMMA ReplaceShape ==
  ASSUME NEW t, NEW st, NEW at, Shape(t, st, at, "ret"), at < Len(t), st # <<>>, NEW f, IsFrame(f),
         NEW c \in {"one", "loop"}, c = "one" => f.want # "key", c = "loop" => f.want # "value"
  PROVE  Shape(t, Append(Outer(st), f), at + 1, c)
<1> DEFINE n == Len(st)  r == Outer(st)  u == Append(r, f)
<1>1. IsSeq(r) /\ n \in Nat /\ 1 <= n /\ Len(r) = n - 1 /\ \A i \in 1 .. n - 1 : r[i] = st[i]
  BY Shorter DEF Shape, Outer
<1>2. \A m \in 1 .. n : IsFrame(st[m]) /\ (m < n => st[m].want # "key")
  BY DEF Shape
<1> HIDE DEF r
<1>3. IsSeq(u) /\ Len(u) = Len(r) + 1 /\ u[Len(r) + 1] = f /\ \A i \in 1 .. Len(r) : u[i] = r[i]
  BY <1>1, Longer
<1>4. u # <<>>
  BY <1>1, <1>3
<1> HIDE DEF u
<1>5. Len(u) = n /\ u[n] = f /\ Len(r) + 1 = n
  BY <1>1, <1>3
<1>6. ASSUME NEW m \in 1 .. n
      PROVE  IsFrame(u[m]) /\ (m < n => u[m].want # "key")
  <2>1. CASE m = n
    BY <1>5, <2>1
  <2>2. CASE m \in 1 .. n - 1 /\ m < n
    BY <1>1, <1>2, <1>3, <2>2
  <2>3. m = n \/ (m \in 1 .. n - 1 /\ m < n)
    BY <1>1
  <2> QED
    BY <2>1, <2>2, <2>3
<1>7. Inner(u) = f
  BY <1>5 DEF Inner
<1>8. Len(u) <= Guard + 1
  BY <1>5 DEF Shape
<1>9. IsSeq(t) /\ at + 1 \in Nat /\ at + 1 <= Len(t)
  BY Further DEF Shape
<1>10. Shape(t, u, at + 1, c)
  BY <1>3, <1>4, <1>5, <1>6, <1>7, <1>8, <1>9 DEF Shape
<1> QED
  BY <1>10 DEF u, r

\* The loop goes on to a value or a key.
LEMMA LoopShape ==
  ASSUME NEW t, NEW st, NEW at, Shape(t, st, at, "loop"),
         Inner(st).want = "key" => at < Len(t) /\ t[at + 1].k = "str"
  PROVE  Shape(t, st, at, "one")
BY DEF Shape

\* The innermost container.
LEMMA InnerFrame ==
  ASSUME NEW t, NEW st, NEW at, NEW c, Shape(t, st, at, c), st # <<>>
  PROVE  IsFrame(Inner(st)) /\ Len(st) \in Nat
<1>1. Len(st) \in Nat /\ 1 <= Len(st)
  BY Shorter DEF Shape
<1> QED
  BY <1>1 DEF Shape, Inner

-----------------------------------------------------------------------------
(* The steps of the decoder *)

\* what was read when decode_one, a loop or a return comes next
Read(c) == Shape(text, stack, p, c) /\ Reads(flags, text, stack, p, c, ret)

\* what a step leads to: an error, or a state that is read up to
Goes ==
  \/ pc' = "done" /\ outcome' # "decoded" /\ UNCHANGED <<p, stack, ret>>
  \/ pc' \in {"one", "loop", "ret"} /\ outcome' = outcome
     /\ Shape(text, stack', p', pc') /\ Reads(flags, text, stack', p', pc', ret')

\* The next token.
LEMMA KindAt ==
  ASSUME Kind # "eos"
  PROVE  p < Len(text) /\ text[p + 1].k = Kind
BY DEF Kind

\* A value of one token.
LEMMA OneReturns ==
  ASSUME Read("one"), Kind # "eos", NEW v, Return(v), UNCHANGED stack,
         Derives(flags, <<Wanted(stack), <<text[p + 1]>>, v>>)
  PROVE  Goes
<1>1. p < Len(text) /\ Shape(text, stack, p, "one") /\ Reads(flags, text, stack, p, "one", ret)
  BY KindAt DEF Read
<1>2. Shape(text, stack, p + 1, "ret")
  BY <1>1, AtomShape
<1>3. Reads(flags, text, stack, p + 1, "ret", v)
  BY <1>1, Atom
<1>4. pc' = "ret" /\ outcome' = outcome /\ p' = p + 1 /\ ret' = v /\ stack' = stack
  BY DEF Return
<1> QED
  BY <1>2, <1>3, <1>4 DEF Goes

\* A container of one token.
LEMMA OneEnters ==
  ASSUME Read("one"), Kind \notin {"eos", "str"}, Len(stack) <= Guard, NEW c \in {"arr", "tab"}, Enter(c),
         Frame(flags, <<text[p + 1]>>, Open(c))
  PROVE  Goes
<1> DEFINE f == Open(c)
<1>1. p < Len(text) /\ Shape(text, stack, p, "one") /\ Reads(flags, text, stack, p, "one", ret) /\ text[p + 1].k # "str"
  BY KindAt DEF Read
<1>2. IsFrame(f) /\ f.want # "value"
  BY DEF IsFrame, Open
<1>3. pc' = "loop" /\ outcome' = outcome /\ p' = p + 1 /\ ret' = ret /\ stack' = Append(stack, f)
  BY DEF Enter
<1>4. Frame(flags, <<text[p + 1]>>, f)
  OBVIOUS
<1> HIDE DEF f
<1>5. Shape(text, Append(stack, f), p + 1, "loop")
  BY <1>1, <1>2, EnterShape
<1>6. Reads(flags, text, Append(stack, f), p + 1, "loop", ret)
  BY <1>1, <1>4, Entered
<1> QED
  BY <1>3, <1>5, <1>6 DEF Goes

\* decode_one.
LEMMA OneGoes ==
  ASSUME Read("one"), DecodeOne
  PROVE  Goes
<1> DEFINE x == text[p + 1]
<1>1. Wanted(stack) \in {"value", "string"} /\ (Kind \notin {"eos", "str"} => Wanted(stack) = "value")
  BY KindAt DEF Wanted, Read, Shape
<1>2. CASE TooDeep
  BY <1>2 DEF DecodeOne, DecodeError, Goes
<1>3. CASE ~TooDeep
  <2>0. Len(stack) <= Guard
    <3>1. Len(stack) \in Nat
      BY LenProperties DEF Read, Shape, IsSeq
    <3> QED
      BY <1>3, <3>1, GuardAssumption DEF TooDeep
  <2>1. CASE Kind = "null"
    <3> DEFINE v == IF nils THEN Nil ELSE NullKeyword
    <3>1. Return(v) /\ UNCHANGED stack
      BY <1>3, <2>1 DEF DecodeOne, NumberTexts
    <3>2. x.k = "null" /\ flags[2] = nils /\ Wanted(stack) = "value"
      BY <1>1, <2>1, KindAt DEF flags
    <3>3. Derives(flags, <<"value", <<x>>, IF flags[2] THEN Nil ELSE NullKeyword>>)
      BY <3>2, Tokens, Zenon
    <3>4. Derives(flags, <<Wanted(stack), <<x>>, v>>)
      BY <3>2, <3>3, Zenon
    <3> HIDE DEF v
    <3> QED
      BY <2>1, <3>1, <3>4, OneReturns
  <2>7. CASE Kind \in NumberTexts
    <3>1. Return(Val(Strtod(Kind))) /\ UNCHANGED stack
      BY <1>3, <2>7 DEF DecodeOne, NumberTexts
    <3>2. Kind \notin {"eos", "str"}
      BY <2>7 DEF NumberTexts
    <3>3. x.k \in NumberTexts /\ x.k = Kind /\ Wanted(stack) = "value"
      BY <1>1, <2>7, <3>2, KindAt
    <3>4. Derives(flags, <<"value", <<x>>, Val(Strtod(x.k))>>)
      BY <3>3, Tokens, Zenon
    <3> DEFINE v == Val(Strtod(Kind))
    <3>5. Derives(flags, <<Wanted(stack), <<x>>, v>>)
      BY <3>3, <3>4, Zenon
    <3>6. Return(v) /\ Kind # "eos"
      BY <3>1, <3>2
    <3> HIDE DEF v
    <3> QED
      BY <3>1, <3>5, <3>6, OneReturns
  <2>2. CASE Kind \in {"true", "false"}
    <3>1. Return(Val(Kind)) /\ UNCHANGED stack
      BY <1>3, <2>2 DEF DecodeOne, NumberTexts
    <3>2. x.k \in {"true", "false"} /\ x.k = Kind /\ Wanted(stack) = "value"
      BY <1>1, <2>2, KindAt
    <3>3. Derives(flags, <<"value", <<x>>, Val(x.k)>>)
      BY <3>2, Tokens, Zenon
    <3>4. Derives(flags, <<Wanted(stack), <<x>>, Val(Kind)>>)
      BY <3>2, <3>3, Zenon
    <3>5. Kind # "eos"
      BY <2>2
    <3> QED
      BY <3>1, <3>4, <3>5, OneReturns
  <2>3. CASE Kind = "str"
    <3> DEFINE r == DecodeString(x.u)
    <3>1. IF r.ok THEN Return(Str(r.out)) /\ UNCHANGED stack ELSE DecodeError("bad string")
      BY <1>3, <2>3 DEF DecodeOne, NumberTexts
    <3>2. CASE ~r.ok
      BY <3>1, <3>2 DEF DecodeError, Goes
    <3>3. CASE r.ok
      <4>1. x.k = "str"
        BY <2>3, KindAt
      <4>2. \A n \in {"value", "string"} : Derives(flags, <<n, <<x>>, Str(r.out)>>)
        BY <3>3, <4>1, Tokens, Zenon
      <4>3. Derives(flags, <<Wanted(stack), <<x>>, Str(r.out)>>)
        BY <1>1, <4>2, Zenon
      <4>4. Return(Str(r.out)) /\ UNCHANGED stack
        BY <3>1, <3>3
      <4> HIDE DEF r
      <4> QED
        BY <2>3, <4>3, <4>4, OneReturns
    <3> QED
      BY <3>2, <3>3
  <2>4. CASE Kind = "["
    <3>1. Enter("arr")
      BY <1>3, <2>4 DEF DecodeOne, NumberTexts
    <3>2. Derives(flags, <<"items", <<x>>, <<>>>>)
      BY <2>4, KindAt, Tokens
    <3>3. Open("arr").t = "arr" /\ Open("arr").want = "item" /\ Open("arr").arr = <<>>
      BY DEF Open
    <3>4. Frame(flags, <<x>>, Open("arr"))
      BY <3>2, <3>3 DEF Frame
    <3> QED
      BY <2>0, <2>4, <3>1, <3>4, OneEnters
  <2>5. CASE Kind = "{"
    <3>1. Enter("tab")
      BY <1>3, <2>5 DEF DecodeOne, NumberTexts
    <3>2. Derives(flags, <<"entries", <<x>>, {}>>)
      BY <2>5, KindAt, Tokens
    <3>3. Open("tab").t = "tab" /\ Open("tab").want = "key" /\ Open("tab").tab = {}
      BY DEF Open
    <3>4. Frame(flags, <<x>>, Open("tab"))
      BY <3>2, <3>3 DEF Frame
    <3> QED
      BY <2>0, <2>5, <3>1, <3>4, OneEnters
  <2>6. CASE Kind \notin {"null", "true", "false", "str", "[", "{"} \cup NumberTexts
    BY <1>3, <2>6 DEF DecodeOne, DecodeError, Goes
  <2> QED
    BY <2>1, <2>2, <2>3, <2>4, <2>5, <2>6, <2>7
<1> QED
  BY <1>2, <1>3

\* A container is closed, and its value returned.
LEMMA ClosesIt ==
  ASSUME NEW c \in {"loop", "ret"}, Read(c), stack # <<>>, Kind # "eos", NEW v, Return(v), stack' = Rest,
         c = "loop" => \A s : Frame(flags, s, Top) /\ (s # <<>> => s[Len(s)] = text[p]) =>
                         Derives(flags, <<"value", Append(s, text[p + 1]), v>>),
         c = "ret" => \A s, r : Frame(flags, s, Top) /\ Derives(flags, <<Wanted(stack), r, ret>>) =>
                        Derives(flags, <<"value", Append(s \o r, text[p + 1]), v>>)
  PROVE  Goes
<1>1. p < Len(text) /\ Shape(text, stack, p, c) /\ Reads(flags, text, stack, p, c, ret)
  BY KindAt DEF Read
<1>2. Top = Inner(stack) /\ Rest = Outer(stack)
  BY DEF Top, Rest, Inner, Outer
<1>3. Shape(text, Outer(stack), p + 1, "ret") /\ Wanted(Outer(stack)) = "value"
  BY <1>1, CloseShape
<1>4. /\ c = "loop" => \A s : Frame(flags, s, Inner(stack)) /\ (s # <<>> => s[Len(s)] = text[p]) =>
                         Derives(flags, <<"value", Append(s, text[p + 1]), v>>)
      /\ c = "ret" => \A s, r : Frame(flags, s, Inner(stack)) /\ Derives(flags, <<Wanted(stack), r, ret>>) =>
                        Derives(flags, <<"value", Append(s \o r, text[p + 1]), v>>)
  BY <1>2
<1>5. Reads(flags, text, Outer(stack), p + 1, "ret", v)
  BY <1>1, <1>3, <1>4, Closed
<1>6. pc' = "ret" /\ outcome' = outcome /\ p' = p + 1 /\ ret' = v /\ stack' = Outer(stack)
  BY <1>2 DEF Return
<1> QED
  BY <1>3, <1>5, <1>6 DEF Goes

\* The innermost container takes in what decode_one returned.
LEMMA TakesIn ==
  ASSUME Read("ret"), stack # <<>>, Kind # "eos", NEW f, IsFrame(f), NEW c \in {"one", "loop"},
         c = "one" => f.want # "key", c = "loop" => f.want # "value",
         stack' = Append(Rest, f), p' = p + 1, pc' = c, UNCHANGED <<ret, outcome>>,
         \A s, r : Frame(flags, s, Top) /\ Derives(flags, <<Wanted(stack), r, ret>>) =>
                     Frame(flags, Append(s \o r, text[p + 1]), f)
  PROVE  Goes
<1>1. p < Len(text) /\ Shape(text, stack, p, "ret") /\ Reads(flags, text, stack, p, "ret", ret)
  BY KindAt DEF Read
<1>2. Top = Inner(stack) /\ Rest = Outer(stack)
  BY DEF Top, Rest, Inner, Outer
<1>3. \A s, r : Frame(flags, s, Inner(stack)) /\ Derives(flags, <<Wanted(stack), r, ret>>) =>
                  Frame(flags, Append(s \o r, text[p + 1]), f)
  BY <1>2
<1>4. Shape(text, Append(Outer(stack), f), p + 1, c)
  BY <1>1, ReplaceShape
<1>5. Reads(flags, text, Append(Outer(stack), f), p + 1, c, ret)
  BY <1>1, <1>3, TakenIn
<1>6. stack' = Append(Outer(stack), f)
  BY <1>2
<1> QED
  BY <1>4, <1>5, <1>6 DEF Goes

\* The head of the loop.
LEMMA LoopGoes ==
  ASSUME Read("loop"), DecodeLoop
  PROVE  Goes
<1> DEFINE f == Top
<1>1. stack # <<>> /\ f = Inner(stack) /\ f.want # "value" /\ IsFrame(f)
  BY InnerFrame DEF Read, Shape, Top, Inner
<1>2. Closer = CloserOf(f) /\ Closer \in {"]", "}"}
  BY DEF Closer, CloserOf
<1>3. CASE CloserNext
  <2>1. Return(ClosedValue(f)) /\ stack' = Rest
    BY <1>3 DEF DecodeLoop
  <2>2. Kind # "eos" /\ text[p + 1].k = CloserOf(f) /\ ~(text[p].k = "," /\ text[p + 1].w)
    BY <1>2, <1>3, KindAt DEF CloserNext
  <2> HIDE DEF f
  <2>3. ASSUME NEW s, Frame(flags, s, f), s # <<>> => s[Len(s)] = text[p]
        PROVE  Derives(flags, <<"value", Append(s, text[p + 1]), ClosedValue(f)>>)
    <3>1. ~Apart(s, text[p + 1])
      BY <2>2, <2>3 DEF Apart
    <3> QED
      BY <1>1, <2>2, <2>3, <3>1, Ended
  <2>4. \A s : Frame(flags, s, Top) /\ (s # <<>> => s[Len(s)] = text[p]) =>
                 Derives(flags, <<"value", Append(s, text[p + 1]), ClosedValue(f)>>)
    BY <2>3 DEF f
  <2> DEFINE v == ClosedValue(f)
  <2> HIDE DEF v
  <2>5. Return(v) /\ \A s : Frame(flags, s, Top) /\ (s # <<>> => s[Len(s)] = text[p]) =>
                              Derives(flags, <<"value", Append(s, text[p + 1]), v>>)
    BY <2>1, <2>4 DEF v
  <2> QED
    BY <1>1, <2>1, <2>2, <2>5, ClosesIt
<1>4. CASE ~CloserNext /\ f.t = "tab" /\ Kind # "str"
  BY <1>4 DEF DecodeLoop, DecodeError, Goes
<1>5. CASE ~CloserNext /\ ~(f.t = "tab" /\ Kind # "str")
  <2>1. pc' = "one" /\ UNCHANGED <<p, stack, ret, outcome>>
    BY <1>5 DEF DecodeLoop
  <2>2. f.want = "key" => Kind = "str"
    BY <1>1, <1>5 DEF IsFrame
  <2>3. f.want = "key" => p < Len(text) /\ text[p + 1].k = "str"
    BY <2>2, KindAt
  <2>4. Shape(text, stack, p, "one")
    BY <1>1, <2>3, LoopShape DEF Read
  <2>5. Reads(flags, text, stack, p, "one", ret)
    BY DEF Read, Reads
  <2> QED
    BY <2>1, <2>4, <2>5 DEF Goes
<1> QED
  BY <1>3, <1>4, <1>5

\* What follows a value.
LEMMA ReturnGoes ==
  ASSUME Read("ret"), DecodeReturn
  PROVE  Goes \/ ( /\ pc' = "done" /\ outcome' = "decoded" /\ UNCHANGED <<p, stack, ret>>
                   /\ Kind = "eos" /\ Derives(flags, <<"value", SubSeq(text, 1, p), ret>>) )
<1>1. CASE stack = <<>>
  <2>1. CASE Kind # "eos"
    BY <1>1, <2>1 DEF DecodeReturn, DecodeError, Goes
  <2>2. CASE Kind = "eos"
    <3>1. pc' = "done" /\ outcome' = "decoded" /\ UNCHANGED <<p, stack, ret>>
      BY <1>1, <2>2 DEF DecodeReturn
    <3>2. PICK q : Held(flags, text, stack, q) /\ Derives(flags, <<Wanted(stack), Cut(text, q[Len(stack) + 1], p), ret>>)
      BY DEF Read, Reads
    <3>3. Len(stack) + 1 = 1 /\ q[1] = 0 /\ Wanted(stack) = "value"
      BY <1>1, <3>2 DEF Held, Wanted
    <3>4. Cut(text, q[Len(stack) + 1], p) = SubSeq(text, 1, p)
      <4>1. 0 + 1 = 1
        OBVIOUS
      <4>2. q[Len(stack) + 1] = 0
        BY <3>3
      <4> QED
        BY <4>1, <4>2, Zenon DEF Cut
    <3>5. Derives(flags, <<"value", SubSeq(text, 1, p), ret>>)
      BY <3>2, <3>3, <3>4, Zenon
    <3> QED
      BY <2>2, <3>1, <3>5
  <2> QED
    BY <2>1, <2>2
<1>2. CASE stack # <<>>
  <2> DEFINE f == Top  x == text[p + 1]
  <2>1. f = Inner(stack) /\ IsFrame(f)
    BY <1>2, InnerFrame DEF Read, Top, Inner
  <2>2. Closer = CloserOf(f) /\ Closer \in {"]", "}"}
    BY DEF Closer, CloserOf
  <2>3. Wanted(stack) = IF f.want = "key" THEN "string" ELSE "value"
    BY <1>2, <2>1 DEF Wanted
  <2>4. CASE f.want = "key" /\ Kind = ":"
    <3> DEFINE h == [f EXCEPT !.key = ret, !.want = "value"]
    <3>1. stack' = Append(Rest, h) /\ p' = p + 1 /\ pc' = "one" /\ UNCHANGED <<ret, outcome>>
      BY <1>2, <2>4 DEF DecodeReturn
    <3>2. x.k = ":" /\ Kind # "eos"
      BY <2>4, KindAt
    <3>3. h.want = "value"
      BY <2>1 DEF IsFrame
    <3>4. PICK s0, r0 : Frame(flags, s0, f) /\ Derives(flags, <<"string", r0, ret>>)
      <4>1. PICK q : Held(flags, text, stack, q) /\ Derives(flags, <<Wanted(stack), Cut(text, q[Len(stack) + 1], p), ret>>)
        BY DEF Read, Reads
      <4>2. Frame(flags, Cut(text, q[Len(stack)], q[Len(stack) + 1]), f)
        BY <1>2, <2>1, <4>1, Popped DEF Read, Shape, Inner
      <4> QED
        BY <2>3, <2>4, <4>1, <4>2
    <3> HIDE DEF f, x
    <3>5. \A s, r : Frame(flags, s, f) /\ Derives(flags, <<"string", r, ret>>) =>
                      Frame(flags, Append(s \o r, x), h) /\ IsFrame(h)
      BY <2>1, <2>4, <3>2, Keyed
    <3> HIDE DEF h
    <3>6. IsFrame(h)
      BY <3>4, <3>5
    <3>7. \A s, r : Frame(flags, s, Top) /\ Derives(flags, <<Wanted(stack), r, ret>>) =>
                      Frame(flags, Append(s \o r, text[p + 1]), h)
      BY <2>3, <2>4, <3>5 DEF f, x
    <3>8. h.want # "key"
      BY <3>3
    <3>9. Goes
      BY <1>2, <3>1, <3>2, <3>6, <3>7, <3>8, TakesIn
    <3> QED
      BY <3>9
  <2>5. CASE f.want = "key" /\ Kind # ":"
    BY <1>2, <2>5 DEF DecodeReturn, DecodeError, Goes
  <2>6. CASE f.want # "key" /\ Kind \in {Closer, ","}
    <3> DEFINE h == Full(flags, f, ret)
    <3>1. Filled = h
      <4>1. KeyOf(f.key) = IF flags[1] THEN Kw(f.key.s) ELSE f.key
        BY DEF KeyOf, flags
      <4> QED
        BY <4>1 DEF Filled, Full, Entry
    <3>2. Kind # "eos" /\ x.k = Kind
      BY <2>2, <2>6, KindAt
    <3>4. CASE Kind = Closer
      <4> DEFINE v == ClosedValue(h)
      <4>1. Return(v) /\ stack' = Rest
        BY <1>2, <2>2, <2>6, <3>1, <3>4 DEF DecodeReturn
      <4>2. x.k = CloserOf(f)
        BY <2>2, <3>2, <3>4
      <4> HIDE DEF f, x
      <4>3. \A s, r : Frame(flags, s, f) /\ Derives(flags, <<"value", r, ret>>) =>
                        Derives(flags, <<"value", Append(s \o r, x), ClosedValue(Full(flags, f, ret))>>)
        BY <2>1, <2>6, <4>2, Valued
      <4>4. \A s, r : Frame(flags, s, f) /\ Derives(flags, <<"value", r, ret>>) =>
                        Derives(flags, <<"value", Append(s \o r, x), v>>)
        BY <4>3
      <4> HIDE DEF h, v
      <4>5. \A s, r : Frame(flags, s, Top) /\ Derives(flags, <<Wanted(stack), r, ret>>) =>
                        Derives(flags, <<"value", Append(s \o r, text[p + 1]), v>>)
        BY <2>3, <2>6, <4>4 DEF f, x
      <4>6. Goes
        BY <1>2, <3>2, <4>1, <4>5, ClosesIt
      <4> QED
        BY <4>6
    <3>5. CASE Kind = ","
      <4>1. stack' = Append(Rest, h) /\ p' = p + 1 /\ pc' = "loop" /\ UNCHANGED <<ret, outcome>>
        BY <1>2, <2>2, <2>6, <3>1, <3>5 DEF DecodeReturn
      <4>2. x.k = ","
        BY <3>2, <3>5
      <4> HIDE DEF f, x
      <4>3. IsFrame(Full(flags, f, ret)) /\ Full(flags, f, ret).want # "value"
        BY <2>1, <2>6, FullFrame
      <4>4. \A s, r : Frame(flags, s, f) /\ Derives(flags, <<"value", r, ret>>) =>
                        Frame(flags, Append(s \o r, x), Full(flags, f, ret))
        BY <2>1, <2>6, <4>2, Valued
      <4>5. \A s, r : Frame(flags, s, f) /\ Derives(flags, <<"value", r, ret>>) => Frame(flags, Append(s \o r, x), h)
        BY <4>4
      <4>6. IsFrame(h) /\ h.want # "value"
        BY <4>3
      <4> HIDE DEF h
      <4>7. \A s, r : Frame(flags, s, Top) /\ Derives(flags, <<Wanted(stack), r, ret>>) =>
                        Frame(flags, Append(s \o r, text[p + 1]), h)
        BY <2>3, <2>6, <4>5 DEF f, x
      <4>8. Goes
        BY <1>2, <3>2, <4>1, <4>6, <4>7, TakesIn
      <4> QED
        BY <4>8
    <3> QED
      BY <2>6, <3>4, <3>5
  <2>7. CASE f.want # "key" /\ Kind \notin {Closer, ","}
    BY <1>2, <2>7 DEF DecodeReturn, DecodeError, Goes
  <2> QED
    BY <2>4, <2>5, <2>6, <2>7
<1> QED
  BY <1>1, <1>2

-----------------------------------------------------------------------------
(* The invariant of the decoder *)

Reading == {"one", "loop", "ret"}

DInv ==
  /\ DecodesMeaning
  /\ DecodeBounded
  /\ outcome = "decoded" => pc = "done"
  /\ pc \in {"idle", "encode"} => source = "none"
  /\ pc \in Reading => source # "none" /\ Read(pc)

\* A step of the decoder keeps it.
LEMMA ReadingKeeps ==
  ASSUME DInv, pc \in Reading, UNCHANGED <<text, flags, source>>,
         Goes \/ ( /\ pc' = "done" /\ outcome' = "decoded" /\ UNCHANGED <<p, stack, ret>>
                   /\ Kind = "eos" /\ Derives(flags, <<"value", SubSeq(text, 1, p), ret>>) )
  PROVE  DInv'
<1>0. text' = text /\ flags' = flags /\ source' = source /\ outcome # "decoded" /\ source # "none"
  BY DEF DInv, Reading
<1>1. CASE pc' = "done" /\ outcome' # "decoded" /\ UNCHANGED <<p, stack, ret>>
  BY <1>0, <1>1 DEF DInv, DecodesMeaning, DecodeBounded, Reading
<1>2. CASE pc' \in Reading /\ outcome' = outcome
           /\ Shape(text, stack', p', pc') /\ Reads(flags, text, stack', p', pc', ret')
  <2>1. p' <= Len(text') /\ Len(stack') <= Guard + 1
    BY <1>0, <1>2 DEF Shape
  <2>2. Shape(text', stack', p', pc') /\ Reads(flags', text', stack', p', pc', ret')
    BY <1>0, <1>2
  <2>3. Read(pc)'
    BY <2>2 DEF Read
  <2>4. DecodesMeaning' /\ DecodeBounded'
    BY <1>0, <1>2, <2>1 DEF DecodesMeaning, DecodeBounded
  <2> QED
    BY <1>0, <1>2, <2>3, <2>4 DEF DInv, Reading
<1>3. CASE /\ pc' = "done" /\ outcome' = "decoded" /\ UNCHANGED <<p, stack, ret>>
           /\ Kind = "eos" /\ Derives(flags, <<"value", SubSeq(text, 1, p), ret>>)
  <2>1. Kind' = Kind
    BY <1>0, <1>3 DEF Kind
  <2>2. Derives(flags', <<"value", SubSeq(text', 1, p'), ret'>>)
    BY <1>0, <1>3
  <2>3. DecodesMeaning'
    BY <1>3, <2>1, <2>2 DEF DecodesMeaning
  <2>4. DecodeBounded'
    BY <1>0, <1>3 DEF DInv, DecodeBounded
  <2> QED
    BY <1>0, <1>3, <2>3, <2>4 DEF DInv, Reading
<1> QED
  BY <1>1, <1>2, <1>3 DEF Goes, Reading

\* A text is given to json/decode.
LEMMA DecodeKeeps ==
  ASSUME NEW t, IsSeq(t), NEW kw, NEW nl, Decode(t, kw, nl), source' # "none"
  PROVE  DInv'
<1>1. /\ text' = t /\ p' = 0 /\ stack' = <<>> /\ pc' = "one" /\ outcome' = "none"
  BY DEF Decode
<1>2. Len(t) \in Nat
  BY LenProperties DEF IsSeq
<1>3. IsSeq(<<>>) /\ Len(<<>>) = 0
  BY EmptySeq DEF IsSeq
<1>4. 0 <= Len(t) /\ 0 <= Guard + 1
  BY <1>2, GuardAssumption
<1>5. Shape(t, <<>>, 0, "one")
  BY <1>3, <1>4 DEF Shape
<1>6. Reads(flags', t, <<>>, 0, "one", ret')
  <2> DEFINE q == [m \in 1 .. 1 |-> 0]
  <2>1. q[1] = 0 /\ \A m \in 1 .. 1 : q[m] = 0
    OBVIOUS
  <2> HIDE DEF q
  <2>2. Len(<<>>) + 1 = 1 /\ 1 .. Len(<<>>) = {}
    BY <1>3
  <2>3. Held(flags', t, <<>>, q)
    BY <1>4, <2>1, <2>2 DEF Held
  <2> QED
    BY <2>1, <2>2, <2>3 DEF Reads
<1>7. Shape(text', stack', p', pc') /\ Reads(flags', text', stack', p', pc', ret')
  BY <1>1, <1>5, <1>6
<1>8. Read(pc)'
  BY <1>7 DEF Read
<1>9. DecodesMeaning' /\ DecodeBounded'
  BY <1>1, <1>3, <1>4 DEF DecodesMeaning, DecodeBounded
<1> QED
  BY <1>1, <1>8, <1>9 DEF DInv, Reading

\* Every step keeps it.
LEMMA KeepsD ==
  ASSUME KInv, DInv, [Next]_vars
  PROVE  DInv'
<1>1. ASSUME NEW v \in Values, NEW b \in Buffers, Encode(v, b)
      PROVE  DInv'
  <2>1. pc = "idle" /\ pc' = "encode" /\ outcome' = outcome /\ source' = source
    BY <1>1 DEF Encode
  <2> QED
    BY <2>1 DEF DInv, DecodesMeaning, DecodeBounded, Reading
<1>2. CASE EncodeStep \/ EncodeEnds
  <2>1. pc = "encode" /\ pc' \in {"encode", "done"} /\ source' = source /\ outcome' # "decoded"
    <3>1. CASE EncodeEnds
      BY <3>1 DEF EncodeEnds
    <3>2. CASE EncodeStep
      <4>1. outcome # "decoded" /\ pc = "encode" /\ source' = source
        BY <3>2 DEF EncodeStep, DInv
      <4>2. ASSUME UNCHANGED <<pc, outcome>> \/ (pc' = "done" /\ outcome' # "decoded")
            PROVE  pc' \in {"encode", "done"} /\ outcome' # "decoded"
        BY <4>1, <4>2
      <4> DEFINE w == Head(work)
      <4>3. \A s : EncodeBytes(s) => UNCHANGED <<pc, outcome>> \/ (pc' = "done" /\ outcome' # "decoded")
        BY DEF EncodeBytes, EncodeError
      <4>4. \A x : EncodeValue(x) => UNCHANGED <<pc, outcome>> \/ (pc' = "done" /\ outcome' # "decoded")
        BY <4>3 DEF EncodeValue, EncodeError
      <4>5. CloseContainer => UNCHANGED <<pc, outcome>>
        BY DEF CloseContainer
      <4>6. w.do \in {"value", "key", "token", "close"}
        <5>1. w \in Item
          BY <3>2, Steps DEF EncodeStep, DInv, KInv
        <5> QED
          BY <5>1 DEF Item
      <4>12. \A x : EncodeOne(x) => UNCHANGED <<pc, outcome>> \/ (pc' = "done" /\ outcome' # "decoded")
        BY <4>4 DEF EncodeOne, EncodeError
      <4>7. w.do = "value" => EncodeOne(w.x)
        BY <3>2 DEF EncodeStep
      <4>8. w.do = "key" => EncodeOne(w.x) \/ EncodeError("object key must be a byte sequence")
        BY <3>2 DEF EncodeStep
      <4>9. w.do = "token" => UNCHANGED <<pc, outcome>>
        BY <3>2 DEF EncodeStep
      <4>10. w.do = "close" => CloseContainer
        BY <3>2 DEF EncodeStep
      <4> HIDE DEF w
      <4>11. UNCHANGED <<pc, outcome>> \/ (pc' = "done" /\ outcome' # "decoded")
        BY <4>5, <4>6, <4>7, <4>8, <4>9, <4>10, <4>12 DEF EncodeError
      <4> QED
        BY <4>1, <4>2, <4>11
    <3> QED
      BY <1>2, <3>1, <3>2
  <2> QED
    BY <2>1 DEF DInv, DecodesMeaning, DecodeBounded, Reading
<1>3. CASE DecodeOwn
  <2>1. PICK kw, nl \in BOOLEAN : Decode(text, kw, nl)
    BY <1>3 DEF DecodeOwn
  <2>2. source = "none" /\ source' = "own"
    BY <1>3 DEF DecodeOwn
  <2>3. IsSeq(text)
    BY <2>2 DEF KInv, Behind, IsSeq
  <2> QED
    BY <2>1, <2>2, <2>3, DecodeKeeps
<1>4. CASE DecodeForeign
  <2>1. PICK t \in Foreign, kw, nl \in BOOLEAN : Decode(t, kw, nl)
    BY <1>4 DEF DecodeForeign
  <2>2. source' = "foreign"
    BY <1>4 DEF DecodeForeign
  <2>3. IsSeq(t)
    BY ForeignAssumption DEF IsSeq
  <2> QED
    BY <2>1, <2>2, <2>3, DecodeKeeps
<1>5. CASE DecodeOne
  <2>1. pc = "one" /\ UNCHANGED <<text, flags, source>>
    BY <1>5 DEF DecodeOne
  <2>2. Read("one")
    BY <2>1 DEF DInv, Reading
  <2> QED
    BY <1>5, <2>1, <2>2, OneGoes, ReadingKeeps DEF Reading
<1>6. CASE DecodeLoop
  <2>1. pc = "loop" /\ UNCHANGED <<text, flags, source>>
    BY <1>6 DEF DecodeLoop
  <2>2. Read("loop")
    BY <2>1 DEF DInv, Reading
  <2> QED
    BY <1>6, <2>1, <2>2, LoopGoes, ReadingKeeps DEF Reading
<1>7. CASE DecodeReturn
  <2>1. pc = "ret" /\ UNCHANGED <<text, flags, source>>
    BY <1>7 DEF DecodeReturn
  <2>2. Read("ret")
    BY <2>1 DEF DInv, Reading
  <2> QED
    BY <1>7, <2>1, <2>2, ReturnGoes, ReadingKeeps DEF Reading
<1>8. CASE UNCHANGED vars
  <2>1. UNCHANGED <<pc, text, p, stack, ret, outcome, source, keywords, nils>>
    BY <1>8 DEF vars
  <2>2. flags' = flags
    BY <2>1 DEF flags
  <2>3. Kind' = Kind
    BY <2>1 DEF Kind
  <2>4. Derives(flags, <<"value", SubSeq(text, 1, p), ret>>)
          => Derives(flags', <<"value", SubSeq(text', 1, p'), ret'>>)
    BY <2>1, <2>2
  <2>5. Read(pc) => Read(pc)'
    BY <2>1, <2>2 DEF Read
  <2> QED
    BY <2>1, <2>3, <2>4, <2>5 DEF DInv, DecodesMeaning, DecodeBounded
<1> QED
  BY <1>1, <1>2, <1>3, <1>4, <1>5, <1>6, <1>7, <1>8 DEF Next

\* It holds at the start, with the encoder's.
LEMMA InitD == Init => DInv
BY DEF Init, DInv, DecodesMeaning, DecodeBounded, Reading

\* json/decode returns only what the text means: whatever text it is given, its own or
\* foreign, however deep, when it returns a value then the tokens it read are a text of
\* the grammar from the first to the last, nothing but the end follows, and a derivation
\* ends in exactly the value returned, with the keys and nulls as the flags ask.
THEOREM DecodesGrammar == Spec => []DecodesMeaning
<1>1. Init => KInv /\ DInv
  BY InitK, InitD
<1>2. KInv /\ DInv /\ [Next]_vars => (KInv /\ DInv)'
  BY KeepsK, KeepsD
<1>3. DInv => DecodesMeaning
  BY DEF DInv
<1> QED
  BY <1>1, <1>2, <1>3, PTL DEF Spec

\* json/decode never looks behind the end of the text, whatever the text, and the guard
\* bounds its recursion by one more than JANET_RECURSION_GUARD frames.
THEOREM DecodeStaysBounded == Spec => []DecodeBounded
<1>1. Init => KInv /\ DInv
  BY InitK, InitD
<1>2. KInv /\ DInv /\ [Next]_vars => (KInv /\ DInv)'
  BY KeepsK, KeepsD
<1>3. DInv => DecodeBounded
  BY DEF DInv
<1> QED
  BY <1>1, <1>2, <1>3, PTL DEF Spec

-----------------------------------------------------------------------------
(***************************************************************************)
(* Strings.                                                                *)
(***************************************************************************)
\* Complete induction: a set that holds each number after all the smaller ones holds all.
LEMMA AllNumbers ==
  ASSUME NEW G, \A n \in Nat : (\A m \in 0 .. n - 1 : m \in G) => n \in G
  PROVE  \A n \in Nat : n \in G
<1> DEFINE B == Nat \ G
<1>1. SUFFICES ASSUME B # {}
               PROVE  FALSE
  OBVIOUS
<1>2. PICK x \in B : \A y \in B : ~(<<y, x>> \in OpToRel(<, Nat))
  <2>1. B \subseteq Nat
    OBVIOUS
  <2> HIDE DEF B
  <2> QED
    BY <1>1, <2>1, NatLessThanWellFounded, WFMin
<1>3. x \in Nat /\ x \notin G
  BY <1>2
<1>4. ASSUME NEW m \in 0 .. x - 1
      PROVE  m \in G
  <2>1. m \in Nat /\ m < x
    BY <1>3
  <2>2. <<m, x>> \in OpToRel(<, Nat)
    BY <1>3, <2>1 DEF OpToRel
  <2> QED
    BY <1>2, <2>1, <2>2
<1> QED
  BY <1>3, <1>4

-----------------------------------------------------------------------------
(* Walks *)

\* what a walk gives at i, in terms of what it gives further on
At(n, step, f, i) ==
  IF i > n THEN [ok |-> TRUE, out |-> <<>>]
  ELSE IF step[i][1] = 0 THEN [ok |-> FALSE, out |-> <<>>]
  ELSE [ok |-> f[i + step[i][1]].ok, out |-> step[i][2] \o f[i + step[i][1]].out]

\* no step leads past the end
Within(n, step) == \A i \in 1 .. n : step[i][1] \in Nat /\ i + step[i][1] <= n + 1

\* A walk is what its definition says.
LEMMA WalkDef ==
  ASSUME NEW n \in Nat, NEW step, Within(n, step)
  PROVE  \A i \in 1 .. n + 1 : Walk(n, step)[i] = At(n, step, Walk(n, step), i)
<1> DEFINE Solves(f, m) == f = [i \in n + 1 - m .. n + 1 |-> At(n, step, f, i)]
           G == {m \in Nat : m <= n => \E f : Solves(f, m)}
<1>1. ASSUME NEW m \in Nat, \A l \in 0 .. m - 1 : l \in G
      PROVE  m \in G
  <2> SUFFICES ASSUME m <= n
               PROVE  \E f : Solves(f, m)
    OBVIOUS
  <2>1. CASE m = 0
    <3>1. At(n, step, <<>>, n + 1) = [ok |-> TRUE, out |-> <<>>]
      BY DEF At
    <3>2. \A f : At(n, step, f, n + 1) = [ok |-> TRUE, out |-> <<>>]
      BY DEF At
    <3>3. Solves([i \in n + 1 - m .. n + 1 |-> [ok |-> TRUE, out |-> <<>>]], m)
      BY <2>1, <3>2
    <3> QED
      BY <3>3
  <2>2. CASE m # 0
    <3>1. m - 1 \in 0 .. m - 1 /\ m - 1 <= n
      BY <2>2
    <3>2. PICK g : Solves(g, m - 1)
      BY <1>1, <3>1
    <3> DEFINE k == n + 1 - m
               f == [i \in k .. n + 1 |-> IF i = k THEN At(n, step, g, k) ELSE g[i]]
    <3>3. k \in 1 .. n /\ n + 1 - (m - 1) = k + 1
      BY <2>2
    <3>4. g = [i \in k + 1 .. n + 1 |-> At(n, step, g, i)]
      BY <3>2, <3>3
    <3> HIDE DEF k
    <3>5. \A i \in k + 1 .. n + 1 : f[i] = g[i]
      BY <3>3
    <3>6. ASSUME NEW i \in k .. n + 1
          PROVE  At(n, step, f, i) = At(n, step, g, i)
      <4>1. CASE i > n
        BY <4>1 DEF At
      <4>2. CASE i <= n /\ step[i][1] = 0
        BY <3>3, <4>2 DEF At
      <4>3. CASE i <= n /\ step[i][1] # 0
        <5>1. i \in 1 .. n
          BY <3>3, <4>3
        <5>2. step[i][1] \in Nat /\ i + step[i][1] <= n + 1
          BY <5>1 DEF Within
        <5>3. i + step[i][1] \in k + 1 .. n + 1
          BY <3>3, <4>3, <5>1, <5>2
        <5>4. f[i + step[i][1]] = g[i + step[i][1]]
          BY <3>5, <5>3
        <5> HIDE DEF f
        <5> QED
          BY <5>4 DEF At
      <4> QED
        BY <3>3, <4>1, <4>2, <4>3
    <3>7. f[k] = At(n, step, f, k)
      BY <3>3, <3>6
    <3>8. \A i \in k + 1 .. n + 1 : f[i] = At(n, step, f, i)
      <4>1. ASSUME NEW i \in k + 1 .. n + 1
            PROVE  f[i] = At(n, step, f, i)
        <5>1. i \in k .. n + 1
          BY <3>3
        <5>2. g[i] = At(n, step, g, i)
          BY <3>4
        <5> QED
          BY <3>5, <3>6, <5>1, <5>2
      <4> QED
        BY <4>1
    <3>9. \A i \in k .. n + 1 : f[i] = At(n, step, f, i)
      BY <3>3, <3>7, <3>8
    <3>10. f = [i \in k .. n + 1 |-> f[i]]
      OBVIOUS
    <3> HIDE DEF f
    <3>11. f = [i \in k .. n + 1 |-> At(n, step, f, i)]
      BY <3>9, <3>10
    <3> QED
      BY <3>11 DEF k
  <2> QED
    BY <2>1, <2>2
<1>2. n \in G
  <2> HIDE DEF G
  <2> QED
    BY <1>1, AllNumbers
<1>3. \E f : f = [i \in 1 .. n + 1 |-> At(n, step, f, i)]
  <2>1. n + 1 - n = 1
    OBVIOUS
  <2> QED
    BY <1>2, <2>1
<1>4. Walk(n, step) = [i \in 1 .. n + 1 |-> At(n, step, Walk(n, step), i)]
  BY <1>3 DEF Walk, At
<1> QED
  BY <1>4

\* The walks of the encoder, of the decoder and of the reference.
EncStep(s) == [i \in 1 .. Len(s) |-> LET r == CodePoint(s, i) IN <<r[1], UnitsOf(r[2])>>]
DecStep(u) == [i \in 1 .. Len(u) |-> UnitAt(u, i)]
RefStep(s) == [i \in 1 .. Len(s) |-> <<CharLen(s, i), <<>>>>]
Enc(s) == Walk(Len(s), EncStep(s))
Dec(u) == Walk(Len(u), DecStep(u))
Ref(s) == Walk(Len(s), RefStep(s))

-----------------------------------------------------------------------------
(* Characters *)

\* a byte that continues a character
IsCont(x) == x \in Int /\ 128 <= x /\ x <= 191

\* the code point of a character of k bytes
Point(s, i, k) ==
  CASE k = 1 -> s[i]
    [] k = 2 -> (s[i] % 32) * 64 + (s[i + 1] % 64)
    [] k = 3 -> (s[i] % 16) * 4096 + (s[i + 1] % 64) * 64 + (s[i + 2] % 64)
    [] k = 4 -> (s[i] % 8) * 262144 + (s[i + 1] % 64) * 4096 + (s[i + 3] % 64) * 64 + (s[i + 3] % 64)

\* the first byte announces k bytes, and as many as that are there
Announced(s, i, k) ==
  /\ i + k - 1 <= Len(s)
  /\ k = 1 => s[i] < 128
  /\ k = 2 => 128 <= s[i] /\ s[i] <= 223 /\ IsCont(s[i + 1])
  /\ k = 3 => 224 <= s[i] /\ s[i] <= 239 /\ IsCont(s[i + 1]) /\ IsCont(s[i + 2])
  /\ k = 4 => 240 <= s[i] /\ s[i] <= 247 /\ IsCont(s[i + 1]) /\ IsCont(s[i + 2]) /\ IsCont(s[i + 3])

\* encode_one's cases, by the first byte.
LEMMA Cases ==
  ASSUME NEW s, NEW i, s[i] \in Int
  PROVE  /\ s[i] < 128 => CodePoint(s, i) = <<1, Point(s, i, 1)>>
         /\ 128 <= s[i] /\ s[i] <= 223 =>
              CodePoint(s, i) = IF Follows(s, i + 1) THEN <<2, Point(s, i, 2)>> ELSE Invalid
         /\ 224 <= s[i] /\ s[i] <= 239 =>
              CodePoint(s, i) = IF Follows(s, i + 1) /\ Follows(s, i + 2) THEN <<3, Point(s, i, 3)>> ELSE Invalid
         /\ 240 <= s[i] /\ s[i] <= 247 =>
              CodePoint(s, i) = IF Follows(s, i + 1) /\ Follows(s, i + 2) /\ Follows(s, i + 3)
                                THEN <<4, Point(s, i, 4)>> ELSE Invalid
         /\ 247 < s[i] => CodePoint(s, i) = Invalid
<1>0. /\ (\A k \in 1 .. 1 : Follows(s, i + k)) <=> Follows(s, i + 1)
      /\ (\A k \in 1 .. 2 : Follows(s, i + k)) <=> Follows(s, i + 1) /\ Follows(s, i + 2)
      /\ (\A k \in 1 .. 3 : Follows(s, i + k)) <=> Follows(s, i + 1) /\ Follows(s, i + 2) /\ Follows(s, i + 3)
  BY SMT
<1>1. CASE s[i] < 128
  BY SMT, <1>1 DEF CodePoint, Point
<1>2. CASE 128 <= s[i] /\ s[i] <= 223
  <2>1. s[i] \in 128 .. 223 /\ s[i] \notin 224 .. 239 /\ s[i] \notin 240 .. 247 /\ ~(s[i] < 128)
    BY SMT, <1>2
  <2>2. CASE Follows(s, i + 1)
    BY SMT, <1>0, <1>2, <2>1, <2>2 DEF CodePoint, Point
  <2>3. CASE ~Follows(s, i + 1)
    BY SMT, <1>0, <1>2, <2>1, <2>3 DEF CodePoint
  <2> QED
    BY SMT, <2>2, <2>3
<1>3. CASE 224 <= s[i] /\ s[i] <= 239
  <2>1. s[i] \notin 128 .. 223 /\ s[i] \in 224 .. 239 /\ s[i] \notin 240 .. 247 /\ ~(s[i] < 128)
    BY SMT, <1>3
  <2>2. CASE Follows(s, i + 1) /\ Follows(s, i + 2)
    BY SMT, <1>0, <1>3, <2>1, <2>2 DEF CodePoint, Point
  <2>3. CASE ~(Follows(s, i + 1) /\ Follows(s, i + 2))
    BY SMT, <1>0, <1>3, <2>1, <2>3 DEF CodePoint
  <2> QED
    BY SMT, <2>2, <2>3
<1>4. CASE 240 <= s[i] /\ s[i] <= 247
  <2>1. s[i] \notin 128 .. 223 /\ s[i] \notin 224 .. 239 /\ s[i] \in 240 .. 247 /\ ~(s[i] < 128)
    BY SMT, <1>4
  <2>2. CASE Follows(s, i + 1) /\ Follows(s, i + 2) /\ Follows(s, i + 3)
    BY SMT, <1>0, <1>4, <2>1, <2>2 DEF CodePoint, Point
  <2>3. CASE ~(Follows(s, i + 1) /\ Follows(s, i + 2) /\ Follows(s, i + 3))
    BY SMT, <1>0, <1>4, <2>1, <2>3 DEF CodePoint
  <2> QED
    BY SMT, <2>2, <2>3
<1>5. CASE 247 < s[i]
  <2>1. s[i] \notin 128 .. 223 /\ s[i] \notin 224 .. 239 /\ s[i] \notin 240 .. 247 /\ ~(s[i] < 128)
    BY SMT, <1>5
  <2> QED
    BY SMT, <1>5, <2>1 DEF CodePoint
<1> QED
  BY SMT, <1>1, <1>2, <1>3, <1>4, <1>5

\* What encode_one takes for a character.
LEMMA Announces ==
  ASSUME NEW s \in Seq(Bytes), NEW i \in 1 .. Len(s), CodePoint(s, i) # Invalid
  PROVE  \E k \in {1, 2, 3, 4} : CodePoint(s, i) = <<k, Point(s, i, k)>> /\ Announced(s, i, k)
<1>1. Len(s) \in Nat /\ i \in Int /\ 1 <= i /\ i <= Len(s)
  BY SMT
<1>2. ASSUME NEW j \in Int, 1 <= j, j <= Len(s)
      PROVE  s[j] \in Int /\ 0 <= s[j] /\ s[j] <= 255
  <2>1. j \in 1 .. Len(s)
    BY SMT, <1>1, <1>2
  <2>2. s[j] \in Bytes
    BY SMT, <2>1, ElementOfSeq
  <2>3. \A x \in Bytes : x \in Int /\ 0 <= x /\ x <= 255
    BY SMT DEF Bytes
  <2> QED
    BY SMT, <2>2, <2>3
<1>3. ASSUME NEW k \in {1, 2, 3}, Follows(s, i + k)
      PROVE  i + k <= Len(s) /\ IsCont(s[i + k])
  <2>1. i + k \in Int /\ 1 <= i + k /\ i + k <= Len(s) /\ s[i + k] \div 64 = 2
    BY SMT, <1>1, <1>3 DEF Follows
  <2>2. s[i + k] \in Int /\ 0 <= s[i + k] /\ s[i + k] <= 255
    BY SMT, <1>2, <2>1
  <2>3. \A x \in Int : x \div 64 = 2 => 128 <= x /\ x <= 191
    BY SMT
  <2> QED
    BY SMT, <2>1, <2>2, <2>3 DEF IsCont
<1>4. s[i] \in Int /\ 0 <= s[i] /\ s[i] <= 255
  BY SMT, <1>1, <1>2
<1>5. \/ s[i] < 128
      \/ 128 <= s[i] /\ s[i] <= 223
      \/ 224 <= s[i] /\ s[i] <= 239
      \/ 240 <= s[i] /\ s[i] <= 247
      \/ 247 < s[i]
  <2>1. \A x \in Int : \/ x < 128
                       \/ 128 <= x /\ x <= 223
                       \/ 224 <= x /\ x <= 239
                       \/ 240 <= x /\ x <= 247
                       \/ 247 < x
    BY SMT
  <2> QED
    BY SMT, <1>4, <2>1
<1>6. CASE s[i] < 128
  <2>1. Announced(s, i, 1)
    BY SMT, <1>1, <1>6 DEF Announced
  <2> QED
    BY SMT, <1>4, <1>6, <2>1, Cases
<1>7. CASE 128 <= s[i] /\ s[i] <= 223
  <2>1. Follows(s, i + 1) /\ CodePoint(s, i) = <<2, Point(s, i, 2)>>
    BY SMT, <1>4, <1>7, Cases
  <2>2. Announced(s, i, 2)
    BY SMT, <1>1, <1>3, <1>7, <2>1 DEF Announced
  <2> QED
    BY SMT, <2>1, <2>2
<1>8. CASE 224 <= s[i] /\ s[i] <= 239
  <2>1. Follows(s, i + 1) /\ Follows(s, i + 2) /\ CodePoint(s, i) = <<3, Point(s, i, 3)>>
    BY SMT, <1>4, <1>8, Cases
  <2>2. Announced(s, i, 3)
    BY SMT, <1>1, <1>3, <1>8, <2>1 DEF Announced
  <2> QED
    BY SMT, <2>1, <2>2
<1>9. CASE 240 <= s[i] /\ s[i] <= 247
  <2>1. /\ Follows(s, i + 1) /\ Follows(s, i + 2) /\ Follows(s, i + 3)
        /\ CodePoint(s, i) = <<4, Point(s, i, 4)>>
    BY SMT, <1>4, <1>9, Cases
  <2>2. Announced(s, i, 4)
    BY SMT, <1>1, <1>3, <1>9, <2>1 DEF Announced
  <2> QED
    BY SMT, <2>1, <2>2
<1>10. CASE 247 < s[i]
  BY SMT, <1>4, <1>10, Cases
<1> QED
  BY SMT, <1>5, <1>6, <1>7, <1>8, <1>9, <1>10

\* what the standard asks beyond that, and what encode_one keeps
Proper(s, i, k) ==
  /\ k = 2 => 194 <= s[i]
  /\ k = 3 => ~(s[i] = 224 /\ s[i + 1] < 160) /\ ~(s[i] = 237 /\ 159 < s[i + 1])
  /\ k = 4 => /\ s[i] <= 244 /\ ~(s[i] = 240 /\ s[i + 1] < 144) /\ ~(s[i] = 244 /\ 143 < s[i + 1])
              /\ s[i + 2] = s[i + 3]

\* The bytes of a string are numbers.
LEMMA BytesAreInts ==
  ASSUME NEW s \in Seq(Bytes), NEW j \in Int, 1 <= j, j <= Len(s)
  PROVE  s[j] \in Int /\ 0 <= s[j] /\ s[j] <= 255
<1>1. j \in 1 .. Len(s)
  BY SMT
<1>2. s[j] \in Bytes
  BY SMT, <1>1, ElementOfSeq
<1>3. \A x \in Bytes : x \in Int /\ 0 <= x /\ x <= 255
  BY SMT DEF Bytes
<1> QED
  BY SMT, <1>2, <1>3

\* The table of the standard, in inequalities.
LEMMA Table ==
  ASSUME NEW s, NEW i \in Int, NEW k \in {1, 2, 3, 4},
         \A j \in {0, 1, 2, 3} : j < k /\ i + k - 1 <= Len(s) => s[i + j] \in Int
  PROVE  CharAt(s, i, k) <=> Announced(s, i, k) /\ Proper(s, i, k)
<1>0. i + 1 - 1 = i /\ i + 2 - 1 = i + 1 /\ i + 3 - 1 = i + 2 /\ i + 4 - 1 = i + 3 /\ i + 0 = i
  BY SMT
<1>1. CASE k = 1
  BY SMT, <1>0, <1>1 DEF CharAt, FormAt, Announced, Proper
<1> DEFINE w == s[i]  x == s[i + 1]  y == s[i + 2]  z == s[i + 3]
<1>2. CASE k = 2
  <2>1. FormAt(s, i, 2) <=> i + 1 <= Len(s) /\ w \in 194 .. 223 /\ x \in 128 .. 191
    BY SMT, <1>0 DEF FormAt, Cont
  <2>2. i + 1 <= Len(s) => w \in Int /\ x \in Int
    BY SMT, <1>0, <1>2
  <2>3. CharAt(s, i, 2) <=> FormAt(s, i, 2)
    BY SMT DEF CharAt
  <2>4. Announced(s, i, 2) <=> i + 1 <= Len(s) /\ 128 <= w /\ w <= 223 /\ IsCont(x)
    BY SMT, <1>0 DEF Announced
  <2>5. Proper(s, i, 2) <=> 194 <= w
    BY SMT DEF Proper
  <2> HIDE DEF w, x
  <2>6. ASSUME NEW a \in Int, NEW b \in Int
        PROVE  a \in 194 .. 223 /\ b \in 128 .. 191
               <=> 128 <= a /\ a <= 223 /\ 128 <= b /\ b <= 191 /\ 194 <= a
    BY SMT
  <2>7. i + 1 <= Len(s) => (CharAt(s, i, 2) <=> Announced(s, i, 2) /\ Proper(s, i, 2))
    <3> SUFFICES ASSUME i + 1 <= Len(s)
                 PROVE  CharAt(s, i, 2) <=> Announced(s, i, 2) /\ Proper(s, i, 2)
      OBVIOUS
    <3>0. w \in Int /\ x \in Int
      BY <2>2
    <3>1. (w \in 194 .. 223 /\ x \in 128 .. 191)
          <=>
          (128 <= w /\ w <= 223 /\ 128 <= x /\ x <= 191 /\ 194 <= w)
      BY <3>0, <2>6
    <3> QED
      BY <2>1, <2>2, <2>3, <2>4, <2>5, <3>1 DEF IsCont
  <2>8. CharAt(s, i, 2) <=> Announced(s, i, 2) /\ Proper(s, i, 2)
    BY SMT, <2>1, <2>3, <2>4, <2>7
  <2> QED
    BY SMT, <1>2, <2>8
<1>3. CASE k = 3
  <2>1. FormAt(s, i, 3) <=> /\ i + 2 <= Len(s)
                            /\ \/ w = 224 /\ x \in 160 .. 191
                               \/ w \in (225 .. 236) \cup {238, 239} /\ x \in 128 .. 191
                               \/ w = 237 /\ x \in 128 .. 159
                            /\ y \in 128 .. 191
    BY SMT, <1>0 DEF FormAt, Cont
  <2>2. i + 2 <= Len(s) => w \in Int /\ x \in Int /\ y \in Int
    BY SMT, <1>0, <1>3
  <2>3. CharAt(s, i, 3) <=> FormAt(s, i, 3)
    BY SMT DEF CharAt
  <2>4. Announced(s, i, 3) <=> i + 2 <= Len(s) /\ 224 <= w /\ w <= 239 /\ IsCont(x) /\ IsCont(y)
    BY SMT, <1>0 DEF Announced
  <2>5. Proper(s, i, 3) <=> ~(w = 224 /\ x < 160) /\ ~(w = 237 /\ 159 < x)
    BY SMT DEF Proper
  <2> HIDE DEF w, x, y
  <2>6. ASSUME NEW a \in Int, NEW b \in Int, NEW c \in Int
        PROVE  /\ \/ a = 224 /\ b \in 160 .. 191
                  \/ a \in (225 .. 236) \cup {238, 239} /\ b \in 128 .. 191
                  \/ a = 237 /\ b \in 128 .. 159
               /\ c \in 128 .. 191
               <=> /\ 224 <= a /\ a <= 239 /\ 128 <= b /\ b <= 191 /\ 128 <= c /\ c <= 191
                   /\ ~(a = 224 /\ b < 160) /\ ~(a = 237 /\ 159 < b)
    BY SMT
  <2>7. i + 2 <= Len(s) => (CharAt(s, i, 3) <=> Announced(s, i, 3) /\ Proper(s, i, 3))
    <3> SUFFICES ASSUME i + 2 <= Len(s)
                 PROVE  CharAt(s, i, 3) <=> Announced(s, i, 3) /\ Proper(s, i, 3)
      OBVIOUS
    <3>0. w \in Int /\ x \in Int /\ y \in Int
      BY <2>2
    <3>1. (/\ \/ w = 224 /\ x \in 160 .. 191
              \/ w \in (225 .. 236) \cup {238, 239} /\ x \in 128 .. 191
              \/ w = 237 /\ x \in 128 .. 159
           /\ y \in 128 .. 191)
          <=>
          (/\ 224 <= w /\ w <= 239 /\ 128 <= x /\ x <= 191 /\ 128 <= y /\ y <= 191
           /\ ~(w = 224 /\ x < 160) /\ ~(w = 237 /\ 159 < x))
      BY <3>0, <2>6
    <3> QED
      BY <2>1, <2>2, <2>3, <2>4, <2>5, <3>1 DEF IsCont
  <2>8. CharAt(s, i, 3) <=> Announced(s, i, 3) /\ Proper(s, i, 3)
    BY SMT, <2>1, <2>3, <2>4, <2>7
  <2> QED
    BY SMT, <1>3, <2>8
<1>4. CASE k = 4
  <2>1. FormAt(s, i, 4) <=> /\ i + 3 <= Len(s)
                            /\ \/ w = 240 /\ x \in 144 .. 191
                               \/ w \in 241 .. 243 /\ x \in 128 .. 191
                               \/ w = 244 /\ x \in 128 .. 143
                            /\ y \in 128 .. 191 /\ z \in 128 .. 191
    BY SMT, <1>0 DEF FormAt, Cont
  <2>2. i + 3 <= Len(s) => w \in Int /\ x \in Int /\ y \in Int /\ z \in Int
    BY SMT, <1>0, <1>4
  <2>3. CharAt(s, i, 4) <=> FormAt(s, i, 4) /\ y = z
    BY SMT DEF CharAt
  <2>4. Announced(s, i, 4) <=> i + 3 <= Len(s) /\ 240 <= w /\ w <= 247 /\ IsCont(x) /\ IsCont(y) /\ IsCont(z)
    BY SMT, <1>0 DEF Announced
  <2>5. Proper(s, i, 4) <=> w <= 244 /\ ~(w = 240 /\ x < 144) /\ ~(w = 244 /\ 143 < x) /\ y = z
    BY SMT DEF Proper
  <2> HIDE DEF w, x, y, z
  <2>6. ASSUME NEW a \in Int, NEW b \in Int, NEW c \in Int, NEW d \in Int
        PROVE  /\ \/ a = 240 /\ b \in 144 .. 191
                  \/ a \in 241 .. 243 /\ b \in 128 .. 191
                  \/ a = 244 /\ b \in 128 .. 143
               /\ c \in 128 .. 191 /\ d \in 128 .. 191
               <=> /\ 240 <= a /\ a <= 247 /\ 128 <= b /\ b <= 191
                   /\ 128 <= c /\ c <= 191 /\ 128 <= d /\ d <= 191
                   /\ a <= 244 /\ ~(a = 240 /\ b < 144) /\ ~(a = 244 /\ 143 < b)
    BY SMT
  <2>7. i + 3 <= Len(s) => (CharAt(s, i, 4) <=> Announced(s, i, 4) /\ Proper(s, i, 4))
    <3> SUFFICES ASSUME i + 3 <= Len(s)
                 PROVE  CharAt(s, i, 4) <=> Announced(s, i, 4) /\ Proper(s, i, 4)
      OBVIOUS
    <3>0. w \in Int /\ x \in Int /\ y \in Int /\ z \in Int
      BY <2>2
    <3>1. (/\ \/ w = 240 /\ x \in 144 .. 191
              \/ w \in 241 .. 243 /\ x \in 128 .. 191
              \/ w = 244 /\ x \in 128 .. 143
           /\ y \in 128 .. 191 /\ z \in 128 .. 191)
          <=>
          (/\ 240 <= w /\ w <= 247 /\ 128 <= x /\ x <= 191
           /\ 128 <= y /\ y <= 191 /\ 128 <= z /\ z <= 191
           /\ w <= 244 /\ ~(w = 240 /\ x < 144) /\ ~(w = 244 /\ 143 < x))
      BY <3>0, <2>6
    <3> QED
      BY <2>1, <2>2, <2>3, <2>4, <2>5, <3>1 DEF IsCont
  <2>8. CharAt(s, i, 4) <=> Announced(s, i, 4) /\ Proper(s, i, 4)
    BY SMT, <2>1, <2>3, <2>4, <2>7
  <2> QED
    BY SMT, <1>4, <2>8
<1> QED
  BY SMT, <1>1, <1>2, <1>3, <1>4

-----------------------------------------------------------------------------
(* Code points and their bytes *)

\* The code point of two bytes.
LEMMA TwoBytes ==
  ASSUME NEW a \in Int, NEW b \in Int, NEW c, 128 <= a, a <= 223, 128 <= b, b <= 191,
         c = (a % 32) * 64 + (b % 64)
  PROVE  /\ c \in Int /\ 0 <= c /\ c <= 2047
         /\ 194 <= a => 128 <= c /\ 192 + c \div 64 = a /\ 128 + (c % 64) = b
         /\ a < 194 => (c < 128 \/ 192 + c \div 64 # a)
BY SMT

\* What decode_string writes for a code point.
LEMMA UtfOne ==
  ASSUME NEW c \in Int, c <= 127
  PROVE  Utf8(c) = <<c>>
BY SMT DEF Utf8

\* Two bytes below 2^11.
LEMMA UtfTwo ==
  ASSUME NEW c \in Int, 128 <= c, c <= 2047
  PROVE  Utf8(c) = <<192 + c \div 64, 128 + (c % 64)>>
BY SMT DEF Utf8

\* Three bytes below 2^16.
LEMMA UtfThree ==
  ASSUME NEW c \in Int, 2048 <= c, c <= 65535
  PROVE  Utf8(c) = <<224 + c \div 4096, 128 + ((c \div 64) % 64), 128 + (c % 64)>>
BY SMT DEF Utf8

\* Four bytes above.
LEMMA UtfFour ==
  ASSUME NEW c \in Int, 65536 <= c
  PROVE  Utf8(c) = <<240 + ((c \div 262144) % 8), 128 + ((c \div 4096) % 64),
                     128 + ((c \div 64) % 64), 128 + (c % 64)>>
BY SMT DEF Utf8

\* the bytes of a code point are those of the string
Comes(s, i, k, c) == Len(Utf8(c)) = k /\ \A m \in {1, 2, 3, 4} : m <= k => Utf8(c)[m] = s[i + m - 1]

\* they are others
Differs(s, i, k, c) == \E m \in {1, 2, 3} : m <= k /\ m <= Len(Utf8(c)) /\ Utf8(c)[m] # s[i + m - 1]

\* a code point that is a character
Plain(c) == c <= 1114111 /\ ~(55296 <= c /\ c <= 57343)

\* the code points of the supplementary planes
Far(d) == d \in Int /\ 65536 <= d /\ d <= 1114111

\* what the bytes of a character say of its code point
Judged(s, i, k, c) ==
  /\ c \in Int /\ 0 <= c /\ c <= 2097151
  /\ Proper(s, i, k) => Plain(c) /\ Comes(s, i, k, c)
  /\ ~Proper(s, i, k) => /\ Plain(c) => Differs(s, i, k, c)
                         /\ 55296 <= c /\ c <= 57343 => \A d : Far(d) => Differs(s, i, k, d)

\* One and two bytes.
LEMMA JudgeShort ==
  ASSUME NEW s, NEW i \in Int, NEW k \in {1, 2}, Announced(s, i, k),
         \A j \in {0, 1} : j < k => s[i + j] \in Int /\ 0 <= s[i + j]
  PROVE  Judged(s, i, k, Point(s, i, k))
<1>0. i + 1 - 1 = i /\ i + 2 - 1 = i + 1 /\ i + 0 = i
  BY SMT
<1> DEFINE a == s[i]  b == s[i + 1]  c == Point(s, i, k)
<1>1. CASE k = 1
  <2>1. c = a /\ a \in Int /\ 0 <= a /\ a < 128 /\ Proper(s, i, k)
    BY SMT, <1>0, <1>1 DEF Point, Announced, Proper
  <2>2. Utf8(a) = <<a>>
    BY SMT, <2>1, UtfOne
  <2>3. Comes(s, i, k, a)
    BY SMT, <1>0, <1>1, <2>2 DEF Comes
  <2>4. Plain(a)
    BY SMT, <2>1 DEF Plain
  <2> QED
    BY SMT, <2>1, <2>3, <2>4 DEF Judged
<1>2. CASE k = 2
  <2>1. a \in Int /\ b \in Int /\ 128 <= a /\ a <= 223 /\ 128 <= b /\ b <= 191
    BY SMT, <1>0, <1>2 DEF Announced, IsCont
  <2>2. c = (a % 32) * 64 + (b % 64)
    BY SMT, <1>2 DEF Point
  <2>3. Proper(s, i, k) <=> 194 <= a
    BY SMT, <1>2 DEF Proper
  <2> HIDE DEF c
  <2>4. /\ c \in Int /\ 0 <= c /\ c <= 2047
        /\ 194 <= a => 128 <= c /\ 192 + c \div 64 = a /\ 128 + (c % 64) = b
        /\ a < 194 => (c < 128 \/ 192 + c \div 64 # a)
    <3> HIDE DEF a, b
    <3> QED
      BY SMT, <2>1, <2>2, TwoBytes
  <2>5. Plain(c) /\ ~(55296 <= c /\ c <= 57343)
    BY SMT, <2>4 DEF Plain
  <2>6. ASSUME 194 <= a
        PROVE  Comes(s, i, k, c)
    <3>1. Utf8(c) = <<a, b>>
      BY SMT, <2>4, <2>6, UtfTwo
    <3> QED
      BY SMT, <1>0, <1>2, <3>1 DEF Comes
  <2>7. ASSUME ~(194 <= a)
        PROVE  Differs(s, i, k, c)
    <3>1. Utf8(c)[1] # a /\ 1 <= Len(Utf8(c))
      <4>1. CASE c <= 127
        BY SMT, <2>1, <2>4, <4>1, UtfOne
      <4>2. CASE 128 <= c
        <5>1. 192 + c \div 64 # a
          BY SMT, <2>1, <2>4, <2>7, <4>2
        <5>2. Utf8(c) = <<192 + c \div 64, 128 + (c % 64)>>
          BY SMT, <2>4, <4>2, UtfTwo
        <5> QED
          BY SMT, <5>1, <5>2
      <4> QED
        BY SMT, <2>4, <4>1, <4>2
    <3> QED
      BY SMT, <1>0, <1>2, <3>1 DEF Differs
  <2>8. Judged(s, i, k, c)
    BY SMT, <2>3, <2>4, <2>5, <2>6, <2>7 DEF Judged
  <2> QED
    BY SMT, <2>8 DEF c
<1> QED
  BY SMT, <1>1, <1>2

\* The first byte of a code point tells how far up it is.
LEMMA FirstByte ==
  ASSUME NEW c \in Int, 0 <= c
  PROVE  /\ 1 <= Len(Utf8(c))
         /\ c <= 2047 => Utf8(c)[1] \in Int /\ Utf8(c)[1] <= 223
         /\ c <= 65535 => Utf8(c)[1] \in Int /\ Utf8(c)[1] <= 239
<1>1. CASE c <= 127
  BY SMT, <1>1, UtfOne
<1>2. CASE 128 <= c /\ c <= 2047
  <2>1. Utf8(c) = <<192 + c \div 64, 128 + (c % 64)>>
    BY SMT, <1>2, UtfTwo
  <2>2. 192 + c \div 64 \in Int /\ 192 + c \div 64 <= 223
    BY SMT, <1>2
  <2> QED
    BY SMT, <2>1, <2>2
<1>3. CASE 2048 <= c /\ c <= 65535
  <2>1. Utf8(c) = <<224 + c \div 4096, 128 + ((c \div 64) % 64), 128 + (c % 64)>>
    BY SMT, <1>3, UtfThree
  <2>2. 224 + c \div 4096 \in Int /\ 224 + c \div 4096 <= 239
    BY SMT, <1>3
  <2> QED
    BY SMT, <1>3, <2>1, <2>2
<1>4. CASE 65536 <= c
  BY SMT, <1>4, UtfFour
<1> QED
  BY SMT, <1>1, <1>2, <1>3, <1>4

\* The bytes of the supplementary planes.
LEMMA FarBytes ==
  ASSUME NEW d, Far(d)
  PROVE  /\ Len(Utf8(d)) = 4
         /\ Utf8(d)[1] \in Int /\ 240 <= Utf8(d)[1]
         /\ Utf8(d)[2] \in Int /\ Utf8(d)[1] = 240 => 144 <= Utf8(d)[2]
<1>1. d \in Int /\ 65536 <= d /\ d <= 1114111
  BY SMT DEF Far
<1> DEFINE x == 240 + ((d \div 262144) % 8)
           y == 128 + ((d \div 4096) % 64)
           z == 128 + ((d \div 64) % 64)
           w == 128 + (d % 64)
<1>2. Utf8(d) = <<x, y, z, w>>
  BY SMT, <1>1, UtfFour
<1>3. x \in Int /\ 240 <= x /\ y \in Int
  BY SMT, <1>1
<1>4. x = 240 => 144 <= y
  BY SMT, <1>1
<1> HIDE DEF x, y, z, w
<1> QED
  BY SMT, <1>2, <1>3, <1>4

\* Three bytes.
LEMMA JudgeThree ==
  ASSUME NEW s, NEW i \in Int, Announced(s, i, 3), s[i] \in Int
  PROVE  Judged(s, i, 3, Point(s, i, 3))
<1>0. i + 1 - 1 = i /\ i + 2 - 1 = i + 1 /\ i + 3 - 1 = i + 2
  BY SMT
<1> DEFINE a == s[i]  b == s[i + 1]  e == s[i + 2]  c == Point(s, i, 3)
<1>1. /\ a \in Int /\ b \in Int /\ e \in Int /\ 224 <= a /\ a <= 239
      /\ 128 <= b /\ b <= 191 /\ 128 <= e /\ e <= 191
  BY SMT, <1>0 DEF Announced, IsCont
<1>2. c = (a % 16) * 4096 + (b % 64) * 64 + (e % 64)
  BY SMT DEF Point
<1>3. Proper(s, i, 3) <=> ~(a = 224 /\ b < 160) /\ ~(a = 237 /\ 159 < b)
  BY SMT DEF Proper
<1> HIDE DEF c
<1>4. /\ c \in Int /\ 0 <= c /\ c <= 65535
      /\ c < 2048 <=> a = 224 /\ b < 160
      /\ 55296 <= c /\ c <= 57343 <=> a = 237 /\ 159 < b
      /\ 224 + c \div 4096 = a /\ 128 + ((c \div 64) % 64) = b /\ 128 + (c % 64) = e
  <2> HIDE DEF a, b, e
  <2> QED
    BY SMT, <1>1, <1>2
<1>5. ASSUME Proper(s, i, 3)
      PROVE  Plain(c) /\ Comes(s, i, 3, c)
  <2>1. 2048 <= c
    BY SMT, <1>3, <1>4, <1>5
  <2>2. Utf8(c) = <<a, b, e>>
    BY SMT, <1>4, <2>1, UtfThree
  <2>3. Comes(s, i, 3, c)
    BY SMT, <1>0, <2>2 DEF Comes
  <2>4. Plain(c)
    BY SMT, <1>3, <1>4, <1>5 DEF Plain
  <2> QED
    BY SMT, <2>3, <2>4
<1>6. ASSUME ~Proper(s, i, 3), Plain(c)
      PROVE  Differs(s, i, 3, c)
  <2>1. c < 2048 /\ a = 224
    BY SMT, <1>3, <1>4, <1>6 DEF Plain
  <2>2. Utf8(c)[1] \in Int /\ Utf8(c)[1] <= 223 /\ 1 <= Len(Utf8(c))
    <3>1. c \in Int /\ 0 <= c /\ c <= 2047 /\ c <= 65535
      BY SMT, <1>4, <2>1
    <3>2. Utf8(c)[1] \in Int /\ Utf8(c)[1] <= 223
      BY SMT, <3>1, FirstByte
    <3>3. 1 <= Len(Utf8(c))
      BY SMT, <3>1, FirstByte
    <3> QED
      BY SMT, <3>2, <3>3
  <2>3. Utf8(c)[1] # s[i]
    BY SMT, <2>1, <2>2
  <2> QED
    BY SMT, <1>0, <2>2, <2>3 DEF Differs
<1>7. ASSUME NEW d, Far(d)
      PROVE  Differs(s, i, 3, d)
  <2>1. Len(Utf8(d)) = 4 /\ Utf8(d)[1] \in Int /\ 240 <= Utf8(d)[1]
    BY SMT, <1>7, FarBytes
  <2>2. Utf8(d)[1] # s[i]
    BY SMT, <1>1, <2>1
  <2> QED
    BY SMT, <1>0, <2>1, <2>2 DEF Differs
<1>8. c <= 2097151
  BY SMT, <1>4
<1> QED
  BY SMT, <1>4, <1>5, <1>6, <1>7, <1>8 DEF Judged, c

\* Four bytes.
LEMMA JudgeFour ==
  ASSUME NEW s, NEW i \in Int, Announced(s, i, 4), s[i] \in Int
  PROVE  Judged(s, i, 4, Point(s, i, 4))
<1>0. i + 1 - 1 = i /\ i + 2 - 1 = i + 1 /\ i + 3 - 1 = i + 2 /\ i + 4 - 1 = i + 3
  BY SMT
<1> DEFINE a == s[i]  b == s[i + 1]  f == s[i + 2]  e == s[i + 3]  c == Point(s, i, 4)
<1>1. /\ a \in Int /\ b \in Int /\ f \in Int /\ e \in Int /\ 240 <= a /\ a <= 247
      /\ 128 <= b /\ b <= 191 /\ 128 <= e /\ e <= 191
  BY SMT, <1>0 DEF Announced, IsCont
<1>2. c = (a % 8) * 262144 + (b % 64) * 4096 + (e % 64) * 64 + (e % 64)
  BY SMT DEF Point
<1>3. Proper(s, i, 4) <=> a <= 244 /\ ~(a = 240 /\ b < 144) /\ ~(a = 244 /\ 143 < b) /\ f = e
  BY SMT DEF Proper
<1> HIDE DEF c
<1>4. /\ c \in Int /\ 0 <= c /\ c <= 2097151
      /\ c < 65536 <=> a = 240 /\ b < 144
      /\ 1114111 < c <=> (244 < a \/ (a = 244 /\ 143 < b))
      /\ 240 + ((c \div 262144) % 8) = a /\ 128 + ((c \div 4096) % 64) = b
      /\ 128 + ((c \div 64) % 64) = e /\ 128 + (c % 64) = e
  <2> HIDE DEF a, b, e
  <2> QED
    BY SMT, <1>1, <1>2
<1>5. ASSUME 65536 <= c
      PROVE  Utf8(c) = <<a, b, e, e>>
  BY SMT, <1>4, <1>5, UtfFour
<1>6. ASSUME Proper(s, i, 4)
      PROVE  Plain(c) /\ Comes(s, i, 4, c)
  <2>1. 65536 <= c /\ c <= 1114111 /\ f = e
    BY SMT, <1>1, <1>3, <1>4, <1>6
  <2>2. Utf8(c) = <<a, b, e, e>>
    BY SMT, <1>5, <2>1
  <2>3. Comes(s, i, 4, c)
    BY SMT, <1>0, <2>1, <2>2 DEF Comes
  <2>4. Plain(c)
    BY SMT, <1>4, <2>1 DEF Plain
  <2> QED
    BY SMT, <2>3, <2>4
<1>7. ASSUME ~Proper(s, i, 4), Plain(c)
      PROVE  Differs(s, i, 4, c)
  <2>1. CASE c < 65536
    <3>1. Utf8(c)[1] \in Int /\ Utf8(c)[1] <= 239 /\ 1 <= Len(Utf8(c))
      <4>1. c \in Int /\ 0 <= c /\ c <= 65535
        BY SMT, <1>4, <2>1
      <4> HIDE DEF a, b, f, e
      <4>2. 1 <= Len(Utf8(c)) /\ (c <= 65535 => Utf8(c)[1] \in Int /\ Utf8(c)[1] <= 239)
        BY SMTT(60), <4>1, FirstByte
      <4> QED
        BY SMT, <4>1, <4>2
    <3>2. Utf8(c)[1] # s[i]
      BY SMT, <1>1, <3>1
    <3> QED
      BY SMT, <1>0, <3>1, <3>2 DEF Differs
  <2>2. CASE 65536 <= c
    <3>1. c <= 1114111
      BY SMT, <1>7 DEF Plain
    <3>2. f # e
      BY SMT, <1>1, <1>3, <1>4, <1>7, <2>2, <3>1
    <3>3. Utf8(c) = <<a, b, e, e>>
      BY SMT, <1>5, <2>2
    <3>4. 3 <= Len(Utf8(c)) /\ Utf8(c)[3] # s[i + 2]
      BY SMT, <3>2, <3>3
    <3> QED
      BY SMT, <1>0, <3>4 DEF Differs
  <2> QED
    BY SMT, <1>4, <2>1, <2>2
<1>8. ASSUME 55296 <= c, c <= 57343, NEW d, Far(d)
      PROVE  Differs(s, i, 4, d)
  <2>1. a = 240 /\ b < 144
    BY SMT, <1>4, <1>8
  <2>2. /\ Len(Utf8(d)) = 4 /\ Utf8(d)[1] \in Int /\ 240 <= Utf8(d)[1]
        /\ Utf8(d)[2] \in Int /\ Utf8(d)[1] = 240 => 144 <= Utf8(d)[2]
    BY SMT, <1>8, FarBytes
  <2>3. Utf8(d)[1] # s[i] \/ Utf8(d)[2] # s[i + 1]
    BY SMT, <1>1, <2>1, <2>2
  <2> QED
    BY SMT, <1>0, <2>2, <2>3 DEF Differs
<1> QED
  BY SMT, <1>4, <1>6, <1>7, <1>8 DEF Judged, c

-----------------------------------------------------------------------------
(* One character of a string *)

\* encode_one takes every character that is announced.
LEMMA Taken ==
  ASSUME NEW s \in Seq(Bytes), NEW i \in 1 .. Len(s), NEW k \in {1, 2, 3, 4}, Announced(s, i, k)
  PROVE  CodePoint(s, i) = <<k, Point(s, i, k)>>
<1>1. Len(s) \in Nat /\ i \in Int /\ 1 <= i /\ i <= Len(s)
  BY SMT
<1>2. s[i] \in Int /\ 0 <= s[i] /\ s[i] <= 255
  BY SMT, <1>1, BytesAreInts
<1>3. i + 2 - 1 = i + 1 /\ i + 3 - 1 = i + 2 /\ i + 4 - 1 = i + 3
  BY SMT, <1>1
<1>4. ASSUME NEW j \in Int, j <= Len(s), IsCont(s[j])
      PROVE  Follows(s, j)
  <2>1. \A x \in Int : 128 <= x /\ x <= 191 => x \div 64 = 2
    BY SMT
  <2>2. s[j] \div 64 = 2
    BY SMT, <1>4, <2>1 DEF IsCont
  <2> QED
    BY SMT, <1>4, <2>2 DEF Follows
<1>5. CASE k = 1
  BY SMT, <1>2, <1>5, Cases DEF Announced
<1>6. CASE k = 2
  <2>1. 128 <= s[i] /\ s[i] <= 223 /\ i + 1 \in Int /\ i + 1 <= Len(s) /\ IsCont(s[i + 1])
    BY SMT, <1>1, <1>3, <1>6 DEF Announced
  <2>2. Follows(s, i + 1)
    BY SMT, <1>4, <2>1
  <2> QED
    BY SMT, <1>2, <1>6, <2>1, <2>2, Cases
<1>7. CASE k = 3
  <2>1. /\ 224 <= s[i] /\ s[i] <= 239 /\ i + 1 \in Int /\ i + 2 \in Int
        /\ i + 1 <= Len(s) /\ i + 2 <= Len(s) /\ IsCont(s[i + 1]) /\ IsCont(s[i + 2])
    BY SMT, <1>1, <1>3, <1>7 DEF Announced
  <2>2. Follows(s, i + 1) /\ Follows(s, i + 2)
    BY SMT, <1>4, <2>1
  <2> QED
    BY SMT, <1>2, <1>7, <2>1, <2>2, Cases
<1>8. CASE k = 4
  <2>1. /\ 240 <= s[i] /\ s[i] <= 247 /\ i + 1 \in Int /\ i + 2 \in Int /\ i + 3 \in Int
        /\ i + 1 <= Len(s) /\ i + 2 <= Len(s) /\ i + 3 <= Len(s)
        /\ IsCont(s[i + 1]) /\ IsCont(s[i + 2]) /\ IsCont(s[i + 3])
    BY SMT, <1>1, <1>3, <1>8 DEF Announced
  <2>2. Follows(s, i + 1) /\ Follows(s, i + 2) /\ Follows(s, i + 3)
    BY SMT, <1>4, <2>1
  <2> QED
    BY SMT, <1>2, <1>8, <2>1, <2>2, Cases
<1> QED
  BY SMT, <1>5, <1>6, <1>7, <1>8

\* A character has one length.
LEMMA OneLength ==
  ASSUME NEW s, NEW i, s[i] \in Int, NEW k \in {1, 2, 3, 4}, NEW n \in {1, 2, 3, 4},
         Announced(s, i, k), Announced(s, i, n)
  PROVE  k = n
<1>1. \A m \in {1, 2, 3, 4} : Announced(s, i, m) =>
         /\ m = 1 => s[i] < 128
         /\ m = 2 => 128 <= s[i] /\ s[i] <= 223
         /\ m = 3 => 224 <= s[i] /\ s[i] <= 239
         /\ m = 4 => 240 <= s[i] /\ s[i] <= 247
  BY SMT DEF Announced
<1> DEFINE a == s[i]
<1>2. /\ k = 1 => a < 128
      /\ k = 2 => 128 <= a /\ a <= 223
      /\ k = 3 => 224 <= a /\ a <= 239
      /\ k = 4 => 240 <= a /\ a <= 247
  BY SMT, <1>1
<1>3. /\ n = 1 => a < 128
      /\ n = 2 => 128 <= a /\ a <= 223
      /\ n = 3 => 224 <= a /\ a <= 239
      /\ n = 4 => 240 <= a /\ a <= 247
  BY SMT, <1>1
<1>4. a \in Int
  OBVIOUS
<1> HIDE DEF a
<1> QED
  BY SMT, <1>2, <1>3, <1>4

\* The reference finds a character exactly where one is announced and is proper.
LEMMA CharLenIs ==
  ASSUME NEW s \in Seq(Bytes), NEW i \in 1 .. Len(s)
  PROVE  /\ CodePoint(s, i) = Invalid => CharLen(s, i) = 0
         /\ \A k \in {1, 2, 3, 4} : Announced(s, i, k) =>
              CharLen(s, i) = IF Proper(s, i, k) THEN k ELSE 0
<1>1. Len(s) \in Nat /\ i \in Int /\ 1 <= i /\ i <= Len(s)
  BY SMT
<1>2. s[i] \in Int
  BY SMT, <1>1, BytesAreInts
<1>3. ASSUME NEW k \in {1, 2, 3, 4}
      PROVE  CharAt(s, i, k) <=> Announced(s, i, k) /\ Proper(s, i, k)
  <2>1. ASSUME NEW j \in {0, 1, 2, 3}, j < k, i + k - 1 <= Len(s)
        PROVE  s[i + j] \in Int
    <3>1. i + j \in Int /\ 1 <= i + j /\ i + j <= Len(s)
      BY SMT, <1>1, <2>1
    <3> QED
      BY SMT, <3>1, BytesAreInts
  <2> QED
    BY SMT, <1>1, <2>1, Table
<1>4. 1 .. 4 = {1, 2, 3, 4}
  BY SMT
<1>5. ASSUME CodePoint(s, i) = Invalid
      PROVE  CharLen(s, i) = 0
  <2>1. ASSUME NEW k \in {1, 2, 3, 4}, CharAt(s, i, k)
        PROVE  FALSE
    <3>1. Announced(s, i, k)
      BY SMT, <1>3, <2>1
    <3>2. CodePoint(s, i) = <<k, Point(s, i, k)>>
      BY SMT, <3>1, Taken
    <3>3. CodePoint(s, i)[1] = k /\ k # 0
      BY SMT, <3>2
    <3>4. CodePoint(s, i)[1] = 0
      BY SMT, <1>5 DEF Invalid
    <3> QED
      BY SMT, <3>3, <3>4
  <2> QED
    BY <1>4, <2>1 DEF CharLen
<1>6. ASSUME NEW k \in {1, 2, 3, 4}, Announced(s, i, k)
      PROVE  CharLen(s, i) = IF Proper(s, i, k) THEN k ELSE 0
  <2>1. \A n \in {1, 2, 3, 4} : CharAt(s, i, n) <=> n = k /\ Proper(s, i, k)
    BY SMT, <1>2, <1>3, <1>6, OneLength
  <2>2. CASE Proper(s, i, k)
    <3>1. \A n \in 1 .. 4 : CharAt(s, i, n) <=> n = k
      BY <1>4, <2>1, <2>2
    <3>2. k \in 1 .. 4
      BY <1>4
    <3>3. (CHOOSE n \in 1 .. 4 : CharAt(s, i, n)) = k
      BY <3>1, <3>2
    <3>4. CharLen(s, i) = k
      BY <3>1, <3>2, <3>3 DEF CharLen
    <3> QED
      BY <2>2, <3>4
  <2>3. CASE ~Proper(s, i, k)
    BY <1>4, <2>1, <2>3 DEF CharLen
  <2> QED
    BY <2>2, <2>3
<1> QED
  BY <1>5, <1>6

\* What the bytes of any character say of its code point.
LEMMA Judge ==
  ASSUME NEW s \in Seq(Bytes), NEW i \in 1 .. Len(s), NEW k \in {1, 2, 3, 4}, Announced(s, i, k)
  PROVE  Judged(s, i, k, Point(s, i, k))
<1>1. Len(s) \in Nat /\ i \in Int /\ 1 <= i /\ i <= Len(s)
  BY SMT
<1>2. s[i] \in Int /\ 0 <= s[i]
  BY SMT, <1>1, BytesAreInts
<1>3. CASE k \in {1, 2}
  <2>1. ASSUME NEW j \in {0, 1}, j < k
        PROVE  s[i + j] \in Int /\ 0 <= s[i + j]
    <3>1. i + j \in Int /\ 1 <= i + j /\ i + j <= Len(s)
      BY SMT, <1>1, <1>3, <2>1 DEF Announced
    <3> QED
      BY SMT, <3>1, BytesAreInts
  <2> QED
    BY SMT, <1>1, <1>3, <2>1, JudgeShort
<1>4. CASE k = 3
  BY SMT, <1>1, <1>2, <1>4, JudgeThree
<1>5. CASE k = 4
  BY SMT, <1>1, <1>2, <1>5, JudgeFour
<1> QED
  BY SMT, <1>3, <1>4, <1>5

-----------------------------------------------------------------------------
(* One character of the text *)

\* A unit as encode_one writes it: a byte, an escaped byte, or a number.
Unit == {x \in {"c", "e", "u"} \X Int : x[1] # "u" => 32 <= x[2] /\ x[2] <= 127}

\* Below 2^16 a code point is written as one unit.
LEMMA OneUnit ==
  ASSUME NEW c \in Int, 0 <= c, c <= 65535
  PROVE  /\ 31 < c /\ c < 128 => UnitsOf(c) = <<<<"c", c>>>> \/ UnitsOf(c) = <<<<"e", c>>>>
         /\ ~(31 < c /\ c < 128) => UnitsOf(c) = <<<<"u", c>>>>
<1>1. CASE 31 < c /\ c < 128
  <2>1. UnitsOf(c) = <<<<IF c \in {34, 92} THEN "e" ELSE "c", c>>>>
    BY SMT, <1>1 DEF UnitsOf
  <2> QED
    BY SMT, <1>1, <2>1
<1>2. CASE ~(31 < c /\ c < 128)
  <2>1. UnitsOf(c) = <<<<"u", c>>>>
    BY SMT, <1>2 DEF UnitsOf
  <2> QED
    BY SMT, <1>2, <2>1
<1> QED
  BY SMT, <1>1, <1>2

\* Above, as two.
LEMMA TwoUnits ==
  ASSUME NEW c \in Int, 65536 <= c
  PROVE  UnitsOf(c) = <<<<"u", High(c)>>, <<"u", Low(c)>>>>
BY SMT DEF UnitsOf

\* How decode_string reads a unit that is a character or a two-character escape.
LEMMA ReadByte ==
  ASSUME NEW u, NEW j, NEW n \in Int, u[j] = <<"c", n>> \/ u[j] = <<"e", n>>, 32 <= n, n <= 127
  PROVE  UnitAt(u, j) = <<1, <<n>>>>
<1>1. u[j][2] = n /\ ~(n < 32)
  BY SMT
<1>2. ~IsLow(n) /\ ~IsHigh(n)
  BY SMT DEF IsLow, IsHigh
<1>3. CASE u[j] = <<"c", n>>
  <2>1. u[j][1] = "c"
    BY SMT, <1>3
  <2> QED
    BY SMT, <1>1, <1>2, <2>1 DEF UnitAt
<1>4. CASE u[j] = <<"e", n>>
  <2>1. u[j][1] = "e"
    BY SMT, <1>4
  <2> QED
    BY SMT, <1>1, <1>2, <2>1 DEF UnitAt
<1> QED
  BY SMT, <1>3, <1>4

\* The two kinds of surrogates, in inequalities.
LEMMA Surrogates ==
  ASSUME NEW n \in Int
  PROVE  /\ IsHigh(n) <=> 55296 <= n /\ n <= 56319
         /\ IsLow(n) <=> 56320 <= n /\ n <= 57343
BY SMT DEF IsHigh, IsLow

\* How it reads a \u escape.
LEMMA ReadEscape ==
  ASSUME NEW u, NEW j, NEW n \in Int, u[j] = <<"u", n>>
  PROVE  /\ IsLow(n) => UnitAt(u, j) = Unreadable
         /\ ~IsLow(n) /\ IsHigh(n) =>
              UnitAt(u, j) = IF j < Len(u) /\ u[j + 1][1] = "u" /\ IsLow(u[j + 1][2])
                             THEN <<2, Utf8((n - 55296) * 1024 + (u[j + 1][2] - 56320) + 65536)>>
                             ELSE Unreadable
         /\ ~IsLow(n) /\ ~IsHigh(n) => UnitAt(u, j) = <<1, Utf8(n)>>
<1>1. u[j][2] = n /\ u[j][1] = "u"
  BY SMT
<1>2. CASE IsLow(n)
  <2>0. ~IsHigh(n)
    BY SMT, <1>2, Surrogates
  <2>1. UnitAt(u, j) = Unreadable
    BY SMT, <1>1, <1>2, <2>0 DEF UnitAt
  <2> QED
    BY SMT, <1>2, <2>1
<1>3. CASE ~IsLow(n) /\ IsHigh(n)
  <2>1. UnitAt(u, j) = IF j < Len(u) /\ u[j + 1][1] = "u" /\ IsLow(u[j + 1][2])
                       THEN <<2, Utf8((n - 55296) * 1024 + (u[j + 1][2] - 56320) + 65536)>>
                       ELSE Unreadable
    BY SMT, <1>1, <1>3 DEF UnitAt
  <2> QED
    BY SMT, <1>3, <2>1
<1>4. CASE ~IsLow(n) /\ ~IsHigh(n)
  <2>1. UnitAt(u, j) = <<1, Utf8(n)>>
    BY SMT, <1>1, <1>4 DEF UnitAt
  <2> QED
    BY SMT, <1>4, <2>1
<1> QED
  BY SMT, <1>2, <1>3, <1>4

\* The halves of a code point; past the last one the first half is a low surrogate.
LEMMA Halves ==
  ASSUME NEW c \in Int, 65536 <= c, c <= 2097151
  PROVE  /\ High(c) \in Int /\ 55296 <= High(c) /\ High(c) <= 57343
         /\ High(c) <= 56319 <=> c <= 1114111
         /\ Low(c) \in Int /\ 56320 <= Low(c) /\ Low(c) <= 57343
         /\ (High(c) - 55296) * 1024 + (Low(c) - 56320) + 65536 = c
BY SMT DEF High, Low

\* Every code point is written as one or two units.
LEMMA UnitsAre ==
  ASSUME NEW c \in Int, 0 <= c, c <= 2097151
  PROVE  UnitsOf(c) \in Seq(Unit) /\ Len(UnitsOf(c)) \in {1, 2}
<1>1. CASE c <= 65535
  <2>1. CASE 31 < c /\ c < 128
    <3>1. 32 <= c /\ c <= 127
      BY SMT, <2>1
    <3>2. <<"c", c>> \in Unit /\ <<"e", c>> \in Unit
      BY SMT, <3>1 DEF Unit
    <3>3. UnitsOf(c) = <<<<"c", c>>>> \/ UnitsOf(c) = <<<<"e", c>>>>
      BY SMT, <1>1, <2>1, OneUnit
    <3> QED
      BY SMT, <3>2, <3>3
  <2>2. CASE ~(31 < c /\ c < 128)
    <3>2. <<"u", c>> \in Unit
      BY SMT DEF Unit
    <3>3. UnitsOf(c) = <<<<"u", c>>>>
      BY SMT, <1>1, <2>2, OneUnit
    <3> QED
      BY SMT, <3>2, <3>3
  <2> QED
    BY SMT, <2>1, <2>2
<1>2. CASE 65536 <= c
  <2>1. High(c) \in Int /\ Low(c) \in Int
    BY SMT, <1>2, Halves
  <2>2. <<"u", High(c)>> \in Unit /\ <<"u", Low(c)>> \in Unit
    BY SMT, <2>1 DEF Unit
  <2>3. UnitsOf(c) = <<<<"u", High(c)>>, <<"u", Low(c)>>>>
    BY SMT, <1>2, TwoUnits
  <2> QED
    BY SMT, <2>2, <2>3
<1> QED
  BY SMT, <1>1, <1>2

\* A high surrogate and what follows it: nothing, or a code point of a supplementary plane.
LEMMA ReadPair ==
  ASSUME NEW u, NEW j, NEW n \in Int, u[j] = <<"u", n>>, 55296 <= n, n <= 56319,
         j < Len(u) => u[j + 1][2] \in Int
  PROVE  \/ UnitAt(u, j) = Unreadable
         \/ j < Len(u) /\ \E d : Far(d) /\ UnitAt(u, j) = <<2, Utf8(d)>>
<1> DEFINE m == u[j + 1][2]
           d == (n - 55296) * 1024 + (m - 56320) + 65536
<1>1. ~IsLow(n) /\ IsHigh(n)
  BY SMT, Surrogates
<1>2. UnitAt(u, j) = IF j < Len(u) /\ u[j + 1][1] = "u" /\ IsLow(m) THEN <<2, Utf8(d)>> ELSE Unreadable
  BY SMT, <1>1, ReadEscape
<1>3. ASSUME j < Len(u), IsLow(m)
      PROVE  Far(d)
  <2>1. m \in Int /\ 56320 <= m /\ m <= 57343
    BY SMT, <1>3, Surrogates
  <2> HIDE DEF m
  <2> QED
    BY SMT, <2>1 DEF Far
<1> HIDE DEF d, m
<1> QED
  BY SMT, <1>2, <1>3

\* What decode_string makes of the units of a code point: its bytes; if it is none, an
\* error or the bytes of another.
LEMMA ReadBack ==
  ASSUME NEW c \in Int, 0 <= c, c <= 2097151, NEW u, NEW j \in Int, u[j] = UnitsOf(c)[1],
         j < Len(u) => u[j + 1][2] \in Int,
         65535 < c => j < Len(u) /\ u[j + 1] = UnitsOf(c)[2]
  PROVE  /\ Plain(c) => UnitAt(u, j) = <<Len(UnitsOf(c)), Utf8(c)>>
         /\ ~Plain(c) => \/ UnitAt(u, j) = Unreadable
                         \/ /\ 55296 <= c /\ c <= 57343 /\ j < Len(u)
                            /\ \E d : Far(d) /\ UnitAt(u, j) = <<2, Utf8(d)>>
<1>1. CASE 31 < c /\ c < 128
  <2>1. UnitsOf(c) = <<<<"c", c>>>> \/ UnitsOf(c) = <<<<"e", c>>>>
    BY SMT, <1>1, OneUnit
  <2>2. (u[j] = <<"c", c>> \/ u[j] = <<"e", c>>) /\ Len(UnitsOf(c)) = 1
    BY SMT, <2>1
  <2>3. UnitAt(u, j) = <<1, <<c>>>>
    BY SMT, <1>1, <2>2, ReadByte
  <2>4. Utf8(c) = <<c>>
    BY SMT, <1>1, UtfOne
  <2>5. Plain(c)
    BY SMT, <1>1 DEF Plain
  <2> QED
    BY SMT, <2>2, <2>3, <2>4, <2>5
<1>2. CASE ~(31 < c /\ c < 128) /\ c <= 65535
  <2>1. UnitsOf(c) = <<<<"u", c>>>>
    BY SMT, <1>2, OneUnit
  <2>2. u[j] = <<"u", c>> /\ Len(UnitsOf(c)) = 1
    BY SMT, <2>1
  <2>3. CASE c < 55296 \/ 57343 < c
    <3>1. ~IsLow(c) /\ ~IsHigh(c)
      BY SMT, <2>3, Surrogates
    <3>2. UnitAt(u, j) = <<1, Utf8(c)>>
      BY SMT, <2>2, <3>1, ReadEscape
    <3>3. Plain(c)
      BY SMT, <1>2, <2>3 DEF Plain
    <3> QED
      BY SMT, <2>2, <3>2, <3>3
  <2>4. CASE 56320 <= c /\ c <= 57343
    <3>1. IsLow(c)
      BY SMT, <2>4, Surrogates
    <3>2. UnitAt(u, j) = Unreadable
      BY SMT, <2>2, <3>1, ReadEscape
    <3>3. ~Plain(c)
      BY SMT, <2>4 DEF Plain
    <3> QED
      BY SMT, <3>2, <3>3
  <2>5. CASE 55296 <= c /\ c <= 56319
    <3>1. \/ UnitAt(u, j) = Unreadable
          \/ j < Len(u) /\ \E d : Far(d) /\ UnitAt(u, j) = <<2, Utf8(d)>>
      BY SMT, <1>2, <2>2, <2>5, ReadPair
    <3>2. ~Plain(c)
      BY SMT, <2>5 DEF Plain
    <3>3. 55296 <= c /\ c <= 57343
      BY SMT, <2>5
    <3> QED
      BY SMT, <3>1, <3>2, <3>3
  <2> QED
    BY SMT, <2>3, <2>4, <2>5
<1>3. CASE 65536 <= c
  <2>0. UnitsOf(c) = <<<<"u", High(c)>>, <<"u", Low(c)>>>>
    BY SMT, <1>3, TwoUnits
  <2>1. u[j] = <<"u", High(c)>> /\ u[j + 1] = <<"u", Low(c)>> /\ j < Len(u) /\ Len(UnitsOf(c)) = 2
    BY SMT, <1>3, <2>0
  <2>2. /\ High(c) \in Int /\ 55296 <= High(c) /\ High(c) <= 57343
        /\ High(c) <= 56319 <=> c <= 1114111
        /\ Low(c) \in Int /\ 56320 <= Low(c) /\ Low(c) <= 57343
        /\ (High(c) - 55296) * 1024 + (Low(c) - 56320) + 65536 = c
    BY SMT, <1>3, Halves
  <2>3. CASE c <= 1114111
    <3>1. ~IsLow(High(c)) /\ IsHigh(High(c)) /\ IsLow(Low(c))
      BY SMT, <2>2, <2>3, Surrogates
    <3>2. u[j + 1][1] = "u" /\ u[j + 1][2] = Low(c)
      BY SMT, <2>1
    <3>3. UnitAt(u, j) = <<2, Utf8((High(c) - 55296) * 1024 + (u[j + 1][2] - 56320) + 65536)>>
      <4> DEFINE n == High(c)
      <4>1. n \in Int /\ ~IsLow(n) /\ IsHigh(n) /\ u[j] = <<"u", n>>
        BY SMT, <2>1, <2>2, <3>1
      <4>2. j < Len(u) /\ u[j + 1][1] = "u" /\ IsLow(u[j + 1][2])
        BY SMT, <2>1, <3>1, <3>2
      <4> HIDE DEF n
      <4>3. UnitAt(u, j) = IF j < Len(u) /\ u[j + 1][1] = "u" /\ IsLow(u[j + 1][2])
                           THEN <<2, Utf8((n - 55296) * 1024 + (u[j + 1][2] - 56320) + 65536)>>
                           ELSE Unreadable
        BY SMT, <4>1, ReadEscape
      <4> QED
        BY SMT, <4>2, <4>3 DEF n
    <3>4. UnitAt(u, j) = <<2, Utf8(c)>>
      BY SMT, <2>2, <3>2, <3>3
    <3>5. Plain(c)
      BY SMT, <1>3, <2>3 DEF Plain
    <3> QED
      BY SMT, <2>1, <3>4, <3>5
  <2>4. CASE 1114111 < c
    <3>1. IsLow(High(c))
      BY SMT, <2>2, <2>4, Surrogates
    <3>2. UnitAt(u, j) = Unreadable
      BY SMT, <2>1, <2>2, <3>1, ReadEscape
    <3>3. ~Plain(c)
      BY SMT, <2>4 DEF Plain
    <3> QED
      BY SMT, <3>2, <3>3
  <2> QED
    BY SMT, <2>3, <2>4
<1> QED
  BY SMT, <1>1, <1>2, <1>3

-----------------------------------------------------------------------------
(* The walks *)

\* The bytes of a code point are numbers.
LEMMA UtfIsInts ==
  ASSUME NEW c \in Int
  PROVE  Utf8(c) \in Seq(Int)
<1>1. CASE c <= 127
  <2>1. Utf8(c) = <<c>>
    BY SMT, <1>1, UtfOne
  <2> QED
    BY SMT, <2>1
<1>2. CASE 128 <= c /\ c <= 2047
  <2>1. 192 + c \div 64 \in Int /\ 128 + (c % 64) \in Int
    BY SMT
  <2>2. Utf8(c) = <<192 + c \div 64, 128 + (c % 64)>>
    BY SMT, <1>2, UtfTwo
  <2> QED
    BY SMT, <2>1, <2>2
<1>3. CASE 2048 <= c /\ c <= 65535
  <2>1. 224 + c \div 4096 \in Int /\ 128 + ((c \div 64) % 64) \in Int /\ 128 + (c % 64) \in Int
    BY SMT
  <2>2. Utf8(c) = <<224 + c \div 4096, 128 + ((c \div 64) % 64), 128 + (c % 64)>>
    BY SMT, <1>3, UtfThree
  <2> QED
    BY SMT, <2>1, <2>2
<1>4. CASE 65536 <= c
  <2>1. /\ 240 + ((c \div 262144) % 8) \in Int /\ 128 + ((c \div 4096) % 64) \in Int
        /\ 128 + ((c \div 64) % 64) \in Int /\ 128 + (c % 64) \in Int
    BY SMT
  <2>2. Utf8(c) = <<240 + ((c \div 262144) % 8), 128 + ((c \div 4096) % 64),
                    128 + ((c \div 64) % 64), 128 + (c % 64)>>
    BY SMT, <1>4, UtfFour
  <2> QED
    BY SMT, <2>1, <2>2
<1> QED
  BY SMT, <1>1, <1>2, <1>3, <1>4

\* What a unit is read as: at most the units that are left, and numbers.
LEMMA ReadsSome ==
  ASSUME NEW u \in Seq(Unit), NEW j \in 1 .. Len(u)
  PROVE  /\ UnitAt(u, j)[1] \in Nat /\ j + UnitAt(u, j)[1] <= Len(u) + 1
         /\ UnitAt(u, j)[2] \in Seq(Int)
<1>0. Len(u) \in Nat /\ j \in Int /\ 1 <= j /\ j <= Len(u)
  BY SMT
<1>1. u[j] \in Unit
  BY SMT, ElementOfSeq
<1>2. PICK h \in {"c", "e", "u"}, n \in Int : u[j] = <<h, n>> /\ (h # "u" => 32 <= n /\ n <= 127)
  BY SMT, <1>1 DEF Unit
<1>3. ASSUME UnitAt(u, j) = Unreadable
      PROVE  UnitAt(u, j)[1] \in Nat /\ j + UnitAt(u, j)[1] <= Len(u) + 1 /\ UnitAt(u, j)[2] \in Seq(Int)
  <2>1. UnitAt(u, j)[1] = 0 /\ UnitAt(u, j)[2] = <<>>
    BY SMT, <1>3 DEF Unreadable
  <2> QED
    BY SMT, <1>0, <2>1
<1>4. ASSUME NEW c \in Int, UnitAt(u, j) = <<1, Utf8(c)>>
      PROVE  UnitAt(u, j)[1] \in Nat /\ j + UnitAt(u, j)[1] <= Len(u) + 1 /\ UnitAt(u, j)[2] \in Seq(Int)
  <2>1. UnitAt(u, j)[1] = 1 /\ UnitAt(u, j)[2] = Utf8(c)
    BY SMT, <1>4
  <2> QED
    BY SMT, <1>0, <2>1, UtfIsInts
<1>5. CASE h # "u"
  <2>1. UnitAt(u, j) = <<1, <<n>>>>
    BY SMT, <1>2, <1>5, ReadByte
  <2>2. Utf8(n) = <<n>>
    BY SMT, <1>2, <1>5, UtfOne
  <2> QED
    BY SMT, <1>4, <2>1, <2>2
<1>6. CASE h = "u"
  <2>0. u[j] = <<"u", n>>
    BY SMT, <1>2, <1>6
  <2>1. CASE IsLow(n)
    BY SMT, <1>3, <2>0, <2>1, ReadEscape
  <2>2. CASE ~IsLow(n) /\ ~IsHigh(n)
    <3>1. UnitAt(u, j) = <<1, Utf8(n)>>
      BY SMT, <2>0, <2>2, ReadEscape
    <3> QED
      BY SMT, <1>4, <3>1
  <2>3. CASE ~IsLow(n) /\ IsHigh(n)
    <3>1. j < Len(u) => u[j + 1][2] \in Int
      <4> SUFFICES ASSUME j < Len(u)
                   PROVE  u[j + 1][2] \in Int
        BY SMT
      <4>1. j + 1 \in 1 .. Len(u)
        BY SMT, <1>0
      <4>2. u[j + 1] \in Unit
        BY SMT, <4>1, ElementOfSeq
      <4> QED
        BY SMT, <4>2 DEF Unit
    <3>2. 55296 <= n /\ n <= 56319
      BY SMT, <2>3, Surrogates
    <3>3. \/ UnitAt(u, j) = Unreadable
          \/ j < Len(u) /\ \E d : Far(d) /\ UnitAt(u, j) = <<2, Utf8(d)>>
      BY SMT, <2>0, <3>1, <3>2, ReadPair
    <3>4. ASSUME j < Len(u), NEW d, Far(d), UnitAt(u, j) = <<2, Utf8(d)>>
          PROVE  UnitAt(u, j)[1] \in Nat /\ j + UnitAt(u, j)[1] <= Len(u) + 1 /\ UnitAt(u, j)[2] \in Seq(Int)
      <4>1. UnitAt(u, j)[1] = 2 /\ UnitAt(u, j)[2] = Utf8(d) /\ d \in Int
        BY SMT, <3>4 DEF Far
      <4> QED
        BY SMT, <1>0, <3>4, <4>1, UtfIsInts
    <3> QED
      BY SMT, <1>3, <3>3, <3>4
  <2> QED
    BY SMT, <2>1, <2>2, <2>3
<1> QED
  BY SMT, <1>5, <1>6

\* No walk leads past the end.
LEMMA DecWithin ==
  ASSUME NEW u \in Seq(Unit)
  PROVE  Len(u) \in Nat /\ Within(Len(u), DecStep(u))
<1>1. ASSUME NEW i \in 1 .. Len(u)
      PROVE  DecStep(u)[i][1] \in Nat /\ i + DecStep(u)[i][1] <= Len(u) + 1
  <2>1. DecStep(u)[i] = UnitAt(u, i)
    BY SMT DEF DecStep
  <2> QED
    BY SMT, <2>1, ReadsSome
<1> QED
  BY SMT, <1>1 DEF Within

\* So it is for the encoder and for the reference.
LEMMA EncWithin ==
  ASSUME NEW s \in Seq(Bytes)
  PROVE  Len(s) \in Nat /\ Within(Len(s), EncStep(s)) /\ Within(Len(s), RefStep(s))
<1>1. ASSUME NEW i \in 1 .. Len(s)
      PROVE  /\ EncStep(s)[i][1] \in Nat /\ i + EncStep(s)[i][1] <= Len(s) + 1
             /\ RefStep(s)[i][1] \in Nat /\ i + RefStep(s)[i][1] <= Len(s) + 1
  <2>1. EncStep(s)[i][1] = CodePoint(s, i)[1]
    BY SMT DEF EncStep
  <2>2. RefStep(s)[i][1] = CharLen(s, i)
    BY SMT DEF RefStep
  <2>3. i \in Int /\ Len(s) \in Nat /\ i <= Len(s)
    BY SMT
  <2>4. CASE CodePoint(s, i) = Invalid
    <3>1. CodePoint(s, i)[1] = 0 /\ CharLen(s, i) = 0
      BY SMT, <2>4, CharLenIs DEF Invalid
    <3> QED
      BY SMT, <2>1, <2>2, <2>3, <3>1
  <2>5. CASE CodePoint(s, i) # Invalid
    <3>1. PICK k \in {1, 2, 3, 4} : CodePoint(s, i) = <<k, Point(s, i, k)>> /\ Announced(s, i, k)
      BY SMT, <2>5, Announces
    <3>2. CodePoint(s, i)[1] = k /\ CharLen(s, i) \in {0, k}
      BY SMT, <3>1, CharLenIs
    <3>3. i + k - 1 <= Len(s)
      BY SMT, <3>1 DEF Announced
    <3> QED
      BY SMT, <2>1, <2>2, <2>3, <3>2, <3>3
  <2> QED
    BY SMT, <2>4, <2>5
<1> QED
  BY SMT, <1>1 DEF Within

\* A string from i on is a character and what is after it.
LEMMA Front ==
  ASSUME NEW s \in Seq(Int), NEW a \in Seq(Int), NEW i \in Int, 1 <= i, i + Len(a) <= Len(s) + 1,
         \A m \in 1 .. Len(a) : a[m] = s[i + m - 1]
  PROVE  SubSeq(s, i, Len(s)) = a \o SubSeq(s, i + Len(a), Len(s))
<1> DEFINE n == Len(s)  k == Len(a)  x == SubSeq(s, i, i + k - 1)
<1>1. n \in Nat /\ k \in Nat /\ i + k <= n + 1
  BY LenProperties
<1> HIDE DEF n, k
<1>2. \A m \in i .. i + k - 1 : s[m] \in Int
  <2>1. \A m \in i .. i + k - 1 : m \in 1 .. n
    BY <1>1
  <2> QED
    BY <2>1, ElementOfSeq DEF n
<1>3. x \in Seq(Int) /\ Len(x) = k /\ \A m \in 1 .. k : x[m] = s[i + m - 1]
  <2>1. i + k - 1 \in Int /\ i + k - 1 - i + 1 = k
    BY <1>1
  <2>2. x \in Seq(Int) /\ Len(x) = IF i <= i + k - 1 THEN i + k - 1 - i + 1 ELSE 0
    BY <1>1, <1>2, <2>1, SubSeqProperties
  <2>3. Len(x) = k
    BY <1>1, <2>1, <2>2
  <2>4. \A m \in 1 .. i + k - 1 - i + 1 : x[m] = s[i + m - 1]
    BY <1>1, <1>2, <2>1, SubSeqProperties
  <2> QED
    BY <2>1, <2>2, <2>3, <2>4
<1> HIDE DEF x
<1>4. a = x
  <2>1. Len(a) = Len(x) /\ \A m \in 1 .. Len(a) : a[m] = x[m]
    BY <1>3 DEF k
  <2> QED
    BY <1>3, <2>1, SeqEqual
<1>5. x \o SubSeq(s, i + k, n) = SubSeq(s, i, n)
  <2>1. /\ i \in 1 .. n + 1 /\ i + k - 1 \in i - 1 .. n /\ n \in i + k - 1 .. n
        /\ i + k - 1 + 1 = i + k
    BY <1>1
  <2>2. SubSeq(s, i, i + k - 1) \o SubSeq(s, i + k - 1 + 1, n) = SubSeq(s, i, n)
    BY <2>1, ConcatAdjacentSubSeq DEF n
  <2> QED
    BY <2>1, <2>2 DEF x
<1> QED
  BY <1>4, <1>5 DEF n, k

\* The walk of the decoder, step by step.
LEMMA DecAt ==
  ASSUME NEW u \in Seq(Unit)
  PROVE  /\ Dec(u)[Len(u) + 1] = [ok |-> TRUE, out |-> <<>>]
         /\ \A j \in 1 .. Len(u) :
              LET r == UnitAt(u, j)
              IN /\ r[1] = 0 => Dec(u)[j] = [ok |-> FALSE, out |-> <<>>]
                 /\ r[1] # 0 => Dec(u)[j] = [ok |-> Dec(u)[j + r[1]].ok, out |-> r[2] \o Dec(u)[j + r[1]].out]
<1> DEFINE n == Len(u)  step == DecStep(u)
<1>1. n \in Nat /\ Within(n, step)
  BY DecWithin
<1>2. \A j \in 1 .. n : step[j] = UnitAt(u, j)
  BY DEF DecStep
<1>3. Dec(u) = Walk(n, step)
  BY DEF Dec
<1> HIDE DEF n, step
<1>4. \A j \in 1 .. n + 1 : Dec(u)[j] = At(n, step, Dec(u), j)
  BY <1>1, <1>3, WalkDef
<1>5. n + 1 \in 1 .. n + 1 /\ n + 1 > n
  BY <1>1
<1>6. Dec(u)[n + 1] = [ok |-> TRUE, out |-> <<>>]
  BY <1>4, <1>5 DEF At
<1>7. ASSUME NEW j \in 1 .. n
      PROVE  LET r == UnitAt(u, j)
             IN /\ r[1] = 0 => Dec(u)[j] = [ok |-> FALSE, out |-> <<>>]
                /\ r[1] # 0 => Dec(u)[j] = [ok |-> Dec(u)[j + r[1]].ok, out |-> r[2] \o Dec(u)[j + r[1]].out]
  <2>1. j \in 1 .. n + 1 /\ ~(j > n)
    BY <1>1
  <2>2. Dec(u)[j] = At(n, step, Dec(u), j) /\ step[j] = UnitAt(u, j)
    BY <1>2, <1>4, <2>1
  <2> QED
    BY <2>1, <2>2 DEF At
<1> QED
  BY <1>6, <1>7 DEF n

\* The walk of the encoder and that of the reference.
LEMMA EncAt ==
  ASSUME NEW s \in Seq(Bytes)
  PROVE  /\ Enc(s)[Len(s) + 1] = [ok |-> TRUE, out |-> <<>>] /\ Ref(s)[Len(s) + 1].ok = TRUE
         /\ \A i \in 1 .. Len(s) :
              LET r == CodePoint(s, i)
                  l == CharLen(s, i)
              IN /\ r[1] = 0 => Enc(s)[i] = [ok |-> FALSE, out |-> <<>>]
                 /\ r[1] # 0 => Enc(s)[i] = [ok |-> Enc(s)[i + r[1]].ok, out |-> UnitsOf(r[2]) \o Enc(s)[i + r[1]].out]
                 /\ Ref(s)[i].ok = IF l = 0 THEN FALSE ELSE Ref(s)[i + l].ok
<1> DEFINE n == Len(s)  step == EncStep(s)  stem == RefStep(s)
<1>1. n \in Nat /\ Within(n, step) /\ Within(n, stem)
  BY EncWithin
<1>2. \A i \in 1 .. n : /\ step[i][1] = CodePoint(s, i)[1] /\ step[i][2] = UnitsOf(CodePoint(s, i)[2])
                        /\ stem[i][1] = CharLen(s, i)
  BY DEF EncStep, RefStep
<1>3. Enc(s) = Walk(n, step) /\ Ref(s) = Walk(n, stem)
  BY DEF Enc, Ref
<1> HIDE DEF n, step, stem
<1>4. \A i \in 1 .. n + 1 : Enc(s)[i] = At(n, step, Enc(s), i) /\ Ref(s)[i] = At(n, stem, Ref(s), i)
  BY <1>1, <1>3, WalkDef
<1>5. n + 1 \in 1 .. n + 1 /\ n + 1 > n
  BY <1>1
<1>6. Enc(s)[n + 1] = [ok |-> TRUE, out |-> <<>>] /\ Ref(s)[n + 1].ok = TRUE
  <2>1. Enc(s)[n + 1] = [ok |-> TRUE, out |-> <<>>]
    BY <1>4, <1>5 DEF At
  <2>2. Ref(s)[n + 1] = [ok |-> TRUE, out |-> <<>>]
    BY <1>4, <1>5 DEF At
  <2> QED
    BY <2>1, <2>2
<1>7. ASSUME NEW i \in 1 .. n
      PROVE  LET r == CodePoint(s, i)
                 l == CharLen(s, i)
             IN /\ r[1] = 0 => Enc(s)[i] = [ok |-> FALSE, out |-> <<>>]
                /\ r[1] # 0 => Enc(s)[i] = [ok |-> Enc(s)[i + r[1]].ok, out |-> UnitsOf(r[2]) \o Enc(s)[i + r[1]].out]
                /\ Ref(s)[i].ok = IF l = 0 THEN FALSE ELSE Ref(s)[i + l].ok
  <2>1. i \in 1 .. n + 1 /\ ~(i > n)
    BY <1>1
  <2>2. /\ Enc(s)[i] = At(n, step, Enc(s), i)
        /\ step[i][1] = CodePoint(s, i)[1] /\ step[i][2] = UnitsOf(CodePoint(s, i)[2])
    BY <1>2, <1>4, <2>1
  <2>3. Ref(s)[i] = At(n, stem, Ref(s), i) /\ stem[i][1] = CharLen(s, i)
    BY <1>2, <1>4, <2>1
  <2>4. Ref(s)[i].ok = IF CharLen(s, i) = 0 THEN FALSE ELSE Ref(s)[i + CharLen(s, i)].ok
    BY <2>1, <2>3 DEF At
  <2>5. /\ CodePoint(s, i)[1] = 0 => Enc(s)[i] = [ok |-> FALSE, out |-> <<>>]
        /\ CodePoint(s, i)[1] # 0 =>
             Enc(s)[i] = [ok |-> Enc(s)[i + CodePoint(s, i)[1]].ok,
                          out |-> UnitsOf(CodePoint(s, i)[2]) \o Enc(s)[i + CodePoint(s, i)[1]].out]
    BY <2>1, <2>2 DEF At
  <2> QED
    BY <2>4, <2>5
<1> QED
  BY <1>6, <1>7 DEF n

\* What the decoder gives at any unit is a record of its two parts, and the bytes are numbers.
LEMMA DecIs ==
  ASSUME NEW u \in Seq(Unit), NEW j \in 1 .. Len(u) + 1
  PROVE  Dec(u)[j] = [ok |-> Dec(u)[j].ok, out |-> Dec(u)[j].out] /\ Dec(u)[j].out \in Seq(Int)
<1> DEFINE n == Len(u)
           Good(i) == Dec(u)[i] = [ok |-> Dec(u)[i].ok, out |-> Dec(u)[i].out] /\ Dec(u)[i].out \in Seq(Int)
           G == {m \in Nat : m <= n => Good(n + 1 - m)}
<1>1. n \in Nat
  BY LenProperties
<1>2. ASSUME NEW m \in Nat, \A l \in 0 .. m - 1 : l \in G
      PROVE  m \in G
  <2> SUFFICES ASSUME m <= n
               PROVE  Good(n + 1 - m)
    OBVIOUS
  <2>1. CASE m = 0
    <3>1. Dec(u)[n + 1] = [ok |-> TRUE, out |-> <<>>]
      BY DecAt
    <3> HIDE DEF n
    <3>2. n + 1 - m = n + 1
      BY <1>1, <2>1
    <3>3. Good(n + 1)
      BY <3>1
    <3> QED
      BY <3>2, <3>3
  <2>2. CASE m # 0
    <3> DEFINE i == n + 1 - m
               r == UnitAt(u, i)
    <3>1. i \in 1 .. n
      BY <1>1, <2>2
    <3> HIDE DEF i
    <3>2. /\ r[1] \in Nat /\ i + r[1] <= n + 1 /\ r[2] \in Seq(Int)
          /\ r[1] = 0 => Dec(u)[i] = [ok |-> FALSE, out |-> <<>>]
          /\ r[1] # 0 => Dec(u)[i] = [ok |-> Dec(u)[i + r[1]].ok, out |-> r[2] \o Dec(u)[i + r[1]].out]
      BY <3>1, ReadsSome, DecAt
    <3> HIDE DEF r, n
    <3>3. CASE r[1] = 0
      <4>1. Dec(u)[i] = [ok |-> FALSE, out |-> <<>>]
        BY <3>2, <3>3
      <4>2. Good(i)
        BY <4>1
      <4> QED
        BY <4>2 DEF i
    <3>4. CASE r[1] # 0
      <4> DEFINE l == n + 1 - (i + r[1])
      <4>1. l \in 0 .. m - 1 /\ l <= n /\ n + 1 - l = i + r[1]
        BY <1>1, <3>1, <3>2, <3>4 DEF i
      <4>2. Good(i + r[1])
        BY <1>2, <4>1
      <4>3. r[2] \o Dec(u)[i + r[1]].out \in Seq(Int)
        BY <3>2, <4>2, ConcatProperties
      <4> DEFINE o == r[2] \o Dec(u)[i + r[1]].out
      <4>4. Dec(u)[i] = [ok |-> Dec(u)[i + r[1]].ok, out |-> o]
        BY <3>2, <3>4
      <4> HIDE DEF o
      <4>5. Dec(u)[i].ok = Dec(u)[i + r[1]].ok /\ Dec(u)[i].out = o
        BY <4>4
      <4>6. Good(i)
        BY <4>3, <4>4, <4>5 DEF o
      <4> QED
        BY <4>6 DEF i
    <3> QED
      BY <3>3, <3>4
  <2> QED
    BY <2>1, <2>2
<1>3. \A m \in Nat : m \in G
  <2> HIDE DEF G
  <2> QED
    BY <1>2, AllNumbers
<1>4. n + 1 - j \in Nat /\ n + 1 - j <= n /\ n + 1 - (n + 1 - j) = j
  BY <1>1
<1>5. n + 1 - j \in G
  BY <1>3, <1>4
<1>6. Good(n + 1 - (n + 1 - j))
  BY <1>4, <1>5
<1> QED
  BY <1>4, <1>6

\* Two results are the same when their parts are.
LEMMA SameResult ==
  ASSUME NEW x, NEW y, NEW v, NEW w
  PROVE  [ok |-> x, out |-> y] = [ok |-> v, out |-> w] <=> x = v /\ y = w
BY SMT

\* from i on: what is written are units, and wherever they stand they are read back as
\* the string exactly when the reference finds nothing but characters
Survival(s, i) ==
  /\ Enc(s)[i].out \in Seq(Unit)
  /\ \A pre \in Seq(Unit) :
       Ref(s)[i].ok <=> /\ Enc(s)[i].ok
                        /\ Dec(pre \o Enc(s)[i].out)[Len(pre) + 1] = [ok |-> TRUE, out |-> SubSeq(s, i, Len(s))]

\* At the end.
LEMMA SurvivalEnd ==
  ASSUME NEW s \in Seq(Bytes)
  PROVE  Survival(s, Len(s) + 1)
<1> DEFINE n == Len(s)
<1>1. Enc(s)[n + 1].ok = TRUE /\ Enc(s)[n + 1].out = <<>> /\ Ref(s)[n + 1].ok = TRUE
  <2>1. Enc(s)[n + 1] = [ok |-> TRUE, out |-> <<>>]
    BY EncAt
  <2>2. Ref(s)[n + 1].ok = TRUE
    BY EncAt
  <2> QED
    BY <2>1, <2>2
<1>2. SubSeq(s, n + 1, n) = <<>>
  BY LenProperties, SubSeqEmpty
<1>3. ASSUME NEW pre \in Seq(Unit)
      PROVE  Dec(pre \o <<>>)[Len(pre) + 1] = [ok |-> TRUE, out |-> <<>>]
  <2>1. pre \o <<>> = pre
    BY ConcatEmptySeq
  <2> QED
    BY <2>1, DecAt
<1>4. <<>> \in Seq(Unit)
  BY EmptySeq
<1> QED
  BY <1>1, <1>2, <1>3, <1>4 DEF Survival

\* Where the members of two sequences are in their concatenation.
LEMMA Joined ==
  ASSUME NEW S, NEW x \in Seq(S), NEW y \in Seq(S), NEW m \in Nat, 1 <= m
  PROVE  /\ m <= Len(x) => (x \o y)[m] = x[m]
         /\ m <= Len(y) => (x \o y)[Len(x) + m] = y[m]
<1> DEFINE a == Len(x)  b == Len(y)  u == x \o y
<1>1. a \in Nat /\ b \in Nat
  BY LenProperties
<1>2. \A i \in 1 .. a + b : u[i] = IF i <= a THEN x[i] ELSE y[i - a]
  BY ConcatProperties
<1> HIDE DEF a, b, u
<1>3. ASSUME m <= a
      PROVE  u[m] = x[m]
  <2>1. m \in 1 .. a + b
    BY <1>1, <1>3
  <2> QED
    BY <1>2, <1>3, <2>1
<1>4. ASSUME m <= b
      PROVE  u[a + m] = y[m]
  <2> DEFINE i == a + m
  <2>1. i \in 1 .. a + b /\ ~(i <= a) /\ i - a = m
    BY <1>1, <1>4
  <2> HIDE DEF i
  <2>2. u[i] = y[i - a]
    BY <1>2, <2>1
  <2> QED
    BY <2>1, <2>2 DEF i
<1> QED
  BY <1>3, <1>4 DEF a, b, u

\* The units of a character stand where they were written.
LEMMA UnitsStand ==
  ASSUME NEW pre \in Seq(Unit), NEW w \in Seq(Unit), NEW rest \in Seq(Unit), Len(w) \in {1, 2}
  PROVE  LET u == pre \o (w \o rest)
             j == Len(pre) + 1
         IN /\ u \in Seq(Unit) /\ j \in 1 .. Len(u) /\ u[j] = w[1]
            /\ Len(w) = 2 => j < Len(u) /\ u[j + 1] = w[2]
            /\ u = (pre \o w) \o rest /\ pre \o w \in Seq(Unit) /\ Len(pre \o w) + 1 = j + Len(w)
<1> DEFINE v == w \o rest  u == pre \o v  a == Len(pre)  l == Len(w)  b == Len(rest)
<1>1. a \in Nat /\ b \in Nat /\ (l = 1 \/ l = 2)
  BY LenProperties
<1>2. ASSUME NEW x \in Seq(Unit), NEW y \in Seq(Unit)
      PROVE  x \o y \in Seq(Unit) /\ Len(x \o y) = Len(x) + Len(y)
  BY ConcatProperties
<1>3. v \in Seq(Unit) /\ Len(v) = l + b
  BY <1>2
<1>4. u \in Seq(Unit) /\ Len(u) = a + Len(v)
  BY <1>2, <1>3
<1>5. pre \o w \in Seq(Unit) /\ Len(pre \o w) = a + l
  BY <1>2
<1>6. u = (pre \o w) \o rest
  BY ConcatAssociative
<1>7. \A m \in Nat : 1 <= m /\ m <= l => v[m] = w[m]
  BY Joined
<1> HIDE DEF v
<1>8. \A m \in Nat : 1 <= m /\ m <= Len(v) => u[a + m] = v[m]
  BY <1>3, Joined
<1> HIDE DEF u, a, l, b
<1>9. ASSUME NEW m \in Nat, 1 <= m, m <= l
      PROVE  a + m \in 1 .. Len(u) /\ u[a + m] = w[m]
  <2>1. m <= Len(v)
    BY <1>1, <1>3, <1>9
  <2>2. a + m \in 1 .. a + Len(v)
    BY <1>1, <1>3, <1>9
  <2> QED
    BY <1>4, <1>7, <1>8, <1>9, <2>1, <2>2
<1>10. a + 1 \in 1 .. Len(u) /\ u[a + 1] = w[1]
  <2>1. 1 <= l
    BY <1>1
  <2> QED
    BY <1>9, <2>1
<1>11. ASSUME l = 2
       PROVE  a + 1 < Len(u) /\ u[a + 1 + 1] = w[2]
  <2>1. a + 2 \in 1 .. Len(u) /\ u[a + 2] = w[2]
    BY <1>9, <1>11
  <2>2. a + 1 + 1 = a + 2 /\ a + 1 < a + 2
    BY <1>1
  <2>3. a + 1 < Len(u)
    BY <1>1, <1>3, <1>4, <1>11
  <2> QED
    BY <2>1, <2>2, <2>3
<1>12. a + l + 1 = a + 1 + l
  BY <1>1
<1>13. /\ u \in Seq(Unit) /\ a + 1 \in 1 .. Len(u) /\ u[a + 1] = w[1]
       /\ l = 2 => a + 1 < Len(u) /\ u[a + 1 + 1] = w[2]
       /\ u = (pre \o w) \o rest /\ pre \o w \in Seq(Unit) /\ Len(pre \o w) + 1 = a + 1 + l
  BY <1>4, <1>5, <1>6, <1>10, <1>11, <1>12
<1> QED
  BY <1>13 DEF u, v, a, l

\* One character further in front: it is what the standard asks for.
LEMMA SurvivalProper ==
  ASSUME NEW s \in Seq(Bytes), NEW i \in 1 .. Len(s), NEW k \in {1, 2, 3, 4},
         CodePoint(s, i) = <<k, Point(s, i, k)>>, Announced(s, i, k), Proper(s, i, k),
         Survival(s, i + k)
  PROVE  Survival(s, i)
<1> DEFINE n == Len(s)
           c == Point(s, i, k)
           w == UnitsOf(c)
           a == Utf8(c)
           rest == Enc(s)[i + k].out
           x == SubSeq(s, i + k, n)
<1>0. n \in Nat /\ i \in Int /\ 1 <= i /\ i + k - 1 <= n
  <2>1. n \in Nat /\ i \in Int /\ 1 <= i
    BY SMT
  <2>2. i + k - 1 <= n
    BY SMT DEF Announced
  <2> QED
    BY <2>1, <2>2
<1>1. c \in Int /\ 0 <= c /\ c <= 2097151
  BY SMT, Judge DEF Judged
<1>9. Plain(c) /\ Comes(s, i, k, c)
  BY SMT, Judge DEF Judged
<1>2. w \in Seq(Unit) /\ Len(w) \in {1, 2} /\ rest \in Seq(Unit)
  BY SMT, <1>1, UnitsAre DEF Survival
<1>3. a \in Seq(Int) /\ Len(a) = k
  BY SMT, <1>1, <1>9, UtfIsInts DEF Comes
<1>4. Ref(s)[i].ok = Ref(s)[i + k].ok
  <2>1. CharLen(s, i) = k /\ k # 0
    BY SMT, CharLenIs
  <2>2. Ref(s)[i].ok = IF CharLen(s, i) = 0 THEN FALSE ELSE Ref(s)[i + CharLen(s, i)].ok
    BY EncAt
  <2> QED
    BY <2>1, <2>2
<1>5. Enc(s)[i].ok = Enc(s)[i + k].ok /\ Enc(s)[i].out = w \o rest
  <2>1. CodePoint(s, i)[1] = k /\ CodePoint(s, i)[2] = c /\ k # 0
    BY SMT
  <2>2. CodePoint(s, i)[1] # 0 =>
          Enc(s)[i] = [ok |-> Enc(s)[i + CodePoint(s, i)[1]].ok,
                       out |-> UnitsOf(CodePoint(s, i)[2]) \o Enc(s)[i + CodePoint(s, i)[1]].out]
    BY EncAt
  <2> DEFINE o == w \o rest
  <2>3. Enc(s)[i] = [ok |-> Enc(s)[i + k].ok, out |-> o]
    BY <2>1, <2>2
  <2> HIDE DEF o
  <2>4. Enc(s)[i].ok = Enc(s)[i + k].ok /\ Enc(s)[i].out = o
    BY <2>3
  <2> QED
    BY <2>4 DEF o
<1>6. SubSeq(s, i, n) = a \o x /\ x \in Seq(Int)
  <2>1. s \in Seq(Int)
    <3>1. Bytes \subseteq Int
      BY SMT DEF Bytes
    <3> QED
      BY <3>1, SeqMonotonic
  <2>2. ASSUME NEW m \in 1 .. Len(a)
        PROVE  a[m] = s[i + m - 1]
    <3>1. m \in {1, 2, 3, 4} /\ m <= k
      BY SMT, <1>3
    <3> QED
      BY Zenon, <1>9, <3>1 DEF Comes
  <2>3. i + Len(a) <= Len(s) + 1
    BY SMT, <1>0, <1>3
  <2> HIDE DEF a, c
  <2>4. SubSeq(s, i, Len(s)) = a \o SubSeq(s, i + Len(a), Len(s))
    BY <1>0, <1>3, <2>1, <2>2, <2>3, Front
  <2>5. x \in Seq(Int)
    <3>1. i + k \in Int /\ n \in Int
      BY <1>0
    <3>2. \A m \in i + k .. n : m \in 1 .. n
      BY <1>0
    <3>3. \A m \in i + k .. n : s[m] \in Int
      BY <2>1, <3>2, ElementOfSeq
    <3> QED
      BY <3>1, <3>3, SubSeqProperties
  <2> QED
    BY <1>3, <2>4, <2>5
<1>7. ASSUME NEW pre \in Seq(Unit)
      PROVE  Ref(s)[i].ok <=> /\ Enc(s)[i].ok
                              /\ Dec(pre \o Enc(s)[i].out)[Len(pre) + 1] = [ok |-> TRUE, out |-> SubSeq(s, i, n)]
  <2> DEFINE u == pre \o (w \o rest)
             j == Len(pre) + 1
             D == Dec(u)[j + Len(w)]
  <2> HIDE DEF w, a, c, rest, x, n
  <2>1. /\ u \in Seq(Unit) /\ j \in 1 .. Len(u) /\ u[j] = w[1]
        /\ Len(w) = 2 => j < Len(u) /\ u[j + 1] = w[2]
        /\ u = (pre \o w) \o rest /\ pre \o w \in Seq(Unit) /\ Len(pre \o w) + 1 = j + Len(w)
    BY <1>2, UnitsStand
  <2>2. Ref(s)[i + k].ok <=> Enc(s)[i + k].ok /\ D = [ok |-> TRUE, out |-> x]
    <3>1. Ref(s)[i + k].ok <=> /\ Enc(s)[i + k].ok
                               /\ Dec((pre \o w) \o rest)[Len(pre \o w) + 1] = [ok |-> TRUE, out |-> x]
      BY <2>1 DEF Survival, rest, x, n
    <3> QED
      BY <2>1, <3>1
  <2> HIDE DEF u
  <2>3. UnitAt(u, j) = <<Len(w), a>>
    <3>1. j \in Int /\ Len(u) \in Nat
      BY <2>1, LenProperties
    <3>2. j < Len(u) => u[j + 1][2] \in Int
      <4> SUFFICES ASSUME j < Len(u)
                   PROVE  u[j + 1][2] \in Int
        OBVIOUS
      <4>1. j + 1 \in 1 .. Len(u)
        BY <2>1, <3>1
      <4>2. u[j + 1] \in Unit
        BY <2>1, <4>1, ElementOfSeq
      <4> QED
        BY SMT, <4>2 DEF Unit
    <3>3. 65535 < c => Len(w) = 2
      <4>1. 65535 < c => 65536 <= c
        BY SMT, <1>1
      <4> QED
        BY SMT, <1>1, <4>1, TwoUnits DEF w
    <3>4. u[j] = UnitsOf(c)[1] /\ (65535 < c => j < Len(u) /\ u[j + 1] = UnitsOf(c)[2])
      BY SMT, <2>1, <3>3 DEF w
    <3> HIDE DEF j
    <3>5. UnitAt(u, j) = <<Len(UnitsOf(c)), Utf8(c)>>
      BY SMT, <1>1, <1>9, <3>1, <3>2, <3>4, ReadBack
    <3> QED
      BY <3>5 DEF w, a
  <2>4. Dec(u)[j] = [ok |-> D.ok, out |-> a \o D.out]
    <3>0. Len(w) # 0
      <4> DEFINE l == Len(w)
      <4>1. l \in {1, 2}
        BY <1>2
      <4> HIDE DEF l
      <4>2. l # 0
        BY <4>1
      <4> QED
        BY <4>2 DEF l
    <3>1. UnitAt(u, j)[1] = Len(w) /\ UnitAt(u, j)[2] = a /\ Len(w) # 0
      <4> DEFINE l == Len(w)  r == UnitAt(u, j)
      <4>1. r = <<l, a>>
        BY <2>3
      <4> HIDE DEF l, r
      <4>2. r[1] = l /\ r[2] = a
        BY <4>1
      <4> QED
        BY <3>0, <4>2 DEF l, r
    <3>2. UnitAt(u, j)[1] # 0 =>
            Dec(u)[j] = [ok |-> Dec(u)[j + UnitAt(u, j)[1]].ok,
                         out |-> UnitAt(u, j)[2] \o Dec(u)[j + UnitAt(u, j)[1]].out]
      BY <2>1, DecAt
    <3> QED
      BY <3>1, <3>2
  <2>5. D = [ok |-> D.ok, out |-> D.out] /\ D.out \in Seq(Int)
    <3>1. j + Len(w) \in 1 .. Len(u) + 1
      <4>1. UnitAt(u, j)[1] = Len(w)
        BY SMT, <2>3
      <4>2. Len(w) \in Nat /\ j + Len(w) <= Len(u) + 1
        BY <2>1, <4>1, ReadsSome
      <4>3. Len(u) \in Nat
        BY <2>1, LenProperties
      <4> QED
        BY SMT, <2>1, <4>2, <4>3
    <3> QED
      BY <2>1, <3>1, DecIs
  <2> HIDE DEF D
  <2>6. D = [ok |-> TRUE, out |-> x] <=> Dec(u)[j] = [ok |-> TRUE, out |-> a \o x]
    <3>1. a \o D.out = a \o x <=> D.out = x
      BY <1>3, <1>6, <2>5, ConcatSimplifications
    <3> DEFINE y == a \o D.out  z == a \o x
    <3>2. Dec(u)[j] = [ok |-> D.ok, out |-> y]
      BY <2>4
    <3> HIDE DEF y, z
    <3>3. Dec(u)[j] = [ok |-> TRUE, out |-> z] <=> D.ok = TRUE /\ y = z
      <4>1. [ok |-> D.ok, out |-> y] = [ok |-> TRUE, out |-> z] <=> D.ok = TRUE /\ y = z
        BY SameResult
      <4> QED
        BY Zenon, <3>2, <4>1
    <3>4. D = [ok |-> TRUE, out |-> x] <=> D.ok = TRUE /\ D.out = x
      <4>1. [ok |-> D.ok, out |-> D.out] = [ok |-> TRUE, out |-> x] <=> D.ok = TRUE /\ D.out = x
        BY SameResult
      <4> QED
        BY Zenon, <2>5, <4>1
    <3> QED
      BY <3>1, <3>3, <3>4 DEF y, z
  <2>7. Dec(pre \o Enc(s)[i].out)[Len(pre) + 1] = Dec(u)[j]
    BY <1>5 DEF u
  <2> QED
    BY <1>4, <1>5, <1>6, <2>2, <2>6, <2>7
<1>8. Enc(s)[i].out \in Seq(Unit)
  <2> HIDE DEF w, rest
  <2> QED
    BY <1>2, <1>5, ConcatProperties
<1> QED
  BY <1>7, <1>8 DEF Survival

\* A character that is not what the standard asks for: it does not come back.
LEMMA SurvivalImproper ==
  ASSUME NEW s \in Seq(Bytes), NEW i \in 1 .. Len(s), NEW k \in {1, 2, 3, 4},
         CodePoint(s, i) = <<k, Point(s, i, k)>>, Announced(s, i, k), ~Proper(s, i, k),
         Survival(s, i + k)
  PROVE  Survival(s, i)
<1> DEFINE n == Len(s)
           c == Point(s, i, k)
           w == UnitsOf(c)
           rest == Enc(s)[i + k].out
<1>0. n \in Nat /\ i \in Int /\ 1 <= i /\ i + k - 1 <= n
  <2>1. n \in Nat /\ i \in Int /\ 1 <= i
    BY SMT
  <2>2. i + k - 1 <= n
    BY SMT DEF Announced
  <2> QED
    BY <2>1, <2>2
<1>1. c \in Int /\ 0 <= c /\ c <= 2097151
  BY SMT, Judge DEF Judged
<1>2. /\ Plain(c) => Differs(s, i, k, c)
      /\ 55296 <= c /\ c <= 57343 => \A d : Far(d) => Differs(s, i, k, d)
  BY SMT, Judge DEF Judged
<1>3. w \in Seq(Unit) /\ Len(w) \in {1, 2} /\ rest \in Seq(Unit)
  BY SMT, <1>1, UnitsAre DEF Survival
<1>4. Ref(s)[i].ok = FALSE
  <2>1. CharLen(s, i) = 0
    BY SMT, CharLenIs
  <2>2. Ref(s)[i].ok = IF CharLen(s, i) = 0 THEN FALSE ELSE Ref(s)[i + CharLen(s, i)].ok
    BY EncAt
  <2> QED
    BY <2>1, <2>2
<1>5. Enc(s)[i].out = w \o rest
  <2>1. CodePoint(s, i)[1] = k /\ CodePoint(s, i)[2] = c /\ k # 0
    BY SMT
  <2>2. CodePoint(s, i)[1] # 0 =>
          Enc(s)[i] = [ok |-> Enc(s)[i + CodePoint(s, i)[1]].ok,
                       out |-> UnitsOf(CodePoint(s, i)[2]) \o Enc(s)[i + CodePoint(s, i)[1]].out]
    BY EncAt
  <2> DEFINE o == w \o rest
  <2>3. Enc(s)[i] = [ok |-> Enc(s)[i + k].ok, out |-> o]
    BY <2>1, <2>2
  <2> HIDE DEF o
  <2>4. Enc(s)[i].out = o
    BY <2>3
  <2> QED
    BY <2>4 DEF o
<1>6. ASSUME NEW pre \in Seq(Unit)
      PROVE  Dec(pre \o (w \o rest))[Len(pre) + 1] # [ok |-> TRUE, out |-> SubSeq(s, i, n)]
  <2> DEFINE u == pre \o (w \o rest)
             j == Len(pre) + 1
             r == UnitAt(u, j)
             x == SubSeq(s, i, n)
  <2> HIDE DEF w, c, rest, n
  <2>1. /\ u \in Seq(Unit) /\ j \in 1 .. Len(u) /\ u[j] = w[1]
        /\ Len(w) = 2 => j < Len(u) /\ u[j + 1] = w[2]
    BY <1>3, UnitsStand
  <2> HIDE DEF u
  <2>2. /\ Plain(c) => UnitAt(u, j) = <<Len(w), Utf8(c)>>
        /\ ~Plain(c) => \/ UnitAt(u, j) = Unreadable
                        \/ /\ 55296 <= c /\ c <= 57343 /\ j < Len(u)
                           /\ \E d : Far(d) /\ UnitAt(u, j) = <<2, Utf8(d)>>
    <3>1. j \in Int /\ Len(u) \in Nat
      BY <2>1, LenProperties
    <3>2. j < Len(u) => u[j + 1][2] \in Int
      <4> SUFFICES ASSUME j < Len(u)
                   PROVE  u[j + 1][2] \in Int
        OBVIOUS
      <4>1. j + 1 \in 1 .. Len(u)
        BY <2>1, <3>1
      <4>2. u[j + 1] \in Unit
        BY <2>1, <4>1, ElementOfSeq
      <4> QED
        BY SMT, <4>2 DEF Unit
    <3>3. 65535 < c => Len(w) = 2
      <4>1. 65535 < c => 65536 <= c
        BY SMT, <1>1
      <4> QED
        BY SMT, <1>1, <4>1, TwoUnits DEF w
    <3>4. u[j] = UnitsOf(c)[1] /\ (65535 < c => j < Len(u) /\ u[j + 1] = UnitsOf(c)[2])
      BY SMT, <2>1, <3>3 DEF w
    <3> HIDE DEF j
    <3>5. /\ Plain(c) => UnitAt(u, j) = <<Len(UnitsOf(c)), Utf8(c)>>
          /\ ~Plain(c) => \/ UnitAt(u, j) = Unreadable
                          \/ /\ 55296 <= c /\ c <= 57343 /\ j < Len(u)
                             /\ \E d : Far(d) /\ UnitAt(u, j) = <<2, Utf8(d)>>
      BY SMT, <1>1, <3>1, <3>2, <3>4, ReadBack
    <3> QED
      BY SMT, <3>5 DEF w
  <2>3. /\ r[1] \in Nat /\ j + r[1] <= Len(u) + 1 /\ r[2] \in Seq(Int)
        /\ r[1] = 0 => Dec(u)[j] = [ok |-> FALSE, out |-> <<>>]
        /\ r[1] # 0 => Dec(u)[j] = [ok |-> Dec(u)[j + r[1]].ok, out |-> r[2] \o Dec(u)[j + r[1]].out]
    BY <2>1, ReadsSome, DecAt
  <2>4. ASSUME NEW d, NEW l, l \in {1, 2}, r = <<l, Utf8(d)>>, Differs(s, i, k, d)
        PROVE  Dec(u)[j] # [ok |-> TRUE, out |-> x]
    <3> DEFINE y == Dec(u)[j + l].out
    <3>1. r[1] = l /\ r[2] = Utf8(d) /\ l \in Nat /\ l # 0
      <4> HIDE DEF r
      <4> QED
        BY <2>4
    <3>2. Dec(u)[j] = [ok |-> Dec(u)[j + l].ok, out |-> Utf8(d) \o y]
      BY <2>3, <3>1
    <3>3. y \in Seq(Int) /\ Utf8(d) \in Seq(Int)
      <4>1. j + l \in 1 .. Len(u) + 1
        <5>1. Len(u) \in Nat /\ j \in Nat /\ 1 <= j /\ j + l <= Len(u) + 1
          BY <2>1, <2>3, <3>1, LenProperties
        <5> HIDE DEF j
        <5> QED
          BY <3>1, <5>1
      <4> QED
        BY <2>1, <2>3, <3>1, <4>1, DecIs
    <3> HIDE DEF y, r, j
    <3>4. PICK m \in {1, 2, 3} : m <= k /\ m <= Len(Utf8(d)) /\ Utf8(d)[m] # s[i + m - 1]
      BY <2>4 DEF Differs
    <3>5. (Utf8(d) \o y)[m] = Utf8(d)[m]
      <4>1. m \in Nat /\ 1 <= m
        BY <3>4
      <4> QED
        BY <3>3, <3>4, <4>1, Joined
    <3>6. x[m] = s[i + m - 1]
      <4>1. i \in Int /\ n \in Int
        BY <1>0
      <4>2. ASSUME NEW q \in i .. n
            PROVE  s[q] \in Bytes
        <5>1. q \in 1 .. n
          BY <1>0
        <5> QED
          BY <5>1, ElementOfSeq DEF n
      <4>3. \A q \in 1 .. n - i + 1 : x[q] = s[i + q - 1]
        BY <4>1, <4>2, SubSeqProperties
      <4>4. m \in 1 .. n - i + 1
        <5>1. m \in Int /\ 1 <= m /\ k \in Int /\ m <= k
          BY <3>4
        <5>2. m <= n - i + 1
          BY <1>0, <5>1
        <5> QED
          BY <4>1, <5>1, <5>2
      <4> QED
        BY <4>3, <4>4
    <3> DEFINE o == Utf8(d) \o y
    <3>7. o # x
      BY <3>4, <3>5, <3>6
    <3>8. Dec(u)[j] = [ok |-> Dec(u)[j + l].ok, out |-> o]
      BY <3>2
    <3> HIDE DEF o, x
    <3>9. [ok |-> Dec(u)[j + l].ok, out |-> o] = [ok |-> TRUE, out |-> x] => o = x
      BY SameResult
    <3> QED
      BY <3>7, <3>8, <3>9
  <2>5. ASSUME r = Unreadable
        PROVE  Dec(u)[j] # [ok |-> TRUE, out |-> x]
    <3>1. r[1] = 0
      <4> HIDE DEF r
      <4> QED
        BY <2>5 DEF Unreadable
    <3>2. Dec(u)[j] = [ok |-> FALSE, out |-> <<>>]
      BY <2>3, <3>1
    <3> HIDE DEF x
    <3>3. [ok |-> FALSE, out |-> <<>>] = [ok |-> TRUE, out |-> x] => FALSE = TRUE
      BY SameResult
    <3> QED
      BY <3>2, <3>3
  <2>6. Dec(u)[j] # [ok |-> TRUE, out |-> x]
    <3> HIDE DEF r, x, j
    <3>1. CASE Plain(c)
      <4>1. r = <<Len(w), Utf8(c)>>
        BY SMT, <2>2, <3>1 DEF r
      <4>2. Differs(s, i, k, c)
        BY SMT, <1>2, <3>1
      <4> QED
        BY Zenon, <1>3, <2>4, <4>1, <4>2
    <3>2. CASE ~Plain(c)
      <4>1. \/ r = Unreadable
            \/ 55296 <= c /\ c <= 57343 /\ \E d : Far(d) /\ r = <<2, Utf8(d)>>
        BY SMT, <2>2, <3>2 DEF r
      <4>2. r = Unreadable \/ \E d : r = <<2, Utf8(d)>> /\ Differs(s, i, k, d)
        BY SMT, <1>2, <4>1
      <4>3. 2 \in {1, 2}
        OBVIOUS
      <4> QED
        BY Zenon, <2>4, <2>5, <4>2, <4>3
    <3> QED
      BY <3>1, <3>2
  <2> QED
    BY <2>6 DEF u
<1>7. Enc(s)[i].out \in Seq(Unit)
  <2> HIDE DEF w, rest
  <2> QED
    BY <1>3, <1>5, ConcatProperties
<1> HIDE DEF w, rest
<1> QED
  BY <1>4, <1>5, <1>6, <1>7 DEF Survival

\* Bytes that encode_one refuses.
LEMMA SurvivalInvalid ==
  ASSUME NEW s \in Seq(Bytes), NEW i \in 1 .. Len(s), CodePoint(s, i) = Invalid
  PROVE  Survival(s, i)
<1>1. CodePoint(s, i)[1] = 0 /\ CharLen(s, i) = 0
  BY SMT, CharLenIs DEF Invalid
<1>2. Enc(s)[i] = [ok |-> FALSE, out |-> <<>>]
  BY <1>1, EncAt
<1>3. Enc(s)[i].ok = FALSE /\ Enc(s)[i].out = <<>>
  BY <1>2
<1>4. Ref(s)[i].ok = FALSE
  <2>1. Ref(s)[i].ok = IF CharLen(s, i) = 0 THEN FALSE ELSE Ref(s)[i + CharLen(s, i)].ok
    BY EncAt
  <2> QED
    BY <1>1, <2>1
<1>5. <<>> \in Seq(Unit)
  BY EmptySeq
<1> QED
  BY <1>3, <1>4, <1>5 DEF Survival

\* So it is from every position of every string, by induction from the end.
LEMMA SurvivalAll ==
  ASSUME NEW s \in Seq(Bytes), NEW j \in 1 .. Len(s) + 1
  PROVE  Survival(s, j)
<1> DEFINE n == Len(s)
           G == {m \in Nat : m <= n => Survival(s, n + 1 - m)}
<1>1. n \in Nat
  BY LenProperties
<1>2. ASSUME NEW m \in Nat, \A l \in 0 .. m - 1 : l \in G
      PROVE  m \in G
  <2> SUFFICES ASSUME m <= n
               PROVE  Survival(s, n + 1 - m)
    OBVIOUS
  <2>1. CASE m = 0
    <3>1. Survival(s, n + 1)
      BY SurvivalEnd
    <3> HIDE DEF n
    <3>2. n + 1 - m = n + 1
      BY <1>1, <2>1
    <3> QED
      BY <3>1, <3>2
  <2>2. CASE m # 0
    <3> DEFINE i == n + 1 - m
    <3>1. i \in 1 .. n
      BY <1>1, <2>2
    <3> HIDE DEF i
    <3>2. CASE CodePoint(s, i) = Invalid
      <4>1. Survival(s, i)
        BY <3>1, <3>2, SurvivalInvalid
      <4> QED
        BY <4>1 DEF i
    <3>3. CASE CodePoint(s, i) # Invalid
      <4>1. PICK k \in {1, 2, 3, 4} : CodePoint(s, i) = <<k, Point(s, i, k)>> /\ Announced(s, i, k)
        BY <3>1, <3>3, Announces
      <4>2. i + k - 1 <= n
        BY <4>1 DEF Announced
      <4> HIDE DEF n
      <4> DEFINE l == n + 1 - (i + k)
      <4>3. l \in 0 .. m - 1 /\ l <= n /\ n + 1 - l = i + k
        <5>1. k \in Int /\ 1 <= k /\ i \in Int /\ 1 <= i /\ i = n + 1 - m
          BY <3>1, <4>1 DEF i
        <5> QED
          BY <1>1, <4>2, <5>1
      <4>4. Survival(s, i + k)
        BY <1>2, <4>3
      <4>5. CASE Proper(s, i, k)
        <5>1. Survival(s, i)
          BY <3>1, <4>1, <4>4, <4>5, SurvivalProper DEF n
        <5> QED
          BY <5>1 DEF i
      <4>6. CASE ~Proper(s, i, k)
        <5>1. Survival(s, i)
          BY <3>1, <4>1, <4>4, <4>6, SurvivalImproper DEF n
        <5> QED
          BY <5>1 DEF i
      <4> QED
        BY <4>5, <4>6
    <3> QED
      BY <3>2, <3>3
  <2> QED
    BY <2>1, <2>2
<1>3. \A m \in Nat : m \in G
  <2> HIDE DEF G
  <2> QED
    BY <1>2, AllNumbers
<1>4. n + 1 - j \in Nat /\ n + 1 - j <= n /\ n + 1 - (n + 1 - j) = j
  BY <1>1
<1>5. n + 1 - j \in G
  BY <1>3, <1>4
<1>6. Survival(s, n + 1 - (n + 1 - j))
  BY <1>4, <1>5
<1> QED
  BY <1>4, <1>6

\* The strings that the reference names are exactly those that encoding and decoding bring
\* back unchanged: well-formed UTF-8 whose four-byte characters end in the same byte twice.
\* For strings of any length and any bytes: encode_one may refuse a string, decode_one may
\* refuse what encode_one wrote, or another string comes back, and it says which.
THEOREM StringsSurvive ==
  \A s \in Seq(Bytes) :
    Survives(s) <=> /\ EncodeString(s).ok
                    /\ DecodeString(EncodeString(s).out) = [ok |-> TRUE, out |-> s]
<1> SUFFICES ASSUME NEW s \in Seq(Bytes)
             PROVE  Survives(s) <=> /\ EncodeString(s).ok
                                    /\ DecodeString(EncodeString(s).out) = [ok |-> TRUE, out |-> s]
  OBVIOUS
<1>1. 1 \in 1 .. Len(s) + 1
  BY LenProperties
<1>2. Survival(s, 1)
  BY <1>1, SurvivalAll
<1> DEFINE u == Enc(s)[1].out
<1>3. u \in Seq(Unit)
  BY <1>2 DEF Survival
<1>4. <<>> \in Seq(Unit) /\ Len(<<>>) + 1 = 1
  BY EmptySeq
<1>5. <<>> \o u = u
  BY <1>3, ConcatEmptySeq
<1>6. SubSeq(s, 1, Len(s)) = s
  BY SubSeqFull
<1>7. Ref(s)[1].ok <=> Enc(s)[1].ok /\ Dec(<<>> \o u)[Len(<<>>) + 1] = [ok |-> TRUE, out |-> SubSeq(s, 1, Len(s))]
  BY <1>2, <1>4 DEF Survival
<1>8. Ref(s)[1].ok <=> Enc(s)[1].ok /\ Dec(u)[1] = [ok |-> TRUE, out |-> s]
  BY <1>4, <1>5, <1>6, <1>7
<1>9. EncodeString(s) = Enc(s)[1]
  BY DEF EncodeString, Enc, EncStep
<1>10. DecodeString(u) = Dec(u)[1]
  BY DEF DecodeString, Dec, DecStep
<1>11. Survives(s) <=> Ref(s)[1].ok
  BY DEF Survives, Ref, RefStep
<1> QED
  BY <1>8, <1>9, <1>10, <1>11
=============================================================================
