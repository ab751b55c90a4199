------------------------------ MODULE JwtProofs -----------------------------
(***************************************************************************)
(* Jwt for any number of threads, keys, texts and MACs of any length that  *)
(* is two modulo three.                                                    *)
(*                                                                         *)
(* The first half is base64: what encoding without padding writes (Six),   *)
(* what decoding reads (Oct), that the second undoes the first, and that   *)
(* two texts of the same bits decode to the same bytes.  The second half   *)
(* follows a MAC from HMAC through the static array to the verdict.        *)
(***************************************************************************)
EXTENDS Jwt, TLAPS, FiniteSetTheorems, SequenceTheorems, WellFoundedInduction

\* the characters of a part
Char == 0 .. Other

\* the c-th six bits of d, with zeros behind
Six(d, c) ==
  LET g == 3 * ((c - 1) \div 4)
  IN CASE c % 4 = 1 -> ByteAt(d, g + 1) \div 4
       [] c % 4 = 2 -> SecondSix(ByteAt(d, g + 1), ByteAt(d, g + 2))
       [] c % 4 = 3 -> (ByteAt(d, g + 2) % 16) * 4 + (ByteAt(d, g + 3) \div 64)
       [] c % 4 = 0 -> ByteAt(d, g + 3) % 64

\* the c-th six bits of a text, with zeros behind
Chr(s, c) == IF c <= Len(s) THEN SixBits(s[c]) ELSE 0

\* the k-th byte of a text
Oct(s, k) ==
  LET c == 4 * ((k - 1) \div 3)
  IN CASE k % 3 = 1 -> Chr(s, c + 1) * 4 + (Chr(s, c + 2) \div 16)
       [] k % 3 = 2 -> (Chr(s, c + 2) % 16) * 16 + (Chr(s, c + 3) \div 4)
       [] k % 3 = 0 -> (Chr(s, c + 3) % 4) * 64 + Chr(s, c + 4)

-----------------------------------------------------------------------------
(* base64 *)

\* The least and the greatest element of an interval.
LEMMA Ends ==
  ASSUME NEW n \in Nat \ {0}
  PROVE  Min(1 .. n) = 1 /\ Max(1 .. n) = n
BY DEF Min, Max

\* A sequence is the function of its elements.
LEMMA AsFunction ==
  ASSUME NEW S, NEW q \in Seq(S)
  PROVE  q = [i \in 1 .. Len(q) |-> q[i]]
OBVIOUS

\* A byte of a sequence of bytes, or the zero behind it.
LEMMA ByteAtType ==
  ASSUME NEW d \in Seq(Byte), NEW i \in Nat \ {0}
  PROVE  ByteAt(d, i) \in Byte
<1>1. 0 \in Byte
  BY DEF Byte
<1>2. i <= Len(d) => d[i] \in Byte
  OBVIOUS
<1> QED
  BY <1>1, <1>2 DEF ByteAt

\* Six bits are six bits.
LEMMA SixType ==
  ASSUME NEW d \in Seq(Byte), NEW c \in Nat \ {0}
  PROVE  Six(d, c) \in 0 .. 63
<1> DEFINE g == 3 * ((c - 1) \div 4)
<1>1. g \in Nat
  OBVIOUS
<1>2. ByteAt(d, g + 1) \in Byte /\ ByteAt(d, g + 2) \in Byte /\ ByteAt(d, g + 3) \in Byte
  BY <1>1, ByteAtType
<1>3. c % 4 \in 0 .. 3
  OBVIOUS
<1> HIDE DEF g
<1>4. Six(d, c) = CASE c % 4 = 1 -> ByteAt(d, g + 1) \div 4
       [] c % 4 = 2 -> SecondSix(ByteAt(d, g + 1), ByteAt(d, g + 2))
       [] c % 4 = 3 -> (ByteAt(d, g + 2) % 16) * 4 + (ByteAt(d, g + 3) \div 64)
       [] c % 4 = 0 -> ByteAt(d, g + 3) % 64
  BY DEF Six, g
<1>5. ASSUME NEW a \in Byte, NEW b \in Byte
      PROVE  /\ a \div 4 \in 0 .. 63 /\ SecondSix(a, b) \in 0 .. 63
             /\ (a % 16) * 4 + (b \div 64) \in 0 .. 63 /\ a % 64 \in 0 .. 63
  BY DEF Byte, SecondSix
<1> QED
  BY <1>2, <1>3, <1>4, <1>5

\* What base64-encode-nopad writes: the six bits in turn, and no more characters than
\* the bytes need.
LEMMA Encoded ==
  ASSUME NEW d \in Seq(Byte)
  PROVE  Base64EncodeNopad(d) = [c \in 1 .. ((4 * Len(d) + 2) \div 3) |-> Six(d, c)]
<1> DEFINE n == Len(d)
           m == (4 * n + 2) \div 3
           N == 4 * ((n + 2) \div 3)
           E == EncodeBlock(d)
<1>1. n \in Nat /\ m \in Nat /\ N \in Nat /\ m <= N
  OBVIOUS
<1>2. DOMAIN E = 1 .. N /\ Len(E) = N
  BY DEF EncodeBlock
<1>3. ASSUME NEW k \in 1 .. N
      PROVE  E[k] = IF k <= m THEN Six(d, k) ELSE Pad
  <2> DEFINE g == 3 * ((k - 1) \div 4)
  <2>1. g \in Nat /\ k % 4 \in 0 .. 3
    OBVIOUS
  <2>2. /\ k % 4 = 1 => k <= m
        /\ k % 4 = 2 => k <= m
        /\ k % 4 = 3 => (k <= m <=> g + 2 <= n)
        /\ k % 4 = 0 => (k <= m <=> g + 3 <= n)
    OBVIOUS
  <2>3. E[k] = CASE k % 4 = 1 -> ByteAt(d, g + 1) \div 4
         [] k % 4 = 2 -> SecondSix(ByteAt(d, g + 1), ByteAt(d, g + 2))
         [] k % 4 = 3 -> IF g + 2 > n THEN Pad ELSE (ByteAt(d, g + 2) % 16) * 4 + (ByteAt(d, g + 3) \div 64)
         [] k % 4 = 0 -> IF g + 3 > n THEN Pad ELSE ByteAt(d, g + 3) % 64
    BY DEF EncodeBlock
  <2>4. Six(d, k) = CASE k % 4 = 1 -> ByteAt(d, g + 1) \div 4
         [] k % 4 = 2 -> SecondSix(ByteAt(d, g + 1), ByteAt(d, g + 2))
         [] k % 4 = 3 -> (ByteAt(d, g + 2) % 16) * 4 + (ByteAt(d, g + 3) \div 64)
         [] k % 4 = 0 -> ByteAt(d, g + 3) % 64
    BY DEF Six
  <2> HIDE DEF g, n, m, N, E
  <2> QED
    BY <1>1, <2>1, <2>2, <2>3, <2>4
<1>4. \A k \in 1 .. m : Six(d, k) \in 0 .. 63
  <2> HIDE DEF m
  <2> TAKE k \in 1 .. m
  <2>1. k \in Nat \ {0}
    BY <1>1
  <2> QED
    BY <2>1, SixType
<1>5. {i \in DOMAIN E : E[i] # Pad} = 1 .. m
  <2> HIDE DEF E, N, m, n
  <2>1. \A k \in 1 .. N : (E[k] # Pad <=> k <= m)
    <3> TAKE k \in 1 .. N
    <3>1. ASSUME k <= m
          PROVE  Six(d, k) # Pad
      <4>1. k \in 1 .. m
        BY <1>1, <3>1
      <4>2. Six(d, k) \in 0 .. 63
        BY <1>4, <4>1
      <4>3. \A x \in 0 .. 63 : x # Pad
        BY DEF Pad
      <4> QED
        BY <4>2, <4>3
    <3> QED
      BY <1>3, <3>1
  <2> QED
    BY <1>1, <1>2, <2>1
<1>6. Base64EncodeNopad(d) = IF 1 .. m = {} THEN <<>> ELSE SubSeq(E, Min(1 .. m), Max(1 .. m))
  <2> HIDE DEF E, N, m, n
  <2> QED
    BY <1>5 DEF Base64EncodeNopad, Trim, E
<1>7. CASE m = 0
  <2>1. 1 .. m = {}
    BY <1>7
  <2> HIDE DEF E, N, m, n
  <2>2. Base64EncodeNopad(d) = <<>>
    BY <1>6, <2>1
  <2>3. [c \in 1 .. m |-> Six(d, c)] = <<>>
    BY <2>1
  <2> QED
    BY <2>2, <2>3 DEF m, n
<1>8. CASE m # 0
  <2> HIDE DEF E, N, m, n
  <2>1. Min(1 .. m) = 1 /\ Max(1 .. m) = m
    BY <1>1, <1>8, Ends
  <2>2. Base64EncodeNopad(d) = SubSeq(E, 1, m)
    BY <1>1, <1>6, <1>8, <2>1
  <2>3. SubSeq(E, 1, m) = [c \in 1 .. m |-> E[c]]
    BY <1>1
  <2>4. SubSeq(E, 1, m) = [c \in 1 .. m |-> Six(d, c)]
    BY <1>1, <1>3, <2>3
  <2> QED
    BY <2>2, <2>4 DEF m, n
<1> QED
  BY <1>7, <1>8

\* Undoing the URL alphabet: the first "_" and the first "-" become what they stand
\* for, and where there is at most one of each, none is left.
LEMMA Replaced ==
  ASSUME NEW old \in Nat, NEW new \in Nat, NEW s \in Seq(Nat),
         Cardinality({i \in DOMAIN s : s[i] = old}) <= 1
  PROVE  Replace(old, new, s) = [i \in DOMAIN s |-> IF s[i] = old THEN new ELSE s[i]]
<1> DEFINE at == {i \in DOMAIN s : s[i] = old}
<1>1. CASE at = {}
  BY <1>1 DEF Replace
<1>2. CASE at # {}
  <2>1. PICK i \in at : TRUE
    BY <1>2
  <2>2. IsFiniteSet(DOMAIN s)
    BY FS_Interval
  <2>3. IsFiniteSet(at)
    BY <2>2, FS_Subset
  <2>4. at = {i}
    <3>1. SUFFICES ASSUME NEW j \in at, j # i
                   PROVE  FALSE
      BY <2>1
    <3>2. Cardinality({i, j}) = 2
      <4>1. IsFiniteSet({i}) /\ Cardinality({i}) = 1
        BY FS_Singleton
      <4>2. {i, j} = {i} \cup {j} /\ j \notin {i}
        BY <3>1
      <4>3. Cardinality({i} \cup {j}) = Cardinality({i}) + 1
        BY <4>1, <4>2, FS_AddElement
      <4> QED
        BY <4>1, <4>2, <4>3
    <3>3. {i, j} \subseteq at
      BY <2>1, <3>1
    <3>4. Cardinality({i, j}) <= Cardinality(at)
      BY <2>3, <3>3, FS_Subset
    <3>5. Cardinality(at) \in Nat
      BY <2>3, FS_CardinalityType
    <3> HIDE DEF at
    <3>6. Cardinality(at) <= 1
      BY DEF at
    <3> QED
      BY <3>2, <3>4, <3>5, <3>6
  <2>5. i \in Int
    BY <2>1
  <2>6. Min(at) = i
    <3> HIDE DEF at
    <3> QED
      BY <2>4, <2>5 DEF Min
  <2>7. Replace(old, new, s) = [s EXCEPT ![i] = new]
    BY <1>2, <2>6 DEF Replace
  <2>8. \A j \in DOMAIN s : s[j] = old <=> j = i
    BY <2>4
  <2> QED
    BY <2>1, <2>7, <2>8
<1> QED
  BY <1>1, <1>2

\* the number of groups of four characters that a text needs
Groups(s) == (Len(s) + 3) \div 4

\* Padding fills the last group.
LEMMA Padded ==
  ASSUME NEW s \in Seq(Char)
  PROVE  AddPadding(s) = [i \in 1 .. 4 * Groups(s) |-> IF i <= Len(s) THEN s[i] ELSE Pad]
<1> DEFINE n == Len(s)
           pad == 4 - (n % 4)
           tail == IF pad \in 1 .. 3 THEN [i \in 1 .. pad |-> Pad] ELSE <<>>
           k == IF pad \in 1 .. 3 THEN pad ELSE 0
<1>1. n \in Nat /\ pad \in 1 .. 4 /\ n + k = 4 * Groups(s)
  BY DEF Groups
<1>2. tail \in Seq(Char) /\ Len(tail) = k /\ \A i \in 1 .. k : tail[i] = Pad
  <2>1. Pad \in Char
    BY DEF Pad, Char, Other
  <2> QED
    BY <1>1, <2>1
<1>3. AddPadding(s) = s \o tail
  BY DEF AddPadding
<1> HIDE DEF n, pad, tail, k
<1>4. /\ s \o tail \in Seq(Char) /\ Len(s \o tail) = n + k
      /\ \A i \in 1 .. n + k : (s \o tail)[i] = IF i <= n THEN s[i] ELSE tail[i - n]
  BY <1>2, ConcatProperties DEF n
<1>5. \A i \in 1 .. n + k : i > n => tail[i - n] = Pad
  <2> TAKE i \in 1 .. n + k
  <2> HAVE i > n
  <2>1. k \in Nat
    BY DEF k, pad
  <2>2. i - n \in 1 .. k
    BY <1>1, <2>1
  <2> QED
    BY <1>2, <2>2
<1>6. s \o tail = [i \in 1 .. n + k |-> (s \o tail)[i]]
  BY <1>4, AsFunction
<1>7. \A i \in 1 .. n + k : (s \o tail)[i] = IF i <= n THEN s[i] ELSE Pad
  BY <1>1, <1>4, <1>5
<1> QED
  BY <1>1, <1>3, <1>6, <1>7 DEF n

\* The characters that the decoder is given: the text in the plain alphabet, padded.
Plain(s) == [i \in 1 .. 4 * Groups(s) |->
               IF i > Len(s) THEN Pad
               ELSE IF s[i] = Under THEN 63 ELSE IF s[i] = Dash THEN 62 ELSE s[i]]

\* A readable text is brought into the plain alphabet.
LEMMA Plained ==
  ASSUME NEW s \in Seq(Char), Readable(s)
  PROVE  UndoUrlChars(AddPadding(s)) = Plain(s)
<1> DEFINE n == Len(s)
           N == 4 * Groups(s)
           t == AddPadding(s)
           u == [i \in 1 .. N |-> IF t[i] = Under THEN 63 ELSE t[i]]
<1>1. n \in Nat /\ N \in Nat /\ n <= N
  BY DEF Groups
<1>2. t = [i \in 1 .. N |-> IF i <= n THEN s[i] ELSE Pad]
  BY Padded
<1> HIDE DEF n, N, t
<1>3. \A i \in 1 .. n : s[i] \in Nat
  <2>1. \A i \in 1 .. n : s[i] \in Char
    BY DEF n
  <2>2. Char \subseteq Nat
    BY DEF Char
  <2> QED
    BY <2>1, <2>2
<1>4. t \in Seq(Nat) /\ DOMAIN t = 1 .. N
  BY <1>1, <1>2, <1>3 DEF Pad
<1>5. {i \in DOMAIN t : t[i] = Under} = {i \in DOMAIN s : s[i] = Under}
  BY <1>1, <1>2, <1>4 DEF n, Pad, Under
<1>6. Replace(Under, 63, t) = u
  <2>1. Cardinality({i \in DOMAIN t : t[i] = Under}) <= 1
    BY <1>5 DEF Readable
  <2>2. Under \in Nat /\ 63 \in Nat
    BY DEF Under
  <2>3. Replace(Under, 63, t) = [i \in DOMAIN t |-> IF t[i] = Under THEN 63 ELSE t[i]]
    BY <1>4, <2>1, <2>2, Replaced
  <2> QED
    BY <1>4, <2>3
<1>7. u \in Seq(Nat) /\ DOMAIN u = 1 .. N
  BY <1>1, <1>4
<1>8. {i \in DOMAIN u : u[i] = Dash} = {i \in DOMAIN s : s[i] = Dash}
  BY <1>1, <1>2, <1>7 DEF n, Pad, Dash, Under
<1>9. Replace(Dash, 62, u) = [i \in DOMAIN u |-> IF u[i] = Dash THEN 62 ELSE u[i]]
  <2>1. Cardinality({i \in DOMAIN u : u[i] = Dash}) <= 1
    BY <1>8 DEF Readable
  <2> HIDE DEF u
  <2>2. Dash \in Nat /\ 62 \in Nat
    BY DEF Dash
  <2> QED
    BY <1>7, <2>1, <2>2, Replaced
<1>10. UndoUrlChars(t) = [i \in 1 .. N |-> IF u[i] = Dash THEN 62 ELSE u[i]]
  BY <1>6, <1>7, <1>9 DEF UndoUrlChars
<1>11. \A i \in 1 .. N : (IF u[i] = Dash THEN 62 ELSE u[i]) = Plain(s)[i]
  BY <1>1, <1>2 DEF Plain, n, N, Pad, Dash, Under
<1>12. Plain(s) = [i \in 1 .. N |-> Plain(s)[i]]
  BY DEF Plain, N
<1> QED
  BY <1>10, <1>11, <1>12 DEF t

\* What base64-decode answers for a readable text: a buffer that is written to its
\* end, with three bytes for every group.
LEMMA Decoded ==
  ASSUME NEW s \in Seq(Char), Readable(s)
  PROVE  /\ Base64Decode(s).size = 3 * Groups(s)
         /\ Base64Decode(s).bytes = [k \in 1 .. 3 * Groups(s) |-> Oct(s, k)]
<1> DEFINE G == Groups(s)
           N == 4 * G
           t == Plain(s)
           clean(g) == \A i \in 1 .. 4 : t[4 * g + i] <= Pad
           last == {0} \cup {i \in DOMAIN t : i <= 3 \/ t[i] # Dash}
           v(i) == IF t[i] = Pad THEN 0 ELSE t[i]
<1>1. G \in Nat /\ N \in Nat /\ N % 4 = 0 /\ N \div 4 = G /\ Len(s) \in Nat /\ Len(s) <= N
  BY DEF Groups
<1>2. DOMAIN t = 1 .. N /\ Len(t) = N
  BY <1>1 DEF Plain
<1> HIDE DEF G
<1>3. ASSUME NEW i \in 1 .. N
      PROVE  t[i] \in 0 .. Pad /\ v(i) = Chr(s, i)
  <2>1. t[i] = IF i > Len(s) THEN Pad
               ELSE IF s[i] = Under THEN 63 ELSE IF s[i] = Dash THEN 62 ELSE s[i]
    BY DEF Plain, G
  <2>2. i <= Len(s) => s[i] \in Char /\ s[i] # Other
    BY <1>1 DEF Readable
  <2> HIDE DEF t
  <2> QED
    BY <1>1, <2>1, <2>2 DEF Chr, SixBits, Char, Pad, Dash, Under, Other
<1>. \A x \in 0 .. Pad : x # Dash /\ x <= Pad
  BY DEF Pad, Dash
<1>4. last = 0 .. N
  <2> HIDE DEF t
  <2>1. \A i \in 1 .. N : t[i] # Dash
    BY <1>3
  <2> QED
    BY <1>1, <1>2, <2>1
<1>5. Max(0 .. N) = N
  <2> HIDE DEF N
  <2> QED
    BY <1>1 DEF Max
<1>6. \A g \in 0 .. (G - 1) : clean(g)
  <2> TAKE g \in 0 .. (G - 1)
  <2> TAKE i \in 1 .. 4
  <2>1. 4 * g + i \in 1 .. N
    BY <1>1
  <2> HIDE DEF t, N
  <2>2. t[4 * g + i] \in 0 .. Pad
    BY <1>3, <2>1
  <2> QED
    BY <2>2
<1>7. {g \in 0 .. (N \div 4) : \A h \in 0 .. (g - 1) : clean(h)} = 0 .. G
  <2> HIDE DEF clean, N
  <2> QED
    BY <1>1, <1>6
<1>8. Max(0 .. G) = G
  BY <1>1 DEF Max
<1>9. DecodeBlock(t) =
        [k \in 1 .. 3 * G |->
          LET c == 4 * ((k - 1) \div 3)
          IN CASE k % 3 = 1 -> v(c + 1) * 4 + (v(c + 2) \div 16)
               [] k % 3 = 2 -> (v(c + 2) % 16) * 16 + (v(c + 3) \div 4)
               [] k % 3 = 0 -> (v(c + 3) % 4) * 64 + v(c + 4)]
  <2>1. Max(last) = N
    BY <1>4, <1>5
  <2>2. Max({g \in 0 .. (N \div 4) : \A h \in 0 .. (g - 1) : clean(h)}) = G
    BY <1>7, <1>8
  <2> HIDE DEF N, t
  <2> QED
    BY <1>1, <2>1, <2>2 DEF DecodeBlock
<1>10. DecodeBlock(t) = [k \in 1 .. 3 * G |-> Oct(s, k)]
  <2>1. ASSUME NEW k \in 1 .. 3 * G
        PROVE  LET c == 4 * ((k - 1) \div 3)
               IN {c + 1, c + 2, c + 3, c + 4} \subseteq 1 .. N
    BY <1>1
  <2> HIDE DEF v, N
  <2>2. ASSUME NEW k \in 1 .. 3 * G
        PROVE  (LET c == 4 * ((k - 1) \div 3)
                IN CASE k % 3 = 1 -> v(c + 1) * 4 + (v(c + 2) \div 16)
                     [] k % 3 = 2 -> (v(c + 2) % 16) * 16 + (v(c + 3) \div 4)
                     [] k % 3 = 0 -> (v(c + 3) % 4) * 64 + v(c + 4)) = Oct(s, k)
    <3> DEFINE c == 4 * ((k - 1) \div 3)
    <3>1. v(c + 1) = Chr(s, c + 1) /\ v(c + 2) = Chr(s, c + 2) /\ v(c + 3) = Chr(s, c + 3) /\ v(c + 4) = Chr(s, c + 4)
      BY <1>3, <2>1
    <3> QED
      BY <3>1 DEF Oct
  <2> QED
    BY <1>9, <2>2
<1>11. BlockSize(t) = 3 * G
  <2> HIDE DEF t
  <2> QED
    BY <1>1, <1>2 DEF BlockSize
<1>12. Base64Decode(s) = [size |-> BlockSize(t), bytes |-> DecodeBlock(t)]
  BY Plained DEF Base64Decode
<1> HIDE DEF t
<1> QED
  BY <1>10, <1>11, <1>12 DEF G

\* s is a base64 text of the bytes d, in one alphabet or the other
Encodes(s, d) ==
  /\ s \in Seq(Char)
  /\ Len(s) = (4 * Len(d) + 2) \div 3
  /\ \A c \in 1 .. Len(s) : SixBits(s[c]) = Six(d, c)

\* base64-encode-nopad writes a text of its bytes, and so does node's encoder.
LEMMA Encodings ==
  ASSUME NEW d \in Seq(Byte)
  PROVE  Encodes(Base64EncodeNopad(d), d) /\ Encodes(UrlSafe(Base64EncodeNopad(d)), d)
<1> DEFINE m == (4 * Len(d) + 2) \div 3
           e == Base64EncodeNopad(d)
<1>1. m \in Nat
  OBVIOUS
<1>2. e = [c \in 1 .. m |-> Six(d, c)]
  BY Encoded
<1> HIDE DEF m, e
<1>3. \A c \in 1 .. m : Six(d, c) \in 0 .. 63
  <2> TAKE c \in 1 .. m
  <2>1. c \in Nat \ {0}
    BY <1>1
  <2> QED
    BY <2>1, SixType
<1>4. \A x \in 0 .. 63 : x \in Char /\ SixBits(x) = x
  BY DEF Char, SixBits, Pad, Dash, Under, Other
<1>5. e \in Seq(Char) /\ Len(e) = m
  <2>1. \A c \in 1 .. m : e[c] \in Char
    BY <1>2, <1>3, <1>4
  <2> QED
    BY <1>1, <1>2, <2>1
<1>6. Encodes(e, d)
  BY <1>2, <1>3, <1>4, <1>5 DEF Encodes, m
<1>7. UrlSafe(e) = [i \in 1 .. m |-> IF e[i] = 62 THEN Dash ELSE IF e[i] = 63 THEN Under ELSE e[i]]
  BY <1>2 DEF UrlSafe
<1>8. ASSUME NEW x \in 0 .. 63, NEW y, y = IF x = 62 THEN Dash ELSE IF x = 63 THEN Under ELSE x
      PROVE  y \in Char /\ SixBits(y) = x
  BY <1>8 DEF Char, SixBits, Pad, Dash, Under, Other
<1>9. \A i \in 1 .. m : UrlSafe(e)[i] \in Char /\ SixBits(UrlSafe(e)[i]) = Six(d, i)
  <2> TAKE i \in 1 .. m
  <2>1. e[i] = Six(d, i) /\ e[i] \in 0 .. 63
    BY <1>2, <1>3
  <2>2. UrlSafe(e)[i] = IF e[i] = 62 THEN Dash ELSE IF e[i] = 63 THEN Under ELSE e[i]
    BY <1>7
  <2>3. /\ UrlSafe(e)[i] \in Char
        /\ SixBits(UrlSafe(e)[i]) = e[i]
    BY <1>8, <2>1, <2>2
  <2> QED
    BY <2>1, <2>3
<1>10. UrlSafe(e) \in Seq(Char) /\ Len(UrlSafe(e)) = m
  BY <1>1, <1>7, <1>9
<1>11. Encodes(UrlSafe(e), d)
  BY <1>9, <1>10 DEF Encodes, m
<1> QED
  BY <1>6, <1>11 DEF e

\* The bytes of a text of d are d, with zeros behind to the end of the last group.
LEMMA RoundTrip ==
  ASSUME NEW d \in Seq(Byte), NEW s, Encodes(s, d)
  PROVE  /\ Groups(s) = (Len(d) + 2) \div 3
         /\ \A k \in 1 .. 3 * Groups(s) : Oct(s, k) = ByteAt(d, k)
<1> DEFINE n == Len(d)
           G == Groups(s)
<1>1. n \in Nat /\ G = (n + 2) \div 3 /\ Len(s) = (4 * n + 2) \div 3 /\ G \in Nat
  BY DEF Encodes, Groups
<1>2. ASSUME NEW c \in 1 .. 4 * G
      PROVE  Chr(s, c) = Six(d, c)
  <2>1. CASE c <= Len(s)
    BY <1>1, <2>1 DEF Chr, Encodes
  <2>2. CASE c > Len(s)
    <3> DEFINE g == 3 * ((c - 1) \div 4)
    <3>1. g \in Nat /\ ((c % 4 = 3 /\ g + 2 > n) \/ (c % 4 = 0 /\ g + 3 > n))
      BY <1>1, <2>2
    <3>2. Six(d, c) = CASE c % 4 = 1 -> ByteAt(d, g + 1) \div 4
                        [] c % 4 = 2 -> SecondSix(ByteAt(d, g + 1), ByteAt(d, g + 2))
                        [] c % 4 = 3 -> (ByteAt(d, g + 2) % 16) * 4 + (ByteAt(d, g + 3) \div 64)
                        [] c % 4 = 0 -> ByteAt(d, g + 3) % 64
      BY DEF Six
    <3>3. Chr(s, c) = 0
      BY <1>1, <2>2 DEF Chr
    <3> HIDE DEF g
    <3> QED
      BY <1>1, <3>1, <3>2, <3>3 DEF ByteAt
  <2> QED
    BY <1>1, <2>1, <2>2
<1>3. ASSUME NEW k \in 1 .. 3 * G
      PROVE  Oct(s, k) = ByteAt(d, k)
  <2> DEFINE j == (k - 1) \div 3
             b1 == ByteAt(d, 3 * j + 1)
             b2 == ByteAt(d, 3 * j + 2)
             b3 == ByteAt(d, 3 * j + 3)
  <2>1. j \in 0 .. G - 1 /\ k % 3 \in 0 .. 2
        /\ (k % 3 = 1 => k = 3 * j + 1) /\ (k % 3 = 2 => k = 3 * j + 2) /\ (k % 3 = 0 => k = 3 * j + 3)
    BY <1>1
  <2>2. Oct(s, k) = CASE k % 3 = 1 -> Chr(s, 4 * j + 1) * 4 + (Chr(s, 4 * j + 2) \div 16)
                      [] k % 3 = 2 -> (Chr(s, 4 * j + 2) % 16) * 16 + (Chr(s, 4 * j + 3) \div 4)
                      [] k % 3 = 0 -> (Chr(s, 4 * j + 3) % 4) * 64 + Chr(s, 4 * j + 4)
    BY DEF Oct
  <2> HIDE DEF j
  <2>3. /\ Chr(s, 4 * j + 1) = b1 \div 4
        /\ Chr(s, 4 * j + 2) = SecondSix(b1, b2)
        /\ Chr(s, 4 * j + 3) = (b2 % 16) * 4 + (b3 \div 64)
        /\ Chr(s, 4 * j + 4) = b3 % 64
    <3>1. ASSUME NEW c \in 1 .. 4 * G, (c - 1) \div 4 = j
          PROVE  /\ c % 4 = 1 => Chr(s, c) = b1 \div 4
                 /\ c % 4 = 2 => Chr(s, c) = SecondSix(b1, b2)
                 /\ c % 4 = 3 => Chr(s, c) = (b2 % 16) * 4 + (b3 \div 64)
                 /\ c % 4 = 0 => Chr(s, c) = b3 % 64
      BY <1>2, <3>1 DEF Six
    <3> HIDE DEF b1, b2, b3, G
    <3> DEFINE c1 == 4 * j + 1
               c2 == 4 * j + 2
               c3 == 4 * j + 3
               c4 == 4 * j + 4
    <3>2. /\ c1 \in 1 .. 4 * G /\ (c1 - 1) \div 4 = j /\ c1 % 4 = 1
          /\ c2 \in 1 .. 4 * G /\ (c2 - 1) \div 4 = j /\ c2 % 4 = 2
          /\ c3 \in 1 .. 4 * G /\ (c3 - 1) \div 4 = j /\ c3 % 4 = 3
          /\ c4 \in 1 .. 4 * G /\ (c4 - 1) \div 4 = j /\ c4 % 4 = 0
      BY <1>1, <2>1
    <3> HIDE DEF c1, c2, c3, c4
    <3>3. Chr(s, c1) = b1 \div 4
      BY <3>1, <3>2
    <3>4. Chr(s, c2) = SecondSix(b1, b2)
      BY <3>1, <3>2
    <3>5. Chr(s, c3) = (b2 % 16) * 4 + (b3 \div 64)
      BY <3>1, <3>2
    <3>6. Chr(s, c4) = b3 % 64
      BY <3>1, <3>2
    <3> QED
      BY <3>3, <3>4, <3>5, <3>6 DEF c1, c2, c3, c4
  <2>4. b1 \in Byte /\ b2 \in Byte /\ b3 \in Byte
    BY <2>1, ByteAtType
  <2>5. \A x, y, z \in Byte :
          /\ (x \div 4) * 4 + (SecondSix(x, y) \div 16) = x
          /\ (SecondSix(x, y) % 16) * 16 + (((y % 16) * 4 + (z \div 64)) \div 4) = y
          /\ (((y % 16) * 4 + (z \div 64)) % 4) * 64 + (z % 64) = z
    <3>1. \A x, y \in Byte : SecondSix(x, y) \div 16 = x % 4 /\ SecondSix(x, y) % 16 = y \div 16
      BY DEF SecondSix, Byte
    <3>2. \A y, z \in Byte : /\ ((y % 16) * 4 + (z \div 64)) \div 4 = y % 16
                             /\ ((y % 16) * 4 + (z \div 64)) % 4 = z \div 64
      BY DEF Byte
    <3>3. \A x \in Byte : /\ (x \div 4) * 4 + (x % 4) = x
                          /\ (x \div 16) * 16 + (x % 16) = x
                          /\ (x \div 64) * 64 + (x % 64) = x
      BY DEF Byte
    <3> QED
      BY <3>1, <3>2, <3>3
  <2> HIDE DEF b1, b2, b3
  <2>6. /\ Chr(s, 4 * j + 1) * 4 + (Chr(s, 4 * j + 2) \div 16) = b1
        /\ (Chr(s, 4 * j + 2) % 16) * 16 + (Chr(s, 4 * j + 3) \div 4) = b2
        /\ (Chr(s, 4 * j + 3) % 4) * 64 + Chr(s, 4 * j + 4) = b3
    BY <2>3, <2>4, <2>5
  <2> QED
    BY <2>1, <2>2, <2>6 DEF b1, b2, b3
<1> QED
  BY <1>1, <1>3

\* Six bits of a text are six bits.
LEMMA ChrType ==
  ASSUME NEW s \in Seq(Char), Readable(s), NEW c \in Nat \ {0}
  PROVE  Chr(s, c) \in 0 .. 63
<1>1. c <= Len(s) => s[c] \in Char /\ s[c] # Other
  BY DEF Readable
<1>2. \A x \in Char : x # Other => SixBits(x) \in 0 .. 63
  BY DEF Char, SixBits, Pad, Dash, Under, Other
<1>3. c <= Len(s) => Chr(s, c) \in 0 .. 63
  <2> HAVE c <= Len(s)
  <2> QED
    BY <1>1, <1>2 DEF Chr
<1>4. ~(c <= Len(s)) => Chr(s, c) = 0
  BY DEF Chr
<1> QED
  BY <1>3, <1>4

\* What is read from a text are bytes.
LEMMA OctType ==
  ASSUME NEW s \in Seq(Char), Readable(s), NEW k \in Nat \ {0}
  PROVE  Oct(s, k) \in Byte
<1> DEFINE c == 4 * ((k - 1) \div 3)
<1>1. c \in Nat /\ k % 3 \in 0 .. 2
  OBVIOUS
<1>2. Oct(s, k) = CASE k % 3 = 1 -> Chr(s, c + 1) * 4 + (Chr(s, c + 2) \div 16)
                    [] k % 3 = 2 -> (Chr(s, c + 2) % 16) * 16 + (Chr(s, c + 3) \div 4)
                    [] k % 3 = 0 -> (Chr(s, c + 3) % 4) * 64 + Chr(s, c + 4)
  BY DEF Oct
<1> HIDE DEF c
<1>3. /\ Chr(s, c + 1) \in 0 .. 63 /\ Chr(s, c + 2) \in 0 .. 63
      /\ Chr(s, c + 3) \in 0 .. 63 /\ Chr(s, c + 4) \in 0 .. 63
  BY <1>1, ChrType
<1>4. \A v, w \in 0 .. 63 : /\ v * 4 + (w \div 16) \in Byte
                            /\ (v % 16) * 16 + (w \div 4) \in Byte
                            /\ (v % 4) * 64 + w \in Byte
  BY DEF Byte
<1>5. /\ Chr(s, c + 1) * 4 + (Chr(s, c + 2) \div 16) \in Byte
      /\ (Chr(s, c + 2) % 16) * 16 + (Chr(s, c + 3) \div 4) \in Byte
      /\ (Chr(s, c + 3) % 4) * 64 + Chr(s, c + 4) \in Byte
  BY <1>3, <1>4
<1> QED
  BY <1>1, <1>2, <1>5

\* A byte is its bits.
LEMMA ByteIsBits ==
  ASSUME NEW x \in Byte, NEW y \in Byte,
         \A b \in 1 .. 8 : (x \div Weight[b]) % 2 = (y \div Weight[b]) % 2
  PROVE  x = y
<1>1. /\ (x \div 128) % 2 = (y \div 128) % 2 /\ (x \div 64) % 2 = (y \div 64) % 2
      /\ (x \div 32) % 2 = (y \div 32) % 2 /\ (x \div 16) % 2 = (y \div 16) % 2
      /\ (x \div 8) % 2 = (y \div 8) % 2 /\ (x \div 4) % 2 = (y \div 4) % 2
      /\ (x \div 2) % 2 = (y \div 2) % 2 /\ (x \div 1) % 2 = (y \div 1) % 2
  BY DEF Weight
<1>2. \A z \in Byte : z = 128 * ((z \div 128) % 2) + 64 * ((z \div 64) % 2) + 32 * ((z \div 32) % 2)
                         + 16 * ((z \div 16) % 2) + 8 * ((z \div 8) % 2) + 4 * ((z \div 4) % 2)
                         + 2 * ((z \div 2) % 2) + ((z \div 1) % 2)
  BY DEF Byte
<1> QED
  BY <1>1, <1>2

\* The bits of the bytes of a group are the bits of its four characters.
LEMMA GroupBits ==
  ASSUME NEW v \in 0 .. 63, NEW w \in 0 .. 63
  PROVE  /\ LET x == v * 4 + (w \div 16)
            IN /\ \A b \in 0 .. 5 : (x \div Weight[b + 1]) % 2 = (v \div Weight[b + 3]) % 2
               /\ \A b \in 6 .. 7 : (x \div Weight[b + 1]) % 2 = (w \div Weight[b - 3]) % 2
         /\ LET x == (v % 16) * 16 + (w \div 4)
            IN /\ \A b \in 0 .. 3 : (x \div Weight[b + 1]) % 2 = (v \div Weight[b + 5]) % 2
               /\ \A b \in 4 .. 7 : (x \div Weight[b + 1]) % 2 = (w \div Weight[b - 1]) % 2
         /\ LET x == (v % 4) * 64 + w
            IN /\ \A b \in 0 .. 1 : (x \div Weight[b + 1]) % 2 = (v \div Weight[b + 7]) % 2
               /\ \A b \in 2 .. 7 : (x \div Weight[b + 1]) % 2 = (w \div Weight[b + 1]) % 2
<1>1. ASSUME NEW x, x = v * 4 + (w \div 16)
      PROVE  /\ (x \div 128) % 2 = (v \div 32) % 2 /\ (x \div 64) % 2 = (v \div 16) % 2
             /\ (x \div 32) % 2 = (v \div 8) % 2 /\ (x \div 16) % 2 = (v \div 4) % 2
             /\ (x \div 8) % 2 = (v \div 2) % 2 /\ (x \div 4) % 2 = (v \div 1) % 2
             /\ (x \div 2) % 2 = (w \div 32) % 2 /\ (x \div 1) % 2 = (w \div 16) % 2
  <2>1. (x \div 128) % 2 = (v \div 32) % 2
    BY <1>1
  <2>2. (x \div 64) % 2 = (v \div 16) % 2
    BY <1>1
  <2>3. (x \div 32) % 2 = (v \div 8) % 2
    BY <1>1
  <2>4. (x \div 16) % 2 = (v \div 4) % 2
    BY <1>1
  <2>5. (x \div 8) % 2 = (v \div 2) % 2
    BY <1>1
  <2>6. (x \div 4) % 2 = (v \div 1) % 2
    BY <1>1
  <2>7. (x \div 2) % 2 = (w \div 32) % 2
    BY <1>1
  <2>8. (x \div 1) % 2 = (w \div 16) % 2
    BY <1>1
  <2> QED
    BY <2>1, <2>2, <2>3, <2>4, <2>5, <2>6, <2>7, <2>8
<1>2. ASSUME NEW x, x = (v % 16) * 16 + (w \div 4)
      PROVE  /\ (x \div 128) % 2 = (v \div 8) % 2 /\ (x \div 64) % 2 = (v \div 4) % 2
             /\ (x \div 32) % 2 = (v \div 2) % 2 /\ (x \div 16) % 2 = (v \div 1) % 2
             /\ (x \div 8) % 2 = (w \div 32) % 2 /\ (x \div 4) % 2 = (w \div 16) % 2
             /\ (x \div 2) % 2 = (w \div 8) % 2 /\ (x \div 1) % 2 = (w \div 4) % 2
  <2>1. (x \div 128) % 2 = (v \div 8) % 2
    BY <1>2
  <2>2. (x \div 64) % 2 = (v \div 4) % 2
    BY <1>2
  <2>3. (x \div 32) % 2 = (v \div 2) % 2
    BY <1>2
  <2>4. (x \div 16) % 2 = (v \div 1) % 2
    BY <1>2
  <2>5. (x \div 8) % 2 = (w \div 32) % 2
    BY <1>2
  <2>6. (x \div 4) % 2 = (w \div 16) % 2
    BY <1>2
  <2>7. (x \div 2) % 2 = (w \div 8) % 2
    BY <1>2
  <2>8. (x \div 1) % 2 = (w \div 4) % 2
    BY <1>2
  <2> QED
    BY <2>1, <2>2, <2>3, <2>4, <2>5, <2>6, <2>7, <2>8
<1>3. ASSUME NEW x, x = (v % 4) * 64 + w
      PROVE  /\ (x \div 128) % 2 = (v \div 2) % 2 /\ (x \div 64) % 2 = (v \div 1) % 2
             /\ (x \div 32) % 2 = (w \div 32) % 2 /\ (x \div 16) % 2 = (w \div 16) % 2
             /\ (x \div 8) % 2 = (w \div 8) % 2 /\ (x \div 4) % 2 = (w \div 4) % 2
             /\ (x \div 2) % 2 = (w \div 2) % 2 /\ (x \div 1) % 2 = (w \div 1) % 2
  <2>1. (x \div 128) % 2 = (v \div 2) % 2
    BY <1>3
  <2>2. (x \div 64) % 2 = (v \div 1) % 2
    BY <1>3
  <2>3. (x \div 32) % 2 = (w \div 32) % 2
    BY <1>3
  <2>4. (x \div 16) % 2 = (w \div 16) % 2
    BY <1>3
  <2>5. (x \div 8) % 2 = (w \div 8) % 2
    BY <1>3
  <2>6. (x \div 4) % 2 = (w \div 4) % 2
    BY <1>3
  <2>7. (x \div 2) % 2 = (w \div 2) % 2
    BY <1>3
  <2>8. (x \div 1) % 2 = (w \div 1) % 2
    BY <1>3
  <2> QED
    BY <2>1, <2>2, <2>3, <2>4, <2>5, <2>6, <2>7, <2>8
<1> QED
  BY <1>1, <1>2, <1>3 DEF Weight

\* A bit of a text is one of the six bits of a character.
LEMMA TextBitIs ==
  ASSUME NEW s \in Seq(Char), NEW c \in Nat, NEW r \in 0 .. 5
  PROVE  TextBit(s, 6 * c + r) = (Chr(s, c + 1) \div Weight[r + 3]) % 2
<1>1. (6 * c + r) \div 6 = c /\ (6 * c + r) % 6 = r
  OBVIOUS
<1>2. TextBit(s, 6 * c + r) = IF c + 1 > Len(s) THEN 0 ELSE (SixBits(s[c + 1]) \div Weight[r + 3]) % 2
  BY <1>1 DEF TextBit
<1>3. CASE c + 1 > Len(s)
  <2>1. Chr(s, c + 1) = 0
    BY <1>3 DEF Chr
  <2>2. (0 \div Weight[r + 3]) % 2 = 0
    BY DEF Weight
  <2> QED
    BY <1>2, <1>3, <2>1, <2>2
<1>4. CASE c + 1 <= Len(s)
  BY <1>2, <1>4 DEF Chr
<1> QED
  BY <1>3, <1>4

\* The bits of the bytes that the decoder reads are the bits of the text.
LEMMA OctBits ==
  ASSUME NEW s \in Seq(Char), Readable(s), NEW k \in Nat \ {0}, NEW b \in 0 .. 7
  PROVE  (Oct(s, k) \div Weight[b + 1]) % 2 = TextBit(s, 8 * (k - 1) + b)
<1> DEFINE j == (k - 1) \div 3
           i == 8 * (k - 1) + b
           v1 == Chr(s, 4 * j + 1)
           v2 == Chr(s, 4 * j + 2)
           v3 == Chr(s, 4 * j + 3)
           v4 == Chr(s, 4 * j + 4)
<1>1. j \in Nat /\ k % 3 \in 0 .. 2
      /\ (k % 3 = 1 => k = 3 * j + 1) /\ (k % 3 = 2 => k = 3 * j + 2) /\ (k % 3 = 0 => k = 3 * j + 3)
  OBVIOUS
<1>2. Oct(s, k) = CASE k % 3 = 1 -> v1 * 4 + (v2 \div 16)
                    [] k % 3 = 2 -> (v2 % 16) * 16 + (v3 \div 4)
                    [] k % 3 = 0 -> (v3 % 4) * 64 + v4
  BY DEF Oct
<1> HIDE DEF j
<1>3. v1 \in 0 .. 63 /\ v2 \in 0 .. 63 /\ v3 \in 0 .. 63 /\ v4 \in 0 .. 63
  BY <1>1, ChrType
<1>4. \A r \in 0 .. 5 : /\ TextBit(s, 24 * j + r) = (v1 \div Weight[r + 3]) % 2
                        /\ TextBit(s, 24 * j + 6 + r) = (v2 \div Weight[r + 3]) % 2
                        /\ TextBit(s, 24 * j + 12 + r) = (v3 \div Weight[r + 3]) % 2
                        /\ TextBit(s, 24 * j + 18 + r) = (v4 \div Weight[r + 3]) % 2
  <2> TAKE r \in 0 .. 5
  <2>1. ASSUME NEW q \in 0 .. 3
        PROVE  TextBit(s, 24 * j + 6 * q + r) = (Chr(s, 4 * j + q + 1) \div Weight[r + 3]) % 2
    <3>1. 4 * j + q \in Nat /\ 24 * j + 6 * q + r = 6 * (4 * j + q) + r
      BY <1>1
    <3> QED
      BY <3>1, TextBitIs
  <2>2. TextBit(s, 24 * j + 6 * 0 + r) = (Chr(s, 4 * j + 0 + 1) \div Weight[r + 3]) % 2
    BY <2>1
  <2>3. TextBit(s, 24 * j + 6 * 1 + r) = (Chr(s, 4 * j + 1 + 1) \div Weight[r + 3]) % 2
    BY <2>1
  <2>4. TextBit(s, 24 * j + 6 * 2 + r) = (Chr(s, 4 * j + 2 + 1) \div Weight[r + 3]) % 2
    BY <2>1
  <2>5. TextBit(s, 24 * j + 6 * 3 + r) = (Chr(s, 4 * j + 3 + 1) \div Weight[r + 3]) % 2
    BY <2>1
  <2> QED
    BY <1>1, <2>2, <2>3, <2>4, <2>5
<1> HIDE DEF v1, v2, v3, v4
<1>5. CASE k % 3 = 1
  <2>1. i = 24 * j + b /\ (b > 5 => i = 24 * j + 6 + (b - 6))
    BY <1>1, <1>5
  <2>2. Oct(s, k) = v1 * 4 + (v2 \div 16)
    BY <1>2, <1>5
  <2>3. /\ \A c \in 0 .. 5 : ((v1 * 4 + (v2 \div 16)) \div Weight[c + 1]) % 2 = (v1 \div Weight[c + 3]) % 2
        /\ \A c \in 6 .. 7 : ((v1 * 4 + (v2 \div 16)) \div Weight[c + 1]) % 2 = (v2 \div Weight[c - 3]) % 2
    BY <1>3, GroupBits
  <2>4. CASE b \in 0 .. 5
    <3>1. b \in 0 .. 5 /\ b + 3 = b + 3
      BY <2>4
    <3>2. TextBit(s, 24 * j + b) = (v1 \div Weight[b + 3]) % 2
      BY <1>4, <3>1
    <3>3. (Oct(s, k) \div Weight[b + 1]) % 2 = (v1 \div Weight[b + 3]) % 2
      BY <2>2, <2>3, <2>4
    <3>4. i = 24 * j + b
      BY <2>1, <2>4
    <3> QED
      BY <3>1, <3>2, <3>3, <3>4
  <2>5. CASE b \in 6 .. 7
    <3>1. b - 6 \in 0 .. 5 /\ b - 6 + 3 = b - 3
      BY <2>5
    <3>2. TextBit(s, 24 * j + 6 + (b - 6)) = (v2 \div Weight[b - 6 + 3]) % 2
      BY <1>4, <3>1
    <3>3. (Oct(s, k) \div Weight[b + 1]) % 2 = (v2 \div Weight[b - 3]) % 2
      BY <2>2, <2>3, <2>5
    <3>4. i = 24 * j + 6 + (b - 6)
      BY <2>1, <2>5
    <3> QED
      BY <3>1, <3>2, <3>3, <3>4
  <2> QED
    BY <2>4, <2>5
<1>6. CASE k % 3 = 2
  <2>1. (b <= 3 => i = 24 * j + 6 + (b + 2)) /\ (b > 3 => i = 24 * j + 12 + (b - 4))
    BY <1>1, <1>6
  <2>2. Oct(s, k) = (v2 % 16) * 16 + (v3 \div 4)
    BY <1>2, <1>6
  <2>3. /\ \A c \in 0 .. 3 : (((v2 % 16) * 16 + (v3 \div 4)) \div Weight[c + 1]) % 2 = (v2 \div Weight[c + 5]) % 2
        /\ \A c \in 4 .. 7 : (((v2 % 16) * 16 + (v3 \div 4)) \div Weight[c + 1]) % 2 = (v3 \div Weight[c - 1]) % 2
    BY <1>3, GroupBits
  <2>4. CASE b \in 0 .. 3
    <3>1. b + 2 \in 0 .. 5 /\ b + 2 + 3 = b + 5
      BY <2>4
    <3>2. TextBit(s, 24 * j + 6 + (b + 2)) = (v2 \div Weight[b + 2 + 3]) % 2
      BY <1>4, <3>1
    <3>3. (Oct(s, k) \div Weight[b + 1]) % 2 = (v2 \div Weight[b + 5]) % 2
      BY <2>2, <2>3, <2>4
    <3>4. i = 24 * j + 6 + (b + 2)
      BY <2>1, <2>4
    <3> QED
      BY <3>1, <3>2, <3>3, <3>4
  <2>5. CASE b \in 4 .. 7
    <3>1. b - 4 \in 0 .. 5 /\ b - 4 + 3 = b - 1
      BY <2>5
    <3>2. TextBit(s, 24 * j + 12 + (b - 4)) = (v3 \div Weight[b - 4 + 3]) % 2
      BY <1>4, <3>1
    <3>3. (Oct(s, k) \div Weight[b + 1]) % 2 = (v3 \div Weight[b - 1]) % 2
      BY <2>2, <2>3, <2>5
    <3>4. i = 24 * j + 12 + (b - 4)
      BY <2>1, <2>5
    <3> QED
      BY <3>1, <3>2, <3>3, <3>4
  <2> QED
    BY <2>4, <2>5
<1>7. CASE k % 3 = 0
  <2>1. (b <= 1 => i = 24 * j + 12 + (b + 4)) /\ (b > 1 => i = 24 * j + 18 + (b - 2))
    BY <1>1, <1>7
  <2>2. Oct(s, k) = (v3 % 4) * 64 + v4
    BY <1>2, <1>7
  <2>3. /\ \A c \in 0 .. 1 : (((v3 % 4) * 64 + v4) \div Weight[c + 1]) % 2 = (v3 \div Weight[c + 7]) % 2
        /\ \A c \in 2 .. 7 : (((v3 % 4) * 64 + v4) \div Weight[c + 1]) % 2 = (v4 \div Weight[c + 1]) % 2
    BY <1>3, GroupBits
  <2>4. CASE b \in 0 .. 1
    <3>1. b + 4 \in 0 .. 5 /\ b + 4 + 3 = b + 7
      BY <2>4
    <3>2. TextBit(s, 24 * j + 12 + (b + 4)) = (v3 \div Weight[b + 4 + 3]) % 2
      BY <1>4, <3>1
    <3>3. (Oct(s, k) \div Weight[b + 1]) % 2 = (v3 \div Weight[b + 7]) % 2
      BY <2>2, <2>3, <2>4
    <3>4. i = 24 * j + 12 + (b + 4)
      BY <2>1, <2>4
    <3> QED
      BY <3>1, <3>2, <3>3, <3>4
  <2>5. CASE b \in 2 .. 7
    <3>1. b - 2 \in 0 .. 5 /\ b - 2 + 3 = b + 1
      BY <2>5
    <3>2. TextBit(s, 24 * j + 18 + (b - 2)) = (v4 \div Weight[b - 2 + 3]) % 2
      BY <1>4, <3>1
    <3>3. (Oct(s, k) \div Weight[b + 1]) % 2 = (v4 \div Weight[b + 1]) % 2
      BY <2>2, <2>3, <2>5
    <3>4. i = 24 * j + 18 + (b - 2)
      BY <2>1, <2>5
    <3> QED
      BY <3>1, <3>2, <3>3, <3>4
  <2> QED
    BY <2>4, <2>5
<1> QED
  BY <1>1, <1>5, <1>6, <1>7

\* Says, in bytes: a readable text says a MAC if and only if it decodes to the MAC with
\* the zero that ends it.
LEMMA SaysBytes ==
  ASSUME NEW s \in Seq(Char), Readable(s), NEW mac \in Seq(Byte)
  PROVE  Says(s, mac) <=> /\ 3 * Groups(s) = SigLen + 1
                          /\ \A k \in 1 .. SigLen + 1 : Oct(s, k) = ByteAt(mac, k)
<1>1. Groups(s) = (SigLen + 1) \div 3 <=> 3 * Groups(s) = SigLen + 1
  BY SigLenAssumption DEF Groups
<1>2. ASSUME NEW k \in 1 .. SigLen + 1, NEW b \in 0 .. 7
      PROVE  /\ 8 * (k - 1) + b \in 0 .. (8 * (SigLen + 1) - 1)
             /\ TextBit(s, 8 * (k - 1) + b) = (Oct(s, k) \div Weight[b + 1]) % 2
             /\ ByteBit(mac, 8 * (k - 1) + b) = (ByteAt(mac, k) \div Weight[b + 1]) % 2
  <2>1. k \in Nat \ {0} /\ 8 * (k - 1) + b \in 0 .. (8 * (SigLen + 1) - 1)
    BY SigLenAssumption
  <2>2. ((8 * (k - 1) + b) \div 8) + 1 = k /\ (8 * (k - 1) + b) % 8 = b
    BY <2>1
  <2> QED
    BY <2>1, <2>2, OctBits DEF ByteBit
<1>3. ASSUME NEW i \in 0 .. (8 * (SigLen + 1) - 1)
      PROVE  \E k \in 1 .. SigLen + 1, b \in 0 .. 7 : i = 8 * (k - 1) + b
  <2>1. /\ (i \div 8) + 1 \in 1 .. SigLen + 1 /\ i % 8 \in 0 .. 7
        /\ i = 8 * ((i \div 8) + 1 - 1) + (i % 8)
    BY SigLenAssumption
  <2> QED
    BY <2>1
<1>4. ASSUME \A k \in 1 .. SigLen + 1 : Oct(s, k) = ByteAt(mac, k),
             NEW i \in 0 .. (8 * (SigLen + 1) - 1)
      PROVE  TextBit(s, i) = ByteBit(mac, i)
  <2>1. PICK k \in 1 .. SigLen + 1, b \in 0 .. 7 : i = 8 * (k - 1) + b
    BY <1>3
  <2> QED
    BY <1>2, <1>4, <2>1
<1>5. ASSUME \A i \in 0 .. (8 * (SigLen + 1) - 1) : TextBit(s, i) = ByteBit(mac, i),
             NEW k \in 1 .. SigLen + 1
      PROVE  Oct(s, k) = ByteAt(mac, k)
  <2>1. ASSUME NEW b \in 0 .. 7
        PROVE  (Oct(s, k) \div Weight[b + 1]) % 2 = (ByteAt(mac, k) \div Weight[b + 1]) % 2
    BY <1>2, <1>5
  <2>2. ASSUME NEW b \in 1 .. 8
        PROVE  (Oct(s, k) \div Weight[b]) % 2 = (ByteAt(mac, k) \div Weight[b]) % 2
    <3>1. b - 1 \in 0 .. 7 /\ b - 1 + 1 = b
      OBVIOUS
    <3> QED
      BY <2>1, <3>1
  <2>3. k \in Nat \ {0}
    BY SigLenAssumption
  <2>4. Oct(s, k) \in Byte /\ ByteAt(mac, k) \in Byte
    BY <2>3, OctType, ByteAtType
  <2> QED
    BY <2>2, <2>4, ByteIsBits
<1> QED
  BY <1>1, <1>4, <1>5 DEF Says, Groups

\* The comparison of verify-signature, for a readable third part and a MAC that was
\* copied whole: it has one answer, and it is right.
LEMMA Verdict ==
  ASSUME NEW s \in Seq(Char), Readable(s), NEW mac \in Seq(Byte), Len(mac) = SigLen
  PROVE  Equals(Base64Decode(s), Signature(mac)) = IF Says(s, mac) THEN {TRUE} ELSE {FALSE}
<1> DEFINE d == Base64Decode(s)
           b == Signature(mac)
           n == 3 * Groups(s)
<1>1. n \in Nat
  BY DEF Groups
<1>2. d.size = n /\ d.bytes = [k \in 1 .. n |-> Oct(s, k)]
  BY Decoded
<1>3. b \in Seq(Byte) /\ Len(b) = SigLen + 1 /\ \A k \in 1 .. SigLen + 1 : b[k] = ByteAt(mac, k)
  <2>1. 0 \in Byte
    BY DEF Byte
  <2>2. b \in Seq(Byte) /\ Len(b) = SigLen + 1
    BY <2>1 DEF Signature
  <2>3. ASSUME NEW k \in 1 .. SigLen + 1
        PROVE  b[k] = ByteAt(mac, k)
    BY SigLenAssumption DEF Signature, ByteAt
  <2> QED
    BY <2>2, <2>3
<1> HIDE DEF d, b, n
<1>4. Len(d.bytes) = n
  BY <1>1, <1>2
<1>5. n = SigLen + 1 => SubSeq(b, 1, n) = [k \in 1 .. n |-> ByteAt(mac, k)]
  <2> HAVE n = SigLen + 1
  <2>1. SubSeq(b, 1, n) = [k \in 1 .. n |-> b[k]]
    BY <1>1, <1>3
  <2> QED
    BY <1>3, <2>1
<1>6. (n = Len(b) /\ d.bytes = SubSeq(b, 1, n)) <=> Says(s, mac)
  <2>1. Says(s, mac) <=> (n = SigLen + 1 /\ \A k \in 1 .. SigLen + 1 : Oct(s, k) = ByteAt(mac, k))
    BY SaysBytes DEF n
  <2>2. ASSUME n = SigLen + 1
        PROVE  d.bytes = SubSeq(b, 1, n) <=> \A k \in 1 .. SigLen + 1 : Oct(s, k) = ByteAt(mac, k)
    <3>1. d.bytes = SubSeq(b, 1, n) => \A k \in 1 .. n : Oct(s, k) = ByteAt(mac, k)
      <4>1. \A k \in 1 .. n : d.bytes[k] = Oct(s, k)
        BY <1>2
      <4>2. \A k \in 1 .. n : SubSeq(b, 1, n)[k] = ByteAt(mac, k)
        BY <1>5, <2>2
      <4> QED
        BY <4>1, <4>2
    <3>2. (\A k \in 1 .. n : Oct(s, k) = ByteAt(mac, k)) => d.bytes = SubSeq(b, 1, n)
      BY <1>2, <1>5, <2>2
    <3> QED
      BY <2>2, <3>1, <3>2
  <2> QED
    BY <1>3, <2>1, <2>2
<1>7. Equals(d, b) = IF Says(s, mac) THEN {TRUE} ELSE {FALSE}
  BY <1>2, <1>4, <1>6 DEF Equals
<1> QED
  BY <1>7 DEF d, b

\* The third part that make writes (of the MAC and its zero) and the one that node
\* writes (of the MAC alone) say the MAC.
LEMMA Genuine ==
  ASSUME NEW s, NEW mac \in Seq(Byte), Len(mac) = SigLen, Readable(s),
         Encodes(s, mac) \/ Encodes(s, Signature(mac))
  PROVE  Says(s, mac)
<1>1. 0 \in Byte
  BY DEF Byte
<1>2. Signature(mac) \in Seq(Byte) /\ Len(Signature(mac)) = SigLen + 1
  BY <1>1 DEF Signature
<1>3. \A k \in 1 .. SigLen + 1 : ByteAt(Signature(mac), k) = ByteAt(mac, k)
  BY SigLenAssumption DEF Signature, ByteAt
<1>4. s \in Seq(Char)
  BY DEF Encodes
<1>5. CASE Encodes(s, mac)
  <2>1. /\ Groups(s) = (SigLen + 2) \div 3
        /\ \A k \in 1 .. 3 * Groups(s) : Oct(s, k) = ByteAt(mac, k)
    BY <1>5, RoundTrip
  <2>2. 3 * Groups(s) = SigLen + 1
    BY <2>1, SigLenAssumption
  <2> QED
    BY <1>4, <2>1, <2>2, SaysBytes
<1>6. CASE Encodes(s, Signature(mac))
  <2>1. /\ Groups(s) = (SigLen + 1 + 2) \div 3
        /\ \A k \in 1 .. 3 * Groups(s) : Oct(s, k) = ByteAt(Signature(mac), k)
    BY <1>2, <1>6, RoundTrip
  <2>2. 3 * Groups(s) = SigLen + 1
    BY <2>1, SigLenAssumption
  <2> QED
    BY <1>3, <1>4, <2>1, <2>2, SaysBytes
<1> QED
  BY <1>5, <1>6

\* A JSON text comes back from its encoding: the zeros behind it end the C string that
\* json_decode reads.
LEMMA TextBack ==
  ASSUME NEW p \in Seq(1 .. 255), NEW s, Readable(s), Encodes(s, p)
  PROVE  /\ Len(Base64Decode(s).bytes) = Base64Decode(s).size
         /\ CString(Base64Decode(s).bytes) = p
<1> DEFINE n == 3 * Groups(s)
           d == Base64Decode(s).bytes
           nul == {i \in DOMAIN d : d[i] = 0}
<1>1. p \in Seq(Byte) /\ s \in Seq(Char) /\ \A i \in 1 .. Len(p) : p[i] \in 1 .. 255
  <2>1. 1 .. 255 \subseteq Byte
    BY DEF Byte
  <2>2. p \in Seq(Byte)
    BY <2>1, SeqMonotonic
  <2>3. s \in Seq(Char)
    BY DEF Encodes
  <2>4. \A i \in 1 .. Len(p) : p[i] \in 1 .. 255
    BY ElementOfSeq
  <2> QED
    BY <2>2, <2>3, <2>4
<1>2. Groups(s) = (Len(p) + 2) \div 3 /\ \A k \in 1 .. n : Oct(s, k) = ByteAt(p, k)
  BY <1>1, RoundTrip
<1>3. n \in Nat /\ Len(p) \in Nat /\ Len(p) <= n
  BY <1>2
<1>4. Base64Decode(s).size = n /\ d = [k \in 1 .. n |-> Oct(s, k)]
  BY <1>1, Decoded
<1> HIDE DEF n, d
<1>5. d = [k \in 1 .. n |-> ByteAt(p, k)] /\ Len(d) = n /\ DOMAIN d = 1 .. n
  BY <1>2, <1>3, <1>4
<1>6. \A k \in 1 .. Len(p) : d[k] = p[k]
  BY <1>3, <1>5 DEF ByteAt
<1>7. nul = (Len(p) + 1) .. n
  <2>1. \A k \in 1 .. n : d[k] = 0 <=> k > Len(p)
    <3> TAKE k \in 1 .. n
    <3>1. k <= Len(p) => d[k] # 0
      <4> HAVE k <= Len(p)
      <4>1. k \in 1 .. Len(p)
        BY <1>3
      <4>2. d[k] \in 1 .. 255
        BY <1>1, <1>6, <4>1
      <4>3. \A x \in 1 .. 255 : x # 0
        OBVIOUS
      <4> QED
        BY <4>2, <4>3
    <3>2. k > Len(p) => d[k] = 0
      BY <1>3, <1>5 DEF ByteAt
    <3> QED
      BY <1>3, <3>1, <3>2
  <2> QED
    BY <1>3, <1>5, <2>1
<1>8. SubSeq(d, 1, Len(p)) = p
  <2>1. SubSeq(d, 1, Len(p)) = [k \in 1 .. Len(p) |-> d[k]]
    BY <1>3
  <2>2. p = [k \in 1 .. Len(p) |-> p[k]]
    BY AsFunction
  <2> QED
    BY <1>6, <2>1, <2>2
<1>9. CASE Len(p) = n
  <2>1. nul = {}
    BY <1>3, <1>7, <1>9
  <2>2. d = p
    <3>1. p = [k \in 1 .. n |-> p[k]]
      BY <1>9, AsFunction
    <3> QED
      BY <1>5, <1>6, <1>9, <3>1
  <2>3. CString(d) = d
    BY <2>1 DEF CString
  <2> QED
    BY <1>4, <1>5, <2>2, <2>3 DEF d
<1>10. CASE Len(p) # n
  <2>1. nul # {} /\ Min(nul) = Len(p) + 1
    <3>1. \A a, b \in Int : a <= b => Min(a .. b) = a
      BY DEF Min
    <3>2. Len(p) + 1 \in Int /\ n \in Int /\ Len(p) + 1 <= n
      BY <1>3, <1>10
    <3>3. Min((Len(p) + 1) .. n) = Len(p) + 1
      BY <3>1, <3>2
    <3>4. (Len(p) + 1) .. n # {}
      BY <3>2
    <3> HIDE DEF nul
    <3> QED
      BY <1>7, <3>3, <3>4
  <2>2. CString(d) = SubSeq(d, 1, Min(nul) - 1)
    BY <2>1 DEF CString
  <2>3. Min(nul) - 1 = Len(p)
    BY <1>3, <2>1
  <2> QED
    BY <1>4, <1>5, <1>8, <2>2, <2>3 DEF d
<1> QED
  BY <1>9, <1>10

\* A set of naturals has a least element.
LEMMA Least ==
  ASSUME NEW S, S \subseteq Nat, S # {}
  PROVE  Min(S) \in S /\ \A x \in S : Min(S) <= x
<1>1. PICK n \in S : \A m \in S : <<m, n>> \notin OpToRel(<, Nat)
  BY NatLessThanWellFounded, WFMin
<1>2. ASSUME NEW x \in S
      PROVE  n <= x
  <2>1. n \in Nat /\ x \in Nat
    OBVIOUS
  <2>2. <<x, n>> \notin OpToRel(<, Nat)
    BY <1>1
  <2>3. ~(x < n)
    BY <2>1, <2>2 DEF OpToRel
  <2> QED
    BY <2>1, <2>3
<1> QED
  BY <1>2 DEF Min

\* A set of naturals that has a bound has a greatest element.
LEMMA Greatest ==
  ASSUME NEW S, S \subseteq Nat, S # {}, NEW b \in Nat, \A x \in S : x <= b
  PROVE  Max(S) \in S
<1> DEFINE T == {b - x : x \in S}
<1>1. T \subseteq Nat /\ T # {}
  <2>1. ASSUME NEW x \in S
        PROVE  b - x \in Nat
    <3>1. x \in Nat /\ x <= b
      OBVIOUS
    <3> QED
      BY <3>1
  <2> QED
    BY <2>1
<1>2. Min(T) \in T /\ \A y \in T : Min(T) <= y
  <2> HIDE DEF T
  <2> QED
    BY <1>1, Least
<1>3. PICK m \in S : Min(T) = b - m
  BY <1>2
<1>4. ASSUME NEW x \in S
      PROVE  m >= x
  <2>1. b - m <= b - x
    BY <1>2, <1>3
  <2> QED
    BY <2>1
<1> QED
  BY <1>4 DEF Max

\* Replacing a character leaves a text of the same length.
LEMMA ReplaceType ==
  ASSUME NEW old \in Nat, NEW new \in Nat, NEW s \in Seq(Nat)
  PROVE  Replace(old, new, s) \in Seq(Nat)
<1> DEFINE at == {i \in DOMAIN s : s[i] = old}
<1>1. CASE at = {}
  BY <1>1 DEF Replace
<1>2. CASE at # {}
  <2>1. at \subseteq Nat /\ at \subseteq 1 .. Len(s)
    OBVIOUS
  <2>2. Replace(old, new, s) = [s EXCEPT ![Min(at)] = new]
    BY <1>2 DEF Replace
  <2> HIDE DEF at
  <2>3. Min(at) \in 1 .. Len(s)
    BY <1>2, <2>1, Least
  <2>4. \A x \in 1 .. Len(s) : [s EXCEPT ![x] = new] \in Seq(Nat)
    BY ExceptSeq
  <2> QED
    BY <2>2, <2>3, <2>4
<1> QED
  BY <1>1, <1>2

\* The decoder's answer is a sequence of numbers, whatever the characters are.
LEMMA DecodeBlockType ==
  ASSUME NEW s \in Seq(Nat)
  PROVE  DecodeBlock(s) \in Seq(Int)
<1> DEFINE last == {0} \cup {i \in DOMAIN s : i <= 3 \/ s[i] # Dash}
           n == Max(last)
           clean(g) == \A i \in 1 .. 4 : s[4 * g + i] <= Pad
           whole == {g \in 0 .. (n \div 4) : \A h \in 0 .. (g - 1) : clean(h)}
           groups == Max(whole)
           v(i) == IF s[i] = Pad THEN 0 ELSE s[i]
           K == IF n % 4 = 0 THEN 3 * groups ELSE 0
           byte(k) == LET c == 4 * ((k - 1) \div 3)
                      IN CASE k % 3 = 1 -> v(c + 1) * 4 + (v(c + 2) \div 16)
                           [] k % 3 = 2 -> (v(c + 2) % 16) * 16 + (v(c + 3) \div 4)
                           [] k % 3 = 0 -> (v(c + 3) % 4) * 64 + v(c + 4)
<1>1. n \in 0 .. Len(s)
  <2>1. last \subseteq 0 .. Len(s) /\ last # {} /\ Len(s) \in Nat
    OBVIOUS
  <2>2. last \subseteq Nat /\ \A x \in last : x <= Len(s)
    BY <2>1
  <2> HIDE DEF last
  <2>3. Max(last) \in last
    BY <2>1, <2>2, Greatest
  <2> QED
    BY <2>1, <2>3
<1> HIDE DEF n
<1>2. groups \in 0 .. (n \div 4)
  <2>1. n \div 4 \in Nat
    BY <1>1
  <2>2. 0 \in whole
    BY <2>1
  <2>3. whole \subseteq Nat /\ whole # {} /\ \A x \in whole : x <= n \div 4
    BY <2>1, <2>2
  <2>4. whole \subseteq 0 .. (n \div 4)
    OBVIOUS
  <2> HIDE DEF whole
  <2>5. Max(whole) \in whole
    BY <2>1, <2>3, Greatest
  <2> QED
    BY <2>4, <2>5
<1>3. DecodeBlock(s) = [k \in 1 .. K |-> byte(k)]
  BY DEF DecodeBlock, n
<1> HIDE DEF groups
<1>4. K \in Nat /\ (K = 0 \/ 4 * groups <= Len(s))
  BY <1>1, <1>2
<1>5. ASSUME NEW i \in 1 .. Len(s)
      PROVE  v(i) \in Nat
  BY ElementOfSeq
<1>6. ASSUME NEW k \in 1 .. K
      PROVE  byte(k) \in Int
  <2> DEFINE c == 4 * ((k - 1) \div 3)
  <2>1. /\ c + 1 \in 1 .. Len(s) /\ c + 2 \in 1 .. Len(s)
        /\ c + 3 \in 1 .. Len(s) /\ c + 4 \in 1 .. Len(s)
    BY <1>1, <1>2, <1>4
  <2>2. k % 3 \in 0 .. 2
    BY <1>4
  <2>3. byte(k) = CASE k % 3 = 1 -> v(c + 1) * 4 + (v(c + 2) \div 16)
                    [] k % 3 = 2 -> (v(c + 2) % 16) * 16 + (v(c + 3) \div 4)
                    [] k % 3 = 0 -> (v(c + 3) % 4) * 64 + v(c + 4)
    OBVIOUS
  <2> HIDE DEF v, c, byte, K
  <2>4. v(c + 1) \in Nat /\ v(c + 2) \in Nat /\ v(c + 3) \in Nat /\ v(c + 4) \in Nat
    BY <1>5, <2>1
  <2>5. CASE k % 3 = 1
    BY <2>3, <2>4, <2>5
  <2>6. CASE k % 3 = 2
    BY <2>3, <2>4, <2>6
  <2>7. CASE k % 3 = 0
    BY <2>3, <2>4, <2>7
  <2> QED
    BY <2>2, <2>5, <2>6, <2>7
<1> HIDE DEF K, byte
<1> QED
  BY <1>3, <1>4, <1>6

\* What json_decode is given is a sequence of numbers.
LEMMA DecodedType ==
  ASSUME NEW s \in Seq(Char)
  PROVE  CString(Base64Decode(s).bytes) \in Seq(Int)
<1> DEFINE d == Base64Decode(s).bytes
           nul == {i \in DOMAIN d : d[i] = 0}
<1>1. AddPadding(s) \in Seq(Nat)
  <2>1. \A i \in 1 .. Len(s) : s[i] \in Nat
    <3>1. \A i \in 1 .. Len(s) : s[i] \in Char
      BY ElementOfSeq
    <3>2. Char \subseteq Nat
      BY DEF Char
    <3> QED
      BY <3>1, <3>2
  <2>2. 4 * Groups(s) \in Nat
    BY DEF Groups
  <2> QED
    BY <2>1, <2>2, Padded DEF Pad
<1>2. UndoUrlChars(AddPadding(s)) \in Seq(Nat)
  <2>1. Under \in Nat /\ Dash \in Nat /\ 62 \in Nat /\ 63 \in Nat
    BY DEF Under, Dash
  <2> QED
    BY <1>1, <2>1, ReplaceType DEF UndoUrlChars
<1>3. d \in Seq(Int)
  BY <1>2, DecodeBlockType DEF Base64Decode
<1> HIDE DEF d
<1>4. CASE nul = {}
  BY <1>3, <1>4 DEF CString, d
<1>5. CASE nul # {}
  <2>1. nul \subseteq Nat /\ nul \subseteq 1 .. Len(d)
    BY <1>3
  <2>2. CString(d) = SubSeq(d, 1, Min(nul) - 1)
    BY <1>5 DEF CString
  <2> HIDE DEF nul
  <2>3. Min(nul) \in 1 .. Len(d)
    BY <1>5, <2>1, Least
  <2>4. \A i \in 1 .. Min(nul) - 1 : d[i] \in Int
    BY <1>3, <2>3
  <2>5. SubSeq(d, 1, Min(nul) - 1) \in Seq(Int)
    BY <2>3, <2>4, SubSeqProperties
  <2> QED
    BY <2>2, <2>5 DEF d
<1> QED
  BY <1>4, <1>5

-----------------------------------------------------------------------------
(* Calls *)

Part == Seq(Char)
TokenType ==
  [parts : Seq(Part), by : {"nobody", "us", "node", "race", "other"},
   secret : Secrets \cup {"none"}, payload : Payloads \cup {<<>>}]
CallType ==
  [op : {"none", "make", "verify", "payload"}, pc : {"idle", "hmac", "copy", "signed"},
   secret : Secrets \cup {"none"}, of : TokenType, out : Seq(Int),
   result : {"none", "raised", "token", "true", "false", "value", "garbage"}]

TInv ==
  /\ token \in TokenType
  /\ md \in [1 .. SigLen -> Byte]
  /\ \A q \in DOMAIN hmac : hmac[q] \in Macs
  /\ call \in [Threads -> CallType]
  /\ raced \in [Threads -> BOOLEAN]
  /\ calls \in 0 .. MaxCalls

\* a token was issued with its payload and, by us or by node, its MAC
Issued(tok, h) ==
  /\ tok # NoToken => Len(tok.parts) \in 2 .. 3
  /\ tok.by \in {"us", "node", "race"} => /\ Len(tok.parts) = 3
                                          /\ tok.payload \in Payloads
                                          /\ Encodes(tok.parts[2], tok.payload)
  /\ tok.by \in {"us", "node"} =>
       LET q == <<tok.secret, Signed(tok.parts)>>
       IN /\ q \in DOMAIN h
          /\ Encodes(tok.parts[3], h[q]) \/ Encodes(tok.parts[3], Signature(h[q]))

\* what a call is about: a token, or the one being made
About(t) ==
  /\ call[t].op \in {"verify", "payload"} => call[t].of # NoToken /\ Issued(call[t].of, hmac)
  /\ call[t].op = "make" /\ call[t].pc # "idle" =>
       /\ Len(call[t].of.parts) = 2 /\ call[t].of.by = "us"
       /\ call[t].of.secret = call[t].secret
       /\ call[t].of.payload \in Payloads
       /\ Encodes(call[t].of.parts[2], call[t].of.payload)

\* how far HMAC and the copy have got
Progress(t) ==
  /\ call[t].pc # "idle" => /\ call[t].op \in {"make", "verify"}
                            /\ Asked(t) \in DOMAIN hmac
                            /\ call[t].op = "verify" => Len(call[t].of.parts) = 3
  /\ call[t].op \in {"make", "verify"} => Len(call[t].out) <= SigLen
  /\ call[t].pc = "hmac" => /\ Len(call[t].out) < SigLen
                            /\ \A i \in 1 .. Len(call[t].out) : call[t].out[i] = -1
  /\ call[t].pc = "copy" => /\ Len(call[t].out) = SigLen
                            /\ \E c \in 0 .. SigLen - 1 : \A i \in 1 .. SigLen :
                                 IF i <= c THEN call[t].out[i] \in Byte ELSE call[t].out[i] = -1
  /\ call[t].pc = "signed" => /\ Len(call[t].out) = SigLen
                              /\ \A i \in 1 .. SigLen : call[t].out[i] \in Byte

\* while nobody else has written the array, it holds the MAC asked for as far as it is
\* written, and so does what was copied from it
Unraced(t) ==
  ~raced[t] =>
    /\ call[t].pc \in {"hmac", "copy"} =>
         \A i \in 1 .. Len(call[t].out) : md[i] = hmac[Asked(t)][i]
    /\ call[t].pc \in {"copy", "signed"} =>
         \A i \in 1 .. Len(call[t].out) : call[t].out[i] # -1 => call[t].out[i] = hmac[Asked(t)][i]

\* what a call has answered
Answered(t) ==
  call[t].pc = "idle" =>
    /\ call[t].op = "verify" /\ call[t].result = "raised" => Len(call[t].of.parts) < 3
    /\ call[t].op = "verify" /\ call[t].result # "raised" =>
         /\ Len(call[t].of.parts) = 3
         /\ Asked(t) \in DOMAIN hmac
         /\ ~raced[t] /\ Readable(call[t].of.parts[3]) =>
              (call[t].result = "true" <=> Says(call[t].of.parts[3], hmac[Asked(t)]))
    /\ call[t].op = "payload" /\ call[t].of.by \in {"us", "node", "race"} /\ Readable(call[t].of.parts[2]) =>
         call[t].result = "value" /\ call[t].out = call[t].of.payload

CallInv(t) == About(t) /\ Progress(t) /\ Unraced(t) /\ Answered(t)
IInv == TInv /\ Issued(token, hmac) /\ \A t \in Threads : CallInv(t)

\* no answer of HMAC is forgotten
Remembers == \A q \in DOMAIN hmac : q \in DOMAIN hmac' /\ hmac'[q] = hmac[q]

\* In the beginning nothing has happened.
LEMMA InitIInv == Init => IInv
<1> SUFFICES ASSUME Init
             PROVE  IInv
  OBVIOUS
<1> USE DEF Init
<1>1. NoToken \in TokenType
  BY DEF NoToken, TokenType, Part
<1>2. NoCall \in CallType
  BY <1>1 DEF NoCall, CallType
<1>3. TInv
  <2>1. md \in [1 .. SigLen -> Byte]
    BY DEF Byte
  <2>2. calls \in 0 .. MaxCalls
    BY CallsAssumption
  <2> QED
    BY <1>1, <1>2, <2>1, <2>2 DEF TInv
<1>4. Issued(token, hmac)
  BY DEF Issued, NoToken
<1>5. ASSUME NEW t \in Threads
      PROVE  CallInv(t)
  <2>1. call[t].op = "none" /\ call[t].pc = "idle"
    BY DEF NoCall
  <2> QED
    BY <2>1 DEF CallInv, About, Progress, Unraced, Answered
<1> QED
  BY <1>3, <1>4, <1>5 DEF IInv

\* Asking HMAC: it remembers what it answered before, and the pair that was asked has
\* an answer now.
LEMMA Learned ==
  ASSUME TInv, NEW q, NEW m \in Answers(q), Learn(q, m)
  PROVE  /\ Remembers
         /\ q \in DOMAIN hmac' /\ hmac'[q] = m
         /\ \A x \in DOMAIN hmac' : hmac'[x] \in Macs
<1>1. DOMAIN hmac' = DOMAIN hmac \cup {q}
  BY DEF Learn
<1>2. \A x \in DOMAIN hmac' : hmac'[x] = IF x = q THEN m ELSE hmac[x]
  BY DEF Learn
<1>3. m \in Macs /\ (q \in DOMAIN hmac => m = hmac[q])
  BY DEF Answers, TInv
<1> QED
  BY <1>1, <1>2, <1>3 DEF Remembers, TInv

\* A token that was issued stays so.
LEMMA StillIssued ==
  ASSUME NEW tok, NEW h, NEW g, Issued(tok, h), \A q \in DOMAIN h : q \in DOMAIN g /\ g[q] = h[q]
  PROVE  Issued(tok, g)
BY DEF Issued

\* What is signed are the first two parts, also once the third is there.
LEMMA FirstTwo ==
  ASSUME NEW parts \in Seq(Part), Len(parts) = 2, NEW x \in Part
  PROVE  /\ Signed(parts) = parts /\ Signed(Append(parts, x)) = parts
         /\ Append(parts, x) \in Seq(Part) /\ Len(Append(parts, x)) = 3
         /\ Append(parts, x)[2] = parts[2] /\ Append(parts, x)[3] = x
<1>1. SubSeq(parts, 1, 2) = parts
  BY SubSeqFull
<1>2. SubSeq(Append(parts, x), 1, 2) = [i \in 1 .. 2 |-> parts[i]]
  OBVIOUS
<1>3. parts = [i \in 1 .. 2 |-> parts[i]]
  BY AsFunction
<1> DEFINE a == Append(parts, x)
<1>4. /\ a \in Seq(Part) /\ Len(a) = Len(parts) + 1
      /\ \A i \in 1 .. Len(parts) : a[i] = parts[i]
      /\ a[Len(parts) + 1] = x
  <2>1. a \in Seq(Part)
    BY AppendProperties
  <2>2. Len(a) = Len(parts) + 1
    BY AppendProperties
  <2>3. \A i \in 1 .. Len(parts) : a[i] = parts[i]
    BY AppendProperties
  <2>4. a[Len(parts) + 1] = x
    BY AppendProperties
  <2> QED
    BY <2>1, <2>2, <2>3, <2>4
<1>5. a \in Seq(Part) /\ Len(a) = 3 /\ a[2] = parts[2] /\ a[3] = x
  <2> HIDE DEF a
  <2> QED
    BY <1>4
<1> QED
  BY <1>1, <1>2, <1>3, <1>4, <1>5 DEF Signed

\* A step of another thread that writes neither the call nor the array leaves all that
\* is known of the call.
LEMMA Kept ==
  ASSUME NEW u \in Threads, CallInv(u), Remembers,
         call'[u] = call[u], raced'[u] = raced[u], md' = md
  PROVE  CallInv(u)'
<1>1. Asked(u)' = Asked(u)
  BY DEF Asked
<1>2. Asked(u) \in DOMAIN hmac => Asked(u) \in DOMAIN hmac' /\ hmac'[Asked(u)] = hmac[Asked(u)]
  BY DEF Remembers
<1>3. About(u)'
  <2>1. Issued(call[u].of, hmac) => Issued(call[u].of, hmac')
    BY StillIssued DEF Remembers
  <2> QED
    BY <2>1 DEF CallInv, About
<1>4. Progress(u)'
  BY <1>1, <1>2 DEF CallInv, Progress
<1>5. Unraced(u)'
  BY <1>1, <1>2 DEF CallInv, Unraced, Progress
<1>6. Answered(u)'
  BY <1>1, <1>2 DEF CallInv, Answered
<1> QED
  BY <1>3, <1>4, <1>5, <1>6 DEF CallInv

\* make begins.
LEMMA MakeIInv ==
  ASSUME IInv, NEW t \in Threads, NEW s \in Secrets, NEW p \in Payloads, Make(t, s, p)
  PROVE  IInv'
<1> DEFINE parts == <<Base64EncodeNopad(Header), Base64EncodeNopad(p)>>
           new == [parts |-> parts, by |-> "us", secret |-> s, payload |-> p]
           q == <<s, parts>>
<1> USE DEF IInv
<1>1. Encodes(parts[2], p) /\ parts \in Seq(Part)
  <2>1. Header \in Seq(Byte) /\ p \in Seq(Byte)
    <3>1. 1 .. 255 \subseteq Byte
      BY DEF Byte
    <3> QED
      BY <3>1, TextAssumption, SeqMonotonic
  <2>2. Encodes(Base64EncodeNopad(Header), Header) /\ Encodes(Base64EncodeNopad(p), p)
    BY <2>1, Encodings
  <2> QED
    BY <2>2 DEF Encodes, Part
<1>2. /\ call' = [call EXCEPT ![t] = [NoCall EXCEPT !.op = "make", !.pc = "hmac", !.secret = s, !.of = new]]
      /\ raced' = [raced EXCEPT ![t] = FALSE]
      /\ calls' = calls + 1 /\ calls < MaxCalls
      /\ token' = token /\ md' = md
  BY DEF Make, MayCall
<1>3. PICK m \in Answers(q) : Learn(q, m)
  BY DEF Make
<1>4. Remembers /\ q \in DOMAIN hmac' /\ \A x \in DOMAIN hmac' : hmac'[x] \in Macs
  BY <1>3, Learned
<1> HIDE DEF parts
<1>5. call'[t] = [op |-> "make", pc |-> "hmac", secret |-> s, of |-> new, out |-> <<>>, result |-> "none"]
  BY <1>2 DEF TInv, NoCall
<1>6. new \in TokenType
  BY <1>1 DEF TokenType
<1>7. TInv'
  <2>1. call'[t] \in CallType
    <3> HIDE DEF new
    <3> QED
      BY <1>5, <1>6 DEF CallType
  <2>2. call' \in [Threads -> CallType]
    BY <1>2, <2>1 DEF TInv
  <2>3. raced' \in [Threads -> BOOLEAN]
    BY <1>2 DEF TInv
  <2>4. calls' \in 0 .. MaxCalls
    BY <1>2, CallsAssumption DEF TInv
  <2> QED
    BY <1>2, <1>4, <2>2, <2>3, <2>4 DEF TInv
<1>8. Issued(token, hmac)'
  BY <1>2, <1>4, StillIssued DEF Remembers
<1>9. ASSUME NEW u \in Threads, u # t
      PROVE  CallInv(u)'
  BY <1>2, <1>4, <1>9, Kept DEF TInv
<1>10. CallInv(t)'
  <2>1. Asked(t)' = q
    <3>1. Len(parts) = 2
      BY DEF parts
    <3>2. Signed(parts) = parts
      BY <1>1, <3>1, FirstTwo DEF Part
    <3> QED
      BY <1>5, <3>2 DEF Asked
  <2>2. Len(parts) = 2
    BY DEF parts
  <2>3. About(t)'
    BY <1>1, <1>5, <2>2 DEF About
  <2>4. Progress(t)'
    BY <1>4, <1>5, <2>1, SigLenAssumption DEF Progress
  <2>5. Unraced(t)'
    BY <1>5 DEF Unraced
  <2>6. Answered(t)'
    BY <1>5 DEF Answered
  <2> QED
    BY <2>3, <2>4, <2>5, <2>6 DEF CallInv
<1> QED
  BY <1>7, <1>8, <1>9, <1>10

\* verify-signature begins, or raises.
LEMMA VerifyIInv ==
  ASSUME IInv, NEW t \in Threads, NEW s \in Secrets, Verify(t, s)
  PROVE  IInv'
<1> DEFINE q == <<s, Signed(token.parts)>>
           short == Len(token.parts) < 3
           new == [op |-> "verify", pc |-> IF short THEN "idle" ELSE "hmac", secret |-> s, of |-> token,
                   out |-> <<>>, result |-> IF short THEN "raised" ELSE "none"]
<1> USE DEF IInv
<1>1. /\ raced' = [raced EXCEPT ![t] = FALSE]
      /\ calls' = calls + 1 /\ calls < MaxCalls
      /\ token # NoToken /\ token' = token /\ md' = md
  BY DEF Verify, MayCall
<1>2. call' = [call EXCEPT ![t] = new]
  BY DEF Verify, NoCall
<1>3. /\ Remembers /\ (~short => q \in DOMAIN hmac')
      /\ \A x \in DOMAIN hmac' : hmac'[x] \in Macs
  <2>1. CASE short
    BY <2>1 DEF Verify, Remembers, TInv
  <2>2. CASE ~short
    <3>1. PICK m \in Answers(q) : Learn(q, m)
      BY <2>2 DEF Verify
    <3> QED
      BY <3>1, Learned
  <2> QED
    BY <2>1, <2>2
<1>4. call'[t] = new
  BY <1>2 DEF TInv
<1>5. TInv'
  <2>1. new \in CallType
    BY DEF CallType, TInv
  <2>2. call' \in [Threads -> CallType]
    BY <1>2, <2>1 DEF TInv
  <2>3. raced' \in [Threads -> BOOLEAN]
    BY <1>1 DEF TInv
  <2>4. calls' \in 0 .. MaxCalls
    BY <1>1, CallsAssumption DEF TInv
  <2> QED
    BY <1>1, <1>3, <2>2, <2>3, <2>4 DEF TInv
<1>6. Issued(token, hmac)'
  BY <1>1, <1>3, StillIssued DEF Remembers
<1>7. ASSUME NEW u \in Threads, u # t
      PROVE  CallInv(u)'
  BY <1>1, <1>2, <1>3, <1>7, Kept DEF TInv
<1>8. CallInv(t)'
  <2>1. Asked(t)' = q
    BY <1>4 DEF Asked
  <2>2. About(t)'
    BY <1>1, <1>4, <1>6 DEF About
  <2>3. Len(token.parts) \in 2 .. 3
    BY <1>1 DEF Issued
  <2>4. Progress(t)'
    <3>1. /\ call'[t].op = "verify" /\ call'[t].of = token /\ call'[t].out = <<>>
          /\ short => call'[t].pc = "idle"
          /\ ~short => call'[t].pc = "hmac" /\ Len(token.parts) = 3
      <4>1. ~short => Len(token.parts) = 3
        <5>1. \A x \in 2 .. 3 : ~(x < 3) => x = 3
          OBVIOUS
        <5> QED
          BY <2>3, <5>1
      <4> HIDE DEF short
      <4> QED
        BY <1>4, <4>1
    <3>2. Len(<<>>) = 0 /\ 0 < SigLen /\ 0 <= SigLen
      BY SigLenAssumption
    <3> HIDE DEF new, short
    <3>3. CASE short
      BY <3>1, <3>2, <3>3 DEF Progress
    <3>4. CASE ~short
      BY <1>3, <2>1, <3>1, <3>2, <3>4 DEF Progress
    <3> QED
      BY <3>3, <3>4
  <2>5. Unraced(t)'
    BY <1>4 DEF Unraced
  <2>6. Answered(t)'
    BY <1>4 DEF Answered
  <2> QED
    BY <2>2, <2>4, <2>5, <2>6 DEF CallInv
<1> QED
  BY <1>5, <1>6, <1>7, <1>8

\* get-payload decodes the second part.
LEMMA GetPayloadIInv ==
  ASSUME IInv, NEW t \in Threads, GetPayload(t)
  PROVE  IInv'
<1> DEFINE s == token.parts[2]
           d == Base64Decode(s)
           res == IF Len(d.bytes) = d.size THEN "value" ELSE "garbage"
           new == [op |-> "payload", pc |-> "idle", secret |-> "none", of |-> token,
                   out |-> CString(d.bytes), result |-> res]
<1> USE DEF IInv
<1>1. /\ call' = [call EXCEPT ![t] = new]
      /\ calls' = calls + 1 /\ calls < MaxCalls
      /\ token # NoToken /\ UNCHANGED <<token, md, hmac, raced>>
  <2>1. /\ calls' = calls + 1 /\ calls < MaxCalls
        /\ token # NoToken /\ UNCHANGED <<token, md, hmac, raced>>
    BY DEF GetPayload, MayCall
  <2>2. call' = [call EXCEPT ![t] = [NoCall EXCEPT !.op = "payload", !.of = token,
                                                   !.out = CString(d.bytes), !.result = res]]
    BY DEF GetPayload
  <2> HIDE DEF d, res
  <2>3. call'[t] = [NoCall EXCEPT !.op = "payload", !.of = token, !.out = CString(d.bytes), !.result = res]
    BY <2>2 DEF TInv
  <2>4. call'[t] = new
    BY <2>3 DEF NoCall
  <2>5. call' = [call EXCEPT ![t] = call'[t]]
    BY <2>2, <2>3
  <2> QED
    BY <2>1, <2>4, <2>5
<1>2. call'[t] = new
  BY <1>1 DEF TInv
<1>3. Remembers
  BY <1>1 DEF Remembers
<1>4. CString(d.bytes) \in Seq(Int)
  <2>1. s \in Seq(Char)
    BY <1>1 DEF TInv, Issued, TokenType, Part
  <2> QED
    BY <2>1, DecodedType
<1>5. TInv'
  <2>1. new \in CallType
    <3> HIDE DEF d
    <3> QED
      BY <1>4 DEF CallType, TInv
  <2> QED
    BY <1>1, <2>1, CallsAssumption DEF TInv
<1>6. ASSUME NEW u \in Threads, u # t
      PROVE  CallInv(u)'
  BY <1>1, <1>3, <1>6, Kept DEF TInv
<1>7. CallInv(t)'
  <2>1. About(t)'
    BY <1>1, <1>2 DEF About
  <2>2. Progress(t)' /\ Unraced(t)'
    BY <1>2 DEF Progress, Unraced
  <2>3. Answered(t)'
    <3>1. ASSUME token.by \in {"us", "node", "race"}, Readable(s)
          PROVE  res = "value" /\ CString(d.bytes) = token.payload
      <4>1. token.payload \in Payloads /\ Encodes(s, token.payload)
        BY <3>1 DEF Issued
      <4> QED
        BY <3>1, <4>1, TextBack, TextAssumption
    <3> HIDE DEF s, d, res
    <3> QED
      BY <1>2, <3>1 DEF Answered, s
  <2> QED
    BY <2>1, <2>2, <2>3 DEF CallInv
<1> QED
  BY <1>1, <1>5, <1>6, <1>7

\* HMAC stores a byte in the array that all threads share: it is the caller's own
\* MAC that grows there, and any other call that is using the array is raced.
LEMMA StoreByteIInv ==
  ASSUME IInv, NEW t \in Threads, StoreByte(t)
  PROVE  IInv'
<1> DEFINE out == call[t].out
           i == Len(out) + 1
           mac == hmac[Asked(t)]
<1> USE DEF IInv
<1>1. call[t] \in CallType /\ CallInv(t) /\ call[t].pc = "hmac"
  BY DEF StoreByte, TInv
<1>2. out \in Seq(Int) /\ Len(out) \in Nat /\ i \in 1 .. SigLen
  <2>1. out \in Seq(Int)
    BY <1>1 DEF CallType
  <2>2. Len(out) \in Nat /\ Len(out) < SigLen
    BY <1>1, <2>1 DEF CallInv, Progress
  <2> QED
    BY <2>1, <2>2, SigLenAssumption
<1>3. mac \in Seq(Byte) /\ Len(mac) = SigLen
  BY <1>1, MacAssumption DEF TInv, CallInv, Progress
<1>4. mac[i] \in Byte
  BY <1>2, <1>3
<1>5. /\ md' = [md EXCEPT ![i] = mac[i]]
      /\ call' = [call EXCEPT ![t].out = Append(@, -1), ![t].pc = IF i = SigLen THEN "copy" ELSE "hmac"]
      /\ raced' = [u \in Threads |-> raced[u] \/ (u # t /\ Using(u))]
      /\ UNCHANGED <<token, hmac, calls>>
  BY DEF StoreByte, Written
<1> HIDE DEF i, mac
<1>6. /\ call'[t].out = Append(out, -1) /\ call'[t].pc = IF i = SigLen THEN "copy" ELSE "hmac"
      /\ call'[t].op = call[t].op /\ call'[t].secret = call[t].secret
      /\ call'[t].of = call[t].of /\ call'[t].result = call[t].result
      /\ call'[t] \in CallType
      /\ \A u \in Threads : u # t => call'[u] = call[u]
  <2>1. Append(out, -1) \in Seq(Int)
    BY <1>2
  <2> QED
    BY <1>1, <1>5, <2>1 DEF TInv, CallType
<1>7. TInv'
  <2>1. md' \in [1 .. SigLen -> Byte]
    BY <1>4, <1>5 DEF TInv
  <2>2. call' \in [Threads -> CallType]
    BY <1>5, <1>6 DEF TInv
  <2>3. raced' \in [Threads -> BOOLEAN]
    BY <1>5 DEF TInv
  <2> QED
    BY <1>5, <2>1, <2>2, <2>3 DEF TInv
<1>8. ASSUME NEW u \in Threads, u # t
      PROVE  CallInv(u)'
  <2>1. CallInv(u) /\ call'[u] = call[u] /\ hmac' = hmac /\ Asked(u)' = Asked(u)
    BY <1>5, <1>6, <1>8 DEF Asked
  <2>2. ~raced'[u] => ~raced[u] /\ ~Using(u)
    BY <1>5, <1>8
  <2>3. Len(call[u].out) \in Nat
    BY DEF TInv, CallType
  <2>4. Unraced(u)'
    <3> SUFFICES ASSUME ~raced'[u]
                 PROVE  Unraced(u)'
      BY DEF Unraced
    <3>1. call[u].pc \in {"hmac", "copy"} => Len(call[u].out) = 0
      BY <2>2, <2>3 DEF Using, Written
    <3>2. call[u].pc \in {"hmac", "copy"} => 1 .. Len(call[u].out) = {}
      BY <3>1
    <3> QED
      BY <2>1, <2>2, <3>2 DEF CallInv, Unraced
  <2>5. About(u)' /\ Progress(u)'
    BY <2>1 DEF CallInv, About, Progress
  <2>6. Answered(u)'
    BY <2>1, <2>2 DEF CallInv, Answered
  <2> QED
    BY <2>4, <2>5, <2>6 DEF CallInv
<1>9. CallInv(t)'
  <2>1. Asked(t)' = Asked(t) /\ hmac' = hmac
    BY <1>5, <1>6 DEF Asked
  <2>2. Len(Append(out, -1)) = i /\ \A j \in 1 .. i : Append(out, -1)[j] = -1
    <3>1. \A j \in 1 .. Len(out) : out[j] = -1
      BY <1>1 DEF CallInv, Progress
    <3> QED
      BY <1>2, <3>1 DEF i
  <2>3. About(t)'
    BY <1>1, <1>5, <1>6 DEF CallInv, About
  <2>4. Progress(t)'
    <3>1. i <= SigLen /\ (i # SigLen => i < SigLen) /\ 0 \in 0 .. SigLen - 1 /\ \A j \in 1 .. SigLen : ~(j <= 0)
      BY <1>2, SigLenAssumption
    <3>2. i = SigLen => \E c \in 0 .. SigLen - 1 : \A j \in 1 .. SigLen :
                          IF j <= c THEN Append(out, -1)[j] \in Byte ELSE Append(out, -1)[j] = -1
      BY <2>2, <3>1
    <3>3. /\ call'[t].op \in {"make", "verify"} /\ Asked(t) \in DOMAIN hmac
          /\ call'[t].op = "verify" => Len(call'[t].of.parts) = 3
      BY <1>1, <1>6 DEF CallInv, Progress
    <3> HIDE DEF out
    <3> QED
      BY <1>6, <2>1, <2>2, <3>1, <3>2, <3>3 DEF Progress
  <2>5. Unraced(t)'
    <3>1. raced'[t] = raced[t]
      BY <1>5 DEF TInv
    <3>2. ASSUME ~raced[t]
          PROVE  \A j \in 1 .. i : md'[j] = mac[j]
      <4>1. \A j \in 1 .. Len(out) : md[j] = mac[j]
        BY <1>1, <3>2 DEF CallInv, Unraced, mac
      <4>2. \A j \in 1 .. i : j = i \/ j \in 1 .. Len(out)
        BY <1>2 DEF i
      <4>3. \A j \in 1 .. i : j \in 1 .. SigLen
        BY <1>2, SigLenAssumption
      <4> QED
        BY <1>5, <4>1, <4>2, <4>3 DEF TInv
    <3> QED
      BY <1>6, <2>1, <2>2, <3>1, <3>2 DEF Unraced, mac
  <2>6. Answered(t)'
    BY <1>6 DEF Answered
  <2> QED
    BY <2>3, <2>4, <2>5, <2>6 DEF CallInv
<1> QED
  BY <1>5, <1>7, <1>8, <1>9

\* hmac_sha256_wrapped copies a byte: what is in the array now goes where the next byte
\* is missing.
LEMMA CopyByteIInv ==
  ASSUME IInv, NEW t \in Threads, CopyByte(t)
  PROVE  IInv'
<1> DEFINE out == call[t].out
           i == Copied(t) + 1
           new == [out EXCEPT ![i] = md[i]]
<1> USE DEF IInv
<1>1. call[t] \in CallType /\ CallInv(t) /\ call[t].pc = "copy"
  BY DEF CopyByte, TInv
<1>2. out \in Seq(Int) /\ Len(out) = SigLen
  BY <1>1 DEF CallType, CallInv, Progress
<1>3. PICK c \in 0 .. SigLen - 1 : \A j \in 1 .. SigLen : IF j <= c THEN out[j] \in Byte ELSE out[j] = -1
  BY <1>1 DEF CallInv, Progress
<1>4. Copied(t) = c
  <2>1. \A x \in Byte : x # -1
    BY DEF Byte
  <2>2. {j \in DOMAIN out : out[j] # -1} = 1 .. c
    <3>1. \A j \in 1 .. SigLen : out[j] # -1 <=> j <= c
      BY <1>3, <2>1
    <3>2. DOMAIN out = 1 .. SigLen
      BY <1>2
    <3> HIDE DEF out
    <3> QED
      BY <3>1, <3>2, SigLenAssumption
  <2>3. c \in Nat /\ 1 \in Int /\ c \in Int
    BY SigLenAssumption
  <2>4. Cardinality(1 .. c) = IF 1 > c THEN 0 ELSE c - 1 + 1
    BY <2>3, FS_Interval
  <2>5. Cardinality(1 .. c) = c
    BY <2>3, <2>4
  <2> QED
    BY <2>2, <2>5 DEF Copied
<1>5. i \in 1 .. SigLen /\ i = c + 1
  BY <1>4, SigLenAssumption
<1>6. /\ call' = [call EXCEPT ![t].out[i] = md[i], ![t].pc = IF i = SigLen THEN "signed" ELSE "copy"]
      /\ UNCHANGED <<token, md, hmac, raced, calls>>
  BY DEF CopyByte
<1> HIDE DEF i
<1>7. md[i] \in Byte /\ md[i] \in Int
  <2>1. md[i] \in Byte
    BY <1>5 DEF TInv
  <2>2. Byte \subseteq Int
    BY DEF Byte
  <2> QED
    BY <2>1, <2>2
<1>8. new \in Seq(Int) /\ Len(new) = SigLen /\ \A j \in 1 .. SigLen : new[j] = IF j = i THEN md[i] ELSE out[j]
  BY <1>2, <1>5, <1>7
<1>9. /\ call'[t].out = new /\ call'[t].pc = IF i = SigLen THEN "signed" ELSE "copy"
      /\ call'[t].op = call[t].op /\ call'[t].secret = call[t].secret
      /\ call'[t].of = call[t].of /\ call'[t].result = call[t].result
      /\ call'[t] \in CallType
      /\ \A u \in Threads : u # t => call'[u] = call[u]
  BY <1>1, <1>6, <1>8 DEF TInv, CallType
<1> HIDE DEF new
<1>10. TInv'
  <2>1. call' \in [Threads -> CallType]
    BY <1>6, <1>9 DEF TInv
  <2> QED
    BY <1>6, <2>1 DEF TInv
<1>11. ASSUME NEW u \in Threads, u # t
       PROVE  CallInv(u)'
  BY <1>6, <1>9, <1>11, Kept DEF Remembers
<1>12. CallInv(t)'
  <2>1. Asked(t)' = Asked(t) /\ hmac' = hmac
    BY <1>6, <1>9 DEF Asked
  <2>2. About(t)'
    BY <1>1, <1>6, <1>9 DEF CallInv, About
  <2>3. \A j \in 1 .. SigLen : IF j <= c + 1 THEN new[j] \in Byte ELSE new[j] = -1
    BY <1>3, <1>5, <1>7, <1>8, SigLenAssumption
  <2>4. Progress(t)'
    <3>1. /\ call'[t].op \in {"make", "verify"} /\ Asked(t) \in DOMAIN hmac
          /\ call'[t].op = "verify" => Len(call'[t].of.parts) = 3
          /\ Len(call'[t].out) = SigLen /\ SigLen <= SigLen
      BY <1>1, <1>8, <1>9, SigLenAssumption DEF CallInv, Progress
    <3>2. CASE i = SigLen
      <4>1. \A j \in 1 .. SigLen : new[j] \in Byte
        BY <1>5, <2>3, <3>2, SigLenAssumption
      <4> QED
        BY <1>9, <2>1, <3>1, <3>2, <4>1 DEF Progress
    <3>3. CASE i # SigLen
      <4>1. c + 1 \in 0 .. SigLen - 1
        BY <1>5, <3>3, SigLenAssumption
      <4>2. \E k \in 0 .. SigLen - 1 : \A j \in 1 .. SigLen : IF j <= k THEN new[j] \in Byte ELSE new[j] = -1
        BY <2>3, <4>1
      <4> QED
        BY <1>9, <2>1, <3>1, <3>3, <4>2 DEF Progress
    <3> QED
      BY <3>2, <3>3
  <2>5. Unraced(t)'
    <3>1. ASSUME ~raced[t]
          PROVE  /\ \A j \in 1 .. SigLen : md[j] = hmac[Asked(t)][j]
                 /\ \A j \in 1 .. SigLen : new[j] # -1 => new[j] = hmac[Asked(t)][j]
      BY <1>1, <1>2, <1>5, <1>8, <3>1 DEF CallInv, Unraced
    <3> QED
      BY <1>6, <1>8, <1>9, <2>1, <3>1 DEF Unraced
  <2>6. Answered(t)'
    BY <1>9 DEF Answered
  <2> QED
    BY <2>2, <2>4, <2>5, <2>6 DEF CallInv
<1> QED
  BY <1>6, <1>10, <1>11, <1>12

\* A MAC that was copied without a race is the MAC that was asked for.
LEMMA Whole ==
  ASSUME IInv, NEW t \in Threads, call[t].pc = "signed"
  PROVE  /\ call[t].out \in Seq(Byte) /\ Len(call[t].out) = SigLen
         /\ Asked(t) \in DOMAIN hmac /\ hmac[Asked(t)] \in Seq(Byte) /\ Len(hmac[Asked(t)]) = SigLen
         /\ ~raced[t] => call[t].out = hmac[Asked(t)]
<1> USE DEF IInv
<1>1. CallInv(t) /\ call[t] \in CallType
  BY DEF TInv
<1>2. /\ call[t].out \in Seq(Int) /\ Len(call[t].out) = SigLen /\ \A j \in 1 .. SigLen : call[t].out[j] \in Byte
      /\ Asked(t) \in DOMAIN hmac
  BY <1>1 DEF CallType, CallInv, Progress
<1>3. call[t].out \in Seq(Byte)
  BY <1>2
<1>4. hmac[Asked(t)] \in Seq(Byte) /\ Len(hmac[Asked(t)]) = SigLen
  BY <1>2, MacAssumption DEF TInv
<1>5. ASSUME ~raced[t]
      PROVE  call[t].out = hmac[Asked(t)]
  <2>1. \A x \in Byte : x # -1
    BY DEF Byte
  <2>2. \A j \in 1 .. SigLen : call[t].out[j] = hmac[Asked(t)][j]
    BY <1>1, <1>2, <1>5, <2>1 DEF CallInv, Unraced
  <2> QED
    BY <1>2, <1>3, <1>4, <2>2, SeqEqual
<1> QED
  BY <1>2, <1>3, <1>4, <1>5

\* make returns its token.
LEMMA MakeReturnIInv ==
  ASSUME IInv, NEW t \in Threads, MakeReturn(t)
  PROVE  IInv'
<1> DEFINE of == call[t].of
           out == call[t].out
           sig == Base64EncodeNopad(Signature(out))
           parts == Append(of.parts, sig)
           by == IF raced[t] THEN "race" ELSE "us"
<1> USE DEF IInv
<1>1. call[t] \in CallType /\ CallInv(t) /\ call[t].pc = "signed" /\ call[t].op = "make"
  BY DEF MakeReturn, TInv
<1>2. /\ token' = [of EXCEPT !.parts = parts, !.by = by]
      /\ call' = [call EXCEPT ![t].pc = "idle", ![t].of.parts = parts, ![t].result = "token"]
      /\ UNCHANGED <<md, hmac, raced, calls>>
  BY DEF MakeReturn
<1>3. /\ of \in TokenType /\ of.parts \in Seq(Part) /\ Len(of.parts) = 2
      /\ of.secret = call[t].secret /\ of.payload \in Payloads /\ Encodes(of.parts[2], of.payload)
  BY <1>1 DEF CallType, TokenType, CallInv, About
<1>4. Encodes(sig, Signature(out)) /\ sig \in Part
  <2>1. Signature(out) \in Seq(Byte)
    <3>1. out \in Seq(Byte) /\ 0 \in Byte
      BY <1>1, Whole DEF Byte
    <3> QED
      BY <3>1 DEF Signature
  <2> QED
    BY <2>1, Encodings DEF Encodes, Part
<1> HIDE DEF sig
<1>5. /\ parts \in Seq(Part) /\ Len(parts) = 3 /\ parts[2] = of.parts[2] /\ parts[3] = sig
      /\ Signed(parts) = of.parts /\ Signed(of.parts) = of.parts
  <2> HIDE DEF of
  <2> QED
    BY <1>3, <1>4, FirstTwo
<1> HIDE DEF parts
<1>6. /\ token'.parts = parts /\ token'.by = by /\ token'.secret = of.secret /\ token'.payload = of.payload
      /\ token' \in TokenType
  BY <1>2, <1>3, <1>5 DEF TokenType
<1>7. /\ call'[t] \in CallType /\ call'[t].pc = "idle" /\ call'[t].op = "make"
      /\ Len(call'[t].out) <= SigLen
      /\ \A u \in Threads : u # t => call'[u] = call[u]
  <2>1. [of EXCEPT !.parts = parts] \in TokenType
    BY <1>3, <1>5 DEF TokenType
  <2>2. /\ call'[t].pc = "idle" /\ call'[t].op = "make" /\ call'[t].out = out
        /\ call'[t].of = [of EXCEPT !.parts = parts]
        /\ \A u \in Threads : u # t => call'[u] = call[u]
    BY <1>1, <1>2 DEF TInv, CallType
  <2>3. call'[t] \in CallType
    BY <1>1, <1>2, <2>1 DEF TInv, CallType
  <2>4. Len(out) <= SigLen
    BY <1>1 DEF CallInv, Progress
  <2> QED
    BY <2>2, <2>3, <2>4
<1>8. TInv'
  <2>1. call' \in [Threads -> CallType]
    BY <1>2, <1>7 DEF TInv
  <2> QED
    BY <1>2, <1>6, <2>1 DEF TInv
<1>9. Issued(token, hmac)'
  <2>1. ASSUME ~raced[t]
        PROVE  <<of.secret, Signed(parts)>> = Asked(t) /\ Asked(t) \in DOMAIN hmac
               /\ Encodes(sig, Signature(hmac[Asked(t)]))
    BY <1>1, <1>3, <1>4, <1>5, <2>1, Whole DEF Asked
  <2>2. by = "us" => ~raced[t]
    OBVIOUS
  <2>3. by \in {"us", "race"}
    OBVIOUS
  <2> HIDE DEF by
  <2>4. hmac' = hmac /\ 3 \in 2 .. 3
    BY <1>2
  <2> QED
    BY <1>3, <1>5, <1>6, <2>1, <2>2, <2>3, <2>4 DEF Issued
<1>10. ASSUME NEW u \in Threads, u # t
       PROVE  CallInv(u)'
  BY <1>2, <1>7, <1>10, Kept DEF Remembers
<1>11. CallInv(t)'
  BY <1>7 DEF CallInv, About, Progress, Unraced, Answered
<1> QED
  BY <1>8, <1>9, <1>10, <1>11

\* verify-signature returns its verdict.
LEMMA VerifyReturnIInv ==
  ASSUME IInv, NEW t \in Threads, VerifyReturn(t)
  PROVE  IInv'
<1> DEFINE s == call[t].of.parts[3]
           out == call[t].out
<1> USE DEF IInv
<1>1. call[t] \in CallType /\ CallInv(t) /\ call[t].pc = "signed" /\ call[t].op = "verify"
  BY DEF VerifyReturn, TInv
<1>2. PICK r \in Equals(Base64Decode(s), Signature(out)) :
        call' = [call EXCEPT ![t].pc = "idle", ![t].result = IF r THEN "true" ELSE "false"]
  BY DEF VerifyReturn
<1>3. UNCHANGED <<token, md, hmac, raced, calls>>
  BY DEF VerifyReturn
<1>4. /\ call'[t] \in CallType /\ call'[t].pc = "idle" /\ call'[t].op = "verify"
      /\ call'[t].of = call[t].of /\ call'[t].secret = call[t].secret /\ call'[t].out = call[t].out
      /\ call'[t].result = IF r THEN "true" ELSE "false"
      /\ \A u \in Threads : u # t => call'[u] = call[u]
  BY <1>1, <1>2 DEF TInv, CallType
<1>5. TInv'
  <2>1. call' \in [Threads -> CallType]
    BY <1>2, <1>4 DEF TInv
  <2> QED
    BY <1>3, <2>1 DEF TInv
<1>6. ASSUME NEW u \in Threads, u # t
      PROVE  CallInv(u)'
  BY <1>3, <1>4, <1>6, Kept DEF Remembers
<1>7. CallInv(t)'
  <2>1. Asked(t)' = Asked(t) /\ hmac' = hmac /\ raced' = raced
    BY <1>3, <1>4 DEF Asked
  <2>2. About(t)'
    BY <1>1, <1>4, <2>1 DEF CallInv, About
  <2>3. Progress(t)' /\ Unraced(t)'
    BY <1>1, <1>4 DEF CallInv, Progress, Unraced
  <2>4. Len(call[t].of.parts) = 3 /\ s \in Seq(Char)
    BY <1>1 DEF CallInv, Progress, CallType, TokenType, Part
  <2>5. ASSUME ~raced[t], Readable(s)
        PROVE  call'[t].result = "true" <=> Says(s, hmac[Asked(t)])
    <3>1. out = hmac[Asked(t)] /\ out \in Seq(Byte) /\ Len(out) = SigLen
      BY <1>1, <2>5, Whole
    <3>2. Equals(Base64Decode(s), Signature(out)) = IF Says(s, out) THEN {TRUE} ELSE {FALSE}
      BY <2>4, <2>5, <3>1, Verdict
    <3>3. r \in IF Says(s, out) THEN {TRUE} ELSE {FALSE}
      BY <3>2
    <3>4. CASE Says(s, out)
      BY <1>4, <3>1, <3>3, <3>4
    <3>5. CASE ~Says(s, out)
      BY <1>4, <3>1, <3>3, <3>5
    <3> QED
      BY <3>4, <3>5
  <2>6. Answered(t)'
    <3>1. Asked(t) \in DOMAIN hmac
      BY <1>1 DEF CallInv, Progress
    <3>2. call'[t].result # "raised"
      BY <1>4
    <3> QED
      BY <1>4, <2>1, <2>4, <2>5, <3>1, <3>2 DEF Answered
  <2> QED
    BY <2>2, <2>3, <2>6 DEF CallInv
<1> QED
  BY <1>3, <1>5, <1>6, <1>7

\* node has signed a token.
LEMMA NodeSignIInv ==
  ASSUME IInv, NEW s \in Secrets, NEW p \in Payloads, NodeSign(s, p)
  PROVE  IInv'
<1> DEFINE part(d) == UrlSafe(Base64EncodeNopad(d))
           signed == <<part(Header), part(p)>>
           q == <<s, signed>>
<1> USE DEF IInv
<1>1. PICK m \in Answers(q) :
        /\ Learn(q, m)
        /\ token' = [parts |-> Append(signed, part(m)), by |-> "node", secret |-> s, payload |-> p]
  BY DEF NodeSign
<1>2. UNCHANGED <<md, call, raced, calls>>
  BY DEF NodeSign
<1>3. Remembers /\ q \in DOMAIN hmac' /\ hmac'[q] = m /\ \A x \in DOMAIN hmac' : hmac'[x] \in Macs
  BY <1>1, Learned
<1>4. /\ Encodes(part(Header), Header) /\ Encodes(part(p), p) /\ Encodes(part(m), m)
      /\ part(Header) \in Part /\ part(p) \in Part /\ part(m) \in Part
  <2>1. 1 .. 255 \subseteq Byte
    BY DEF Byte
  <2>2. Header \in Seq(Byte) /\ p \in Seq(Byte)
    BY <2>1, TextAssumption, SeqMonotonic
  <2>3. m \in Seq(Byte)
    BY <1>3, MacAssumption
  <2>4. Encodes(part(Header), Header) /\ Encodes(part(p), p) /\ Encodes(part(m), m)
    BY <2>2, <2>3, Encodings
  <2> HIDE DEF part
  <2> QED
    BY <2>4 DEF Encodes, Part
<1> DEFINE parts == Append(signed, part(m))
<1> HIDE DEF part
<1>5. signed \in Seq(Part) /\ Len(signed) = 2 /\ signed[2] = part(p)
  BY <1>4
<1> HIDE DEF signed
<1>6. /\ parts \in Seq(Part) /\ Len(parts) = 3 /\ parts[2] = part(p) /\ parts[3] = part(m)
      /\ Signed(parts) = signed
  BY <1>4, <1>5, FirstTwo
<1>7. /\ token'.parts = parts /\ token'.by = "node" /\ token'.secret = s /\ token'.payload = p
  BY <1>1 DEF signed, part
<1>8. token' \in TokenType
  <2>1. token' = [parts |-> parts, by |-> "node", secret |-> s, payload |-> p]
    BY <1>1 DEF signed, part
  <2> HIDE DEF parts
  <2> QED
    BY <1>6, <2>1 DEF TokenType
<1> HIDE DEF parts
<1>9. TInv'
  BY <1>2, <1>3, <1>8 DEF TInv
<1>10. Issued(token, hmac)'
  <2>1. 3 \in 2 .. 3
    OBVIOUS
  <2> QED
    BY <1>3, <1>4, <1>6, <1>7, <2>1 DEF Issued
<1>11. ASSUME NEW u \in Threads
       PROVE  CallInv(u)'
  BY <1>2, <1>3, Kept
<1> QED
  BY <1>9, <1>10, <1>11

\* The parts of a token that comes back changed are parts, two or three of them.
LEMMA ChangedType ==
  ASSUME NEW parts \in Seq(Part), Len(parts) = 3, Len(parts[3]) > 0, NEW p \in Changed(parts)
  PROVE  p \in Seq(Part) /\ Len(p) \in 2 .. 3
<1> DEFINE sig == parts[3]
           n == Len(sig)
<1>1. sig \in Seq(Char) /\ n \in Nat /\ n > 0
  BY DEF Part
<1>2. ASSUME NEW i \in 2 .. 3, NEW x \in Part
      PROVE  [parts EXCEPT ![i] = x] \in Seq(Part) /\ Len([parts EXCEPT ![i] = x]) = 3
  <2>1. i \in 1 .. Len(parts)
    OBVIOUS
  <2>2. [parts EXCEPT ![i] = x] \in Seq(Part)
    BY <2>1, ExceptSeq
  <2>3. Len([parts EXCEPT ![i] = x]) = Len(parts)
    BY <2>1, ExceptSeq
  <2> QED
    BY <2>2, <2>3
<1>3. ASSUME NEW x \in Char
      PROVE  x \in Nat /\ (x + 1) % 64 \in Char
  BY DEF Char, Other
<1>4. Pad \in Char /\ Other \in Char /\ Dash \in Char /\ Under \in Char
  BY DEF Char, Pad, Dash, Under, Other
<1> HIDE DEF sig
<1>5. Append(sig, Pad) \in Part
  BY <1>1, <1>4 DEF Part
<1>6. SubSeq(sig, 1, n - 1) \in Part
  <2>1. \A i \in 1 .. n - 1 : sig[i] \in Char
    BY <1>1
  <2> QED
    BY <1>1, <2>1, SubSeqProperties DEF Part
<1>7. UrlSafe(sig) \in Part
  <2>1. UrlSafe(sig) = [i \in 1 .. n |-> IF sig[i] = 62 THEN Dash ELSE IF sig[i] = 63 THEN Under ELSE sig[i]]
    BY <1>1 DEF UrlSafe
  <2>2. \A i \in 1 .. n : sig[i] \in Char
    BY <1>1
  <2> QED
    BY <1>1, <1>4, <2>1, <2>2 DEF Part
<1>8. [sig EXCEPT ![n] = (@ + 1) % 64] \in Part
  <2>1. n \in 1 .. Len(sig)
    BY <1>1
  <2>2. (sig[n] + 1) % 64 \in Char
    BY <1>1, <1>3, <2>1
  <2>3. [sig EXCEPT ![n] = (sig[n] + 1) % 64] \in Seq(Char)
    BY <1>1, <2>1, <2>2, ExceptSeq
  <2> QED
    BY <2>3 DEF Part
<1>9. [sig EXCEPT ![1] = Other] \in Part
  <2>1. 1 \in 1 .. Len(sig)
    BY <1>1
  <2> QED
    BY <1>1, <1>4, <2>1, ExceptSeq DEF Part
<1>10. sig \o sig \in Part
  BY <1>1, ConcatProperties DEF Part
<1>11. \A y \in Payloads : Base64EncodeNopad(y) \in Part
  <2> TAKE y \in Payloads
  <2>1. 1 .. 255 \subseteq Byte
    BY DEF Byte
  <2>2. y \in Seq(Byte)
    BY <2>1, TextAssumption, SeqMonotonic
  <2> QED
    BY <2>2, Encodings DEF Encodes, Part
<1>12. \/ p = SubSeq(parts, 1, 2)
       \/ \E x \in {Append(sig, Pad), SubSeq(sig, 1, n - 1), UrlSafe(sig),
                    [sig EXCEPT ![n] = (@ + 1) % 64], [sig EXCEPT ![1] = Other], sig \o sig} :
            p = [parts EXCEPT ![3] = x]
       \/ \E y \in Payloads : p = [parts EXCEPT ![2] = Base64EncodeNopad(y)]
  BY DEF Changed, sig
<1>13. CASE p = SubSeq(parts, 1, 2)
  BY <1>13
<1>14. ASSUME NEW x \in Part, p = [parts EXCEPT ![3] = x]
       PROVE  p \in Seq(Part) /\ Len(p) \in 2 .. 3
  BY <1>2, <1>14
<1>15. ASSUME NEW x \in Part, p = [parts EXCEPT ![2] = x]
       PROVE  p \in Seq(Part) /\ Len(p) \in 2 .. 3
  BY <1>2, <1>15
<1> QED
  BY <1>5, <1>6, <1>7, <1>8, <1>9, <1>10, <1>11, <1>12, <1>13, <1>14, <1>15

\* A token comes back changed.
LEMMA ChangeIInv ==
  ASSUME IInv, Change
  PROVE  IInv'
<1> USE DEF IInv
<1>1. token.by \in {"us", "node"} /\ UNCHANGED <<md, hmac, call, raced, calls>>
  BY DEF Change
<1>2. PICK p \in Changed(token.parts) : token' = [token EXCEPT !.parts = p, !.by = "other"]
  BY DEF Change
<1>3. token.parts \in Seq(Part) /\ Len(token.parts) = 3 /\ token.parts[3] \in Part
  BY <1>1 DEF TInv, TokenType, Issued
<1>4. Len(token.parts[3]) > 0
  <2> DEFINE q == <<token.secret, Signed(token.parts)>>
             m == hmac[q]
  <2>1. q \in DOMAIN hmac /\ (Encodes(token.parts[3], m) \/ Encodes(token.parts[3], Signature(m)))
    BY <1>1 DEF Issued
  <2>2. m \in Seq(Byte) /\ Len(m) = SigLen
    BY <2>1, MacAssumption DEF TInv
  <2> HIDE DEF q, m
  <2>3. Len(Signature(m)) = SigLen + 1
    BY <2>2 DEF Signature
  <2>4. Len(token.parts[3]) = (4 * SigLen + 2) \div 3 \/ Len(token.parts[3]) = (4 * (SigLen + 1) + 2) \div 3
    BY <2>1, <2>2, <2>3 DEF Encodes
  <2>5. (4 * SigLen + 2) \div 3 > 0 /\ (4 * (SigLen + 1) + 2) \div 3 > 0
    BY SigLenAssumption
  <2> QED
    BY <2>4, <2>5
<1>5. p \in Seq(Part) /\ Len(p) \in 2 .. 3
  BY <1>3, <1>4, ChangedType
<1>6. token' \in TokenType /\ token'.parts = p /\ token'.by = "other"
  BY <1>2, <1>5 DEF TInv, TokenType
<1>7. Issued(token, hmac)'
  BY <1>5, <1>6 DEF Issued
<1>8. ASSUME NEW u \in Threads
      PROVE  CallInv(u)'
  BY <1>1, Kept DEF Remembers
<1> QED
  BY <1>1, <1>6, <1>7, <1>8 DEF TInv

\* IInv holds in every state.
LEMMA Invariance == Spec => []IInv
<1>1. IInv /\ [Next]_vars => IInv'
  <2> SUFFICES ASSUME IInv, [Next]_vars
               PROVE  IInv'
    OBVIOUS
  <2>1. CASE UNCHANGED vars
    <3>1. Remembers /\ md' = md /\ call' = call /\ raced' = raced
      BY <2>1 DEF vars, Remembers
    <3>2. \A u \in Threads : CallInv(u)'
      BY <3>1, Kept DEF IInv
    <3> QED
      BY <2>1, <3>2 DEF vars, IInv, TInv, Issued
  <2>2. CASE Next
    BY <2>2, MakeIInv, VerifyIInv, GetPayloadIInv, StoreByteIInv, CopyByteIInv, MakeReturnIInv,
       VerifyReturnIInv, NodeSignIInv, ChangeIInv DEF Next
  <2> QED
    BY <2>1, <2>2
<1> QED
  BY <1>1, InitIInv, PTL DEF Spec

-----------------------------------------------------------------------------
(* Theorems *)

\* Tokens consist of characters, the array and the MACs of bytes, and no call ever
\* counts more bytes than a MAC has.
THEOREM TypeCorrect == Spec => []TypeOK
<1>1. IInv => TypeOK
  <2> SUFFICES ASSUME IInv
               PROVE  TypeOK
    OBVIOUS
  <2> USE DEF IInv
  <2>1. \A i \in DOMAIN token.parts : \A j \in DOMAIN token.parts[i] : token.parts[i][j] \in 0 .. Other
    <3>1. token.parts \in Seq(Seq(Char))
      BY DEF TInv, TokenType, Part
    <3>2. \A i \in DOMAIN token.parts : token.parts[i] \in Seq(Char)
      BY <3>1
    <3>3. \A q \in Seq(Char) : \A j \in DOMAIN q : q[j] \in Char
      OBVIOUS
    <3> QED
      BY <3>2, <3>3 DEF Char
  <2>2. token.by \in {"nobody", "us", "node", "race", "other"}
    BY DEF TInv, TokenType
  <2>3. ASSUME NEW t \in Threads
        PROVE  /\ call[t].pc \in {"idle", "hmac", "copy", "signed"}
               /\ call[t].result \in {"none", "raised", "token", "true", "false", "value", "garbage"}
               /\ call[t].op \in {"make", "verify"} => Written(t) <= SigLen
    BY DEF TInv, CallType, CallInv, Progress, Written
  <2> QED
    BY <2>1, <2>2, <2>3 DEF TypeOK, TInv
<1> QED
  BY <1>1, Invariance, PTL

\* verify-signature is right about every readable signature, for any number of threads
\* and MACs of any length, unless another thread's HMAC wrote the static array
\* between the call's own HMAC and the end of its copy.
THEOREM VerdictCorrect == Spec => []VerdictRight
<1>1. IInv => VerdictRight
  BY DEF IInv, CallInv, Answered, VerdictRight, Idle
<1> QED
  BY <1>1, Invariance, PTL

\* Tokens of make and of node verify under their secret when nothing was raced and the
\* signature is readable: the zero that hmac_sha256_wrapped adds and the group that
\* base64 pads are the same.
THEOREM GenuineVerify == Spec => []GenuineTokensVerify
<1>1. IInv => GenuineTokensVerify
  <2> SUFFICES ASSUME IInv, NEW t \in Threads,
                      call[t].op = "verify", Idle(t), ~raced[t],
                      call[t].of.by \in {"us", "node"}, call[t].secret = call[t].of.secret,
                      Readable(call[t].of.parts[3])
               PROVE  call[t].result = "true"
    BY DEF GenuineTokensVerify
  <2> USE DEF IInv
  <2>1. CallInv(t) /\ Issued(call[t].of, hmac) /\ call[t].pc = "idle"
    BY DEF CallInv, About, Idle
  <2>2. Len(call[t].of.parts) = 3 /\ call[t].result # "raised"
    BY <2>1 DEF Issued, CallInv, Answered
  <2>3. /\ Asked(t) \in DOMAIN hmac
        /\ call[t].result = "true" <=> Says(call[t].of.parts[3], hmac[Asked(t)])
    BY <2>1, <2>2 DEF CallInv, Answered
  <2>4. /\ hmac[Asked(t)] \in Seq(Byte) /\ Len(hmac[Asked(t)]) = SigLen
    BY <2>3, MacAssumption DEF TInv
  <2>5. \/ Encodes(call[t].of.parts[3], hmac[Asked(t)])
        \/ Encodes(call[t].of.parts[3], Signature(hmac[Asked(t)]))
    BY <2>1 DEF Issued, Asked
  <2>6. Says(call[t].of.parts[3], hmac[Asked(t)])
    BY <2>4, <2>5, Genuine
  <2> QED
    BY <2>3, <2>6
<1> QED
  BY <1>1, Invariance, PTL

\* get-payload returns the text that the token was issued with, whatever its length.
THEOREM PayloadCorrect == Spec => []PayloadReturned
<1>1. IInv => PayloadReturned
  <2> SUFFICES ASSUME IInv, NEW t \in Threads, call[t].op = "payload"
               PROVE  call[t].pc = "idle"
    BY DEF IInv, CallInv, Answered, PayloadReturned
  <2> QED
    BY DEF IInv, CallInv, Progress
<1> QED
  BY <1>1, Invariance, PTL
=============================================================================
