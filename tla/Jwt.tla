-------------------------------- MODULE Jwt ---------------------------------
(***************************************************************************)
(* Tokens: lib/com.ahungry.crypt.jwt.janet (make, verify-signature,        *)
(* get-payload) over the base64 and HMAC wrappers of                       *)
(* lib/com.ahungry.crypt.janet and src/com_ahungry_crypt.c.                *)
(*                                                                         *)
(* A token is a sequence of parts (string/split "."), a part a sequence of *)
(* characters, a character its six-bit value or one of the characters      *)
(* below.  HMAC is any function, found out as it is asked.  It is called   *)
(* without an output buffer, so OpenSSL answers with a pointer to a static *)
(* array that all threads share; hmac_sha256_wrapped then copies from it.  *)
(***************************************************************************)
EXTENDS Integers, Sequences, FiniteSetsExt

CONSTANTS
  Threads,    \* threads of the process, each with its own Janet VM
  Secrets,    \* keys
  Header,     \* the JSON text of the header, as bytes
  Payloads,   \* JSON texts of payloads, as sequences of bytes
  Macs,       \* values HMAC may take: sequences of SigLen bytes
  SigLen,     \* the length of a MAC (32 in the code)
  MaxCalls    \* bound on the number of calls

Pad   == 64   \* =
Dash  == 65   \* - for + (62)
Under == 66   \* _ for / (63)
Other == 67   \* a character that is not base64 in any alphabet

Byte == 0 .. 255

ASSUME SigLenAssumption == SigLen \in Nat /\ SigLen % 3 = 2
ASSUME MacAssumption == \A m \in Macs : m \in Seq(Byte) /\ Len(m) = SigLen
\* json/encode writes a 0 byte as an escape
ASSUME TextAssumption == Header \in Seq(1 .. 255) /\ \A p \in Payloads : p \in Seq(1 .. 255)
ASSUME CallsAssumption == MaxCalls \in Nat

VARIABLES
  token,    \* the token last issued: its parts, and where they come from
  md,       \* OpenSSL's static array
  hmac,     \* what HMAC answers: the pairs asked so far
  call,     \* per thread: the call in progress or the last one
  raced,    \* per thread: another thread wrote md under the call's HMAC
  calls     \* number of calls so far

vars == <<token, md, hmac, call, raced, calls>>

-----------------------------------------------------------------------------
(* base64 *)

ByteAt(d, i) == IF i <= Len(d) THEN d[i] ELSE 0

\* variant: the upper bits of the first byte are kept
SecondSixAll(a, b) == a * 16 + (b \div 16)

\* the six bits that two bytes share
SecondSix(a, b) == (a % 4) * 16 + (b \div 16)

\* EVP_EncodeBlock: four characters for every three bytes begun
EncodeBlock(d) ==
  [k \in 1 .. 4 * ((Len(d) + 2) \div 3) |->
    LET g == 3 * ((k - 1) \div 4)
        b(i) == ByteAt(d, g + i)
    IN CASE k % 4 = 1 -> b(1) \div 4
         [] k % 4 = 2 -> SecondSix(b(1), b(2))
         [] k % 4 = 3 -> IF g + 2 > Len(d) THEN Pad ELSE (b(2) % 16) * 4 + (b(3) \div 64)
         [] k % 4 = 0 -> IF g + 3 > Len(d) THEN Pad ELSE b(3) % 64]

\* EVP_DecodeBlock skips '-' at the end (its end-of-data mark), refuses a
\* length that is no multiple of four, and stops at a group with a character
\* that is not base64; '=' counts as 0.  Its value: the bytes it has written.
DecodeBlock(s) ==
  LET n == Max({0} \cup {i \in DOMAIN s : i <= 3 \/ s[i] # Dash})
      clean(g) == \A i \in 1 .. 4 : s[4 * g + i] <= Pad
      groups == Max({g \in 0 .. (n \div 4) : \A h \in 0 .. (g - 1) : clean(h)})
      v(i) == IF s[i] = Pad THEN 0 ELSE s[i]
  IN [k \in 1 .. (IF n % 4 = 0 THEN 3 * groups ELSE 0) |->
       LET c == 4 * ((k - 1) \div 3)
       IN CASE k % 3 = 1 -> v(c + 1) * 4 + (v(c + 2) \div 16)
            [] k % 3 = 2 -> (v(c + 2) % 16) * 16 + (v(c + 3) \div 4)
            [] k % 3 = 0 -> (v(c + 3) % 4) * 64 + v(c + 4)]

\* string/trim "="
Trim(s) ==
  LET kept == {i \in DOMAIN s : s[i] # Pad}
  IN IF kept = {} THEN <<>> ELSE SubSeq(s, Min(kept), Max(kept))

Base64EncodeNopad(d) == Trim(EncodeBlock(d))

\* variant: one character short is taken for complete
AddPaddingShort(s) ==
  LET pad == 4 - (Len(s) % 4)
  IN s \o (IF pad \in 2 .. 3 THEN [i \in 1 .. pad |-> Pad] ELSE <<>>)

AddPadding(s) ==
  LET pad == 4 - (Len(s) % 4)
  IN s \o (IF pad \in 1 .. 3 THEN [i \in 1 .. pad |-> Pad] ELSE <<>>)

\* string/replace: the first occurrence only
Replace(old, new, s) ==
  LET at == {i \in DOMAIN s : s[i] = old}
  IN IF at = {} THEN s ELSE [s EXCEPT ![Min(at)] = new]

\* variant: only "_" is undone
UndoUnder(s) == Replace(Under, 63, s)

UndoUrlChars(s) == Replace(Dash, 62, Replace(Under, 63, s))

BlockSize(s) == IF Len(s) % 4 = 0 THEN 3 * (Len(s) \div 4) ELSE 3 * (Len(s) \div 4) + 3

\* The buffer base64-decode answers with: its size, and the bytes at its front
\* that were written.  The bytes behind them are uninitialised stack.
Base64Decode(s) ==
  LET t == UndoUrlChars(AddPadding(s))
  IN [size |-> BlockSize(t), bytes |-> DecodeBlock(t)]

\* deep= with the buffer d: what it may answer, given the uninitialised bytes
Equals(d, b) ==
  IF d.size = Len(b) /\ d.bytes = SubSeq(b, 1, Len(d.bytes))
    THEN IF Len(d.bytes) = d.size THEN {TRUE} ELSE BOOLEAN
    ELSE {FALSE}

\* json_decode reads a C string
CString(d) ==
  LET nul == {i \in DOMAIN d : d[i] = 0}
  IN IF nul = {} THEN d ELSE SubSeq(d, 1, Min(nul) - 1)

-----------------------------------------------------------------------------
(* Calls *)

NoToken == [parts |-> <<>>, by |-> "nobody", secret |-> "none", payload |-> <<>>]
NoCall == [op |-> "none", pc |-> "idle", secret |-> "none", of |-> NoToken,
           out |-> <<>>, result |-> "none"]

Idle(t) == call[t].pc = "idle"
MayCall(t) == Idle(t) /\ calls < MaxCalls

\* what the signature is about: the first two parts, joined
Signed(parts) == SubSeq(parts, 1, 2)
Asked(t) == <<call[t].secret, Signed(call[t].of.parts)>>

\* HMAC answers what it answered before, or anything
Answers(q) == IF q \in DOMAIN hmac THEN {hmac[q]} ELSE Macs
Learn(q, m) == hmac' = [x \in DOMAIN hmac \cup {q} |-> IF x = q THEN m ELSE hmac[x]]

Init ==
  /\ token = NoToken
  /\ md = [i \in 1 .. SigLen |-> 0]
  /\ hmac = <<>>
  /\ call = [t \in Threads |-> NoCall]
  /\ raced = [t \in Threads |-> FALSE]
  /\ calls = 0

\* jwt/make: up to the call of make-signature
Make(t, s, p) ==
  /\ MayCall(t)
  /\ LET parts == <<Base64EncodeNopad(Header), Base64EncodeNopad(p)>>
         new == [parts |-> parts, by |-> "us", secret |-> s, payload |-> p]
     IN /\ call' = [call EXCEPT ![t] = [NoCall EXCEPT !.op = "make", !.pc = "hmac",
                                                      !.secret = s, !.of = new]]
        /\ \E m \in Answers(<<s, parts>>) : Learn(<<s, parts>>, m)
  /\ raced' = [raced EXCEPT ![t] = FALSE]
  /\ calls' = calls + 1
  /\ UNCHANGED <<token, md>>

\* jwt/verify-signature: up to the call of make-signature.  Without a third
\* part, base64-decode is called with nil and raises.
Verify(t, s) ==
  /\ MayCall(t)
  /\ token # NoToken
  /\ LET begun == [NoCall EXCEPT !.op = "verify", !.secret = s, !.of = token]
         q == <<s, Signed(token.parts)>>
     IN IF Len(token.parts) < 3
          THEN /\ call' = [call EXCEPT ![t] = [begun EXCEPT !.result = "raised"]]
               /\ UNCHANGED hmac
          ELSE /\ call' = [call EXCEPT ![t] = [begun EXCEPT !.pc = "hmac"]]
               /\ \E m \in Answers(q) : Learn(q, m)
  /\ raced' = [raced EXCEPT ![t] = FALSE]
  /\ calls' = calls + 1
  /\ UNCHANGED <<token, md>>

\* jwt/get-payload: a text cut short of its buffer's size runs into
\* uninitialised bytes
GetPayload(t) ==
  /\ MayCall(t)
  /\ token # NoToken
  /\ LET d == Base64Decode(token.parts[2])
     IN call' = [call EXCEPT ![t] =
          [NoCall EXCEPT !.op = "payload", !.of = token,
                         !.out = CString(d.bytes),
                         !.result = IF Len(d.bytes) = d.size THEN "value" ELSE "garbage"]]
  /\ calls' = calls + 1
  /\ UNCHANGED <<token, md, hmac, raced>>

\* The bytes HMAC has written and the ones hmac_sha256_wrapped has copied are
\* counted in out: -1 stands for a byte written and not copied yet.
Written(t) == Len(call[t].out)
Copied(t) == Cardinality({i \in DOMAIN call[t].out : call[t].out[i] # -1})
Using(t) == call[t].pc \in {"hmac", "copy"} /\ Written(t) > 0

\* HMAC stores the next byte of its answer in the static array
StoreByte(t) ==
  /\ call[t].pc = "hmac"
  /\ LET i == Written(t) + 1
     IN /\ md' = [md EXCEPT ![i] = hmac[Asked(t)][i]]
        /\ call' = [call EXCEPT ![t].out = Append(@, -1),
                                ![t].pc = IF i = SigLen THEN "copy" ELSE "hmac"]
  /\ raced' = [u \in Threads |-> raced[u] \/ (u # t /\ Using(u))]
  /\ UNCHANGED <<token, hmac, calls>>

\* the loop of hmac_sha256_wrapped copies the next byte
CopyByte(t) ==
  /\ call[t].pc = "copy"
  /\ LET i == Copied(t) + 1
     IN call' = [call EXCEPT ![t].out[i] = md[i],
                             ![t].pc = IF i = SigLen THEN "signed" ELSE "copy"]
  /\ UNCHANGED <<token, md, hmac, raced, calls>>

\* variant: the buffer is as long as the MAC
SignatureExact(out) == out

\* resultlen + 1 bytes: the last sprintf ended the string with a 0
Signature(out) == Append(out, 0)

\* the rest of make
MakeReturn(t) ==
  /\ call[t].pc = "signed"
  /\ call[t].op = "make"
  /\ LET parts == Append(call[t].of.parts, Base64EncodeNopad(Signature(call[t].out)))
     IN /\ token' = [call[t].of EXCEPT !.parts = parts, !.by = IF raced[t] THEN "race" ELSE "us"]
        /\ call' = [call EXCEPT ![t].pc = "idle", ![t].of.parts = parts, ![t].result = "token"]
  /\ UNCHANGED <<md, hmac, raced, calls>>

\* the rest of verify-signature: the signature's bytes are compared
VerifyReturn(t) ==
  /\ call[t].pc = "signed"
  /\ call[t].op = "verify"
  /\ \E r \in Equals(Base64Decode(call[t].of.parts[3]), Signature(call[t].out)) :
       call' = [call EXCEPT ![t].pc = "idle", ![t].result = IF r THEN "true" ELSE "false"]
  /\ UNCHANGED <<token, md, hmac, raced, calls>>

-----------------------------------------------------------------------------
(* What others send us *)

UrlSafe(s) ==
  [i \in DOMAIN s |-> IF s[i] = 62 THEN Dash ELSE IF s[i] = 63 THEN Under ELSE s[i]]

\* a node program has signed with jsonwebtoken: the URL alphabet, no padding,
\* and the MAC without a 0 behind it
NodeSign(s, p) ==
  /\ token = NoToken
  /\ LET part(d) == UrlSafe(Base64EncodeNopad(d))
         signed == <<part(Header), part(p)>>
         q == <<s, signed>>
     IN \E m \in Answers(q) :
          /\ Learn(q, m)
          /\ token' = [parts |-> Append(signed, part(m)), by |-> "node", secret |-> s, payload |-> p]
  /\ UNCHANGED <<md, call, raced, calls>>

\* Ways in which a token comes back changed: the signature is missing, padded,
\* cut, rewritten in the URL alphabet, has other spare bits or a stray
\* character, or the payload is another one.
Changed(parts) ==
  LET sig == parts[3]
      n == Len(sig)
  IN {SubSeq(parts, 1, 2)}
     \cup {[parts EXCEPT ![3] = s] :
             s \in {Append(sig, Pad), SubSeq(sig, 1, n - 1), UrlSafe(sig),
                    [sig EXCEPT ![n] = (@ + 1) % 64], [sig EXCEPT ![1] = Other],
                    sig \o sig}}
     \cup {[parts EXCEPT ![2] = Base64EncodeNopad(p)] : p \in Payloads}

Change ==
  /\ token.by \in {"us", "node"}
  /\ \E p \in Changed(token.parts) \ {token.parts} : token' = [token EXCEPT !.parts = p, !.by = "other"]
  /\ UNCHANGED <<md, hmac, call, raced, calls>>

Next ==
  \/ \E t \in Threads :
       \/ \E s \in Secrets, p \in Payloads : Make(t, s, p)
       \/ \E s \in Secrets : Verify(t, s)
       \/ GetPayload(t)
       \/ StoreByte(t)
       \/ CopyByte(t)
       \/ MakeReturn(t)
       \/ VerifyReturn(t)
  \/ \E s \in Secrets, p \in Payloads : NodeSign(s, p)
  \/ Change

Spec == Init /\ [][Next]_vars

-----------------------------------------------------------------------------
(* Properties *)

TypeOK ==
  /\ token.by \in {"nobody", "us", "node", "race", "other"}
  /\ \A i \in DOMAIN token.parts : \A j \in DOMAIN token.parts[i] : token.parts[i][j] \in 0 .. Other
  /\ \A i \in 1 .. SigLen : md[i] \in Byte
  /\ \A q \in DOMAIN hmac : hmac[q] \in Macs
  /\ \A t \in Threads :
       /\ call[t].pc \in {"idle", "hmac", "copy", "signed"}
       /\ call[t].result \in {"none", "raised", "token", "true", "false", "value", "garbage"}
       /\ call[t].op \in {"make", "verify"} => Written(t) <= SigLen
  /\ calls \in 0 .. MaxCalls

\* A part the decoder can read: base64 in either alphabet with at most one "_"
\* and one "-".  The decoder undoes the first of each and no other.
Readable(s) ==
  /\ \A i \in DOMAIN s : s[i] # Other
  /\ \A c \in {Dash, Under} : Cardinality({i \in DOMAIN s : s[i] = c}) <= 1

\* The bits a part stands for, six a character, and the bits of bytes: what
\* base64 means, without groups, blocks or padding.
SixBits(c) == IF c = Pad THEN 0 ELSE IF c = Dash THEN 62 ELSE IF c = Under THEN 63 ELSE c
Weight == <<128, 64, 32, 16, 8, 4, 2, 1>>
TextBit(s, i) == LET c == (i \div 6) + 1
                 IN IF c > Len(s) THEN 0 ELSE (SixBits(s[c]) \div Weight[(i % 6) + 3]) % 2
ByteBit(d, i) == (ByteAt(d, (i \div 8) + 1) \div Weight[(i % 8) + 1]) % 2

\* The signature part says the MAC: the same bits, with zeros behind, in as
\* many groups of four characters as a MAC with its extra byte needs.
Says(s, mac) ==
  /\ (Len(s) + 3) \div 4 = (SigLen + 1) \div 3
  /\ \A i \in 0 .. (8 * (SigLen + 1) - 1) : TextBit(s, i) = ByteBit(mac, i)

\* verify-signature answers true exactly when the third part says the MAC of
\* the first two under the secret, for every readable signature, as long as no
\* other thread's HMAC wrote the static array meanwhile.
VerdictRight ==
  \A t \in Threads :
    (call[t].op = "verify" /\ Idle(t) /\ call[t].result # "raised" /\ ~raced[t]
      /\ Readable(call[t].of.parts[3]))
    => (call[t].result = "true" <=> Says(call[t].of.parts[3], hmac[Asked(t)]))

\* A token that make or node issued, and that came back unchanged, verifies
\* under its secret if its signature is readable and no HMAC was raced in
\* making or in verifying it.
GenuineTokensVerify ==
  \A t \in Threads :
    (call[t].op = "verify" /\ Idle(t) /\ ~raced[t]
      /\ call[t].of.by \in {"us", "node"} /\ call[t].secret = call[t].of.secret
      /\ Readable(call[t].of.parts[3]))
    => call[t].result = "true"

\* get-payload answers the JSON text the token was issued with, for texts of
\* every length, whatever zeros decoding leaves behind it, and whether or not
\* the signature is good, if the part is readable.
PayloadReturned ==
  \A t \in Threads :
    (call[t].op = "payload" /\ call[t].of.by \in {"us", "node", "race"} /\ Readable(call[t].of.parts[2]))
    => call[t].result = "value" /\ call[t].out = call[t].of.payload
=============================================================================
