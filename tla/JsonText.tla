------------------------------ MODULE JsonText ------------------------------
(***************************************************************************)
(* Strings in src/json/json.c: a Janet string is a sequence of bytes,      *)
(* taken for UTF-8, and a JSON string is a sequence of units:              *)
(*   <<"c", b>>  the byte b itself,                                        *)
(*   <<"e", b>>  a two-character escape for the byte b,                    *)
(*   <<"u", n>>  a \uXXXX escape (four hexadecimal digits are a number     *)
(*               below 2^16, both ways),                                   *)
(*   <<"x", 0>>  an escape that is none: an unknown letter, a digit that   *)
(*               is not hexadecimal.                                       *)
(* Shifts and masks are written as products, quotients and remainders.     *)
(***************************************************************************)
EXTENDS Naturals, Sequences

Bytes == 0 .. 255

IsHigh(n) == n \in 55296 .. 56319
IsLow(n) == n \in 56320 .. 57343

\* A loop over n positions: step[i] is how far the body goes on from i and what it
\* writes; without a way on it stops with an error, and what was written stays.
Walk(n, step) ==
  LET walk[i \in 1 .. n + 1] ==
        IF i > n THEN [ok |-> TRUE, out |-> <<>>]
        ELSE LET r == step[i]
                 rest == walk[i + r[1]]
             IN IF r[1] = 0 THEN [ok |-> FALSE, out |-> <<>>]
                ELSE [ok |-> rest.ok, out |-> r[2] \o rest.out]
  IN walk

Follows(s, i) == i <= Len(s) /\ s[i] \div 64 = 2

-----------------------------------------------------------------------------
(* Encoding: encode_one on a byte sequence. *)

\* the code point at s[i], as <<bytes used, code point>>; no bytes: invalid UTF-8
Invalid == <<0, 0>>

CodePoint(s, i) ==
  LET low(k) == s[i + k] % 64
      has(n) == \A k \in 1 .. n : Follows(s, i + k)
  IN CASE s[i] < 128 -> <<1, s[i]>>
       [] s[i] \in 128 .. 223 /\ has(1) -> <<2, (s[i] % 32) * 64 + low(1)>>
       [] s[i] \in 224 .. 239 /\ has(2) ->
            <<3, (s[i] % 16) * 4096 + low(1) * 64 + low(2)>>
       [] s[i] \in 240 .. 247 /\ has(3) ->
            <<4, (s[i] % 8) * 262144 + low(1) * 4096 + low(3) * 64 + low(3)>>
       [] OTHER -> Invalid

High(c) == (c - 65536) \div 1024 + 55296
Low(c) == ((c - 65536) % 1024) + 56320

\* variant: the offset of the low surrogate is forgotten
UnitsOfNoOffset(c) ==
  IF c > 31 /\ c < 128 THEN <<<<IF c \in {34, 92} THEN "e" ELSE "c", c>>>>
  ELSE IF c < 65536 THEN <<<<"u", c>>>>
  ELSE <<<<"u", High(c)>>, <<"u", c % 1024>>>>

UnitsOf(c) ==
  IF c > 31 /\ c < 128 THEN <<<<IF c \in {34, 92} THEN "e" ELSE "c", c>>>>
  ELSE IF c < 65536 THEN <<<<"u", c>>>>
  ELSE <<<<"u", High(c)>>, <<"u", Low(c)>>>>

EncodeString(s) ==
  Walk(Len(s), [i \in 1 .. Len(s) |-> LET r == CodePoint(s, i) IN <<r[1], UnitsOf(r[2])>>])[1]

-----------------------------------------------------------------------------
(* Decoding: the string case of decode_one, and decode_string. *)

Utf8(c) ==
  IF c <= 127 THEN <<c>>
  ELSE IF c <= 2047 THEN <<192 + c \div 64, 128 + (c % 64)>>
  ELSE IF c <= 65535 THEN <<224 + c \div 4096, 128 + ((c \div 64) % 64), 128 + (c % 64)>>
  ELSE <<240 + ((c \div 262144) % 8), 128 + ((c \div 4096) % 64),
         128 + ((c \div 64) % 64), 128 + (c % 64)>>

\* what the unit at u[i] gives, as <<units used, bytes>>; no units: an error
Unreadable == <<0, <<>>>>

\* variant: a high surrogate is combined with whatever unit comes next
UnitAtAnyPair(u, i) ==
  LET n == u[i][2]
  IN CASE u[i][1] = "c" -> IF n < 32 THEN Unreadable ELSE <<1, <<n>>>>
       [] u[i][1] = "e" -> <<1, <<n>>>>
       [] u[i][1] = "x" \/ IsLow(n) -> Unreadable
       [] IsHigh(n) -> IF i < Len(u)
                         THEN <<2, Utf8((n - 55296) * 1024 + (u[i + 1][2] % 1024) + 65536)>>
                         ELSE Unreadable
       [] OTHER -> <<1, Utf8(n)>>

UnitAt(u, i) ==
  LET n == u[i][2]
  IN CASE u[i][1] = "c" -> IF n < 32 THEN Unreadable ELSE <<1, <<n>>>>
       [] u[i][1] = "e" -> <<1, <<n>>>>
       [] u[i][1] = "x" \/ IsLow(n) -> Unreadable
       [] IsHigh(n) -> IF i < Len(u) /\ u[i + 1][1] = "u" /\ IsLow(u[i + 1][2])
                         THEN <<2, Utf8((n - 55296) * 1024 + (u[i + 1][2] - 56320) + 65536)>>
                         ELSE Unreadable
       [] OTHER -> <<1, Utf8(n)>>

DecodeString(u) == Walk(Len(u), [i \in 1 .. Len(u) |-> UnitAt(u, i)])[1]

-----------------------------------------------------------------------------
(***************************************************************************)
(* The reference: well-formed UTF-8 as the Unicode standard tabulates it.  *)
(***************************************************************************)
Cont == 128 .. 191
FormAt(s, i, n) ==
  /\ i + n - 1 <= Len(s)
  /\ LET b(k) == s[i + k - 1]
     IN CASE n = 1 -> b(1) < 128
          [] n = 2 -> b(1) \in 194 .. 223 /\ b(2) \in Cont
          [] n = 3 -> /\ \/ b(1) = 224 /\ b(2) \in 160 .. 191
                         \/ b(1) \in (225 .. 236) \cup {238, 239} /\ b(2) \in Cont
                         \/ b(1) = 237 /\ b(2) \in 128 .. 159
                      /\ b(3) \in Cont
          [] n = 4 -> /\ \/ b(1) = 240 /\ b(2) \in 144 .. 191
                         \/ b(1) \in 241 .. 243 /\ b(2) \in Cont
                         \/ b(1) = 244 /\ b(2) \in 128 .. 143
                      /\ b(3) \in Cont /\ b(4) \in Cont

\* a character that survives: a four-byte one has to end in the same byte twice
\* (encode_one assembles it from c[3] where c[2] is meant)
CharAt(s, i, n) == FormAt(s, i, n) /\ (n = 4 => s[i + 2] = s[i + 3])

CharLen(s, i) == IF \E n \in 1 .. 4 : CharAt(s, i, n) THEN CHOOSE n \in 1 .. 4 : CharAt(s, i, n) ELSE 0

\* the strings that consist of such characters
Survives(s) == Walk(Len(s), [i \in 1 .. Len(s) |-> <<CharLen(s, i), <<>>>>])[1].ok
=============================================================================
