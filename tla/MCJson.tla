------------------------------- MODULE MCJson -------------------------------
(***************************************************************************)
(* Json on bounded inputs, against references that are written down        *)
(* independently of the code: what a value has to look like after a round  *)
(* trip, and the meaning of a text as a grammar.                           *)
(***************************************************************************)
EXTENDS Json, FiniteSetsExt

-----------------------------------------------------------------------------
(* What decoding the encoding of a value gives. *)

RECURSIVE Image(_, _, _)
Image(v, kw, nl) ==
  CASE v.t \in {"str", "kw"} -> Str(v.s)
    [] v.t = "nil" -> IF nl THEN Nil ELSE NullKeyword
    [] v.t = "arr" -> Arr([i \in DOMAIN v.arr |-> Image(v.arr[i], kw, nl)])
    [] v.t = "tab" -> Tab({<<IF kw THEN Kw(e[1].s) ELSE Str(e[1].s), Image(e[2], kw, nl)>> : e \in v.tab})
    [] OTHER -> v

RECURSIVE StringsOf(_)
StringsOf(v) == CASE v.t \in {"str", "kw"} -> {v.s}
                  [] v.t = "arr" -> UNION {StringsOf(v.arr[i]) : i \in DOMAIN v.arr}
                  [] v.t = "tab" -> UNION {StringsOf(e[1]) \cup StringsOf(e[2]) : e \in v.tab}
                  [] OTHER -> {}

RECURSIVE Height(_)
Height(v) == CASE v.t = "arr" /\ v.arr # <<>> -> 1 + Max({Height(v.arr[i]) : i \in DOMAIN v.arr})
               [] v.t = "tab" /\ v.tab # {} -> 1 + Max({Height(e[2]) : e \in v.tab})
               [] OTHER -> 0

\* nothing in the value is of a type that JSON has no word for
RECURSIVE Supported(_)
Supported(v) == CASE v.t = "arr" -> \A i \in DOMAIN v.arr : Supported(v.arr[i])
                  [] v.t = "tab" -> \A e \in v.tab : e[1].t \in {"str", "kw"} /\ Supported(e[2])
                  [] OTHER -> v.t # "fun"

\* the types of what is inside and no container
RECURSIVE Leaves(_)
Leaves(v) == CASE v.t = "arr" -> UNION {Leaves(v.arr[i]) : i \in DOMAIN v.arr}
               [] v.t = "tab" -> UNION {Leaves(e[2]) : e \in v.tab}
               [] OTHER -> {v.t}
HoldsItself(v) == "back" \in Leaves(v)

\* no table has a string and a keyword of the same bytes as keys
RECURSIVE KeysDiffer(_)
KeysDiffer(v) == CASE v.t = "arr" -> \A i \in DOMAIN v.arr : KeysDiffer(v.arr[i])
                   [] v.t = "tab" -> /\ \A e, f \in v.tab : e[1].s = f[1].s => e = f
                                     /\ \A e \in v.tab : KeysDiffer(e[2])
                   [] OTHER -> TRUE

-----------------------------------------------------------------------------
(* The grammar: the set of values that a text means, empty if it means none. *)

\* UTF-8 of a code point, and the bytes that the units of a string mean
Utf8Of(c) ==
  LET tail(k) == 128 + ((c \div 64 ^ k) % 64)
  IN CASE c < 128 -> <<c>>
       [] c \in 128 .. 2047 -> <<192 + c \div 64, tail(0)>>
       [] c \in 2048 .. 65535 -> <<224 + c \div 4096, tail(1), tail(0)>>
       [] OTHER -> <<240 + c \div 262144, tail(2), tail(1), tail(0)>>

Surrogate(n) == IsHigh(n) \/ IsLow(n)
RECURSIVE StringMeans(_)
StringMeans(u) ==
  IF u = <<>> THEN {<<>>}
  ELSE LET one == CASE u[1][1] = "c" /\ u[1][2] > 31 -> {<<u[1][2]>>}
                    [] u[1][1] = "e" -> {<<u[1][2]>>}
                    [] u[1][1] = "u" /\ ~Surrogate(u[1][2]) -> {Utf8Of(u[1][2])}
                    [] OTHER -> {}
           pair == {65536 + (n % 1024) * 1024 + (m % 1024) :
                      n \in {k \in {u[1][2]} : u[1][1] = "u" /\ IsHigh(k)},
                      m \in {k \in {u[2][2]} : u[2][1] = "u" /\ IsLow(k)}}
       IN {x \o y : x \in one, y \in StringMeans(Tail(u))}
          \cup (IF Len(u) = 1 THEN {}
                ELSE {Utf8Of(c) \o y : c \in pair, y \in StringMeans(Tail(Tail(u)))})

RECURSIVE Means(_, _, _), Items(_, _, _), Entries(_, _, _)
Means(t, kw, nl) ==
  IF t = <<>> THEN {}
  ELSE IF Len(t) = 1
  THEN CASE t[1].k \in {"num", "true", "false", "-inf", "-nan"} -> {Val(t[1].k)}
         [] t[1].k = "loose" -> {Val("num")}
         [] t[1].k = "huge" -> {Val("inf")}
         [] t[1].k = "null" -> {IF nl THEN Nil ELSE NullKeyword}
         [] t[1].k = "str" -> {Str(s) : s \in StringMeans(t[1].u)}
         [] OTHER -> {}
  ELSE LET inner == SubSeq(t, 2, Len(t) - 1)
           loose == t[Len(t)].w /\ t[Len(t) - 1].k = ","
       IN CASE ~loose /\ t[1].k = "[" /\ t[Len(t)].k = "]" -> {Arr(a) : a \in Items(inner, kw, nl)}
            [] ~loose /\ t[1].k = "{" /\ t[Len(t)].k = "}" -> {Tab(e) : e \in Entries(inner, kw, nl)}
            [] OTHER -> {}

\* values with a comma after each but the last, where it is optional if the closing
\* bracket follows without whitespace
Cuts(t) == {i \in DOMAIN t : t[i].k = ","}
From(t, i) == SubSeq(t, i, Len(t))
Items(t, kw, nl) ==
  IF t = <<>> THEN {<<>>}
  ELSE {<<v>> : v \in Means(t, kw, nl)}
       \cup UNION {{<<v>> \o r : v \in Means(SubSeq(t, 1, i - 1), kw, nl),
                                 r \in Items(From(t, i + 1), kw, nl)} : i \in Cuts(t)}

\* a later entry of a key replaces the earlier ones, nil removes them
Entry(t, kw, nl) ==
  IF Len(t) > 2 /\ t[1].k = "str" /\ t[2].k = ":"
  THEN {<<IF kw THEN Kw(k.s) ELSE k, v>> : k \in Means(<<t[1]>>, kw, nl), v \in Means(From(t, 3), kw, nl)}
  ELSE {}
Under(e, later) == IF e[2] = Nil \/ \E f \in later.set \cup later.gone : f[1] = e[1]
                   THEN [later EXCEPT !.gone = @ \cup {e}]
                   ELSE [later EXCEPT !.set = @ \cup {e}]
RECURSIVE Table(_, _, _)
Table(t, kw, nl) ==
  IF t = <<>> THEN {[set |-> {}, gone |-> {}]}
  ELSE {Under(e, [set |-> {}, gone |-> {}]) : e \in Entry(t, kw, nl)}
       \cup UNION {{Under(e, r) : e \in Entry(SubSeq(t, 1, i - 1), kw, nl),
                                  r \in Table(From(t, i + 1), kw, nl)} : i \in Cuts(t)}
Entries(t, kw, nl) == {r.set : r \in Table(t, kw, nl)}

\* how deep inside brackets the values of a text are
Count(t, n, ks) == Cardinality({i \in 1 .. n : t[i].k \in ks})
Nesting(t) == Max({0} \cup {Count(t, i - 1, {"[", "{"}) - Count(t, i - 1, {"]", "}"}) :
                              i \in {j \in DOMAIN t : t[j].k \notin {"]", "}", ",", ":"}}})

-----------------------------------------------------------------------------
(* Inputs. *)

a == <<97>>
b == <<98>>
Num == Val("num")
Fun == Val("fun")

LeadBytes == {0, 31, 34, 92, 127, 128, 191, 192, 194, 223, 224, 237, 239, 248}
NextBytes == {65, 128, 143, 144, 159, 160, 191}
ByteStrings ==
  {<<x>> : x \in LeadBytes} \cup {<<x, y>> : x \in LeadBytes, y \in NextBytes}
  \cup {<<x, y, z>> : x \in LeadBytes, y \in NextBytes, z \in NextBytes}
  \cup {<<w, x, y, z>> : w \in {240, 244, 247}, x \in NextBytes, y \in {65, 128, 191}, z \in {128, 191}}
  \cup {<<97, 239, 191, 191, 240, 144, 128, 128>>, <<240, 144, 191>>}

Atoms == {Nil, Num, Str(a), Kw(a)}
Keys == {Str(a), Kw(a), Str(b), Num}
Flat == {Arr(<<>>), Tab({})} \cup {Arr(<<x>>) : x \in Atoms} \cup {Arr(<<x, y>>) : x, y \in Atoms}
        \cup {Tab({<<k, v>>}) : k \in Keys, v \in Atoms \ {Nil}}
        \cup {Tab({<<k, Num>>, <<l, Str(b)>>}) : k, l \in Keys}
Nested == {Arr(<<x, y>>) : x \in Flat, y \in {Fun, Arr(<<>>)}}
          \cup {Tab({<<Str(b), x>>, <<Kw(a), Num>>}) : x \in Flat}
Deep == {Arr(<<Arr(<<x>>)>>) : x \in Flat} \cup {Arr(<<Tab({<<Str(a), Arr(<<x>>)>>})>>) : x \in Flat}
Circular == {Arr(<<x, Val("back")>>) : x \in {Num, Fun}} \cup {Arr(<<Val("back"), Fun>>),
             Tab({<<Str(a), Num>>, <<Kw(b), Val("back")>>}), Arr(<<Tab({<<Str(a), Val("back")>>})>>)}
Strange == {Val(n) : n \in Numbers} \cup {Arr(<<Val(n)>>) : n \in Numbers}
MCValues == Circular \cup Strange \cup Atoms \cup {Val("true"), Val("false"), Fun} \cup {Str(s) : s \in ByteStrings} \cup Flat \cup Nested \cup Deep

\* with the items, keys and values of containers three levels down
Inside(v) == {v.arr[i] : i \in DOMAIN v.arr} \cup UNION {{e[1], e[2]} : e \in v.tab}
MCJanet == LET With(V) == V \cup UNION {Inside(v) : v \in V}
           IN With(With(With(MCValues)))

MCBuffers == {<<>>, <<Token("["), Token("num"), Comma>>}

S(u) == [Token("str") EXCEPT !.u = u]
Spaced(t) == [t EXCEPT !.w = TRUE]
Tokens == {Token(k) : k \in {"[", "]", "{", "}", ",", ":", "num", "null"}} \cup {S(<<<<"c", 97>>>>)}
          \cup {Spaced(Token(k)) : k \in {"]", "}"}}
Short == UNION {[1 .. n -> Tokens] : n \in 0 .. 3}
Long == LET T(k) == Token(k)
            A == S(<<<<"c", 97>>>>)
            B == S(<<<<"u", 98>>>>)
        IN {<<T("["), T("num"), T(","), T("["), T("null"), T(","), T("]"), T("]")>>,
            <<T("{"), A, T(":"), T("num"), T(","), S(<<<<"u", 97>>>>), T(":"), T("null"), T("}")>>,
            <<T("{"), A, T(":"), T("null"), T(","), A, T(":"), T("true"), T("}")>>,
            <<T("{"), A, T(":"), T("{"), B, T(":"), T("["), T("["), T("]"), T("]"), T("}"), T("}")>>}
\* a token replaced, or left out
Edited == UNION {{[t EXCEPT ![i] = x] : i \in DOMAIN t, x \in Tokens} : t \in Long}
          \cup UNION {{SubSeq(t, 1, i - 1) \o From(t, i + 1) : i \in DOMAIN t} : t \in Long}
Units == {<<"c", 65>>, <<"c", 31>>, <<"e", 10>>, <<"x", 0>>}
         \cup {<<"u", n>> : n \in {0, 127, 128, 2047, 2048, 55295, 55296, 56319, 56320, 57343, 57344, 65535}}
Unquoted == {<<S(<<u>>)>> : u \in Units} \cup {<<S(<<u, v>>)>> : u, v \in Units}
            \cup {<<S(<<<<"u", 55296>>, <<"u", 56320>>, u>>)>> : u \in Units}
\* a number of every kind, alone and inside an array
NumberWords == {Token(k) : k \in Numbers \cup NumberTexts \cup {"-"}}
Numeric == {<<x>> : x \in NumberWords} \cup {<<Token("["), x, Token("]")>> : x \in NumberWords}
\* whitespace before every token
Wide == {[i \in DOMAIN t |-> Spaced(t[i])] : t \in Long}
MCForeign == Short \cup Edited \cup Unquoted \cup Numeric \cup Wide

-----------------------------------------------------------------------------
(* The properties. *)

Done(src) == pc = "done" /\ source = src

\* A value comes back from its own encoding, as Janet can hold it, exactly when its
\* strings survive, its numbers are neither inf nor nan (%.17g writes them, decode
\* refuses them; -inf and -nan it reads) and it is not nested deeper than the guard of
\* the decoder: the encoder has no guard, and it garbles most four-byte characters.
\* The encoder raises only for strings that are not UTF-8 and for types that JSON has
\* not; a value that holds itself, or is too deep for the C stack, ends the process,
\* if nothing is raised before, and no other does.
RoundTripExactly ==
  pc = "done" /\ source # "foreign" /\ KeysDiffer(value) =>
    LET sound == Supported(value) /\ \A s \in StringsOf(value) : Survives(s)
        endless == HoldsItself(value) \/ Height(value) > CStack
    IN CASE source = "own" -> (outcome = "decoded" /\ ret = Image(value, keywords, nils))
                                <=> (sound /\ Leaves(value) \cap {"inf", "nan"} = {} /\ Height(value) <= Guard)
         [] OTHER -> /\ outcome = "encoded" => ~endless
                     /\ outcome = "overflow" => endless
                     /\ outcome \notin {"encoded", "overflow"} => ~sound

\* Decode accepts the texts of the grammar up to the depth of the guard, gives them
\* their meaning, and refuses all others.  The grammar is JSON's and more: a comma may
\* follow the last item if the closing bracket comes right behind it, and a number is
\* what strtod reads if it begins with a digit or "-" (hexadecimal ones, leading
\* zeros, infinities).
AcceptsExactly ==
  Done("foreign") =>
    IF outcome = "decoded" THEN Means(text, keywords, nils) = {ret} /\ Nesting(text) <= Guard
    ELSE Means(text, keywords, nils) = {} \/ Nesting(text) > Guard
=============================================================================
