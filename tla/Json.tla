-------------------------------- MODULE Json --------------------------------
(***************************************************************************)
(* json/encode and json/decode of src/json/json.c.  A text is a sequence   *)
(* of tokens; w says whether whitespace comes before one.  encode_one's    *)
(* recursion is the list work of what is still to be written, decode_one's *)
(* recursion is the stack of open containers.  The tab and newline strings *)
(* that encode can put between tokens are left out.                        *)
(*                                                                         *)
(* Janet values are records: s holds the bytes of a string or keyword, arr *)
(* the items of an array, tab the entries <<key, value>> of a table.       *)
(* "back", inside a container, is the outermost container itself: arrays   *)
(* and tables can hold themselves.                                         *)
(*                                                                         *)
(* Numbers are of the kinds that %.17g and strtod tell apart: "num" (finite*)
(* ones, which 17 digits keep), "inf", "-inf", "nan" and "-nan", each also *)
(* the name of what %.17g writes for it.  Texts from elsewhere also hold   *)
(* "loose" ones that JSON has not and strtod reads (0x10, 01, 1.), "huge"  *)
(* ones (1e999), and "-" alone.                                            *)
(***************************************************************************)
EXTENDS JsonText, FiniteSets

CONSTANTS
  Janet,     \* Janet values, with all that is inside them
  Values,    \* the values that are encoded
  Buffers,   \* what the buffer given to encode already holds
  Foreign,   \* texts from elsewhere that are decoded
  Guard,     \* JANET_RECURSION_GUARD
  CStack     \* how deep encode_one, which has no guard, can call itself before the C stack ends

ASSUME GuardAssumption == Guard \in Nat
ASSUME StackAssumption == CStack \in Nat /\ CStack > Guard
ASSUME ValueAssumption ==
  /\ Values \subseteq Janet
  /\ \A v \in Janet : /\ v.arr \in Seq(Janet)
                      /\ v.tab \subseteq Janet \X Janet /\ IsFiniteSet(v.tab)
ASSUME BufferAssumption == \A b \in Buffers : b \in Seq({b[i] : i \in DOMAIN b})
ASSUME ForeignAssumption == \A t \in Foreign : t \in Seq({t[i] : i \in DOMAIN t})

VARIABLES
  pc,       \* "idle", "encode", "one", "loop", "ret", "done"
  value,    \* the value given to encode
  given,    \* the buffer given to encode
  text,     \* the buffer being written, or the text being read
  work,     \* encode: what is still to be written
  keywords, \* decode: JSON_KEYWORD_KEY
  nils,     \* decode: JSON_NULL_TO_NIL
  p,        \* decode: tokens read
  stack,    \* decode: the containers that are open, the innermost last
  ret,      \* decode: the value that decode_one returned last
  outcome,  \* "none", "encoded", "decoded", the error, or "overflow": the process is gone
  source    \* the text being decoded: "own" (encode wrote it), "foreign", or "none"

vars == <<pc, value, given, text, work, keywords, nils, p, stack, ret, outcome, source>>
encoding == <<value, given, work>>
flags == <<keywords, nils>>

Val(t) == [t |-> t, s |-> <<>>, arr |-> <<>>, tab |-> {}]
Str(s) == [Val("str") EXCEPT !.s = s]
Kw(s) == [Val("kw") EXCEPT !.s = s]
Arr(a) == [Val("arr") EXCEPT !.arr = a]
Tab(e) == [Val("tab") EXCEPT !.tab = e]
Nil == Val("nil")
NullKeyword == Kw(<<110, 117, 108, 108>>)

Token(k) == [k |-> k, u |-> <<>>, w |-> FALSE]
Comma == Token(",")

Init ==
  /\ pc = "idle"
  /\ value = Nil /\ given = <<>> /\ text = <<>> /\ work = <<>>
  /\ keywords = FALSE /\ nils = FALSE
  /\ p = 0 /\ stack = <<>> /\ ret = Nil
  /\ outcome = "none" /\ source = "none"

-----------------------------------------------------------------------------
(***************************************************************************)
(* json_encode.  An item of work: write a value, write a key (which has to *)
(* be a byte sequence), write a token, or write the token that closes a    *)
(* container, in place of a comma if one was written last.                 *)
(***************************************************************************)
Write(x) == [do |-> "value", x |-> x, k |-> ""]
WriteKey(x) == [do |-> "key", x |-> x, k |-> ""]
Put(k) == [do |-> "token", x |-> Nil, k |-> k]
Close(k) == [do |-> "close", x |-> Nil, k |-> k]

\* the loops over items and entries, flattened
ItemWork(a) == [i \in 1 .. 2 * Len(a) |-> IF i % 2 = 1 THEN Write(a[(i + 1) \div 2]) ELSE Put(",")]
EntryWork(e) ==
  [i \in 1 .. 4 * Len(e) |->
     LET entry == e[(i + 3) \div 4]
     IN CASE i % 4 = 1 -> WriteKey(entry[1])
          [] i % 4 = 2 -> Put(":")
          [] i % 4 = 3 -> Write(entry[2])
          [] i % 4 = 0 -> Put(",")]

\* the order in which the slots of the table hold its entries
Orders(e) == {o \in [1 .. Cardinality(e) -> e] : \A i, j \in DOMAIN o : o[i] = o[j] => i = j}

\* variant: the buffer is emptied first
EncodeEmpties(v, b) ==
  /\ pc = "idle"
  /\ value' = v /\ given' = b
  /\ text' = <<>>
  /\ work' = <<Write(v)>>
  /\ pc' = "encode"
  /\ UNCHANGED <<flags, p, stack, ret, outcome, source>>

Encode(v, b) ==
  /\ pc = "idle"
  /\ value' = v /\ given' = b
  /\ text' = b
  /\ work' = <<Write(v)>>
  /\ pc' = "encode"
  /\ UNCHANGED <<flags, p, stack, ret, outcome, source>>

EncodeError(e) == pc' = "done" /\ outcome' = e /\ work' = work

CloseContainer ==
  /\ text' = Append(IF text[Len(text)].k = "," THEN SubSeq(text, 1, Len(text) - 1) ELSE text,
                    Token(Head(work).k))
  /\ work' = Tail(work)
  /\ UNCHANGED <<pc, outcome>>

\* strings, symbols, keywords and buffers; on an error what was written stays
EncodeBytes(s) ==
  LET r == EncodeString(s)
  IN /\ text' = Append(text, [k |-> IF r.ok THEN "str" ELSE "open", u |-> r.out, w |-> FALSE])
     /\ IF r.ok THEN work' = Tail(work) /\ UNCHANGED <<pc, outcome>>
                ELSE EncodeError("string contains invalid utf-8")

Numbers == {"num", "inf", "-inf", "nan", "-nan"}

\* encode_one: the switch on the type
EncodeValue(x) ==
  CASE x.t \in {"str", "kw"} -> EncodeBytes(x.s)
    [] x.t \in {"true", "false", "nil"} \cup Numbers ->
         /\ text' = Append(text, Token(IF x.t = "nil" THEN "null" ELSE x.t))
         /\ work' = Tail(work)
         /\ UNCHANGED <<pc, outcome>>
    [] x.t = "arr" ->
         /\ text' = Append(text, Token("["))
         /\ work' = ItemWork(x.arr) \o <<Close("]")>> \o Tail(work)
         /\ UNCHANGED <<pc, outcome>>
    [] x.t = "tab" ->
         /\ text' = Append(text, Token("{"))
         /\ \E o \in Orders(x.tab) : work' = EntryWork(o) \o <<Close("}")>> \o Tail(work)
         /\ UNCHANGED <<pc, outcome>>
    [] OTHER -> EncodeError("type not supported") /\ UNCHANGED text

\* the containers that are open, each with its frame of encode_one
Depth == Cardinality({i \in DOMAIN work : work[i].do = "close"})

\* encode_one at that depth
EncodeOne(x) == IF Depth > CStack THEN EncodeError("overflow") /\ UNCHANGED text
                ELSE EncodeValue(IF x.t = "back" THEN value ELSE x)

EncodeStep ==
  /\ pc = "encode" /\ work # <<>>
  /\ LET w == Head(work)
     IN CASE w.do = "value" -> EncodeOne(w.x)
          [] w.do = "key" -> IF w.x.t \in {"str", "kw"} THEN EncodeOne(w.x)
                             ELSE EncodeError("object key must be a byte sequence") /\ UNCHANGED text
          [] w.do = "token" -> /\ text' = Append(text, Token(w.k))
                               /\ work' = Tail(work)
                               /\ UNCHANGED <<pc, outcome>>
          [] w.do = "close" -> CloseContainer
  /\ UNCHANGED <<value, given, flags, p, stack, ret, source>>

EncodeEnds ==
  /\ pc = "encode" /\ work = <<>>
  /\ pc' = "done" /\ outcome' = "encoded"
  /\ UNCHANGED <<encoding, text, flags, p, stack, ret, source>>

-----------------------------------------------------------------------------
(***************************************************************************)
(* json_decode.  A container that is open: what it holds so far and, in an *)
(* object, whether the key or the value comes next.                        *)
(***************************************************************************)
Open(t) == [t |-> t, arr |-> <<>>, tab |-> {}, key |-> Nil, want |-> IF t = "arr" THEN "item" ELSE "key"]
Top == stack[Len(stack)]
Rest == SubSeq(stack, 1, Len(stack) - 1)
Kind == IF p < Len(text) THEN text[p + 1].k ELSE "eos"
Closer == IF Top.t = "arr" THEN "]" ELSE "}"

Decode(t, kw, nl) ==
  /\ text' = t
  /\ keywords' = kw /\ nils' = nl
  /\ p' = 0 /\ stack' = <<>> /\ ret' = Nil
  /\ pc' = "one"
  /\ outcome' = "none"
  /\ UNCHANGED encoding

DecodeOwn == /\ pc = "done" /\ outcome = "encoded" /\ given = <<>>
             /\ source = "none" /\ source' = "own"
             /\ \E kw, nl \in BOOLEAN : Decode(text, kw, nl)

DecodeForeign == /\ pc = "idle"
                 /\ source' = "foreign"
                 /\ \E t \in Foreign, kw, nl \in BOOLEAN : Decode(t, kw, nl)

DecodeError(e) == /\ pc' = "done" /\ outcome' = e
                  /\ UNCHANGED <<p, stack, ret>>

Return(v) == /\ ret' = v
             /\ p' = p + 1
             /\ pc' = "ret"
             /\ UNCHANGED outcome

Enter(t) == /\ stack' = Append(stack, Open(t))
            /\ p' = p + 1
            /\ pc' = "loop"
            /\ UNCHANGED <<ret, outcome>>

TooDeep == Len(stack) > Guard

\* what strtod takes for a number, and which number: "inf" and "nan" do not begin
\* with a digit or "-", and of "-" alone strtod takes nothing
NumberTexts == {"num", "-inf", "-nan", "loose", "huge"}
Strtod(k) == CASE k = "loose" -> "num"
               [] k = "huge" -> "inf"
               [] OTHER -> k

\* decode_one at depth Len(stack)
DecodeOne ==
  /\ pc = "one"
  /\ IF TooDeep THEN DecodeError("recured too deeply")
     ELSE CASE Kind = "null" -> Return(IF nils THEN Nil ELSE NullKeyword) /\ UNCHANGED stack
            [] Kind \in {"true", "false"} -> Return(Val(Kind)) /\ UNCHANGED stack
            [] Kind \in NumberTexts -> Return(Val(Strtod(Kind))) /\ UNCHANGED stack
            [] Kind = "str" -> LET r == DecodeString(text[p + 1].u)
                               IN IF r.ok THEN Return(Str(r.out)) /\ UNCHANGED stack
                                          ELSE DecodeError("bad string")
            [] Kind = "[" -> Enter("arr")
            [] Kind = "{" -> Enter("tab")
            [] Kind = "-" -> DecodeError("bad number")
            [] OTHER -> DecodeError("unexpected character, identifier or end")
  /\ UNCHANGED <<encoding, text, flags, source>>

ClosedValue(frame) == IF frame.t = "arr" THEN Arr(frame.arr) ELSE Tab(frame.tab)

\* the loop looks for the closing bracket without skipping whitespace; before the
\* first round it has been skipped, after a comma it has not
CloserNext == Kind = Closer /\ ~(text[p].k = "," /\ text[p + 1].w)

\* variant: the end of the text is not noticed inside a container
DecodeLoopWaits ==
  /\ pc = "loop"
  /\ CASE CloserNext -> Return(ClosedValue(Top)) /\ stack' = Rest
       [] Kind = "eos" -> UNCHANGED <<pc, p, stack, ret, outcome>>
       [] ~CloserNext /\ Kind \notin {"eos", "str"} /\ Top.t = "tab" -> DecodeError("expected json string")
       [] OTHER -> pc' = "one" /\ UNCHANGED <<p, stack, ret, outcome>>
  /\ UNCHANGED <<encoding, text, flags, source>>

\* the head of the loop over items or entries
DecodeLoop ==
  /\ pc = "loop"
  /\ CASE CloserNext -> Return(ClosedValue(Top)) /\ stack' = Rest
       [] ~CloserNext /\ Top.t = "tab" /\ Kind # "str" -> DecodeError("expected json string")
       [] OTHER -> pc' = "one" /\ UNCHANGED <<p, stack, ret, outcome>>
  /\ UNCHANGED <<encoding, text, flags, source>>

KeyOf(k) == IF keywords THEN Kw(k.s) ELSE k

\* janet_table_put: the last value counts, and nil removes the key
Store(tab, k, v) == {e \in tab : e[1] # k} \cup (IF v = Nil THEN {} ELSE {<<k, v>>})

\* the container with the value that decode_one returned
Filled == IF Top.t = "arr" THEN [Top EXCEPT !.arr = Append(@, ret)]
          ELSE [Top EXCEPT !.tab = Store(@, KeyOf(Top.key), ret), !.want = "key"]

\* what follows a value: the end of the text, a colon after a key, or a comma or
\* the closing bracket
DecodeReturn ==
  /\ pc = "ret"
  /\ CASE stack = <<>> ->
            IF Kind = "eos" THEN /\ pc' = "done" /\ outcome' = "decoded"
                                 /\ UNCHANGED <<p, stack, ret>>
                            ELSE DecodeError("unexpected extra token")
       [] stack # <<>> /\ Top.want = "key" ->
            IF Kind = ":" THEN /\ stack' = Append(Rest, [Top EXCEPT !.key = ret, !.want = "value"])
                               /\ p' = p + 1
                               /\ pc' = "one"
                               /\ UNCHANGED <<ret, outcome>>
                          ELSE DecodeError("expected colon")
       [] OTHER ->
            CASE Kind = Closer -> Return(ClosedValue(Filled)) /\ stack' = Rest
              [] Kind = "," -> /\ stack' = Append(Rest, Filled)
                               /\ p' = p + 1
                               /\ pc' = "loop"
                               /\ UNCHANGED <<ret, outcome>>
              [] OTHER -> DecodeError("expected comma")
  /\ UNCHANGED <<encoding, text, flags, source>>

Next == \/ \E v \in Values, b \in Buffers : Encode(v, b)
        \/ EncodeStep
        \/ EncodeEnds
        \/ DecodeOwn
        \/ DecodeForeign
        \/ DecodeOne
        \/ DecodeLoop
        \/ DecodeReturn

Spec == Init /\ [][Next]_vars

\* A call that was made runs on.
FairSpec == Spec /\ WF_vars(EncodeStep \/ EncodeEnds \/ DecodeOne \/ DecodeLoop \/ DecodeReturn)

-----------------------------------------------------------------------------
\* "if buf is provided, the formated JSON is append to buf": whatever the buffer holds
\* when encode is called, also when it ends in a comma, stays in front of what is
\* written, although closing a container takes back the last byte.
CallerTextKept == source = "none" => Len(text) >= Len(given) /\ SubSeq(text, 1, Len(given)) = given

\* Encode and decode come to an end for every value and every text: they return or
\* raise, or encode runs out of the C stack, as it does on a value that holds itself.
EveryCallEnds == pc \in {"encode", "one"} ~> pc = "done"
=============================================================================
