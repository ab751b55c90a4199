----------------------------- MODULE SqliteEval -----------------------------
(***************************************************************************)
(* sqlite3/eval of src/sqlite3/main.c: a string of chained statements is   *)
(* compiled one statement ahead of the one that is executed, so that the   *)
(* rows of the last statement can be collected.  Every statement is bound  *)
(* to the same parameters; every compiled statement has to be finalised on *)
(* every way out; a closed database refuses to evaluate.                   *)
(*                                                                         *)
(* SQLite is not part of the repository: a statement names one table, it   *)
(* compiles when the table is there (for CREATE: is not there), and a      *)
(* statement that was compiled before the schema changed is compiled again *)
(* when it is stepped.  A step may also find the database locked.  A table *)
(* has one column; an insert puts the first parameter into it.             *)
(***************************************************************************)
EXTENDS Integers, Sequences

CONSTANTS
  Tables,      \* table names
  Absent,      \* the content of a table that does not exist
  Scripts,     \* the strings of statements that callers evaluate
  Values,      \* Janet values given as parameters: type and content; numbers are whole
  Numerals,    \* the contents of texts that spell the number they stand for
  Half,        \* half the range of a C int (2 ^ 31 in the code): ints are -Half .. Half - 1
  NaNInt,      \* the int a build makes of a NaN
  MaxParams,   \* bound: parameters given to one eval
  MaxEvals     \* bound: evals per behaviour

Statements == [kind : {"create", "drop", "insert", "select"}, tab : Tables, params : 0 .. MaxParams]

ASSUME ScriptAssumption == Scripts \subseteq Seq(Statements)
ASSUME ValueAssumption ==
  \A v \in Values : /\ v.type \in {"nil", "boolean", "number", "nan", "string", "keyword", "symbol",
                                   "buffer", "other"}
                    /\ v = [type |-> v.type, val |-> v.val]
                    /\ v.type = "nil" => v.val = 0
                    /\ v.type = "number" => v.val \in Int
ASSUME NumeralAssumption == Numerals \subseteq Int
ASSUME BoundAssumption == MaxParams \in Nat /\ MaxEvals \in Nat
ASSUME WidthAssumption == Half \in Nat \ {0} /\ NaNInt \in -Half .. (Half - 1)

VARIABLES
  affinity, \* of each table's column: "integer", or "none"
  data,     \* each table's rows: the value bound and what SQLite stores; or Absent
  handle,   \* times a connection was opened minus times one was closed
  closed,   \* FLAG_CLOSED
  pc,       \* "unopened", "idle" between evals, else the step of sql_eval
  script,   \* the statements of the current or latest eval
  args,     \* its parameters; a third argument was given if there are any
  before,   \* data when it began
  pos,      \* c: statements compiled so far
  stmt,     \* the statement to execute, 0 for NULL
  next,     \* stmt_next, 0 for NULL
  live,     \* compiled and not yet finalised
  ran,      \* statements executed to their end
  rows,     \* the array of rows: per row what was bound and what is returned
  locked,   \* the database was found locked
  outcome,  \* "none", "rows", "error" or "refused"
  left      \* evals that may still be made

evaluation == <<affinity, script, args, before>>
vars == <<data, handle, closed, pc, evaluation, pos, stmt, next, live, ran, rows, locked, outcome, left>>

Compiles(s, d) == IF s.kind = "create" THEN d[s.tab] = Absent ELSE d[s.tab] # Absent

Nil == [type |-> "nil", val |-> 0]

\* bind1: a value of another type, or a text with a 0 in it, is refused
Bindable(v) == v.type # "other"

\* bind1: strings, keywords and symbols are bound as text alike
Text(v) == v.type \in {"string", "keyword", "symbol"}

\* bind1, and SQLite's column: numbers are bound as doubles, which a column of
\* integers turns into 64-bit integers, as it does a text that spells one; a
\* NaN is stored as NULL; booleans are read as the number they are not (a NaN)
Stored(v, aff) ==
  CASE v.type \in {"nil", "nan"} -> [type |-> "null", val |-> 0]
    [] v.type = "boolean" -> [type |-> "integer", val |-> NaNInt]
    [] v.type = "number" -> [type |-> IF aff = "integer" THEN "integer" ELSE "float", val |-> v.val]
    [] Text(v) -> [type |-> IF aff = "integer" /\ v.val \in Numerals THEN "integer" ELSE "text",
                   val |-> v.val]
    [] v.type = "buffer" -> [type |-> "blob", val |-> v.val]

\* a 64-bit integer read as an int
AsInt(n) == ((n + Half) % (2 * Half)) - Half

\* execute_collect: one column of one row
Column(c) ==
  CASE c.type = "null" -> Nil
    [] c.type = "integer" -> [type |-> "number", val |-> AsInt(c.val)]
    [] c.type = "float" -> [type |-> "number", val |-> c.val]
    [] c.type = "text" -> [type |-> "string", val |-> c.val]
    [] c.type = "blob" -> [type |-> "buffer", val |-> c.val]

\* what an insert puts into the column: unbound places are NULL
Inserted(s) == IF s.params = 0 \/ args = <<>> THEN Nil ELSE args[1]

Effect(s, d) ==
  LET row == [bound |-> Inserted(s), stored |-> Stored(Inserted(s), affinity[s.tab])]
  IN [d EXCEPT ![s.tab] = CASE s.kind = "create" -> <<>>
                            [] s.kind = "drop" -> Absent
                            [] s.kind = "insert" -> Append(@, row)
                            [] s.kind = "select" -> @]

Collected(s, d) ==
  IF s.kind # "select" THEN <<>>
  ELSE [i \in DOMAIN d[s.tab] |-> [bound |-> d[s.tab][i].bound, value |-> Column(d[s.tab][i].stored)]]

\* bindmany: every parameter needs its place in the statement
Binds(s, a) == Len(a) <= s.params /\ \A i \in DOMAIN a : Bindable(a[i])

Init ==
  /\ affinity \in [Tables -> {"integer", "none"}]
  /\ data \in [Tables -> {Absent, <<>>}]
  /\ handle = 0
  /\ closed = FALSE
  /\ pc = "unopened"
  /\ script = <<>> /\ args = <<>> /\ before = data
  /\ pos = 0 /\ stmt = 0 /\ next = 0
  /\ live = {}
  /\ ran = 0 /\ rows = <<>>
  /\ locked = FALSE
  /\ outcome = "none"
  /\ left = MaxEvals

\* sqlite3/open: a handle that could not be opened is not closed
Open ==
  /\ pc = "unopened" /\ left > 0
  /\ handle' = handle + 1
  /\ \/ pc' = "idle" /\ UNCHANGED <<outcome, left>>
     \/ outcome' = "error" /\ left' = left - 1 /\ UNCHANGED pc
  /\ UNCHANGED <<data, closed, evaluation, pos, stmt, next, live, ran, rows, locked>>

Eval(s, a) ==
  /\ pc = "idle" /\ left > 0
  /\ left' = left - 1
  /\ script' = s /\ args' = a /\ before' = data /\ UNCHANGED affinity
  /\ pos' = 0 /\ ran' = 0 /\ rows' = <<>> /\ locked' = FALSE
  /\ IF closed THEN outcome' = "refused" /\ UNCHANGED pc
               ELSE outcome' = "none" /\ pc' = "compile"
  /\ UNCHANGED <<data, handle, closed, stmt, next, live>>

\* variant: the statement compiled ahead is forgotten
FailForgetsNext == /\ live' = live \ {stmt}
                   /\ stmt' = 0 /\ next' = 0
                   /\ pc' = "idle"
                   /\ outcome' = "error"

\* error: finalises what stmt and stmt_next hold, then panics
Fail == /\ live' = live \ {stmt, next}
        /\ stmt' = 0 /\ next' = 0
        /\ pc' = "idle"
        /\ outcome' = "error"

Compile ==
  /\ pc = "compile"
  /\ \/ /\ pos = Len(script)
        /\ pc' = "execute"
        /\ UNCHANGED <<pos, stmt, next, live, outcome>>
     \/ /\ pos < Len(script) /\ Compiles(script[pos + 1], data)
        /\ next' = pos + 1
        /\ live' = live \cup {pos + 1}
        /\ pos' = pos + 1
        /\ pc' = "execute"
        /\ UNCHANGED <<stmt, outcome>>
     \/ /\ pos < Len(script) /\ ~Compiles(script[pos + 1], data)
        /\ Fail
        /\ UNCHANGED pos
  /\ UNCHANGED <<data, handle, closed, evaluation, ran, rows, locked, left>>

\* variants: a first round without a statement is counted; a failed step is passed over
ExecuteCountsNull ==
  /\ pc = "execute"
  /\ IF stmt = 0 THEN UNCHANGED data
                 ELSE Compiles(script[stmt], data) /\ data' = Effect(script[stmt], data)
  /\ ran' = ran + 1
  /\ pc' = "bind"
  /\ UNCHANGED <<handle, closed, evaluation, pos, stmt, next, live, rows, locked, outcome, left>>

ExecuteGoesOn ==
  /\ pc = "execute"
  /\ IF stmt # 0 /\ Compiles(script[stmt], data)
       THEN data' = Effect(script[stmt], data) /\ ran' = ran + 1
       ELSE UNCHANGED <<data, ran>>
  /\ pc' = "bind"
  /\ UNCHANGED <<handle, closed, evaluation, pos, stmt, next, live, rows, locked, outcome, left>>

\* execute or execute_collect
Execute ==
  /\ pc = "execute"
  /\ \/ /\ stmt = 0
        /\ pc' = "bind"
        /\ UNCHANGED <<data, stmt, next, live, ran, rows, locked, outcome>>
     \/ /\ stmt # 0 /\ Compiles(script[stmt], data)
        /\ data' = Effect(script[stmt], data)
        /\ rows' = IF next = 0 THEN Collected(script[stmt], data) ELSE rows
        /\ ran' = ran + 1
        /\ pc' = "bind"
        /\ UNCHANGED <<stmt, next, live, locked, outcome>>
     \/ /\ stmt # 0 /\ locked' = Compiles(script[stmt], data)
        /\ Fail
        /\ UNCHANGED <<data, ran, rows>>
  /\ UNCHANGED <<handle, closed, evaluation, pos, left>>

\* bindmany, then the rotation at the end of the loop
Unbound == next # 0 /\ args # <<>> /\ ~Binds(script[next], args)

\* variant: the loop ends when the last statement is compiled
RotateEndsEarly ==
  /\ pc = "bind"
  /\ \/ Unbound /\ Fail
     \/ /\ ~Unbound
        /\ live' = live \ {stmt}
        /\ stmt' = next
        /\ next' = 0
        /\ IF pos = Len(script) THEN pc' = "idle" /\ outcome' = "rows"
                                ELSE pc' = "compile" /\ UNCHANGED outcome
  /\ UNCHANGED <<data, handle, closed, evaluation, pos, ran, rows, locked, left>>

BindAndRotate ==
  /\ pc = "bind"
  /\ \/ Unbound /\ Fail
     \/ /\ ~Unbound
        /\ live' = live \ {stmt}
        /\ stmt' = next
        /\ next' = 0
        /\ IF next = 0 THEN pc' = "idle" /\ outcome' = "rows"
                       ELSE pc' = "compile" /\ UNCHANGED outcome
  /\ UNCHANGED <<data, handle, closed, evaluation, pos, ran, rows, locked, left>>

\* variant: FLAG_CLOSED is not looked at
ClosedbAgain ==
  /\ pc = "idle"
  /\ closed' = TRUE /\ handle' = handle - 1
  /\ UNCHANGED <<data, pc, evaluation, pos, stmt, next, live, ran, rows, locked, outcome, left>>

\* sqlite3/close, and later the collector: both go through closedb
Closedb ==
  /\ pc = "idle"
  /\ IF closed THEN UNCHANGED <<closed, handle>>
               ELSE closed' = TRUE /\ handle' = handle - 1
  /\ UNCHANGED <<data, pc, evaluation, pos, stmt, next, live, ran, rows, locked, outcome, left>>

Arguments == UNION {[1 .. n -> Values] : n \in 0 .. MaxParams}

Next == \/ Open
        \/ \E s \in Scripts, a \in Arguments : Eval(s, a)
        \/ Compile
        \/ Execute
        \/ BindAndRotate
        \/ Closedb

Spec == Init /\ [][Next]_vars

-----------------------------------------------------------------------------
(***************************************************************************)
(* The reference: what the chain of statements means, one statement after  *)
(* the other, each compiled against the schema its predecessors left.      *)
(* After[k] is the content after the first k, and whether all of them      *)
(* worked.                                                                 *)
(***************************************************************************)
Then(r, s) == IF r.fine /\ Compiles(s, r.data) THEN [fine |-> TRUE, data |-> Effect(s, r.data)]
              ELSE [r EXCEPT !.fine = FALSE]

After == LET f[k \in 0 .. Len(script)] ==
               IF k = 0 THEN [fine |-> TRUE, data |-> before] ELSE Then(f[k - 1], script[k])
         IN f

TypeOK ==
  /\ \A t \in Tables : data[t] # Absent =>
       \A i \in DOMAIN data[t] : data[t][i].stored.type \in {"null", "integer", "float", "text", "blob"}
  /\ handle \in 0 .. (MaxEvals + 1)
  /\ closed \in BOOLEAN
  /\ pc \in {"unopened", "idle", "compile", "execute", "bind"}
  /\ pos \in 0 .. Len(script)
  /\ stmt \in 0 .. Len(script) /\ next \in 0 .. Len(script)
  /\ ran \in 0 .. Len(script)
  /\ outcome \in {"none", "rows", "error", "refused"}
  /\ left \in 0 .. MaxEvals

\* Whatever way eval ends, every statement it compiled is finalised: otherwise
\* sqlite3_close_v2 leaves a zombie connection that keeps the file locked.
AllFinalised == pc = "idle" => live = {}

\* At every moment, and so also after an error, the database is what the first ran
\* statements make of it when they are run one after the other: compiling ahead
\* never executes a statement against the wrong schema, twice, or out of order.
RunsInOrder == ran <= Len(script) /\ After[ran] = [fine |-> TRUE, data |-> data]

\* What the caller gets back for a value it bound, case by case: nil, a buffer and,
\* in a column without affinity, a number are the value itself; every text is a
\* string, its kind forgotten; a column of integers makes numbers of texts that
\* spell one, and its numbers keep their lowest 32 bits only; a NaN is nil; true and
\* false are the same number.
Answers(v, aff, r) ==
  /\ v.type \in {"nil", "buffer"} => r = v
  /\ v.type = "nan" => r = Nil
  /\ v.type = "boolean" => r = [type |-> "number", val |-> NaNInt]
  /\ v.type = "number" /\ aff = "none" => r = v
  /\ Text(v) /\ ~(aff = "integer" /\ v.val \in Numerals) => r = [type |-> "string", val |-> v.val]
  /\ aff = "integer" /\ (v.type = "number" \/ (Text(v) /\ v.val \in Numerals)) =>
       /\ r.type = "number" /\ r.val \in -Half .. (Half - 1)
       /\ (r.val + Half) % (2 * Half) = (v.val + Half) % (2 * Half)

\* When eval returns rows, all statements have been executed, and the rows are
\* those of the last statement alone, in the database that its predecessors
\* left: every row of the table, each with what Answers says of the value that was
\* bound when it was inserted, in this eval or in an earlier one.
RowsMeansAll ==
  outcome = "rows" =>
    /\ ran = Len(script)
    /\ ran > 0 /\ script[ran].kind = "select" => Len(rows) = Len(After[ran - 1].data[script[ran].tab])
    /\ \A i \in DOMAIN rows : Answers(rows[i].bound, affinity[script[ran].tab], rows[i].value)

\* A connection is closed once, whatever order sqlite3/close, later evals and the
\* collector come in, and nothing touches the database after that.
ClosedOnce == [][closed => UNCHANGED <<closed, handle, data>>]_vars

\* "Multiple sql statements can be chained together": a chain that works when its
\* statements are run one after the other does not make eval fail.
ChainsRun ==
  outcome = "error" /\ ~locked /\ args = <<>> /\ script # <<>> => ~After[Len(script)].fine
=============================================================================
