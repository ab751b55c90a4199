-------------------------- MODULE SqliteEvalProofs --------------------------
(***************************************************************************)
(* Proofs about SqliteEval, for any tables, scripts, values and bounds.    *)
(*                                                                         *)
(* That every statement is finalised needs to know which ones are compiled *)
(* at every step: Compiled says that they are the ones in stmt and         *)
(* stmt_next, and Rotation how these two move through the script.  That    *)
(* the statements mean what they mean one after the other needs that the   *)
(* reference After satisfies its own equation (AfterDef); that rows hold   *)
(* what was bound needs the same of every row of every table (Stocked).    *)
(***************************************************************************)
EXTENDS SqliteEval, SequenceTheorems, WellFoundedInduction, TLAPS

\* The variables that the loop of sql_eval counts with.
Counters ==
  /\ pc \in {"unopened", "idle", "compile", "execute", "bind"}
  /\ outcome \in {"none", "rows", "error", "refused"}
  /\ script \in Seq(Statements)
  /\ pos \in Nat /\ pos <= Len(script)
  /\ stmt \in Nat /\ next \in Nat /\ ran \in Nat /\ ran <= Len(script)
  /\ left \in Nat /\ left <= MaxEvals

\* What is compiled and not finalised is what stmt and stmt_next hold.
Compiled == live = {stmt, next} \ {0}

\* How the two move through the script: one statement is executed for each that is
\* compiled, and the last one after the loop has found the end.
Rotation ==
  /\ pc \in {"unopened", "idle"} => stmt = 0 /\ next = 0
  /\ pc = "compile" => next = 0 /\ stmt = pos
  /\ pc \in {"execute", "bind"} => \/ next = 0 /\ stmt = pos /\ pos = Len(script)
                                   \/ next = pos /\ stmt + 1 = pos
  /\ pc \in {"compile", "execute"} => IF stmt = 0 THEN ran = 0 ELSE ran + 1 = stmt
  /\ pc = "bind" => ran = stmt
  /\ outcome = "rows" => pc = "idle" /\ ran = Len(script)

\* A closed connection is between evals.
Shut == closed \in BOOLEAN /\ (closed => pc = "idle")

IInv == Counters /\ Compiled /\ Rotation /\ Shut

-----------------------------------------------------------------------------
\* Nothing is compiled before the first eval.
LEMMA InitIInv == Init => IInv
<1> SUFFICES ASSUME Init PROVE IInv
  OBVIOUS
<1>1. <<>> \in Seq(Statements) /\ Len(<<>>) = 0
  BY EmptySeq
<1>2. Counters
  BY <1>1, BoundAssumption DEF Init, Counters
<1>3. Compiled /\ Rotation /\ Shut
  BY DEF Init, Compiled, Rotation, Shut
<1> QED
  BY <1>2, <1>3 DEF IInv

\* The error exit finalises both statements.
LEMMA FailIInv ==
  ASSUME IInv, pc \in {"compile", "execute", "bind"}, Fail,
         UNCHANGED <<script, pos, ran, left, closed>>
  PROVE IInv'
<1>1. Counters'
  BY DEF IInv, Counters, Fail
<1>2. live' = {} /\ Compiled'
  BY DEF IInv, Compiled, Fail
<1>3. Rotation' /\ Shut'
  BY DEF IInv, Rotation, Shut, Fail
<1> QED
  BY <1>1, <1>2, <1>3 DEF IInv

\* Opening, beginning an eval, and closing.
LEMMA OutsideIInv ==
  ASSUME IInv, Open \/ (\E s \in Scripts, a \in Arguments : Eval(s, a)) \/ Closedb
  PROVE IInv'
<1>1. CASE Open
  <2>1. Counters'
    BY <1>1, BoundAssumption DEF IInv, Counters, Open, evaluation
  <2> QED
    BY <1>1, <2>1 DEF IInv, Open, Compiled, Rotation, Shut, evaluation
<1>2. ASSUME NEW s \in Scripts, NEW a \in Arguments, Eval(s, a) PROVE IInv'
  <2>1. s \in Seq(Statements) /\ Len(s) \in Nat
    BY ScriptAssumption, LenProperties
  <2>2. Counters'
    BY <1>2, <2>1, BoundAssumption DEF IInv, Counters, Eval
  <2> QED
    BY <1>2, <2>2 DEF IInv, Eval, Compiled, Rotation, Shut
<1>3. CASE Closedb
  <2>1. Counters'
    BY <1>3 DEF IInv, Counters, Closedb, evaluation
  <2> QED
    BY <1>3, <2>1 DEF IInv, Closedb, Compiled, Rotation, Shut, evaluation
<1> QED
  BY <1>1, <1>2, <1>3

\* sqlite3_prepare_v2: the next statement, the end of the string, or an error.
LEMMA CompileIInv == ASSUME IInv, Compile PROVE IInv'
<1> USE DEF evaluation
<1>1. Len(script) \in Nat
  BY LenProperties DEF IInv, Counters
<1>2. CASE pos = Len(script) /\ pc' = "execute" /\ UNCHANGED <<pos, stmt, next, live, outcome>>
  <2>1. Counters'
    BY <1>2 DEF IInv, Counters, Compile
  <2> QED
    BY <1>2, <2>1 DEF IInv, Compile, Compiled, Rotation, Shut
<1>3. CASE /\ pos < Len(script) /\ next' = pos + 1 /\ live' = live \cup {pos + 1}
           /\ pos' = pos + 1 /\ pc' = "execute" /\ UNCHANGED <<stmt, outcome>>
  <2>1. Counters'
    BY <1>1, <1>3 DEF IInv, Counters, Compile
  <2>2. Compiled'
    BY <1>3 DEF IInv, Counters, Compile, Compiled, Rotation
  <2> QED
    BY <1>3, <2>1, <2>2 DEF IInv, Compile, Rotation, Shut
<1>4. CASE Fail /\ UNCHANGED pos
  BY <1>4, FailIInv DEF Compile
<1> QED
  BY <1>2, <1>3, <1>4 DEF Compile

\* sqlite3_step, to the end of the statement or to an error.
LEMMA ExecuteIInv == ASSUME IInv, Execute PROVE IInv'
<1> USE DEF evaluation
<1>1. Len(script) \in Nat
  BY LenProperties DEF IInv, Counters
<1>2. CASE stmt = 0 /\ pc' = "bind" /\ UNCHANGED <<stmt, next, live, ran, outcome>>
  <2>1. Counters'
    BY <1>2 DEF IInv, Counters, Execute
  <2> QED
    BY <1>2, <2>1 DEF IInv, Execute, Compiled, Rotation, Shut
<1>3. CASE stmt # 0 /\ ran' = ran + 1 /\ pc' = "bind" /\ UNCHANGED <<stmt, next, live, outcome>>
  <2>1. Counters'
    BY <1>1, <1>3 DEF IInv, Counters, Execute, Rotation
  <2> QED
    BY <1>3, <2>1 DEF IInv, Execute, Compiled, Rotation, Shut
<1>4. CASE Fail /\ UNCHANGED ran
  BY <1>4, FailIInv DEF Execute
<1> QED
  BY <1>2, <1>3, <1>4 DEF Execute

\* bindmany and the rotation.
LEMMA RotateIInv == ASSUME IInv, BindAndRotate PROVE IInv'
<1> USE DEF evaluation
<1>1. Len(script) \in Nat
  BY LenProperties DEF IInv, Counters
<1>2. CASE Fail
  BY <1>2, FailIInv DEF BindAndRotate
<1>3. CASE /\ live' = live \ {stmt} /\ stmt' = next /\ next' = 0
           /\ IF next = 0 THEN pc' = "idle" /\ outcome' = "rows"
                          ELSE pc' = "compile" /\ UNCHANGED outcome
  <2>1. Counters'
    BY <1>3 DEF IInv, Counters, BindAndRotate
  <2>2. Compiled'
    BY <1>3 DEF IInv, Counters, BindAndRotate, Compiled, Rotation
  <2>3. Rotation'
    BY <1>1, <1>3 DEF IInv, Counters, BindAndRotate, Rotation
  <2> QED
    BY <1>3, <2>1, <2>2, <2>3 DEF IInv, BindAndRotate, Shut
<1> QED
  BY <1>2, <1>3 DEF BindAndRotate

\* The invariant is inductive.
LEMMA NextIInv == IInv /\ [Next]_vars => IInv'
<1> SUFFICES ASSUME IInv, [Next]_vars PROVE IInv'
  OBVIOUS
<1>1. CASE UNCHANGED vars
  BY <1>1 DEF vars, evaluation, IInv, Counters, Compiled, Rotation, Shut
<1>2. CASE Next
  BY <1>2, OutsideIInv, CompileIInv, ExecuteIInv, RotateIInv DEF Next
<1> QED
  BY <1>1, <1>2

\* The inductive invariant of the loop of sql_eval.
THEOREM EvalInvariance == Spec => []IInv
BY InitIInv, NextIInv, PTL DEF Spec

\* Every way out of sql_eval leaves no statement compiled, for scripts of any length
\* and any number of evals.
THEOREM EvalFinalises == Spec => []AllFinalised
<1>1. IInv => AllFinalised
  BY DEF IInv, Compiled, Rotation, AllFinalised
<1> QED
  BY <1>1, EvalInvariance, PTL

\* A connection is closed once, and nothing touches the database after that, for any
\* order of close, evals and collection.
THEOREM ClosesOnce == Spec => ClosedOnce
<1>1. IInv /\ [Next]_vars => [closed => UNCHANGED <<closed, handle, data>>]_vars
  <2> SUFFICES ASSUME IInv, Next, closed PROVE UNCHANGED <<closed, handle, data>>
    OBVIOUS
  <2>1. pc = "idle"
    BY DEF IInv, Shut
  <2> QED
    BY <2>1 DEF Next, Open, Eval, Compile, Execute, BindAndRotate, Closedb
<1> QED
  BY <1>1, EvalInvariance, PTL DEF Spec, ClosedOnce

-----------------------------------------------------------------------------
(***************************************************************************)
(* Types.  What a table holds has one of SQLite's types because a value is *)
(* bound before its statement is stepped, and bind1 refuses the others.    *)
(***************************************************************************)
SqlTypes == {"null", "integer", "float", "text", "blob"}

\* The values that bind1 takes, and the rows they make.
Plain == {v \in Values \cup {Nil} : Bindable(v)}
Lines(aff) == {[bound |-> v, stored |-> Stored(v, aff)] : v \in Plain}

\* Every row holds what was bound for it.
Stocked ==
  /\ affinity \in [Tables -> {"integer", "none"}]
  /\ data = [t \in Tables |-> data[t]]
  /\ \A t \in Tables : data[t] # Absent => data[t] \in Seq(Lines(affinity[t]))

\* The statement to be executed has its parameters.
Bound ==
  /\ args \in Seq(Values)
  /\ stmt # 0 => args = <<>> \/ Binds(script[stmt], args)

\* One handle is open between open and close; the others were left by failed opens.
Handles ==
  /\ handle \in Nat
  /\ pc = "unopened" => handle + left <= MaxEvals
  /\ handle <= MaxEvals + 1
  /\ pc # "unopened" /\ ~closed => handle > 0

TInv == Stocked /\ Bound /\ Handles

\* What SQLite stores for a value has one of its types.
LEMMA CellTypes ==
  ASSUME NEW v \in Plain, NEW aff \in {"integer", "none"}
  PROVE Stored(v, aff).type \in SqlTypes
<1>1. v.type \in {"nil", "boolean", "number", "nan", "string", "keyword", "symbol", "buffer"}
  BY ValueAssumption DEF Plain, Bindable, Nil
<1> QED
  BY <1>1 DEF Stored, SqlTypes, Text

\* The parameters of a call are a sequence.
LEMMA ArgumentSeq == Arguments \subseteq Seq(Values)
<1> SUFFICES ASSUME NEW n \in 0 .. MaxParams, NEW a \in [1 .. n -> Values]
             PROVE a \in Seq(Values)
  BY DEF Arguments
<1>1. n \in Nat
  BY BoundAssumption
<1> QED
  BY <1>1, SeqDef

\* The statement that is current or compiled ahead is one of the script.
LEMMA StatementInScript ==
  ASSUME IInv, NEW k \in {stmt, next}, k # 0, pc \in {"execute", "bind"}
  PROVE script[k] \in Statements
<1>1. Len(script) \in Nat /\ k \in 1 .. Len(script)
  BY LenProperties DEF IInv, Counters, Rotation
<1> QED
  BY <1>1, LenProperties DEF IInv, Counters

\* A statement that is stepped with its parameters bound leaves rows of known types.
LEMMA EffectStocked ==
  ASSUME IInv, TInv, pc = "execute", stmt # 0, Compiles(script[stmt], data),
         data' = Effect(script[stmt], data), UNCHANGED affinity
  PROVE Stocked'
<1> DEFINE s == script[stmt]
<1>1. s \in Statements
  BY StatementInScript
<1>2. s.tab \in Tables /\ s.kind \in {"create", "drop", "insert", "select"}
  BY <1>1 DEF Statements
<1>3. Inserted(s) \in Plain
  <2>1. CASE s.params = 0 \/ args = <<>>
    BY <2>1 DEF Inserted, Plain, Nil, Bindable
  <2>2. CASE ~(s.params = 0 \/ args = <<>>)
    <3>1. 1 \in DOMAIN args /\ args[1] \in Values
      BY <2>2, EmptySeq, LenProperties DEF TInv, Bound
    <3>2. Bindable(args[1])
      BY <2>2, <3>1 DEF TInv, Bound, Binds
    <3> QED
      BY <2>2, <3>1, <3>2 DEF Inserted, Plain
  <2> QED
    BY <2>1, <2>2
<1> DEFINE row == [bound |-> Inserted(s), stored |-> Stored(Inserted(s), affinity[s.tab])]
           new == CASE s.kind = "create" -> <<>>
                    [] s.kind = "drop" -> Absent
                    [] s.kind = "insert" -> Append(data[s.tab], row)
                    [] s.kind = "select" -> data[s.tab]
<1>4. row \in Lines(affinity[s.tab])
  BY <1>3 DEF Lines
<1> HIDE DEF row
<1>5. s.kind \in {"insert", "select"} => data[s.tab] \in Seq(Lines(affinity[s.tab]))
  BY <1>2 DEF Compiles, TInv, Stocked
<1>6. new # Absent => new \in Seq(Lines(affinity[s.tab]))
  BY <1>2, <1>4, <1>5, EmptySeq, AppendProperties
<1>7. data' = [data EXCEPT ![s.tab] = new]
  BY DEF Effect, row
<1> HIDE DEF new, s
<1> QED
  BY <1>2, <1>6, <1>7 DEF TInv, Stocked

\* Types survive every step.
LEMMA NextTInv == IInv /\ TInv /\ [Next]_vars => TInv'
<1> SUFFICES ASSUME IInv, TInv, [Next]_vars PROVE TInv'
  OBVIOUS
<1> USE BoundAssumption DEF evaluation
<1>1. left \in Nat /\ left <= MaxEvals
  BY DEF IInv, Counters
<1>2. CASE UNCHANGED vars
  BY <1>2 DEF vars, TInv, Stocked, Bound, Handles
<1>3. CASE Open
  <2>1. Stocked' /\ Bound'
    BY <1>3 DEF Open, TInv, Stocked, Bound
  <2>2. Handles'
    BY <1>1, <1>3 DEF Open, TInv, Handles
  <2> QED
    BY <2>1, <2>2 DEF TInv
<1>4. ASSUME NEW s \in Scripts, NEW a \in Arguments, Eval(s, a) PROVE TInv'
  <2>1. Stocked'
    BY <1>4 DEF Eval, TInv, Stocked
  <2>2. Bound'
    BY <1>4, ArgumentSeq DEF Eval, IInv, Rotation, Bound
  <2>3. Handles'
    BY <1>1, <1>4 DEF Eval, TInv, Handles
  <2> QED
    BY <2>1, <2>2, <2>3 DEF TInv
<1>5. CASE Compile
  <2>1. Stocked' /\ Handles'
    BY <1>5 DEF Compile, Fail, TInv, Stocked, Handles
  <2>2. Bound'
    BY <1>5 DEF Compile, Fail, TInv, Bound
  <2> QED
    BY <2>1, <2>2 DEF TInv
<1>6. CASE Execute
  <2>1. Bound' /\ Handles'
    BY <1>6 DEF Execute, Fail, TInv, Bound, Handles
  <2>2. Stocked'
    <3>1. CASE UNCHANGED data
      BY <1>6, <3>1 DEF Execute, TInv, Stocked
    <3>2. CASE data' # data
      BY <1>6, <3>2, EffectStocked DEF Execute
    <3> QED
      BY <3>1, <3>2
  <2> QED
    BY <2>1, <2>2 DEF TInv
<1>7. CASE BindAndRotate
  <2>1. Stocked' /\ Handles'
    BY <1>7 DEF BindAndRotate, Fail, TInv, Stocked, Handles
  <2>2. Bound'
    BY <1>7 DEF BindAndRotate, Fail, Unbound, TInv, Bound
  <2> QED
    BY <2>1, <2>2 DEF TInv
<1>8. CASE Closedb
  <2>1. Stocked' /\ Bound'
    BY <1>8 DEF Closedb, TInv, Stocked, Bound
  <2>2. Handles'
    BY <1>1, <1>8 DEF Closedb, IInv, Shut, TInv, Handles
  <2> QED
    BY <2>1, <2>2 DEF TInv
<1> QED
  BY <1>2, <1>3, <1>4, <1>5, <1>6, <1>7, <1>8 DEF Next

\* Types hold at the start.
LEMMA InitTInv == Init => TInv
<1> SUFFICES ASSUME Init PROVE TInv
  OBVIOUS
<1>1. (\A t \in Tables : <<>> \in Seq(Lines(affinity[t]))) /\ <<>> \in Seq(Values)
  BY EmptySeq
<1>2. Stocked
  BY <1>1 DEF Init, Stocked
<1>3. Bound /\ Handles
  BY <1>1, BoundAssumption DEF Init, Bound, Handles
<1> QED
  BY <1>2, <1>3 DEF TInv

\* The variables keep their types: a value of a type that SQLite does not know never
\* reaches a table, and handles are counted right.
THEOREM EvalTypeCorrect == Spec => []TypeOK
<1>2. IInv /\ TInv => TypeOK
  <2> SUFFICES ASSUME IInv, TInv PROVE TypeOK
    OBVIOUS
  <2>1. ASSUME NEW t \in Tables, data[t] # Absent, NEW i \in DOMAIN data[t]
        PROVE data[t][i].stored.type \in SqlTypes
    <3>1. data[t] \in Seq(Lines(affinity[t])) /\ affinity[t] \in {"integer", "none"}
      BY <2>1 DEF TInv, Stocked
    <3>2. data[t][i] \in Lines(affinity[t])
      BY <3>1, LenProperties
    <3> QED
      BY <3>1, <3>2, CellTypes DEF Lines
  <2>2. Len(script) \in Nat
    BY LenProperties DEF IInv, Counters
  <2>3. stmt <= Len(script) /\ next <= Len(script)
    BY <2>2 DEF IInv, Counters, Rotation
  <2> QED
    BY <2>1, <2>2, <2>3, BoundAssumption DEF TypeOK, SqlTypes, IInv, Counters, Shut, TInv, Handles
<1> QED
  BY <1>2, InitTInv, NextTInv, EvalInvariance, PTL DEF Spec

-----------------------------------------------------------------------------
(***************************************************************************)
(* The reference.  A function that a recursive equation defines is there   *)
(* only if the equation has a solution; for scripts it has one, of every   *)
(* length: if there were a shortest prefix without, the solution for the   *)
(* prefix before it could be continued.                                    *)
(***************************************************************************)
Start == [fine |-> TRUE, data |-> before]

\* After satisfies the equation that defines it.
LEMMA AfterDef ==
  script \in Seq(Statements) =>
    After = [k \in 0 .. Len(script) |-> IF k = 0 THEN Start ELSE Then(After[k - 1], script[k])]
<1> SUFFICES ASSUME script \in Seq(Statements)
             PROVE After = [k \in 0 .. Len(script) |-> IF k = 0 THEN Start ELSE Then(After[k - 1], script[k])]
  OBVIOUS
<1> DEFINE Solves(f, n) == f = [k \in 0 .. n |-> IF k = 0 THEN Start ELSE Then(f[k - 1], script[k])]
           None == {n \in Nat : ~\E f : Solves(f, n)}
<1>1. Len(script) \in Nat
  BY LenProperties
<1>2. \E f : Solves(f, 0)
  <2>1. Solves([k \in 0 .. 0 |-> Start], 0)
    OBVIOUS
  <2> QED
    BY <2>1
<1>3. ASSUME NEW n \in Nat, \E g : Solves(g, n) PROVE \E f : Solves(f, n + 1)
  <2>1. PICK g : Solves(g, n)
    BY <1>3
  <2> DEFINE f == [k \in 0 .. n + 1 |-> IF k = n + 1 THEN Then(g[n], script[n + 1]) ELSE g[k]]
  <2>2. ASSUME NEW k \in 0 .. n + 1
        PROVE f[k] = IF k = 0 THEN Start ELSE Then(f[k - 1], script[k])
    <3>1. CASE k = 0
      BY <2>1, <3>1
    <3>2. CASE k \in 1 .. n
      BY <2>1, <3>2
    <3>3. CASE k = n + 1
      BY <3>3
    <3> QED
      BY <3>1, <3>2, <3>3
  <2>3. Solves(f, n + 1)
    BY <2>2
  <2> QED
    BY <2>3
<1>4. None = {}
  <2> SUFFICES ASSUME None # {} PROVE FALSE
    OBVIOUS
  <2>1. PICK n \in None : \A m \in None : <<m, n>> \notin OpToRel(<, Nat)
    <3>1. None \subseteq Nat
      OBVIOUS
    <3> HIDE DEF None
    <3> QED
      BY <3>1, NatLessThanWellFounded, WFMin
  <2>2. n \in Nat /\ n # 0 /\ ~\E f : Solves(f, n)
    BY <1>2
  <2>3. n - 1 \in Nat /\ n - 1 \notin None
    <3>1. n - 1 \in Nat /\ n - 1 < n
      BY <2>2
    <3>2. <<n - 1, n>> \in OpToRel(<, Nat)
      BY <2>2, <3>1 DEF OpToRel
    <3> HIDE DEF None
    <3> QED
      BY <2>1, <3>1, <3>2
  <2> HIDE DEF Solves
  <2>4. \E g : Solves(g, n - 1)
    BY <2>3
  <2> QED
    BY <1>3, <2>2, <2>3, <2>4
<1>5. \E f : Solves(f, Len(script))
  BY <1>1, <1>4
<1> QED
  BY <1>5 DEF After, Start

\* What the last statement returned: the rows of its table, each with what was bound.
Gathered ==
  /\ ran = 0 => rows = <<>>
  /\ ran > 0 =>
       LET s == script[ran]
           aff == affinity[s.tab]
       IN /\ s.kind # "select" => rows = <<>>
          /\ s.kind = "select" => Len(rows) = Len(After[ran - 1].data[s.tab])
          /\ \A i \in DOMAIN rows : \E v \in Plain : rows[i] = [bound |-> v, value |-> Column(Stored(v, aff))]

\* The database is what the reference says, and rows are filled by the last statement only.
Track ==
  /\ After[ran] = [fine |-> TRUE, data |-> data]
  /\ pc \in {"compile", "execute"} \/ (pc = "bind" /\ next # 0) => rows = <<>>
  /\ (pc = "bind" /\ next = 0) \/ outcome = "rows" => Gathered

\* While one eval lasts the reference stays, and it starts with what eval found.
LEMMA AfterStarts == script \in Seq(Statements) => After[0] = Start
<1> SUFFICES ASSUME script \in Seq(Statements) PROVE After[0] = Start
  OBVIOUS
<1>1. 0 \in 0 .. Len(script)
  BY LenProperties
<1> QED
  BY <1>1, AfterDef

\* Each step of the reference runs one statement.
LEMMA AfterSteps ==
  ASSUME IInv, NEW k \in Nat, k < Len(script)
  PROVE After[k + 1] = Then(After[k], script[k + 1])
<1>1. script \in Seq(Statements) /\ Len(script) \in Nat
  BY LenProperties DEF IInv, Counters
<1>2. k + 1 \in 0 .. Len(script) /\ k + 1 # 0 /\ (k + 1) - 1 = k
  BY <1>1
<1> QED
  BY <1>1, <1>2, AfterDef

\* The rows of a select, from a table that holds what was bound.
LEMMA Collects ==
  ASSUME IInv, TInv, pc = "execute", stmt # 0, Compiles(script[stmt], data)
  PROVE LET s == script[stmt]
            c == Collected(s, data)
        IN /\ s.kind # "select" => c = <<>>
           /\ s.kind = "select" => Len(c) = Len(data[s.tab])
           /\ \A i \in DOMAIN c : \E v \in Plain :
                c[i] = [bound |-> v, value |-> Column(Stored(v, affinity[s.tab]))]
<1> DEFINE s == script[stmt]
<1>1. s \in Statements /\ s.tab \in Tables
  BY StatementInScript DEF Statements
<1>2. CASE s.kind # "select"
  BY <1>2 DEF Collected
<1>3. CASE s.kind = "select"
  <2> DEFINE rs == data[s.tab]
             c == Collected(s, data)
  <2>1. rs \in Seq(Lines(affinity[s.tab]))
    BY <1>1, <1>3 DEF Compiles, TInv, Stocked
  <2>2. Len(rs) \in Nat /\ DOMAIN rs = 1 .. Len(rs) /\ \A i \in DOMAIN rs : rs[i] \in Lines(affinity[s.tab])
    BY <2>1, LenProperties
  <2>3. c = [i \in 1 .. Len(rs) |-> [bound |-> rs[i].bound, value |-> Column(rs[i].stored)]]
    BY <1>3, <2>2 DEF Collected
  <2>4. Len(c) = Len(rs) /\ DOMAIN c = 1 .. Len(rs)
    BY <2>2, <2>3
  <2>5. ASSUME NEW i \in DOMAIN c
        PROVE \E v \in Plain : c[i] = [bound |-> v, value |-> Column(Stored(v, affinity[s.tab]))]
    <3>1. PICK v \in Plain : rs[i] = [bound |-> v, stored |-> Stored(v, affinity[s.tab])]
      BY <2>2, <2>4, <2>5 DEF Lines
    <3> QED
      BY <2>3, <2>4, <3>1
  <2> QED
    BY <1>3, <2>4, <2>5
<1> QED
  BY <1>2, <1>3

\* A statement is stepped to its end: the reference runs it too.
LEMMA ExecutesTrack ==
  ASSUME IInv, TInv, Track, Execute, stmt # 0, ran' = ran + 1
  PROVE Track'
<1> USE DEF evaluation
<1>1. /\ pc = "execute" /\ pc' = "bind" /\ Compiles(script[stmt], data)
      /\ data' = Effect(script[stmt], data)
      /\ rows' = IF next = 0 THEN Collected(script[stmt], data) ELSE rows
      /\ UNCHANGED <<affinity, script, args, before, next, outcome>>
  BY DEF Execute, IInv, Counters
<1>2. ran \in Nat /\ stmt = ran + 1 /\ ran < Len(script) /\ Len(script) \in Nat
  BY <1>1, LenProperties DEF IInv, Counters, Rotation
<1>3. After[ran] = [fine |-> TRUE, data |-> data] /\ rows = <<>> /\ outcome # "rows"
  BY <1>1 DEF Track, IInv, Rotation
<1>4. After' = After
  BY <1>1 DEF After, Then, Effect, Inserted, Stored, Text, Compiles
<1>5. After[ran + 1] = [fine |-> TRUE, data |-> data']
  <2>1. After[ran + 1] = Then(After[ran], script[ran + 1])
    BY <1>2, AfterSteps
  <2> QED
    BY <1>1, <1>2, <1>3, <2>1 DEF Then
<1>6. next = 0 => Gathered'
  <2> SUFFICES ASSUME next = 0 PROVE Gathered'
    OBVIOUS
  <2>1. rows' = Collected(script[stmt], data) /\ (ran + 1) - 1 = ran
    BY <1>1, <1>2
  <2> QED
    BY <1>1, <1>2, <1>3, <1>4, <2>1, Collects DEF Gathered
<1> QED
  BY <1>1, <1>3, <1>4, <1>5, <1>6 DEF Track

\* The reference follows every step.
LEMMA NextTrack == IInv /\ TInv /\ Track /\ [Next]_vars => Track'
<1> SUFFICES ASSUME IInv, TInv, Track, [Next]_vars PROVE Track'
  OBVIOUS
<1> USE DEF evaluation
<1>1. IInv'
  BY NextIInv
<1>2. ASSUME UNCHANGED <<evaluation, data, ran, rows>> PROVE After' = After /\ Gathered' = Gathered
  BY <1>2 DEF After, Then, Effect, Inserted, Stored, Text, Compiles, Gathered
<1>3. CASE UNCHANGED vars
  BY <1>2, <1>3 DEF vars, Track
<1>4. CASE Open \/ Closedb
  BY <1>2, <1>4 DEF Open, Closedb, Track
<1>5. ASSUME NEW s \in Scripts, NEW a \in Arguments, Eval(s, a) PROVE Track'
  <2>1. script' \in Seq(Statements) /\ ran' = 0 /\ rows' = <<>> /\ before' = data /\ data' = data
        /\ outcome' # "rows" /\ (pc' = pc \/ pc' = "compile") /\ pc = "idle"
    BY <1>5, ScriptAssumption DEF Eval
  <2>2. (script \in Seq(Statements) => After[0] = Start)'
    BY AfterStarts, PTL
  <2> QED
    BY <2>1, <2>2 DEF Track, Start
<1>6. CASE Compile
  BY <1>2, <1>6 DEF Compile, Fail, Track, IInv, Rotation
<1>7. CASE Execute
  <2>1. CASE stmt = 0
    <3>1. UNCHANGED <<evaluation, data, ran, rows, next, outcome>> /\ pc' = "bind" /\ pc = "execute"
      BY <1>7, <2>1 DEF Execute
    <3>2. Gathered
      BY <2>1, <3>1 DEF Gathered, IInv, Rotation, Track
    <3> QED
      BY <1>2, <3>1, <3>2 DEF Track
  <2>2. CASE stmt # 0 /\ ran' = ran + 1
    BY <1>7, <2>2, ExecutesTrack
  <2>3. CASE Fail /\ UNCHANGED <<data, ran, rows>>
    BY <1>2, <1>7, <2>3 DEF Execute, Fail, Track, IInv, Rotation
  <2> QED
    BY <1>7, <2>1, <2>2, <2>3 DEF Execute
<1>8. CASE BindAndRotate
  <2>1. pc = "bind" /\ UNCHANGED <<evaluation, data, ran, rows>>
    BY <1>8 DEF BindAndRotate
  <2>2. CASE Fail
    BY <1>2, <2>1, <2>2 DEF Fail, Track, IInv, Rotation
  <2>3. CASE next = 0 /\ pc' = "idle" /\ outcome' = "rows"
    BY <1>2, <2>1, <2>3 DEF Track
  <2>4. CASE next # 0 /\ pc' = "compile" /\ outcome' = outcome
    BY <1>2, <2>1, <2>4 DEF Track, IInv, Rotation
  <2> QED
    BY <1>8, <2>2, <2>3, <2>4 DEF BindAndRotate
<1> QED
  BY <1>3, <1>4, <1>5, <1>6, <1>7, <1>8 DEF Next

\* The invariants of the loop, of the types and of the reference together.
LEMMA TrackInvariance == Spec => [](IInv /\ TInv /\ Track)
<1>1. Init => IInv /\ TInv /\ Track
  <2> SUFFICES ASSUME Init PROVE IInv /\ TInv /\ Track
    OBVIOUS
  <2>1. IInv /\ TInv
    BY InitIInv, InitTInv
  <2>2. After[0] = Start
    BY <2>1, AfterStarts DEF IInv, Counters
  <2> QED
    BY <2>1, <2>2 DEF Init, Track, Start
<1> QED
  BY <1>1, NextIInv, NextTInv, NextTrack, PTL DEF Spec

\* At every moment the database is what the first ran statements make of it when they
\* are run one after the other: compiling ahead never runs a statement against the
\* wrong schema, twice or out of order, for scripts of any length.
THEOREM EvalInOrder == Spec => []RunsInOrder
<1>1. IInv /\ Track => RunsInOrder
  BY DEF IInv, Counters, Track, RunsInOrder
<1> QED
  BY <1>1, TrackInvariance, PTL

\* Reading a 64-bit integer as an int keeps an int, and keeps it as it is if it was one.
LEMMA IntKept ==
  ASSUME NEW n \in Int
  PROVE /\ AsInt(n) \in -Half .. (Half - 1)
        /\ (AsInt(n) + Half) % (2 * Half) = (n + Half) % (2 * Half)
        /\ n \in -Half .. (Half - 1) => AsInt(n) = n
<1> DEFINE w == 2 * Half
           x == n + Half
<1>1. Half \in Nat \ {0} /\ w \in Nat \ {0} /\ x \in Int
  BY WidthAssumption
<1> HIDE DEF w, x
<1>2. x % w \in 0 .. (w - 1)
  BY <1>1
<1>3. (x % w) % w = x % w
  BY <1>1, <1>2
<1>4. AsInt(n) = (x % w) - Half
  BY DEF AsInt, w, x
<1>5. AsInt(n) + Half = x % w
  BY <1>1, <1>2, <1>4
<1>6. AsInt(n) \in -Half .. (Half - 1)
  BY <1>1, <1>2, <1>4 DEF w
<1>7. ASSUME n \in -Half .. (Half - 1) PROVE AsInt(n) = n
  <2>1. x \in 0 .. (w - 1)
    BY <1>1, <1>7 DEF w, x
  <2>2. x % w = x
    BY <1>1, <2>1
  <2> QED
    BY <1>1, <1>4, <2>2 DEF x
<1> QED
  BY <1>3, <1>5, <1>6, <1>7 DEF w, x

\* What comes back for a value that was bound, whatever the column.
LEMMA ComesBack ==
  ASSUME NEW v \in Plain, NEW aff \in {"integer", "none"}
  PROVE Answers(v, aff, Column(Stored(v, aff)))
<1>1. /\ v.type \in {"nil", "boolean", "number", "nan", "string", "keyword", "symbol", "buffer"}
      /\ v = [type |-> v.type, val |-> v.val]
      /\ v.type = "nil" => v.val = 0
      /\ v.type = "number" => v.val \in Int
  BY ValueAssumption DEF Plain, Bindable, Nil
<1>2. CASE v.type \in {"nil", "nan", "buffer"}
  BY <1>1, <1>2 DEF Stored, Column, Nil, Text, Answers
<1>3. CASE v.type = "boolean"
  <2>1. NaNInt \in Int /\ AsInt(NaNInt) = NaNInt
    BY WidthAssumption, IntKept
  <2> QED
    BY <1>3, <2>1 DEF Stored, Column, Text, Answers
<1>4. CASE v.type = "number"
  <2>1. CASE aff = "integer"
    <3>1. Column(Stored(v, aff)) = [type |-> "number", val |-> AsInt(v.val)]
      BY <1>4, <2>1 DEF Stored, Column, Text
    <3> QED
      BY <1>1, <1>4, <2>1, <3>1, IntKept DEF Text, Answers
  <2>2. CASE aff = "none"
    BY <1>1, <1>4, <2>2 DEF Stored, Column, Text, Answers
  <2> QED
    BY <2>1, <2>2
<1>5. CASE Text(v)
  <2>1. CASE aff = "integer" /\ v.val \in Numerals
    <3>1. Column(Stored(v, aff)) = [type |-> "number", val |-> AsInt(v.val)]
      BY <1>5, <2>1 DEF Stored, Column, Text
    <3>2. v.val \in Int
      BY <2>1, NumeralAssumption
    <3> QED
      BY <1>5, <2>1, <3>1, <3>2, IntKept DEF Text, Answers
  <2>2. CASE ~(aff = "integer" /\ v.val \in Numerals)
    BY <1>5, <2>2 DEF Stored, Column, Text, Answers
  <2> QED
    BY <2>1, <2>2
<1> QED
  BY <1>1, <1>2, <1>3, <1>4, <1>5 DEF Text

\* When eval returns rows, all statements were executed, the rows are those of the last
\* one in the database its predecessors left, and every value is what bind1, the column
\* and execute_collect together make of the one that was bound (Answers), for scripts of
\* any length, any values and any width of an int.
THEOREM EvalRows == Spec => []RowsMeansAll
<1>1. IInv /\ TInv /\ Track => RowsMeansAll
  <2> SUFFICES ASSUME IInv, TInv, Track, outcome = "rows" PROVE RowsMeansAll
    BY DEF RowsMeansAll
  <2>1. ran = Len(script) /\ Len(script) \in Nat /\ Gathered
    BY LenProperties DEF IInv, Counters, Rotation, Track
  <2>2. ran > 0 /\ script[ran].kind = "select" => Len(rows) = Len(After[ran - 1].data[script[ran].tab])
    BY <2>1 DEF Gathered
  <2>3. ASSUME NEW i \in DOMAIN rows
        PROVE Answers(rows[i].bound, affinity[script[ran].tab], rows[i].value)
    <3>1. ran > 0
      BY <2>1, <2>3, EmptySeq DEF Gathered
    <3>2. script[ran] \in Statements
      BY <2>1, <3>1, LenProperties DEF IInv, Counters
    <3> DEFINE aff == affinity[script[ran].tab]
    <3>3. aff \in {"integer", "none"}
      BY <3>2 DEF Statements, TInv, Stocked
    <3>4. PICK v \in Plain : rows[i] = [bound |-> v, value |-> Column(Stored(v, aff))]
      BY <2>1, <2>3, <3>1 DEF Gathered
    <3>5. Answers(v, aff, Column(Stored(v, aff)))
      BY <3>3, ComesBack
    <3> QED
      BY <3>4, <3>5
  <2> QED
    BY <2>1, <2>2, <2>3 DEF RowsMeansAll
<1> QED
  BY <1>1, TrackInvariance, PTL
=============================================================================
