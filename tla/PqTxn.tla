------------------------------- MODULE PqTxn --------------------------------
(***************************************************************************)
(* Transactions of the PostgreSQL binding: txn* of lib/pq.janet over the   *)
(* connection that src/janet-pq/pq.c keeps.                                *)
(*                                                                         *)
(* txn* sends "begin", runs the body in a fiber that hands user signals    *)
(* back to it (pq/commit and pq/rollback are such signals), and ends with  *)
(* "commit" or "rollback"; an error goes to its try handler, which runs    *)
(* the whole of txn* again or rolls back and re-raises.  The body is any   *)
(* sequence of statements that succeed or fail, caught errors, raises,     *)
(* signals, closing the connection, and further txn* calls on the same     *)
(* connection; a signal that the fiber does not mask leaves txn* as it is. *)
(* The server is not part of the repository: what it answers is modelled   *)
(* from how txn* reads the answers (error? and SQLSTATE), and the          *)
(* connection may be lost at every exchange, at a commit with the outcome  *)
(* unknown to the client.                                                  *)
(***************************************************************************)
EXTENDS Naturals, Sequences

CONSTANTS
  Retry,         \* the :retry option
  MaxStmts,      \* bound: statements that succeed, over a whole behaviour
  MaxFails,      \* bound: failed statements and conflicts the server reports
  MaxTxns,       \* bound: top-level txn calls
  MaxDepth       \* bound: txn calls nested in one another on one connection

ASSUME RetryAssumption == Retry \in BOOLEAN
ASSUME BoundsAssumption == {MaxStmts, MaxFails, MaxTxns, MaxDepth} \subseteq Nat

VARIABLES
  db,       \* the connection and the server's side of it
  stack,    \* the txn* calls in progress, the innermost last
  last,     \* how the latest top-level txn ended
  retried,  \* the statements of attempts (without nested txn*) that a retry replaced
  stmts,    \* statements sent so far that succeeded
  fails,    \* failures the server may still report
  txns      \* top-level calls still to be made

vars == <<db, stack, last, retried, stmts, fails, txns>>

Stmts == 1 .. MaxStmts
\* "lost": no connection, or it broke under a statement, a begin or a rollback;
\* "torn": it broke under a commit
Errors == {"40001", "25P02", "other", "user", "lost", "torn"}
Ends == {"value", "rolled", "signalled", "raised", "left"}
Pcs == {"begin", "body", "commit", "rollback", "abort", "catch"}

(***************************************************************************)
(* The server's answers: sets of <<result, state after>>.  conn is PQstatus *)
(* (or "closed": pq/close set ctx->conn to NULL), trans is                 *)
(* PQtransactionStatus, work the statements of the open transaction, saved *)
(* the ones that are durable.                                              *)
(***************************************************************************)
Db == [conn : {"ok", "bad", "closed"}, trans : {"idle", "intrans", "inerror"},
       work : SUBSET Stmts, saved : SUBSET Stmts]

Idle(d) == [d EXCEPT !.trans = "idle", !.work = {}]
Failed(d) == [d EXCEPT !.trans = "inerror", !.work = {}]
Cut(d) == [Idle(d) EXCEPT !.conn = "bad"]
Durable(d) == [d EXCEPT !.saved = @ \cup d.work]

\* _pq/exec on a connection that is gone gives an error that has no SQLSTATE
Exec(d, replies) == IF d.conn # "ok" THEN {<<"lost", d>>}
                                     ELSE replies \cup {<<"lost", Cut(d)>>}

\* "begin" inside a transaction is only a warning; it may fail by its :mode
Begin(d) == Exec(d, IF d.trans = "inerror" THEN {<<"25P02", d>>}
                    ELSE {<<"done", [d EXCEPT !.trans = "intrans"]>>,
                          <<"other", IF d.trans = "idle" THEN d ELSE Failed(d)>>})

Statement(d, s) ==
  Exec(d, CASE d.trans = "inerror" -> {<<"25P02", d>>}
            [] d.trans = "intrans" -> {<<"done", [d EXCEPT !.work = @ \cup {s}]>>}
                                        \cup ({"40001", "other"} \X {Failed(d)})
            [] d.trans = "idle"    -> {<<"done", [d EXCEPT !.saved = @ \cup {s}]>>,
                                       <<"other", d>>})

\* "commit" of a failed transaction rolls back and is no error; without a
\* transaction it is only a warning
Commit(d) ==
  CASE d.conn # "ok" -> {<<"lost", d>>}
    [] d.conn = "ok" /\ d.trans # "intrans" -> {<<"done", Idle(d)>>, <<"torn", Cut(d)>>}
    [] d.conn = "ok" /\ d.trans = "intrans" ->
         {<<"done", Idle(Durable(d))>>, <<"torn", Cut(Durable(d))>>, <<"torn", Cut(d)>>}
           \cup ({"40001", "other"} \X {Idle(d)})

Rollback(d) == Exec(d, {<<"done", Idle(d)>>})

\* A conflict or failure is reported while the bound allows it.
Counted(r) == IF r[1] \in {"40001", "other"} THEN fails > 0 /\ fails' = fails - 1
                                             ELSE UNCHANGED fails

-----------------------------------------------------------------------------
(***************************************************************************)
(* One txn* call.  mine: the statements of the current attempt; bad: one   *)
(* of them failed; owed: the handler has decided to run the body again and *)
(* the body has not started; nest: the body has called txn* on the same    *)
(* connection; err: the error on its way to the handler.                   *)
(***************************************************************************)
Frame == [pc : Pcs, mine : SUBSET Stmts, bad : BOOLEAN, owed : BOOLEAN, nest : BOOLEAN,
          err : Errors \cup {"none"}]
End == [how : Ends, mine : SUBSET Stmts, bad : BOOLEAN, owed : BOOLEAN, nest : BOOLEAN,
        err : Errors \cup {"none"}]

Fresh == [pc |-> "begin", mine |-> {}, bad |-> FALSE, owed |-> FALSE, nest |-> FALSE,
          err |-> "none"]

Top == stack[Len(stack)]
Outer == SubSeq(stack, 1, Len(stack) - 1)
Running(pc) == stack # <<>> /\ Top.pc = pc
Set(frame) == stack' = Append(Outer, frame)
Throw(frame, e) == Set([frame EXCEPT !.pc = "catch", !.err = e])

\* txn* ends: to the caller, or into the body of the txn* around it
Finish(how, e) ==
  IF Len(stack) = 1
    THEN /\ stack' = <<>>
         /\ last' = [how |-> how, mine |-> Top.mine, bad |-> Top.bad, owed |-> Top.owed,
                     nest |-> Top.nest, err |-> e]
    ELSE /\ UNCHANGED last
         /\ LET body == Outer[Len(Outer)]
                Resume(frame) == stack' = [Outer EXCEPT ![Len(Outer)] = frame]
            IN CASE how = "raised" -> \/ Resume([body EXCEPT !.pc = "catch", !.err = e])
                                      \/ Resume([body EXCEPT !.bad = TRUE])
                 [] how = "signalled" -> Resume([body EXCEPT !.pc = "abort"])
                 [] OTHER -> Resume(body)

Init ==
  /\ db = [conn |-> "ok", trans |-> "idle", work |-> {}, saved |-> {}]
  /\ stack = <<>>
  /\ last = [how |-> "value", mine |-> {}, bad |-> FALSE, owed |-> FALSE, nest |-> FALSE,
             err |-> "none"]
  /\ retried = {}
  /\ stmts = 0
  /\ fails = MaxFails
  /\ txns = MaxTxns

CallTxn ==
  /\ stack = <<>> /\ txns > 0
  /\ stack' = <<Fresh>>
  /\ txns' = txns - 1
  /\ UNCHANGED <<db, last, retried, stmts, fails>>

ExecBegin ==
  /\ Running("begin")
  /\ \E r \in Begin(db) :
       /\ db' = r[2]
       /\ Counted(r)
       /\ IF r[1] = "done" THEN Set([Top EXCEPT !.pc = "body", !.owed = FALSE])
                           ELSE Throw(Top, r[1])
  /\ UNCHANGED <<last, retried, stmts, txns>>

\* the body calls pq/exec, pq/all, pq/row ...; it may catch the error they raise
BodyExec ==
  /\ Running("body") /\ stmts < MaxStmts
  /\ \E r \in Statement(db, stmts + 1) :
       /\ db' = r[2]
       /\ Counted(r)
       /\ IF r[1] = "done"
            THEN stmts' = stmts + 1 /\ Set([Top EXCEPT !.mine = @ \cup {stmts + 1}])
            ELSE /\ UNCHANGED stmts
                 /\ \/ Throw([Top EXCEPT !.bad = TRUE], r[1])
                    \/ Set([Top EXCEPT !.bad = TRUE])
  /\ UNCHANGED <<last, retried, txns>>

\* the body raises an error of its own, or sends [conn [x v]] with an unknown x
BodyRaise == /\ Running("body")
             /\ Throw(Top, "user")
             /\ UNCHANGED <<db, last, retried, stmts, fails, txns>>

BodyClose == /\ Running("body") /\ db.conn # "closed"
             /\ db' = [Idle(db) EXCEPT !.conn = "closed"]
             /\ UNCHANGED <<stack, last, retried, stmts, fails, txns>>

BodyNest == /\ Running("body") /\ Len(stack) < MaxDepth
            /\ stack' = Append(Append(Outer, [Top EXCEPT !.nest = TRUE]), Fresh)
            /\ UNCHANGED <<db, last, retried, stmts, fails, txns>>

\* The fiber of the body is dead or gave a user signal: txn* ends the transaction.
\* "commit": the body returned or called pq/commit; "rollback": it called
\* pq/rollback; "abort": user1 to user3, or a user0 that is not for this connection,
\* which txn* passes on.
BodyEnds == /\ Running("body")
            /\ \E pc \in {"commit", "rollback", "abort"} : Set([Top EXCEPT !.pc = pc])
            /\ UNCHANGED <<db, last, retried, stmts, fails, txns>>

\* The mask :i0123 of the fiber lets a yield and the signals user4 to user9 through: they
\* pass every call of txn*, up to the code around call k that catches them.  Nothing is
\* rolled back; the call stays suspended and is not resumed here.
BodyLeaves ==
  /\ Running("body")
  /\ \E k \in DOMAIN stack :
       /\ stack' = SubSeq(stack, 1, k - 1)
       /\ last' = IF k > 1 THEN last
                  ELSE [how |-> "left", mine |-> stack[1].mine, bad |-> stack[1].bad,
                        owed |-> stack[1].owed, nest |-> stack[1].nest, err |-> "none"]
  /\ UNCHANGED <<db, retried, stmts, fails, txns>>

\* variant: "rollback" is sent for a body that returned
ExecCommitRollsBack ==
  /\ Running("commit")
  /\ \E r \in Rollback(db) :
       /\ db' = r[2]
       /\ IF r[1] = "done" THEN Finish("value", "none")
                           ELSE Throw(Top, r[1]) /\ UNCHANGED last
  /\ UNCHANGED <<retried, stmts, fails, txns>>

ExecCommit ==
  /\ Running("commit")
  /\ \E r \in Commit(db) :
       /\ db' = r[2]
       /\ Counted(r)
       /\ IF r[1] = "done" THEN Finish("value", "none")
                           ELSE Throw(Top, r[1]) /\ UNCHANGED last
  /\ UNCHANGED <<retried, stmts, txns>>

ExecRollback ==
  /\ \E pc \in {"rollback", "abort"} :
       /\ Running(pc)
       /\ \E r \in Rollback(db) :
            /\ db' = r[2]
            /\ IF r[1] = "done"
                 THEN Finish(IF pc = "rollback" THEN "rolled" ELSE "signalled", "none")
                 ELSE Throw(Top, r[1]) /\ UNCHANGED last
  /\ UNCHANGED <<retried, stmts, fails, txns>>

\* variants: the retry goes on with the body where it stopped; every error is retried
AgainGoesOn ==
  /\ Running("catch") /\ Retry /\ Top.err = "40001"
  /\ Set([Top EXCEPT !.pc = "begin", !.owed = TRUE])
  /\ UNCHANGED <<db, last, retried, stmts, fails, txns>>

AgainOnAnyError ==
  /\ Running("catch") /\ Retry
  /\ Set([Fresh EXCEPT !.owed = TRUE])
  /\ retried' = retried \cup (IF Top.nest THEN {} ELSE Top.mine)
  /\ UNCHANGED <<db, last, stmts, fails, txns>>

\* the error handler of txn*: it calls txn* again ...
Again ==
  /\ Running("catch") /\ Retry /\ Top.err = "40001"
  /\ Set([Fresh EXCEPT !.owed = TRUE])
  /\ retried' = retried \cup (IF Top.nest THEN {} ELSE Top.mine)
  /\ UNCHANGED <<db, last, stmts, fails, txns>>

\* variants: the handler commits, does not roll back, or raises what pq/status gives
GiveUpCommits ==
  /\ Running("catch") /\ ~(Retry /\ Top.err = "40001")
  /\ \E r \in Commit(db) :
       /\ db' = r[2]
       /\ Finish("raised", Top.err)
  /\ UNCHANGED <<retried, stmts, fails, txns>>

GiveUpKeepsOpen ==
  /\ Running("catch") /\ ~(Retry /\ Top.err = "40001")
  /\ Finish("raised", Top.err)
  /\ UNCHANGED <<db, retried, stmts, fails, txns>>

GiveUpRaisesStatus ==
  /\ Running("catch") /\ ~(Retry /\ Top.err = "40001")
  /\ \E r \in Rollback(db) :
       /\ db' = r[2]
       /\ Finish("raised", db.conn)
  /\ UNCHANGED <<retried, stmts, fails, txns>>

\* ... or rolls back, unless the connection is bad, and raises the error again; on
\* a closed connection pq/status panics, with an error that replaces the first one
GiveUp ==
  /\ Running("catch") /\ ~(Retry /\ Top.err = "40001")
  /\ IF db.conn = "ok"
       THEN \E r \in Rollback(db) :
              /\ db' = r[2]
              /\ Finish("raised", IF r[1] = "done" THEN Top.err ELSE r[1])
       ELSE /\ UNCHANGED db
            /\ Finish("raised", IF db.conn = "closed" THEN "lost" ELSE Top.err)
  /\ UNCHANGED <<retried, stmts, fails, txns>>

Next == \/ CallTxn
        \/ ExecBegin
        \/ BodyExec
        \/ BodyRaise
        \/ BodyClose
        \/ BodyNest
        \/ BodyEnds
        \/ BodyLeaves
        \/ ExecCommit
        \/ ExecRollback
        \/ Again
        \/ GiveUp

Spec == Init /\ [][Next]_vars

-----------------------------------------------------------------------------
TypeOK ==
  /\ db \in Db
  /\ stack \in Seq(Frame)
  /\ last \in End
  /\ retried \subseteq Stmts
  /\ stmts \in 0 .. MaxStmts
  /\ fails \in 0 .. MaxFails
  /\ txns \in 0 .. MaxTxns

\* the calls whose body has not called txn* on the same connection
Plain == {f \in {last} \cup {stack[i] : i \in DOMAIN stack} : ~f.nest}

\* The statements of one attempt become durable together or not at all, whatever
\* fails between "begin" and "commit", also when it runs inside another txn.
AllOrNothing == \A f \in Plain : f.mine \cap db.saved \in {{}, f.mine}

\* A txn that ends by an error, by pq/rollback or by a signal that txn* handles leaves
\* nothing behind in the database, whatever failed and wherever the connection was lost:
\* under a statement, under the rollback, or closed by the body.  The one exception is a
\* connection that broke under "commit", whose outcome nobody knows.
RaisedMeansRolledBack ==
  ~last.nest /\ last.how \in {"raised", "rolled", "signalled"} /\ last.err # "torn"
    => last.mine \cap db.saved = {}

\* A txn that returns the value of its body, or of pq/commit, has made all of its
\* statements durable, unless the body caught the error of one of them: then the
\* "commit" rolls back silently and txn returns all the same.
ValueMeansCommitted ==
  ~last.nest /\ last.how = "value" /\ ~last.bad => last.mine \subseteq db.saved

\* Between txn calls the session is not inside a transaction, so that the next
\* statement on the connection is not swept into one that never ends.  The one way out of
\* txn* that leaves the transaction open is a signal its fiber does not mask (a yield, or
\* user4 to user9); the next txn on the connection that ends closes that one too.
NothingLeftOpen ==
  stack = <<>> /\ db.conn = "ok" /\ last.how # "left" => db.trans = "idle"

\* Work is never done twice: what an attempt did before a retry is not durable.
RetriedWorkDiscarded == retried \cap db.saved = {}

\* A serialization error makes txn run the body again: a txn with :retry does not
\* end by an error, on a connection that works, with a retry it still owes, unless the
\* begin of the retry fails of itself.
RetryRunsBody ==
  last.how = "raised" /\ last.err # "other" /\ db.conn = "ok" => ~last.owed
=============================================================================
