---------------------------- MODULE MCSqliteEval ----------------------------
(* Instances of SqliteEval for TLC: scripts of up to three statements.       *)
EXTENDS SqliteEval, SequencesExt

Texts == {s \in Statements : /\ s.kind \in {"create", "drop"} => s.params = 0
                             /\ s.kind = "select" => s.params < 2}
\* With ints of four bits (Half = 8), 5 fits and 21 does not; both are spelled by a text.
MCValues == {[type |-> t, val |-> 1] : t \in {"boolean", "keyword", "buffer", "other"}}
            \cup {[type |-> "number", val |-> n] : n \in {5, 21}}
            \cup {[type |-> "symbol", val |-> 5], [type |-> "string", val |-> 21], [type |-> "nan", val |-> 0]}
MCNumerals == {5, 21}

MCNaNInt == -8

\* no statement is repeated word for word
MCScripts == {s \in BoundedSeq(Texts, 3) : IsInjective(s)}
=============================================================================
