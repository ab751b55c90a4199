------------------------------ MODULE MCPobox -------------------------------
(* Instances of Pobox for TLC.  Values are counters 0, 1, 2; Inc counts, and *)
(* raises at its limit; Again calls back into the boxes.                     *)
EXTENDS Pobox

CONSTANTS t1, t2, k1, k2, k3

Inc == [v \in Values |-> IF v + 1 \in Values THEN v + 1 ELSE Raise]
Again == [v \in Values |-> IF v = 0 THEN 1 ELSE Reenter]

Get(k) == [op |-> "get", k |-> k]
Make(k, v) == [op |-> "make", k |-> k, v |-> v]
Update(k, f) == [op |-> "update", k |-> k, f |-> f]

\* every way in and every way out of the three functions
AnyFuns == {Inc, Again}
AnyCalls == {Get(k1), Get(k2), Get(k3), Make(k1, 0), Make(k2, 1), Update(k1, Inc), Update(k2, Again)}

OneBox == <<<<k1, 0>>>>
=============================================================================
