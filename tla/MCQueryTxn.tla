------------------------------- MODULE MCQueryTxn -------------------------------
(***************************************************************************)
(* Instances of QueryTxn for TLC: two queries with different coordinators, *)
(* q1 on i1 and q2 on i2, that store to the same array.                    *)
(***************************************************************************)
EXTENDS QueryTxn, TLC

CONSTANTS i1, i2, i3, q1, q2, a1

TwoCoordinators == q1 :> i1 @@ q2 :> i2
OneArray == [q \in QueryId |-> a1]

\* both queries while an instance crashes, recovers and runs on
Crashing == [instances |-> {i1, i2}, queries |-> {q1, q2}, troubled |-> {},
             crashes |-> 1, losses |-> 0]

\* both queries, one of which may throw or be cancelled
Throwing == [Crashing EXCEPT !.troubled = {q1}, !.crashes = 0]

\* one query, and everything goes wrong: an instance may crash while another one,
\* or the same, is recovering
Failing == [instances |-> {i1, i2}, queries |-> {q1}, troubled |-> {q1},
            crashes |-> 2, losses |-> 1]

\* one query with two workers
Workers2 == [instances |-> {i1, i2, i3}, queries |-> {q1}, troubled |-> {},
             crashes |-> 1, losses |-> 0]

FourPlans == {Crashing, Throwing, Failing, Workers2}

================================================================================
