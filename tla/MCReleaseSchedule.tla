-------------------------- MODULE MCReleaseSchedule --------------------------
(***************************************************************************)
(* Two parts of a series and one asset of its own; two slots, one of them   *)
(* at the end of the day, in a zone two units ahead of the service's clock;  *)
(* the operator may swap the two.                                           *)
(***************************************************************************)
EXTENDS ReleaseSchedule, TLC

CONSTANTS s1, s2, p1, p2, x

MCSeriesOf == [a \in Assets |-> IF a = x THEN NoSeries ELSE "series"]
MCIndexOf == [a \in Assets |-> IF a = p2 THEN 2 ELSE 1]

Plan(t1, t2) ==
    [s \in Slots |-> [at |-> IF s = s1 THEN t1 ELSE t2, offset |-> 2, enabled |-> TRUE]]
TwoPlans == {Plan(1, DayLength - 1), Plan(DayLength - 1, 1)}
OnePlan == {Plan(1, DayLength - 1)}

Symmetry == Permutations(Handlers)
=============================================================================
