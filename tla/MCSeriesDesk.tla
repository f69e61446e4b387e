----------------------------- MODULE MCSeriesDesk -----------------------------
(* Objects and handlers are interchangeable: nothing in SeriesDesk tells one    *)
(* from another.                                                             *)
EXTENDS SeriesDesk, TLC

Symmetric == Permutations(Objects) \cup Permutations(Handlers)
=============================================================================
