----------------------------- MODULE BacklogOrder -----------------------------
(***************************************************************************)
(* The release order of the backlog: `order_groups` of sau/schedule.py.  A   *)
(* group is the asset its jobs belong to; when it was queued is a number,    *)
(* different for every asset that is.                                       *)
(***************************************************************************)
EXTENDS Integers, FiniteSets

CONSTANTS
    Assets,
    SeriesOf,  \* the series an asset is a part of, or NoSeries
    IndexOf,   \* its part_index there
    NoSeries

SameSeries(a, b) == SeriesOf[a] = SeriesOf[b] /\ SeriesOf[a] # NoSeries

\* The numbers in a series are distinct (uq_part_series_index).
ASSUME OrderConstantsOK ==
    /\ IndexOf \in [Assets -> Nat]
    /\ \A a, b \in Assets : SameSeries(a, b) /\ IndexOf[a] = IndexOf[b] => a = b

\* The parts of a's series that are in the backlog B; a alone if it has none.
Unit(B, a) == {b \in B : b = a \/ SameSeries(a, b)}

\* Some part of a's series was queued before every part of b's.
Older(B, created, a, b) ==
    \E x \in Unit(B, a) : \A y \in Unit(B, b) : created[x] < created[y]

\* Faulty: every asset has the place of its own upload.
UploadedBefore(B, created, a, b) == created[a] < created[b]

\* Whether a sorts before b: by the earliest part of the series, then by part.
Before(B, created, a, b) ==
    \/ Older(B, created, a, b)
    \/ SameSeries(a, b) /\ IndexOf[a] < IndexOf[b]

\* Faulty: the oldest upload goes first, whatever it is a part of.
OldestFirst(B, created, a) == a \in B /\ \A b \in B : created[a] <= created[b]

\* a is the head of the backlog B, what one slot takes.
IsHead(B, created, a) == a \in B /\ \A b \in B \ {a} : Before(B, created, a, b)

\* The backlog in the order in which it is shown.
ReleaseOrder(B, created) ==
    [i \in 1..Cardinality(B) |->
        CHOOSE a \in B : Cardinality({b \in B : Before(B, created, b, a)}) = i - 1]
=============================================================================
