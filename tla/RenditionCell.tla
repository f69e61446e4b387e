----------------------------- MODULE RenditionCell -----------------------------
(***************************************************************************)
(* What preparing one rendition promises to its callers, however many       *)
(* processes try it and however they end: a cell that is written once.  A    *)
(* key is published when its object is there, every caller is given that    *)
(* key and no other, and the object is lost only if the publisher itself    *)
(* has raised after publishing it.                                          *)
(***************************************************************************)
CONSTANTS
    Keys,
    NoKey

VARIABLES
    key,     \* the key that is published, or NoKey
    there,   \* whether its object is
    given,   \* the keys that callers were given
    raised   \* whether the publisher has raised since

vars == <<key, there, given, raised>>

Init ==
    /\ key = NoKey
    /\ there = FALSE
    /\ given = {}
    /\ raised = FALSE

Publish(k) ==
    /\ key = NoKey
    /\ key' = k
    /\ there' = TRUE
    /\ UNCHANGED <<given, raised>>

Give ==
    /\ key # NoKey
    /\ given' = given \cup {key}
    /\ UNCHANGED <<key, there, raised>>

PublisherRaises ==
    /\ key # NoKey
    /\ raised' = TRUE
    /\ UNCHANGED <<key, there, given>>

LoseObject ==
    /\ raised
    /\ there' = FALSE
    /\ UNCHANGED <<key, given, raised>>

Next == Give \/ PublisherRaises \/ LoseObject \/ \E k \in Keys : Publish(k)

Spec == Init /\ [][Next]_vars
=============================================================================
