--------------------------- MODULE MCRenditionLease ---------------------------
(***************************************************************************)
(* Three processes and three claims of one rendition.                       *)
(***************************************************************************)
EXTENDS RenditionLease, TLC

Symmetry == Permutations(Workers) \cup Permutations(Tokens)
=============================================================================
