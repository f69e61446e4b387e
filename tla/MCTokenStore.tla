----------------------------- MODULE MCTokenStore -----------------------------
(* Two workers; they are told apart by fairness, so there is no symmetry.      *)
EXTENDS TokenStore
=============================================================================
