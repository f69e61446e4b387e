--------------------------- MODULE MCMediaTransfer ---------------------------
(* The routes and file sizes TLC tries: below the smallest chunk, with and     *)
(* without a remainder, at the limit of the chunks, and too large.            *)
EXTENDS MediaTransfer

MCRoutes == AllRoutes
MCSizes == {1, 2, 5, 7, 8, 13}
=============================================================================
