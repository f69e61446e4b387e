--------------------------- MODULE MCConsoleUploads ---------------------------
(* Two batches of two episodes at most, and two runs of the flow for one video. *)
EXTENDS ConsoleUploads

CONSTANTS part1, part2, b1, b2, c1, c2

MCNumberOf(f) == CASE f = part1 -> 1 [] f = part2 -> 2 [] OTHER -> 0

Swap(x, y) == [z \in {b1, b2, c1, c2} |-> IF z = x THEN y ELSE IF z = y THEN x ELSE z]
Symmetry == {[z \in {b1, b2, c1, c2} |-> p[q[z]]] :
                p \in {Swap(b1, b1), Swap(b1, b2)}, q \in {Swap(c1, c1), Swap(c1, c2)}}
=============================================================================
