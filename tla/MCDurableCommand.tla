--------------------------- MODULE MCDurableCommand ---------------------------
(* Instances of DurableCommand for TLC. *)
EXTENDS DurableCommand, TLC

CONSTANTS n1, n2, c1, c2, c3, k1, k2, p1, p2

\* p1 draws one of two faces, p2 only the first of them: a value left over by
\* p1 may not fit p2.
MCRange == p1 :> {1, 2} @@ p2 :> {1}

\* p1 draws, p2 is a command without chance.
MCSomeRange == p1 :> {1, 2} @@ p2 :> {}

Symmetry == Permutations(Nodes) \cup Permutations(Calls) \cup Permutations(Keys)
===============================================================================
