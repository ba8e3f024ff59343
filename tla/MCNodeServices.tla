---------------------------- MODULE MCNodeServices ----------------------------
(* The instance of NodeServices for TLC. *)
EXTENDS NodeServices, TLC

CONSTANTS x1, x2, y1, y2

\* Two jobs: two tiles of theirs cover place 2, place 3 is outside both.
MCArea == [j \in Job |-> IF j = "first" THEN <<1, 2>> ELSE <<2, 2>>]
MCChangeTypes == [j \in Job |-> IF j = "first" THEN {"tiles", "refresh"} ELSE {"shrink", "import"}]
MCBbox == {{p} : p \in Place} \cup {Place}

\* The pools of values serve all components, of which only one moves.
Symmetry == Permutations({x1, x2}) \cup Permutations({y1, y2})
===============================================================================
