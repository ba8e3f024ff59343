--------------------------- MODULE MCClientsAndPeers ---------------------------
(* The instance of ClientsAndPeers for TLC. *)
EXTENDS ClientsAndPeers, TLC

CONSTANTS x1, x2, y1, y2, h1, h2, h3

\* The pools of values serve all components, of which only one moves.
Symmetry == Permutations({x1, x2}) \cup Permutations({y1, y2}) \cup Permutations({h1, h2, h3})
===============================================================================
