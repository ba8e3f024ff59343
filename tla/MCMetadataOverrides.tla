------------------------- MODULE MCMetadataOverrides -------------------------
(* Instances of MetadataOverrides for TLC. *)
EXTENDS MetadataOverrides

CONSTANT World   \* the node that covers everything

At(lat, lon) == [lat |-> lat, lon |-> lon]

MCBase == At(0, 0)

WorldRegion == [n \in Node |-> Position]

\* The other nodes only cover the positions west of longitude 2.
SplitRegion == [n \in Node |-> IF n = World THEN Position ELSE {p \in Position : p.lon < 2}]

\* A move and its reset.
MoveAndReset == {At(0, 0), At(1, 1)}
\* A move out of the smaller region and one to its inside.
OutAndIn == {At(1, 1), At(2, 2)}
TwoMoves == {At(1, 1), At(2, 2)}
==============================================================================
