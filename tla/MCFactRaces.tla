----------------------------- MODULE MCFactRaces -----------------------------
(* Instances of FactRaces for TLC. *)
EXTENDS FactRaces, TLC

\* Nodes, auditors and values are interchangeable in FactMesh.
Symmetry == Permutations(Source) \cup Permutations(Auditor) \cup Permutations(Value)
=============================================================================
