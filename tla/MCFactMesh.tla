----------------------------- MODULE MCFactMesh -----------------------------
(* Instances of FactMesh for TLC. *)
EXTENDS FactMesh, TLC

\* Nodes, auditors and values are interchangeable in FactMesh.
Symmetry == Permutations(Source) \cup Permutations(Auditor) \cup Permutations(Value)
=============================================================================
