---------------------------- MODULE MCFactWriters ----------------------------
(* Instances of FactWriters for TLC. *)
EXTENDS FactWriters, TLC

\* People, their calls and the values are interchangeable in FactWriters.
Symmetry == Permutations(Human) \cup Permutations(Client) \cup Permutations(Value)
===============================================================================
