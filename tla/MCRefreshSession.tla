--------------------------- MODULE MCRefreshSession ---------------------------
(* Instances of RefreshSession for TLC. *)
EXTENDS RefreshSession, TLC

\* Tabs, accounts and tokens are interchangeable in RefreshSession.
Symmetry == Permutations(Tab) \cup Permutations(User) \cup Permutations(Token)
===============================================================================
