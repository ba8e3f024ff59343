------------------------------ MODULE FactRaces ------------------------------
(***************************************************************************)
(* FactMesh with a history of its races: of the rows that a merge has read *)
(* and not upserted yet, those that an audit or another merge has moved    *)
(* ahead meanwhile.  Nothing in the code takes notice of them.  The history *)
(* tells a fact that is lost to a race from one lost to a fault of the     *)
(* merge.                                                                  *)
(***************************************************************************)
EXTENDS FactMesh

VARIABLE overtaken   \* overtaken[n][h]: the sources of such rows of handler h

raceVars == <<vars, overtaken>>

\* A row that may take the place of another: the same fact, a higher tier or a newer time.
Advances(new, old) ==
    \/ SameFact(new, old)
    \/ TierRank[new.tier] > TierRank[old.tier]
    \/ new.ts > old.ts

RaceInit == Init /\ overtaken = [n \in Node |-> [h \in Handler |-> {}]]

Overtaken(n, h) ==
    {s \in Node :
        /\ todo[n][h][s] # NoRow /\ todo'[n][h][s] # NoRow
        /\ s \in overtaken[n][h] \/ facts'[n][s] # facts[n][s]
        /\ ~Advances(todo'[n][h][s], facts'[n][s])}

RaceNext ==
    /\ Next
    /\ overtaken' = [n \in Node |-> [h \in Handler |-> Overtaken(n, h)]]

RaceSpec == RaceInit /\ [][RaceNext]_raceVars
-----------------------------------------------------------------------------
\* The upsert of a row that was overtaken.
LostToRace(n, s) ==
    \E h \in Handler : /\ s \in overtaken[n][h]
                       /\ todo[n][h][s] # NoRow /\ todo'[n][h][s] = NoRow

\* merge.ts: a stored fact gives way only to one of a higher tier or a newer time.
\* The handlers keep to that, whatever order pushes and snapshots arrive in and
\* whatever is repeated or half written, except where another handler or an audit
\* wrote the row between the read of a merge and its upsert.
OnlyRacesLoseFacts ==
    [][\A n, s \in Node :
         facts[n][s] # NoRow => Advances(facts'[n][s], facts[n][s]) \/ LostToRace(n, s)]_raceVars

\* The invariant behind it: what a merge has still to upsert is ahead of what is
\* stored, unless it was overtaken.
Ahead ==
    \A n, s \in Node, h \in Handler :
        (todo[n][h][s] # NoRow /\ facts[n][s] # NoRow /\ s \notin overtaken[n][h])
            => Advances(todo[n][h][s], facts[n][s])

RaceIInv ==
    /\ IInv
    /\ TimesPast
    /\ overtaken \in [Node -> [Handler -> SUBSET Node]]
    /\ Ahead
=============================================================================
