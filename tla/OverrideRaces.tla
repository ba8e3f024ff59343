---------------------------- MODULE OverrideRaces ----------------------------
(***************************************************************************)
(* MetadataOverrides with a history of its races: of the rows that a       *)
(* handler or an edit has still to write, those that were moved ahead      *)
(* since it read the stored rows or the time.  Nothing in the code takes   *)
(* notice of them.                                                         *)
(***************************************************************************)
EXTENDS MetadataOverrides

VARIABLES
    overtaken,   \* overtaken[n][h]: the source and field of such rows of handler h
    outdated     \* the node, time and field of such rows of an edit

raceVars == <<vars, overtaken, outdated>>

\* A row may take the place of another when it is newer; the same row may be written again.
Advances(new, old) == new = old \/ new.ts > old.ts

RaceInit ==
    /\ Init
    /\ overtaken = [n \in Node |-> [h \in Handler |-> {}]]
    /\ outdated = {}

Changed(n, s, f) == rows'[n][s][f] # rows[n][s][f]

Overtaken(n, h) ==
    {k \in Node \X Field :
        /\ todo[n][h][k[1]][k[2]] # NoRow /\ todo'[n][h][k[1]][k[2]] # NoRow
        /\ k \in overtaken[n][h] \/ Changed(n, k[1], k[2])
        /\ ~Advances(todo'[n][h][k[1]][k[2]], rows'[n][k[1]][k[2]])}

Outdated(e) ==
    {f \in Field :
        /\ e.done[f] = NoRow
        /\ <<e.src, e.now, f>> \in outdated \/ Changed(e.src, e.src, f)
        /\ e.now <= rows'[e.src][e.src][f].ts}

RaceNext ==
    /\ Next
    /\ overtaken' = [n \in Node |-> [h \in Handler |-> Overtaken(n, h)]]
    /\ outdated' = UNION {{<<e.src, e.now, f>> : f \in Outdated(e)} : e \in edits'}

RaceSpec == RaceInit /\ [][RaceNext]_raceVars

RaceFairSpec == RaceSpec /\ Fairness
-----------------------------------------------------------------------------
\* The write of a row that was overtaken, by a handler or by an edit.
LostToRace(n, s, f) ==
    \/ \E h \in Handler : /\ <<s, f>> \in overtaken[n][h]
                          /\ todo[n][h][s][f] # NoRow /\ todo'[n][h][s][f] = NoRow
    \/ \E e \in edits \ edits' : /\ e.src = n /\ s = n /\ NextField(e) = f
                                 /\ <<n, e.now, f>> \in outdated

\* metadataMerge.ts: the newer override of a source and field wins.  The nodes keep to
\* that, whatever order pushes and snapshots arrive in and whatever is written back or
\* repeated, except where another handler or edit wrote the row in between.
OnlyRacesLoseOverrides ==
    [][\A n, s \in Node, f \in Field :
         rows[n][s][f] # NoRow =>
             Advances(rows'[n][s][f], rows[n][s][f]) \/ LostToRace(n, s, f)]_raceVars

\* The invariant behind it: what is still to be written is ahead of what is stored,
\* unless it was overtaken.
Ahead ==
    \A n, s \in Node, f \in Field, h \in Handler :
        (todo[n][h][s][f] # NoRow /\ rows[n][s][f] # NoRow /\ <<s, f>> \notin overtaken[n][h])
            => Advances(todo[n][h][s][f], rows[n][s][f])

EditsAhead ==
    \A e \in edits, f \in Field :
        (e.done[f] = NoRow /\ rows[e.src][e.src][f] # NoRow
            /\ <<e.src, e.now, f>> \notin outdated)
            => rows[e.src][e.src][f].ts < e.now

RaceIInv ==
    /\ IInv
    /\ TimesSound
    /\ overtaken \in [Node -> [Handler -> SUBSET (Node \X Field)]]
    /\ Ahead
    /\ EditsAhead
=============================================================================
