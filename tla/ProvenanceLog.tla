---------------------------- MODULE ProvenanceLog ----------------------------
(***************************************************************************)
(* What the exchange of rows between nodes promises, without the requests, *)
(* the handlers and the faults that bring it about.  Each key has one      *)
(* owner, which alone adds entries to the key's log, no two of them with   *)
(* one time.  Every other node holds, per key, a copy of an entry of that  *)
(* log or nothing.  A copy is marked confirmed only of a value that the    *)
(* logs of enough keys hold.  Nothing is promised of the order in which a  *)
(* node sees the entries, and a copy is never given up for none.           *)
(***************************************************************************)
CONSTANTS
    Holder,     \* the nodes
    Key,        \* what a node stores at most one row of
    Owner,      \* Owner[k]: the node whose edits of k are the log of k
    Datum,      \* the values of an entry
    Time,       \* the times of an entry
    Quorum,     \* the sets of keys that are enough to confirm a value
    Nothing     \* no copy is held

VARIABLES
    log,    \* every entry made
    held    \* held[n][k]: the copy node n holds of key k

logVars == <<log, held>>

Entry(k, d, t) == [key |-> k, datum |-> d, time |-> t]
Copy(e, c) == [datum |-> e.datum, time |-> e.time, confirmed |-> c]

\* The keys in whose log the value is.
KeysOf(d) == {e.key : e \in {x \in log : x.datum = d}}

LogInit ==
    /\ log = {}
    /\ held = [n \in Holder |-> [k \in Key |-> Nothing]]

\* The owner makes an entry, and keeps it or has not stored it yet.
Publish(e) ==
    /\ \A x \in log : x.key = e.key => x.time # e.time
    /\ log' = log \cup {e}
    /\ held' \in {held, [held EXCEPT ![Owner[e.key]][e.key] = Copy(e, FALSE)]}

\* A node takes an entry over, whatever it held before.
Adopt(n, e, c) ==
    /\ c => KeysOf(e.datum) \in Quorum
    /\ held' = [held EXCEPT ![n][e.key] = Copy(e, c)]
    /\ UNCHANGED log

\* Every entry made is new, so that a step that makes one changes the log.
LogNext ==
    \/ \E n \in Holder, e \in log, c \in BOOLEAN : Adopt(n, e, c)
    \/ log' # log /\ \E k \in Key, d \in Datum, t \in Time : Publish(Entry(k, d, t))

LogSpec == LogInit /\ [][LogNext]_logVars
=============================================================================
