----------------------------- MODULE ProfileSync -----------------------------
(***************************************************************************)
(* The favourites of one account: the list on its home node and the copies *)
(* of the devices that sync with it, last writer wins by time stamp.  The  *)
(* accessibility preferences follow the same protocol.  All clocks agree.  *)
(***************************************************************************)
EXTENDS Naturals, FiniteSets

CONSTANTS
    Device, Favorite,
    MaxFavorites,    \* 100 in the code
    Slot,            \* bound: PUTs under way at a time
    Unread,          \* not read yet; no PUT under way
    MaxProfileTime,  \* bound: edits and PUTs
    MaxProfileFaults \* bound: failed pushes and closed tabs

List == SUBSET Favorite
Copy == [list : List, stamp : Nat, edited : BOOLEAN, timer : BOOLEAN, inFlight : BOOLEAN]
\* A PUT, of a timer (or of the page, when it hides), awaited by a sync, or of a
\* client that has gone; its clock is read before its transaction runs.
Push == [by : {"timer", "sync", "nobody"}, at : {"sent", "begun", "stored", "answered"},
         list : List, stamp : Nat, whole : BOOLEAN]

ASSUME ProfileAssumption ==
    /\ \A list \in List : list # Unread
    /\ Unread \notin Nat \cup Push
    /\ MaxFavorites \in Nat \ {0} /\ MaxProfileTime \in Nat \ {0} /\ MaxProfileFaults \in Nat

VARIABLES
    server,     \* the favourites and favoritesUpdatedAt of the account
    device,     \* what a device stores and the flags of its tab
    push,       \* push[d][s]: the PUTs of d under way
    sync,       \* the run of syncProfileFromServer of each tab
    profileTime, profileFaults,
    unpushed,   \* history: devices with an edit the node never stored
    crossed     \* history: devices with a call that failed, or that an edit, another
                \* call of the device, or a write between its statements met

profileVars == <<server, device, push, sync, profileTime, profileFaults,
                 unpushed, crossed>>

NoSync == [at |-> "idle", list |-> Unread, stamp |-> Unread]

ProfileInit ==
    /\ server = [list |-> {}, stamp |-> 1]
    /\ device = [d \in Device |-> [list |-> {}, stamp |-> 0, edited |-> FALSE,
                                   timer |-> FALSE, inFlight |-> FALSE]]
    /\ push = [d \in Device |-> [s \in Slot |-> Unread]]
    /\ sync = [d \in Device |-> NoSync]
    /\ profileTime = 1 /\ profileFaults = 0
    /\ unpushed = {} /\ crossed = {}

ProfileTick == profileTime < MaxProfileTime /\ profileTime' = profileTime + 1
ProfileFault == profileFaults < MaxProfileFaults /\ profileFaults' = profileFaults + 1

Pushing(d) == {s \in Slot : push[d][s] # Unread}
\* d has a call under way that has read or written on the node.
Working(d) == sync[d].at # "idle" \/ Pushing(d) # {}

-----------------------------------------------------------------------------
(* The tab. *)

\* toggleSavedPlace and scheduleFavoritesPush.
Edit(d, p) ==
    /\ ProfileTick
    /\ \E list \in IF p \in device[d].list THEN {device[d].list \ {p}}
                   ELSE {{p} \cup l : l \in {l \in SUBSET device[d].list :
                           Cardinality(l) = IF Cardinality(device[d].list) < MaxFavorites
                                            THEN Cardinality(device[d].list) ELSE MaxFavorites - 1}} :
         device' = [device EXCEPT ![d] =
            [@ EXCEPT !.list = list, !.stamp = profileTime', !.edited = TRUE, !.timer = TRUE]]
    /\ push' = [push EXCEPT ![d] =
                  [s \in Slot |-> IF @[s] = Unread THEN @[s] ELSE [@[s] EXCEPT !.whole = FALSE]]]
    /\ unpushed' = unpushed \cup {d}
    /\ crossed' = IF Working(d) THEN crossed \cup {d} ELSE crossed
    /\ UNCHANGED <<server, sync, profileFaults>>

\* A PUT of d is sent, beside those that are under way.
SendPut(d, by) ==
    \E s \in Slot \ UNION {Pushing(e) : e \in Device} :
        push' = [push EXCEPT ![d][s] = [by |-> by, at |-> "sent", list |-> device[d].list,
                                        stamp |-> 0, whole |-> TRUE]]

\* The debounce timer fires, or the page hides.
TimerPush(d) ==
    /\ device[d].timer
    /\ device' = [device EXCEPT ![d] = [@ EXCEPT !.timer = FALSE, !.inFlight = TRUE]]
    /\ SendPut(d, "timer")
    /\ crossed' = IF Working(d) THEN crossed \cup {d} ELSE crossed
    /\ UNCHANGED <<server, sync, profileTime, profileFaults, unpushed>>

\* Mutant: the pull does not wait for edits.
StartSyncAtOnce(d) ==
    /\ sync[d].at = "idle"
    /\ sync' = [sync EXCEPT ![d].at = "get"]
    /\ UNCHANGED <<device, push, crossed>>
    /\ UNCHANGED <<server, profileTime, profileFaults, unpushed>>

\* syncProfileFromServer: one at a time; what waits for its timer, or is on its
\* way, is pushed first.
StartSync(d) ==
    /\ sync[d].at = "idle"
    /\ IF device[d].timer \/ device[d].inFlight
       THEN /\ sync' = [sync EXCEPT ![d].at = "flush"]
            /\ device' = [device EXCEPT ![d] = [@ EXCEPT !.timer = FALSE, !.inFlight = TRUE]]
            /\ SendPut(d, "sync")
       ELSE /\ sync' = [sync EXCEPT ![d].at = "get"]
            /\ UNCHANGED <<device, push>>
    /\ crossed' = IF Working(d) THEN crossed \cup {d} ELSE crossed
    /\ UNCHANGED <<server, profileTime, profileFaults, unpushed>>

\* What becomes of the sync that awaited the PUT in slot s.
GoesOnAfter(d, s) ==
    sync' = IF push[d][s].by # "sync" THEN sync
            ELSE [sync EXCEPT ![d].at = IF @ = "flush" THEN "get" ELSE "idle"]

PushReturns(d, s) ==
    /\ s \in Pushing(d) /\ push[d][s].at = "answered"
    /\ device' = [device EXCEPT ![d] = [@ EXCEPT !.stamp = push[d][s].stamp,
                                                 !.edited = FALSE, !.inFlight = FALSE]]
    /\ push' = [push EXCEPT ![d][s] = Unread]
    /\ GoesOnAfter(d, s)
    /\ UNCHANGED <<server, profileTime, profileFaults, unpushed, crossed>>

\* The request or its answer is lost, or the node refuses it; what has reached
\* the node may still be stored.
PushFails(d, s) ==
    /\ ProfileFault
    /\ s \in Pushing(d) /\ push[d][s].by # "nobody"
    /\ device' = [device EXCEPT ![d].inFlight = FALSE]
    /\ push' = [push EXCEPT ![d][s] = [@ EXCEPT !.by = "nobody"]]
    /\ GoesOnAfter(d, s)
    /\ crossed' = crossed \cup {d}
    /\ UNCHANGED <<server, profileTime, unpushed>>

\* The tab is gone with its flags; what it sent may still be stored.
CloseTab(d) ==
    /\ ProfileFault
    /\ device' = [device EXCEPT ![d] = [@ EXCEPT !.edited = FALSE, !.timer = FALSE,
                                                 !.inFlight = FALSE]]
    /\ push' = [push EXCEPT ![d] =
                  [s \in Slot |-> IF @[s] = Unread THEN @[s] ELSE [@[s] EXCEPT !.by = "nobody"]]]
    /\ sync' = [sync EXCEPT ![d] = NoSync]
    /\ crossed' = crossed \cup {d}
    /\ UNCHANGED <<server, profileTime, unpushed>>

\* The comparison at the end of a sync.
Has(d) == device[d].list # {}
LocalWins(d) ==
    \/ /\ sync[d].list = {} /\ Has(d)
       /\ device[d].stamp = 0 \/ device[d].stamp >= sync[d].stamp
    \/ device[d].stamp > sync[d].stamp /\ (Has(d) \/ device[d].edited)
ServerWins(d) ==
    /\ ~LocalWins(d)
    /\ \/ sync[d].stamp > device[d].stamp
       \/ sync[d].list # {} /\ device[d].stamp = 0

Fetched(d) == sync[d].at = "get" /\ sync[d].list # Unread /\ sync[d].stamp # Unread

PushLocal(d) ==
    /\ Fetched(d) /\ LocalWins(d)
    /\ sync' = [sync EXCEPT ![d] = [NoSync EXCEPT !.at = "push"]]
    /\ device' = [device EXCEPT ![d].inFlight = TRUE]
    /\ SendPut(d, "sync")
    /\ UNCHANGED <<server, profileTime, profileFaults, unpushed, crossed>>

ApplyServer(d) ==
    /\ Fetched(d) /\ ServerWins(d)
    /\ device' = [device EXCEPT ![d] = [@ EXCEPT !.list = sync[d].list, !.stamp = sync[d].stamp]]
    /\ sync' = [sync EXCEPT ![d] = NoSync]
    /\ unpushed' = unpushed \ {d}
    /\ UNCHANGED <<server, push, profileTime, profileFaults, crossed>>

\* The copy is kept, or the fetch has failed.
EndSync(d) ==
    /\ sync[d].at = "get"
    /\ Fetched(d) => ~LocalWins(d) /\ ~ServerWins(d)
    /\ sync' = [sync EXCEPT ![d] = NoSync]
    /\ UNCHANGED <<server, device, push, profileTime, profileFaults,
                   unpushed, crossed>>
-----------------------------------------------------------------------------
(* The home node.  GET, and the answer of a PUT, read rows and stamp apart.  *)

ReadPlaces(d) ==
    /\ sync[d].at = "get" /\ sync[d].list = Unread
    /\ sync' = [sync EXCEPT ![d].list = server.list]
    /\ UNCHANGED <<server, device, push, profileTime, profileFaults, unpushed, crossed>>

ReadStamp(d) ==
    /\ sync[d].at = "get" /\ sync[d].stamp = Unread
    /\ sync' = [sync EXCEPT ![d].stamp = server.stamp]
    /\ UNCHANGED <<server, device, push, profileTime, profileFaults, unpushed, crossed>>

\* Devices one of whose calls has one more statement to go.
HalfDone == {d \in Device : \/ (sync[d].list = Unread) # (sync[d].stamp = Unread)
                            \/ \E s \in Pushing(d) : push[d][s].at = "stored"}

\* Mutant: the stamp of the list is left as it was.
WriteListOnly(put) == server' = [server EXCEPT !.list = put.list]

\* The transaction of PUT, at the time that was read before it.
WriteList(put) == server' = [list |-> put.list, stamp |-> put.stamp]

\* The clock is read.
BeginPut(d, s) ==
    /\ ProfileTick
    /\ s \in Pushing(d) /\ push[d][s].at = "sent"
    /\ push' = [push EXCEPT ![d][s] = [@ EXCEPT !.at = "begun", !.stamp = profileTime']]
    /\ UNCHANGED <<server, device, sync, profileFaults, unpushed, crossed>>

\* Transactions of PUTs that overlap may run in either order.
PutFavorites(d, s) ==
    /\ s \in Pushing(d) /\ push[d][s].at = "begun"
    /\ WriteList(push[d][s])
    /\ crossed' = crossed \cup HalfDone
    /\ push' = [push EXCEPT ![d][s].at = "stored"]
    /\ unpushed' = IF push[d][s].whole THEN unpushed \ {d} ELSE unpushed
    /\ UNCHANGED <<device, sync, profileTime, profileFaults>>

\* What nobody awaits ends: the request was lost, the transaction failed, or it is over.
Vanish(d, s) ==
    /\ s \in Pushing(d) /\ push[d][s].by = "nobody"
    /\ push' = [push EXCEPT ![d][s] = Unread]
    /\ UNCHANGED <<server, device, sync, profileTime, profileFaults, unpushed, crossed>>

AnswerPut(d, s) ==
    /\ s \in Pushing(d) /\ push[d][s].at = "stored" /\ push[d][s].by # "nobody"
    /\ push' = [push EXCEPT ![d][s] = [@ EXCEPT !.at = "answered", !.stamp = server.stamp]]
    /\ UNCHANGED <<server, device, sync, profileTime, profileFaults, unpushed, crossed>>

ProfileNext ==
    \/ \E d \in Device :
         \/ \E p \in Favorite : Edit(d, p)
         \/ TimerPush(d) \/ StartSync(d) \/ CloseTab(d)
         \/ PushLocal(d) \/ ApplyServer(d) \/ EndSync(d)
         \/ ReadPlaces(d) \/ ReadStamp(d)
         \/ \E s \in Slot : \/ PushReturns(d, s) \/ PushFails(d, s) \/ BeginPut(d, s)
                            \/ PutFavorites(d, s) \/ AnswerPut(d, s)
                            \/ Vanish(d, s)

ProfileSpec == ProfileInit /\ [][ProfileNext]_profileVars
-----------------------------------------------------------------------------
\* The types of the variables; a sync that waits has its push under way.
ProfileTypeOK ==
    /\ server.list \in List /\ server.stamp \in 1..MaxProfileTime
    /\ device \in [Device -> Copy]
    /\ push \in [Device -> [Slot -> Push \cup {Unread}]]
    /\ \A d \in Device : /\ sync[d].at \in {"idle", "flush", "get", "push"}
                         /\ sync[d].at \in {"flush", "push"} <=>
                              \E s \in Pushing(d) : push[d][s].by = "sync"
                         /\ sync[d].list \in {Unread} \cup List
                         /\ sync[d].stamp \in Nat \cup {Unread}
    /\ profileTime \in Nat /\ profileFaults \in Nat
    /\ unpushed \in SUBSET Device /\ crossed \in SUBSET Device

\* A device whose calls no failure, edit or other write met, and whose stamp is
\* that of the account, shows the account's favourites: an equal stamp, at
\* which the sync does nothing, never hides a difference.
SameStampSameList ==
    \A d \in Device \ crossed :
        device[d].stamp = server.stamp => device[d].list = server.list

\* A pull replaces the list of d, which has an edit the node never stored.
Overwrites(d) == d \in unpushed /\ d \notin unpushed' /\ device'[d].list # device[d].list

\* A pull overwrites an edit that was never stored only where a push failed, a
\* tab was closed, or an edit met a call under way: short of that, hearts that
\* have not been pushed are kept, as CHANGELOG.md:121 has it.
PullKeepsUncrossedEdits == [][\A d \in Device : Overwrites(d) => d \in crossed]_profileVars
=============================================================================
