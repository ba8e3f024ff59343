------------------------------ MODULE ClientCache ------------------------------
(***************************************************************************)
(* The read caches of the clients: clientCache.ts of Access and the copy   *)
(* of it in Lens, lensCache.js.  A read is answered from memory, joins the *)
(* request that is under way for its key, or starts one; the answer is     *)
(* remembered.  After a change of their own the clients invalidate.        *)
(***************************************************************************)
EXTENDS Naturals, Sequences, FiniteSets

CONSTANTS
    CacheKey,     \* what is asked of a node
    PinKey,       \* keys that begin with "map-pins:"
    Fetch,        \* requests; bound: how many are under way at once
    NoFetch,      \* no request
    MaxEntries,   \* MAX_ENTRIES
    MaxChanges    \* bound: changes on the node

ASSUME CacheAssumption ==
    /\ PinKey \subseteq CacheKey /\ NoFetch \notin Fetch
    /\ MaxEntries \in Nat \ {0} /\ MaxChanges \in Nat

VARIABLES
    client,      \* which of the two clients this is
    version,     \* the node's data, by the number of changes it has seen
    memory,      \* what is remembered, the least recently used first
    inflight,    \* the request that a read of a key joins
    request,     \* the requests under way
    confirmed,   \* the changes this client knows are stored
    owed         \* a change is confirmed, invalidation comes next

cacheVars == <<client, version, memory, inflight, request, confirmed, owed>>

\* "overtaken" marks an answer that was under way when its key was invalidated.
Kept(k, v, overtaken) == [key |-> k, version |-> v, overtaken |-> overtaken]
Remembered(k) == {i \in DOMAIN memory : memory[i].key = k}

CacheInit ==
    /\ client \in {"access", "lens"}
    /\ version = 0 /\ confirmed = 0 /\ owed = FALSE
    /\ memory = << >>
    /\ inflight = [k \in CacheKey |-> NoFetch]
    /\ request = << >>

Fresh == Fetch \ DOMAIN request

\* The memory without its entry i.
Without(i) == SubSeq(memory, 1, i - 1) \o SubSeq(memory, i + 1, Len(memory))
-----------------------------------------------------------------------------
\* A read that finds its key makes it the last to be evicted.
ReadRemembered(k) ==
    /\ \E i \in Remembered(k) : memory' = Append(Without(i), memory[i])
    /\ UNCHANGED <<client, version, inflight, request, confirmed, owed>>

\* A read that finds nothing; one that finds a request under way changes nothing.
StartFetch(k) ==
    /\ Remembered(k) = {}
    /\ inflight[k] = NoFetch
    /\ \E r \in Fresh :
         /\ inflight' = [inflight EXCEPT ![k] = r]
         /\ request' = [d \in DOMAIN request \cup {r} |->
                          IF d = r THEN [at |-> "sent", data |-> Kept(k, 0, FALSE)] ELSE request[d]]
    /\ UNCHANGED <<client, version, memory, confirmed, owed>>

\* The node reads its data.
NodeReads(r) ==
    /\ request[r].at = "sent"
    /\ request' = [request EXCEPT ![r].at = "read", ![r].data.version = version]
    /\ UNCHANGED <<client, version, memory, inflight, confirmed, owed>>

\* Mutant: a key is remembered again behind the old entry.
RememberTwice(e) ==
    LET written == Append(memory, e)
    IN memory' = IF Len(written) > MaxEntries + 1 THEN Tail(written) ELSE written

\* A key that is there keeps its place; the first ones are evicted.
Remember(e) ==
    LET written == IF Remembered(e.key) = {} THEN Append(memory, e)
                   ELSE [i \in DOMAIN memory |-> IF memory[i].key = e.key THEN e ELSE memory[i]]
    IN memory' = IF Len(written) > MaxEntries THEN Tail(written) ELSE written

\* The end of a request, whichever request is registered for its key by now.
Unregister(r) ==
    /\ inflight' = [inflight EXCEPT ![request[r].data.key] = NoFetch]
    /\ request' = [d \in DOMAIN request \ {r} |-> request[d]]

AnswerArrives(r) ==
    /\ request[r].at = "read"
    /\ Remember(request[r].data)
    /\ Unregister(r)
    /\ UNCHANGED <<client, version, confirmed, owed>>

FetchFails(r) ==
    /\ Unregister(r)
    /\ UNCHANGED <<client, version, memory, confirmed, owed>>

\* An entry outlives its time and is dropped by the next read.
OutlivesItsTime(k) ==
    /\ \E i \in Remembered(k) : memory' = Without(i)
    /\ UNCHANGED <<client, version, inflight, request, confirmed, owed>>
-----------------------------------------------------------------------------
\* An audit or a new place is stored, another account signs in.
ChangeStored ==
    /\ version < MaxChanges /\ ~owed
    /\ version' = version + 1
    /\ owed' = TRUE
    /\ UNCHANGED <<client, memory, inflight, request, confirmed>>

\* What an invalidation concerns: in Access the pins of the map, in Lens everything.
Concerned == IF client = "access" THEN PinKey ELSE CacheKey

\* Mutant: one entry only, as if the change were known to concern no other.
ForgetFirst(keys) == memory' = IF memory = << >> THEN memory ELSE Tail(memory)

\* The entries of other keys stay, in their order.
ForgetKeys(keys) ==
    LET left == {i \in DOMAIN memory : memory[i].key \notin keys} IN
    \E at \in [1..Cardinality(left) -> left] :
        /\ \A m, n \in DOMAIN at : m < n => at[m] < at[n]
        /\ memory' = [n \in DOMAIN at |-> memory[at[n]]]

\* The client hears of it.  Access leaves the requests registered, Lens does not;
\* neither stops them.
Invalidate ==
    /\ owed
    /\ ForgetKeys(Concerned)
    /\ inflight' = IF client = "lens" THEN [k \in CacheKey |-> NoFetch] ELSE inflight
    /\ request' = [r \in DOMAIN request |-> [request[r] EXCEPT
         !.data.overtaken = @ \/ request[r].data.key \in Concerned]]
    /\ confirmed' = version
    /\ owed' = FALSE
    /\ UNCHANGED <<client, version>>

CacheNext ==
    \/ ChangeStored \/ Invalidate
    \/ \E k \in CacheKey : ReadRemembered(k) \/ StartFetch(k) \/ OutlivesItsTime(k)
    \/ \E r \in DOMAIN request : NodeReads(r) \/ AnswerArrives(r) \/ FetchFails(r)

CacheSpec == CacheInit /\ [][CacheNext]_cacheVars
-----------------------------------------------------------------------------
(* Properties. *)

\* The types of the variables; a key is remembered once and the limit is kept,
\* though requests for one key overlap.
CacheTypeOK ==
    /\ client \in {"access", "lens"}
    /\ version \in 0..MaxChanges /\ confirmed \in 0..version /\ owed \in BOOLEAN
    /\ memory \in Seq([key : CacheKey, version : 0..MaxChanges, overtaken : BOOLEAN])
    /\ Len(memory) <= MaxEntries
    /\ \A k \in CacheKey : Cardinality(Remembered(k)) <= 1
    /\ inflight \in [CacheKey -> DOMAIN request \cup {NoFetch}]
    /\ DOMAIN request \subseteq Fetch

\* What is remembered of the keys an invalidation concerns has seen every change
\* this client knows is stored: the places on the map show one's own audit
\* (invalidateMapPins: "so the next fetch reflects new/edited properties").  The
\* exception is an answer that was under way when the cache was invalidated: it is
\* remembered all the same, and in Lens it may replace a later one.
OwnChangeIsSeen ==
    \A i \in DOMAIN memory : memory[i].key \in Concerned =>
        memory[i].overtaken \/ memory[i].version >= confirmed
===============================================================================
