------------------------------ MODULE PlaceSearch ------------------------------
(***************************************************************************)
(* The discovery screen of Access: a typed search, a search around the     *)
(* traveler and the browsing of the map share one list of results and one  *)
(* data node.  A typed search is debounced and aborted; the search around  *)
(* the traveler is neither; the map finds out which node covers it.        *)
(***************************************************************************)
EXTENDS Naturals, FiniteSets

CONSTANTS
    Text,          \* what can be typed
    NoText,
    Spot,          \* places on the map; each stands for the node that covers it too
    NoSpot,
    HomeNode, EnvNode, \* nodes the traveler may choose as home, and the built-in choice
    NoResults,
    MaxSearchOps   \* bound: what the traveler does

ASSUME SearchAssumption ==
    NoText \notin Text /\ NoSpot \notin Spot \cup HomeNode /\ EnvNode \in HomeNode
    /\ MaxSearchOps \in Nat

\* The text of the search bar, and whether there are filters beyond those of the profile.
Asked == [text : Text \cup {NoText}, filtered : BOOLEAN]
NoQuery == [text |-> NoText, filtered |-> FALSE]
Query == Asked \ {NoQuery}
DataNode == Spot \cup HomeNode

VARIABLES
    homeNode,
    typed,       \* the query with its filters
    nearMe, coords,
    dataNode,    \* mapDataNodeUrl: whom to search, and where the links of the results lead
    results,
    search,      \* the typed search under way
    aborted,     \* aborted requests that have not ended, which the cache still lists
    runs,        \* searches around the traveler
    locating,    \* the browser is asked for the position
    nearLoading,
    refresh,     \* where the latest fetch of the visible area is under way
    searchOps,
    strayed      \* history: an answer was used that nobody waited for any more

searchVars == <<homeNode, typed, nearMe, coords, dataNode, results, search, aborted, runs,
                locating, nearLoading, refresh, searchOps, strayed>>

Searching(at, q, node) == [at |-> at, q |-> q, node |-> node]
NoSearch == Searching("idle", NoQuery, NoSpot)
Found(what, node) == [what |-> what, from |-> node]

SearchInit ==
    /\ typed = NoQuery /\ nearMe = FALSE /\ coords = NoSpot
    /\ homeNode \in HomeNode /\ dataNode = homeNode
    /\ results = NoResults
    /\ search = NoSearch /\ aborted = {}
    /\ runs = {} /\ locating = FALSE /\ nearLoading = FALSE
    /\ refresh = NoSpot
    /\ searchOps = 0 /\ strayed = FALSE

SearchOp == searchOps < MaxSearchOps /\ searchOps' = searchOps + 1

\* An aborted request ends at once, unless it waits for a refresh of the session.
Aborts ==
    aborted' \in IF search.at = "asked"
                 THEN {aborted, aborted \cup {[q |-> search.q, node |-> search.node]}}
                 ELSE {aborted}

\* Mutant: the request under way is left to answer.
LeaveSearch(q, near, node) ==
    /\ aborted' = aborted
    /\ search' = CASE search.at = "asked" -> search
                   [] near \/ q = NoQuery -> NoSearch
                   [] OTHER -> Searching("due", q, node)

\* The effect on [query, mapDataNodeUrl, nearMe]: the search under way is aborted and
\* the next one is due.
RestartSearch(q, near, node) ==
    /\ Aborts
    /\ search' = IF near \/ q = NoQuery THEN NoSearch ELSE Searching("due", q, node)

\* The effect runs only when something changed.
Shows(q, near, node) ==
    /\ typed' = q /\ nearMe' = near /\ dataNode' = node
    /\ IF <<q, near, node>> = <<typed, nearMe, dataNode>>
       THEN UNCHANGED <<search, aborted>>
       ELSE RestartSearch(q, near, node)

\* With neither a query nor a position the effect clears the results.
UnlessCleared(q, near, node, kept) ==
    IF q = NoQuery /\ ~near /\ <<q, near, node>> # <<typed, nearMe, dataNode>>
    THEN NoResults ELSE kept

\* Results around the traveler whose links now lead to another node.
Strands(node) == nearMe /\ results # NoResults /\ node # dataNode

\* runNearMe is called; it keeps the home node it was made with.
Run(at, id, home) == [at |-> at, id |-> id, node |-> home, asked |-> FALSE]
-----------------------------------------------------------------------------
(* The traveler. *)

\* The search bar and its filters; typing leaves the search around the traveler.
Type(q) ==
    /\ SearchOp
    /\ q # typed
    /\ Shows(q, FALSE, dataNode)
    /\ results' = UnlessCleared(q, FALSE, dataNode, results)
    /\ UNCHANGED <<homeNode, coords, runs, locating, nearLoading, refresh, strayed>>

StartNearMe ==
    /\ SearchOp
    /\ ~nearLoading
    /\ locating' = TRUE /\ nearLoading' = TRUE
    /\ UNCHANGED <<homeNode, typed, nearMe, coords, dataNode, results, search, aborted, runs, refresh, strayed>>

\* The position arrives, whatever the traveler has typed meanwhile: the text is
\* cleared and the filters are not.
Located(s) ==
    /\ locating
    /\ locating' = FALSE
    /\ Shows([typed EXCEPT !.text = NoText], TRUE, dataNode)
    /\ coords' = s
    /\ results' = NoResults
    /\ runs' = runs \cup {Run(s, searchOps, homeNode)}
    /\ strayed' = FALSE
    /\ UNCHANGED <<homeNode, nearLoading, refresh, searchOps>>

NotLocated ==
    /\ locating
    /\ locating' = FALSE /\ nearLoading' = FALSE
    /\ Shows(typed, FALSE, dataNode)
    /\ coords' = NoSpot
    /\ results' = NoResults
    /\ strayed' = FALSE
    /\ UNCHANGED <<homeNode, runs, refresh, searchOps>>

\* The tab is left and shown again: the search around the traveler runs again.
Reactivate ==
    /\ SearchOp
    /\ nearMe
    /\ runs' = runs \cup {Run(coords, searchOps', homeNode)}
    /\ nearLoading' = TRUE
    /\ UNCHANGED <<homeNode, typed, nearMe, coords, dataNode, results, search, aborted, locating,
                   refresh, strayed>>

\* Another home node is chosen on another tab; shown again, the search around the
\* traveler runs again and asks it.
ChangeHome(h) ==
    /\ SearchOp
    /\ h # homeNode
    /\ homeNode' = h
    /\ Shows(typed, nearMe, h)
    /\ results' = UnlessCleared(typed, nearMe, h, results)
    /\ runs' = IF nearMe THEN runs \cup {Run(coords, searchOps', h)} ELSE runs
    /\ nearLoading' = (nearLoading \/ nearMe)
    /\ strayed' = (strayed \/ Strands(h))
    /\ UNCHANGED <<coords, locating, refresh>>

\* The page is left and opened again, with what its session has kept: what was typed,
\* the search around the traveler with its results, and the data node.  It starts
\* with the built-in home node; the stored one, when it is another, takes over at once.
Reopen ==
    /\ SearchOp
    /\ LET node == IF homeNode = EnvNode THEN dataNode ELSE homeNode
       IN /\ typed' = typed /\ nearMe' = nearMe /\ dataNode' = node
          /\ RestartSearch(typed, nearMe, node)
          /\ strayed' = (strayed \/ Strands(node))
    /\ results' = IF nearMe THEN results ELSE NoResults
    /\ runs' = IF nearMe THEN {Run(coords, searchOps', h) : h \in {EnvNode, homeNode}} ELSE {}
    /\ locating' = FALSE /\ nearLoading' = nearMe /\ refresh' = NoSpot
    /\ UNCHANGED <<homeNode, coords>>

\* "Search this area", while the map is browsed: a later fetch replaces an earlier one.
RefreshViewport(s) ==
    /\ SearchOp
    /\ typed = NoQuery /\ ~nearMe /\ ~nearLoading
    /\ refresh' = s
    /\ UNCHANGED <<homeNode, typed, nearMe, coords, dataNode, results, search, aborted, runs,
                   locating, nearLoading, strayed>>

\* The same button, while results are shown: they are left for the map.
BrowseThisArea(s) ==
    /\ SearchOp
    /\ typed # NoQuery \/ nearMe
    /\ search.at \notin {"asked", "joined"} /\ ~nearLoading
    /\ Shows(NoQuery, FALSE, dataNode)
    /\ coords' = NoSpot
    /\ results' = NoResults
    /\ refresh' = s
    /\ strayed' = FALSE
    /\ UNCHANGED <<homeNode, runs, locating, nearLoading>>
-----------------------------------------------------------------------------
(* The typed search. *)

\* The debounce is over.  A request for the same that is aborted and not ended is joined.
TimerFires ==
    /\ search.at = "due"
    /\ search' = [search EXCEPT !.at =
                    IF [q |-> search.q, node |-> search.node] \in aborted THEN "joined" ELSE "asked"]
    /\ UNCHANGED <<homeNode, typed, nearMe, coords, dataNode, results, aborted, runs, locating,
                   nearLoading, refresh, searchOps, strayed>>

SearchEnds(found) ==
    /\ search.at = "asked"
    /\ results' = found
    /\ search' = NoSearch
    /\ strayed' = FALSE
    /\ UNCHANGED <<homeNode, typed, nearMe, coords, dataNode, aborted, runs, locating, nearLoading,
                   refresh, searchOps>>

SearchAnswers == SearchEnds(Found(search.q, search.node))
SearchFails == SearchEnds(NoResults)

\* The aborted request ends, and so does a search that joined it: with an AbortError
\* that is not its own, which it takes for one.
AbortSettles(k) ==
    /\ aborted' = aborted \ {k}
    /\ LET joined == search = Searching("joined", k.q, k.node)
       IN /\ search' = IF joined THEN NoSearch ELSE search
          /\ strayed' = (strayed \/ joined)
    /\ UNCHANGED <<homeNode, typed, nearMe, coords, dataNode, results, runs, locating, nearLoading,
                   refresh, searchOps>>
-----------------------------------------------------------------------------
(* The search around the traveler. *)

\* resolvePeerNode names the node of the place; the home node when nobody answers.
NearResolved(r, node) ==
    /\ ~r.asked
    /\ node \in {r.at, r.node}
    /\ Shows(typed, nearMe, node)
    /\ results' = UnlessCleared(typed, nearMe, node, results)
    /\ runs' = (runs \ {r}) \cup {[r EXCEPT !.asked = TRUE, !.node = node]}
    /\ strayed' = (strayed \/ Strands(node))
    /\ UNCHANGED <<homeNode, coords, locating, nearLoading, refresh, searchOps>>

NearAwaited(r) == nearMe /\ coords = r.at /\ dataNode = r.node

NearAnswers(r) ==
    /\ r.asked
    /\ results' = Found(r.at, r.node)
    /\ runs' = runs \ {r}
    /\ nearLoading' = FALSE
    /\ strayed' = ~NearAwaited(r)
    /\ UNCHANGED <<homeNode, typed, nearMe, coords, dataNode, search, aborted, locating, refresh, searchOps>>

NearFails(r) ==
    /\ results' = NoResults
    /\ runs' = runs \ {r}
    /\ nearLoading' = FALSE
    /\ strayed' = FALSE
    /\ UNCHANGED <<homeNode, typed, nearMe, coords, dataNode, search, aborted, locating, refresh, searchOps>>
-----------------------------------------------------------------------------
(* The map. *)

\* The map learns which node covers it and tells the screen, also when the traveler
\* has left the map for a search meanwhile.
ViewportResolved(node) ==
    /\ refresh # NoSpot
    /\ node \in {refresh, homeNode}
    /\ Shows(typed, nearMe, node)
    /\ results' = UnlessCleared(typed, nearMe, node, results)
    /\ refresh' = NoSpot
    /\ strayed' = (strayed \/ Strands(node))
    /\ UNCHANGED <<homeNode, coords, runs, locating, nearLoading, searchOps>>

SearchNext ==
    \/ StartNearMe \/ NotLocated \/ Reactivate \/ Reopen
    \/ TimerFires \/ SearchAnswers \/ SearchFails
    \/ \E q \in Asked : Type(q)
    \/ \E s \in Spot : Located(s) \/ RefreshViewport(s) \/ BrowseThisArea(s)
    \/ \E k \in aborted : AbortSettles(k)
    \/ \E r \in runs :
         \/ NearAnswers(r) \/ NearFails(r)
         \/ \E node \in DataNode : NearResolved(r, node)
    \/ \E node \in DataNode : ViewportResolved(node)
    \/ \E h \in HomeNode : ChangeHome(h)

SearchSpec == SearchInit /\ [][SearchNext]_searchVars
-----------------------------------------------------------------------------
(* Properties. *)

\* The types of the variables; the search under way is for what is typed.
SearchTypeOK ==
    /\ homeNode \in HomeNode /\ typed \in Asked /\ nearMe \in BOOLEAN /\ coords \in Spot \cup {NoSpot}
    /\ dataNode \in DataNode
    /\ results \in [what : Query \cup Spot, from : DataNode] \cup {NoResults}
    /\ search \in [at : {"idle", "due", "asked", "joined"}, q : Asked,
                   node : DataNode \cup {NoSpot}]
    /\ search = NoSearch \/ (~nearMe /\ search.q = typed /\ search.node = dataNode)
    /\ aborted \subseteq [q : Query, node : DataNode]
    /\ \A r \in runs : r.at \in Spot /\ r.node \in DataNode
    /\ nearMe => coords # NoSpot /\ typed.text = NoText
    /\ refresh \in Spot \cup {NoSpot}
    /\ searchOps \in 0..MaxSearchOps

\* Once a search has settled, the results are those of what is typed, or of where the
\* traveler is, and their links lead to the node they are from, though searches of
\* several kinds overlapped.  Exceptions: a late answer of the search around the
\* traveler, which is not aborted (runNearMe); a node that the map or an earlier run
\* resolves late; a search that joined an aborted request (dedupedFetch).
ShownIsWhatWasAskedFor ==
    \/ strayed
    \/ results = NoResults
    \/ /\ ~nearMe /\ typed # NoQuery /\ search = NoSearch => results = Found(typed, dataNode)
       /\ nearMe /\ runs = {} => results = Found(coords, dataNode)
===============================================================================
