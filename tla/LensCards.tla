------------------------------- MODULE LensCards -------------------------------
(***************************************************************************)
(* The hover cards of Lens on a page of search results (content.js): a     *)
(* tooltip with the facts of a place, shown for the pointer or for the     *)
(* keyboard, from a cache of the page or from the node in the settings.    *)
(* Timers fire in any order.                                               *)
(***************************************************************************)
EXTENDS Naturals, FiniteSets

CONSTANTS
    Card,         \* places on the page
    NoCard,
    Node,         \* what the settings may name
    DefaultNode,  \* DEFAULT_NODE_URL, unless they name one
    NotKnown,
    MaxCardOps    \* bound: what the traveler does

ASSUME CardAssumption ==
    NoCard \notin Card /\ DefaultNode \notin Node /\ NotKnown \notin Node \cup {DefaultNode}
    /\ MaxCardOps \in Nat

VARIABLES
    setting,     \* nodeUrl in the storage of the browser
    told,        \* the page has been told of the setting
    known,       \* _nodeUrl
    cards,       \* _cardCache
    hovered, focused,
    keyboard,    \* _keyboardTooltip
    calls,       \* handleCardEnter under way
    hides,       \* timers that are to hide the tooltip
    lastHide,    \* _tooltipHideTimer: the only one that can be cancelled
    tooltip,
    cardOps,
    changedAmid, \* history: the setting changed while a call was under way
    keyed,       \* history: the keyboard was used
    wentOn       \* history: a call that had asked for the node went on after the pointer had left

cardVars == <<setting, told, known, cards, hovered, focused, keyboard, calls, hides,
              lastHide, tooltip, cardOps, changedAmid, keyed, wentOn>>

\* Calls "ask" for the node, wait for the "timer" of the hover, and "look" the place up.
Enter(c, kb, at, node) == [id |-> cardOps + 1, card |-> c, kb |-> kb, at |-> at, node |-> node]
CardEntry(node, found) == [node |-> node, found |-> found]
NoEntry == CardEntry(NotKnown, FALSE)

\* Cards get their listeners once the node is known.
CardInit ==
    /\ setting = DefaultNode /\ told = TRUE /\ known = setting
    /\ cards = [c \in Card |-> NoEntry]
    /\ hovered = NoCard /\ focused = NoCard /\ keyboard = FALSE
    /\ calls = {} /\ hides = {} /\ lastHide = 0
    /\ tooltip = NoCard
    /\ cardOps = 0 /\ changedAmid = FALSE /\ keyed = FALSE /\ wentOn = FALSE

CardOp == cardOps < MaxCardOps /\ cardOps' = cardOps + 1
Attended(c) == c \in {hovered, focused}
CancelHide == hides' = {h \in hides : h.id # lastHide}
ArmHide(kb) ==
    /\ hides' = hides \cup {[id |-> cardOps + 1, kb |-> kb]}
    /\ lastHide' = cardOps + 1

\* One timer for all cards: the latest call replaces the one that waits.
Waits(call) == {other \in calls : other.at # "timer" /\ other.id # call.id} \cup {call}

\* handleCardEnter: it goes on at once when the node is known.
CardEnter(c, kb) ==
    IF known = NotKnown
    THEN /\ calls' = calls \cup {Enter(c, kb, "ask", NotKnown)}
         /\ UNCHANGED hides
    ELSE /\ calls' = Waits(Enter(c, kb, "timer", known))
         /\ CancelHide
-----------------------------------------------------------------------------
(* The traveler. *)

MouseEnter(c) ==
    /\ CardOp
    /\ hovered = NoCard /\ hovered' = c
    /\ keyboard' = FALSE
    /\ CardEnter(c, FALSE)
    /\ UNCHANGED <<setting, told, known, cards, focused, lastHide, tooltip, changedAmid, keyed, wentOn>>

\* handleCardLeave
MouseLeave ==
    /\ CardOp
    /\ hovered # NoCard /\ hovered' = NoCard
    /\ calls' = {call \in calls : call.at # "timer"}
    /\ ArmHide(FALSE)
    /\ UNCHANGED <<setting, told, known, cards, focused, keyboard, tooltip, changedAmid, keyed, wentOn>>

\* The button on a card gets the focus, or is clicked.
Focus(c) ==
    /\ CardOp
    /\ focused = NoCard \/ (focused = c /\ hovered = c)
    /\ focused' = c
    /\ keyboard' = TRUE /\ keyed' = TRUE
    /\ CardEnter(c, TRUE)
    /\ UNCHANGED <<setting, told, known, cards, hovered, lastHide, tooltip, changedAmid, wentOn>>

\* What waits or is looked up goes on.
Blur ==
    /\ CardOp
    /\ focused # NoCard /\ focused' = NoCard
    /\ ArmHide(TRUE)
    /\ UNCHANGED <<setting, told, known, cards, hovered, keyboard, calls, tooltip, changedAmid, keyed, wentOn>>

ChangeSetting ==
    /\ CardOp
    /\ setting' \in Node \ {setting}
    /\ told' = FALSE
    /\ UNCHANGED <<known, cards, hovered, focused, keyboard, calls, hides, lastHide,
                   tooltip, changedAmid, keyed, wentOn>>
-----------------------------------------------------------------------------
(* The page. *)

\* Mutant: the cards of the former node stay.
KeepCards == cards' = cards

ForgetCards == cards' = [c \in Card |-> NoEntry]

\* chrome.storage.onChanged; what is under way is not stopped.
SettingChanged ==
    /\ ~told /\ told' = TRUE
    /\ known' = NotKnown
    /\ ForgetCards
    /\ changedAmid' = (changedAmid \/ calls # {})
    /\ UNCHANGED <<setting, hovered, focused, keyboard, calls, hides, lastHide, tooltip,
                   cardOps, keyed, wentOn>>

\* The background page reads the setting (RESOLVE_NODE) and asks that node for its peer.
SettingIsRead(call) ==
    /\ call.at = "ask" /\ call.node = NotKnown
    /\ calls' = (calls \ {call}) \cup {[call EXCEPT !.node = setting]}
    /\ UNCHANGED <<setting, told, known, cards, hovered, focused, keyboard, hides, lastHide,
                   tooltip, cardOps, changedAmid, keyed, wentOn>>

\* The call goes on, wherever the pointer is by now.
NodeIsKnown(call) ==
    /\ call.at = "ask" /\ call.node # NotKnown
    /\ known' = call.node
    /\ calls' = Waits([call EXCEPT !.at = "timer"])
    /\ CancelHide
    /\ wentOn' = (wentOn \/ ~Attended(call.card))
    /\ UNCHANGED <<setting, told, cards, hovered, focused, keyboard, lastHide, tooltip,
                   cardOps, changedAmid, keyed>>

Show(c) == tooltip' = c /\ CancelHide
ShowNothing == UNCHANGED <<tooltip, hides>>

\* The card is in the cache, or it is looked up.
HoverTimerFires(call) ==
    /\ call.at = "timer"
    /\ LET entry == cards[call.card]
       IN IF entry = NoEntry
          THEN calls' = (calls \ {call}) \cup {[call EXCEPT !.at = "look"]} /\ ShowNothing
          ELSE /\ calls' = calls \ {call}
               /\ IF entry.found THEN Show(call.card) ELSE ShowNothing
    /\ UNCHANGED <<setting, told, known, cards, hovered, focused, keyboard, lastHide,
                   cardOps, changedAmid, keyed, wentOn>>

\* Mutant: the facts are shown without a look at the pointer.
ShownAnyway(call) == {TRUE}

\* A place found by its heading (the node does not know its id) is shown to the
\* pointer only.
Wanted(call) == {hovered = call.card, hovered = call.card \/ call.kb}

PlaceFound(call) ==
    /\ call.at = "look"
    /\ calls' = calls \ {call}
    /\ cards' = [cards EXCEPT ![call.card] = CardEntry(call.node, TRUE)]
    /\ \E wanted \in Wanted(call) : IF wanted THEN Show(call.card) ELSE ShowNothing
    /\ UNCHANGED <<setting, told, known, hovered, focused, keyboard, lastHide, cardOps,
                   changedAmid, keyed, wentOn>>

\* The node has no such place or fails; a refusal (401) is not remembered.
PlaceMissing(call) ==
    /\ call.at = "look"
    /\ calls' = calls \ {call}
    /\ cards' \in {cards, [cards EXCEPT ![call.card] = CardEntry(call.node, FALSE)]}
    /\ UNCHANGED <<setting, told, known, hovered, focused, keyboard, hides, lastHide,
                   tooltip, cardOps, changedAmid, keyed, wentOn>>

CardExpires(c) ==
    /\ cards[c] # NoEntry
    /\ cards' = [cards EXCEPT ![c] = NoEntry]
    /\ UNCHANGED <<setting, told, known, hovered, focused, keyboard, calls, hides, lastHide,
                   tooltip, cardOps, changedAmid, keyed, wentOn>>

\* A timer of the keyboard hides nothing when the pointer came next.
HideTimerFires(h) ==
    /\ hides' = hides \ {h}
    /\ tooltip' = IF h.kb /\ ~keyboard THEN tooltip ELSE NoCard
    /\ keyboard' = (keyboard /\ ~h.kb)
    /\ UNCHANGED <<setting, told, known, cards, hovered, focused, calls, lastHide, cardOps,
                   changedAmid, keyed, wentOn>>

CardNext ==
    \/ MouseLeave \/ Blur \/ ChangeSetting \/ SettingChanged
    \/ \E c \in Card : MouseEnter(c) \/ Focus(c) \/ CardExpires(c)
    \/ \E call \in calls :
         \/ SettingIsRead(call) \/ NodeIsKnown(call) \/ HoverTimerFires(call)
         \/ PlaceFound(call) \/ PlaceMissing(call)
    \/ \E h \in hides : HideTimerFires(h)

CardSpec == CardInit /\ [][CardNext]_cardVars
-----------------------------------------------------------------------------
(* Properties. *)

\* The types of the variables; at most one call waits for the timer.
CardTypeOK ==
    /\ setting \in Node \cup {DefaultNode} /\ told \in BOOLEAN
    /\ known \in Node \cup {DefaultNode, NotKnown}
    /\ cards \in [Card -> [node : Node \cup {DefaultNode}, found : BOOLEAN] \cup {NoEntry}]
    /\ {hovered, focused, tooltip} \subseteq Card \cup {NoCard}
    /\ {keyboard, changedAmid, keyed, wentOn} \subseteq BOOLEAN
    /\ \A call \in calls :
         /\ call.card \in Card /\ call.kb \in BOOLEAN /\ call.at \in {"ask", "timer", "look"}
         /\ call.node = NotKnown => call.at = "ask"
    /\ Cardinality({call \in calls : call.at = "timer"}) <= 1
    /\ \A h \in hides : h.id \in 1..MaxCardOps /\ h.kb \in BOOLEAN
    /\ lastHide \in 0..MaxCardOps /\ cardOps \in 0..MaxCardOps

\* Once the page has been told of a change of the setting, it asks no other node and
\* remembers no card of another one.  The exception is a change while a call was under
\* way: its answer names the former node again (getNodeUrl), or is written into the
\* cleared cache.
CardsAreOfTheNode ==
    told /\ ~changedAmid =>
        /\ known \in {setting, NotKnown}
        /\ \A c \in Card : cards[c].node \in {setting, NotKnown}

\* A traveler with a pointer who has left the cards leaves no tooltip behind, however
\* timers and answers overlap.  Exceptions: the keyboard, whose lookups go on after the
\* focus is lost and whose timer hides nothing once the pointer was used; a call that
\* waited for the node.
NoTooltipIsLeftBehind ==
    \/ keyed
    \/ wentOn
    \/ hovered = NoCard /\ calls = {} /\ hides = {} => tooltip = NoCard
===============================================================================
