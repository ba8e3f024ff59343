---------------------------- MODULE Clients_proofs ----------------------------
(***************************************************************************)
(* Theorems about what the clients keep and show of a node, for any number *)
(* of cards, nodes, keys, requests, answers and devices: the components    *)
(* LensCards, ClientCache, PlaceSearch, AuditWizard and ProfileSync.  The  *)
(* last ones are about ClientsAndPeers, where these and the components of  *)
(* PeerTables and the sessions run side by side.                           *)
(***************************************************************************)
EXTENDS ClientsAndPeers, PeerTables_proofs, Sessions_proofs,
        SequenceTheorems, FiniteSetTheorems, TLAPS

-----------------------------------------------------------------------------
(* LensCards. *)

Settings == Node \cup {DefaultNode}
CardCall == [id : Nat, card : Card, kb : BOOLEAN, at : {"ask", "timer", "look"},
             node : Settings \cup {NotKnown}]
PageEntry == [node : Settings, found : BOOLEAN] \cup {NoEntry}

\* The types, with the records of the calls and timers in full.
CardsTyped ==
    /\ setting \in Settings /\ told \in BOOLEAN /\ known \in Settings \cup {NotKnown}
    /\ cards \in [Card -> PageEntry]
    /\ hovered \in Card \cup {NoCard} /\ focused \in Card \cup {NoCard}
    /\ tooltip \in Card \cup {NoCard}
    /\ keyboard \in BOOLEAN /\ changedAmid \in BOOLEAN /\ keyed \in BOOLEAN /\ wentOn \in BOOLEAN
    /\ calls \subseteq CardCall
    /\ \A req \in calls : req.node = NotKnown => req.at = "ask"
    /\ \A req, other \in calls : req.at = "timer" /\ other.at = "timer" => req = other
    /\ hides \subseteq [id : 1..MaxCardOps, kb : BOOLEAN]
    /\ lastHide \in 0..MaxCardOps /\ cardOps \in 0..MaxCardOps

\* A page that knows of the setting asks no other node and keeps no other's cards.
OneNode ==
    told /\ ~changedAmid =>
        /\ known \in {setting, NotKnown}
        /\ \A c \in Card : cards[c].node \in {setting, NotKnown}
        /\ \A req \in calls : req.node \in {setting, NotKnown}

\* With the pointer alone, what waits for the timer is what the pointer is on, and a
\* tooltip that it left has a timer that will hide it.
PointerSound ==
    ~keyed /\ ~wentOn =>
        /\ focused = NoCard /\ ~keyboard
        /\ \A req \in calls : ~req.kb /\ (req.at = "timer" => hovered = req.card)
        /\ \A h \in hides : ~h.kb
        /\ tooltip # NoCard /\ hovered = NoCard => hides # {}

CardIInv == CardsTyped /\ OneNode /\ PointerSound

\* Calls that go on, with the one that now waits for the timer.
LEMMA WaitsTyped ==
    ASSUME CardsTyped, NEW req \in CardCall, req.node # NotKnown
    PROVE  /\ Waits(req) \subseteq calls \cup {req}
           /\ \A a \in Waits(req) : a.at = "timer" => a = req
           /\ Waits(req) \subseteq CardCall
           /\ \A a \in Waits(req) : a.node = NotKnown => a.at = "ask"
  BY DEF Waits, CardsTyped

\* What the pointer or the focus on a card adds.
LEMMA CardEntered ==
    ASSUME CardsTyped, NEW c \in Card, NEW kb \in BOOLEAN, CardEnter(c, kb)
    PROVE  /\ calls' \subseteq CardCall
           /\ \A req \in calls' : req.node = NotKnown => req.at = "ask"
           /\ \A req, other \in calls' : req.at = "timer" /\ other.at = "timer" => req = other
           /\ \A req \in calls' :
                 req \in calls \/ (req.card = c /\ req.kb = kb /\ req.node = known)
           /\ \A req \in calls' : req.at = "timer" => req.card = c \/ req \in calls
           /\ hides' \subseteq hides
  <1> DEFINE ask == Enter(c, kb, "ask", NotKnown)
             wait == Enter(c, kb, "timer", known)
  <1>1. CASE known = NotKnown
    <2>1. ask \in CardCall /\ ask.at = "ask" /\ ask.card = c /\ ask.kb = kb /\ ask.node = known
      BY <1>1 DEF CardsTyped, CardCall, Enter
    <2>2. calls' = calls \cup {ask} /\ hides' = hides
      BY <1>1 DEF CardEnter
    <2> HIDE DEF ask
    <2> QED
      BY <1>1, <2>1, <2>2 DEF CardsTyped
  <1>2. CASE known # NotKnown
    <2>1. wait \in CardCall /\ wait.card = c /\ wait.kb = kb /\ wait.node = known
      BY <1>2 DEF CardsTyped, CardCall, Enter, Settings
    <2>2. calls' = Waits(wait) /\ hides' \subseteq hides
      BY <1>2 DEF CardEnter, CancelHide
    <2> HIDE DEF wait
    <2>3. /\ calls' \subseteq calls \cup {wait} /\ calls' \subseteq CardCall
          /\ \A a \in calls' : a.at = "timer" => a = wait
          /\ \A a \in calls' : a.node = NotKnown => a.at = "ask"
      BY <1>2, <2>1, <2>2, WaitsTyped
    <2> QED
      BY <2>1, <2>2, <2>3
  <1> QED
    BY <1>1, <1>2

\* A call that goes on is a call with one field changed.
LEMMA CallChanged ==
    ASSUME NEW req \in CardCall
    PROVE  /\ \A n \in Settings : LET new == [req EXCEPT !.node = n] IN
                new \in CardCall /\ new.at = req.at /\ new.card = req.card
                /\ new.kb = req.kb /\ new.node = n
           /\ \A at \in {"timer", "look"} : LET new == [req EXCEPT !.at = at] IN
                new \in CardCall /\ new.at = at /\ new.card = req.card
                /\ new.kb = req.kb /\ new.node = req.node
  BY DEF CardCall, Settings

LEMMA EntryTyped ==
    ASSUME NEW n \in Settings, NEW found \in BOOLEAN
    PROVE  CardEntry(n, found) \in PageEntry /\ CardEntry(n, found).node = n
  BY DEF PageEntry, CardEntry

LEMMA NoEntryNode == NoEntry \in PageEntry /\ NoEntry.node = NotKnown
  BY DEF PageEntry, NoEntry, CardEntry

LEMMA OpCounted ==
    ASSUME CardsTyped, CardOp
    PROVE  cardOps' \in 0..MaxCardOps
  BY CardAssumption DEF CardsTyped, CardOp

LEMMA CardMouseEnter ==
    ASSUME CardIInv, NEW c \in Card, MouseEnter(c)
    PROVE  CardIInv'
  <1>1. CardsTyped /\ OneNode /\ PointerSound /\ CardEnter(c, FALSE)
    BY DEF CardIInv, MouseEnter
  <1>2. CardsTyped'
    BY <1>1, CardEntered, OpCounted DEF CardsTyped, MouseEnter
  <1>3. OneNode'
    BY <1>1, CardEntered DEF OneNode, MouseEnter
  <1>4. hovered = NoCard /\ hovered' = c /\ UNCHANGED <<keyed, wentOn, focused>> /\ ~keyboard'
    BY DEF MouseEnter
  <1>5. \A req \in calls : req.card # NoCard
    BY <1>1, CardAssumption DEF CardsTyped, CardCall
  <1>6. ASSUME ~keyed, ~wentOn, NEW req \in calls'
        PROVE  ~req.kb /\ (req.at = "timer" => c = req.card)
    BY <1>1, <1>4, <1>5, <1>6, CardEntered DEF PointerSound
  <1>7. PointerSound'
    BY <1>1, <1>4, <1>6, CardEntered, CardAssumption DEF PointerSound
  <1> QED
    BY <1>2, <1>3, <1>7 DEF CardIInv

LEMMA CardFocus ==
    ASSUME CardIInv, NEW c \in Card, Focus(c)
    PROVE  CardIInv'
  <1>1. CardsTyped /\ OneNode /\ CardEnter(c, TRUE)
    BY DEF CardIInv, Focus
  <1>2. CardsTyped'
    BY <1>1, CardEntered, OpCounted DEF CardsTyped, Focus
  <1>3. OneNode'
    BY <1>1, CardEntered DEF OneNode, Focus
  <1>4. PointerSound'
    BY DEF PointerSound, Focus
  <1> QED
    BY <1>2, <1>3, <1>4 DEF CardIInv

\* A timer that is to hide the tooltip.
LEMMA HideArmed ==
    ASSUME CardsTyped, NEW kb \in BOOLEAN, CardOp, ArmHide(kb)
    PROVE  /\ hides' \subseteq [id : 1..MaxCardOps, kb : BOOLEAN] /\ hides' # {}
           /\ \A h \in hides' : h \in hides \/ h.kb = kb
           /\ lastHide' \in 0..MaxCardOps /\ cardOps' \in 0..MaxCardOps
  <1> DEFINE h == [id |-> cardOps + 1, kb |-> kb]
  <1>1. h.id \in 1..MaxCardOps /\ cardOps' \in 0..MaxCardOps /\ cardOps + 1 \in 0..MaxCardOps
    BY CardAssumption DEF CardsTyped, CardOp
  <1>2. h \in [id : 1..MaxCardOps, kb : BOOLEAN] /\ h.kb = kb
    BY <1>1
  <1>3. hides' = hides \cup {h} /\ lastHide' = cardOps + 1
    BY DEF ArmHide
  <1> HIDE DEF h
  <1> QED
    BY <1>1, <1>2, <1>3 DEF CardsTyped

LEMMA CardMouseLeave ==
    ASSUME CardIInv, MouseLeave
    PROVE  CardIInv'
  <1>1. CardsTyped /\ OneNode /\ PointerSound /\ CardOp /\ ArmHide(FALSE)
    BY DEF CardIInv, MouseLeave
  <1>2. CardsTyped'
    BY <1>1, HideArmed DEF CardsTyped, MouseLeave
  <1>3. OneNode'
    BY <1>1 DEF OneNode, MouseLeave
  <1>4. PointerSound'
    BY <1>1, HideArmed DEF PointerSound, MouseLeave
  <1> QED
    BY <1>2, <1>3, <1>4 DEF CardIInv

LEMMA CardBlur ==
    ASSUME CardIInv, Blur
    PROVE  CardIInv'
  <1>1. CardsTyped /\ OneNode /\ PointerSound /\ CardOp /\ ArmHide(TRUE)
    BY DEF CardIInv, Blur
  <1>2. CardsTyped'
    BY <1>1, HideArmed DEF CardsTyped, Blur
  <1>3. OneNode'
    BY <1>1 DEF OneNode, Blur
  <1>4. PointerSound'
    BY <1>1 DEF PointerSound, Blur
  <1> QED
    BY <1>2, <1>3, <1>4 DEF CardIInv

LEMMA CardChangeSetting ==
    ASSUME CardIInv, ChangeSetting
    PROVE  CardIInv'
  <1>1. CardsTyped'
    <2>1. setting' \in Settings /\ told' \in BOOLEAN
      BY DEF ChangeSetting, Settings
    <2> QED
      BY <2>1, OpCounted DEF CardIInv, CardsTyped, ChangeSetting
  <1>2. OneNode' /\ PointerSound'
    BY DEF CardIInv, OneNode, PointerSound, ChangeSetting
  <1> QED
    BY <1>1, <1>2 DEF CardIInv

LEMMA CardSettingChanged ==
    ASSUME CardIInv, SettingChanged
    PROVE  CardIInv'
  <1>1. cards' \in [Card -> PageEntry] /\ \A c \in Card : cards'[c].node = NotKnown
    BY NoEntryNode DEF SettingChanged, ForgetCards
  <1>2. CardsTyped'
    BY <1>1 DEF CardIInv, CardsTyped, SettingChanged
  <1>3. OneNode'
    BY <1>1 DEF CardIInv, CardsTyped, OneNode, SettingChanged
  <1>4. PointerSound'
    BY DEF CardIInv, PointerSound, SettingChanged
  <1> QED
    BY <1>2, <1>3, <1>4 DEF CardIInv

LEMMA CardSettingIsRead ==
    ASSUME CardIInv, NEW req \in calls, SettingIsRead(req)
    PROVE  CardIInv'
  <1> DEFINE new == [req EXCEPT !.node = setting]
  <1>1. req \in CardCall /\ setting \in Settings
    BY DEF CardIInv, CardsTyped
  <1>2. /\ new \in CardCall /\ new.at = "ask" /\ new.card = req.card
        /\ new.kb = req.kb /\ new.node = setting
    BY <1>1, CallChanged DEF SettingIsRead
  <1>3. calls' = (calls \ {req}) \cup {new}
    BY DEF SettingIsRead
  <1> HIDE DEF new
  <1>4. CardsTyped'
    BY <1>2, <1>3 DEF CardIInv, CardsTyped, SettingIsRead
  <1>5. OneNode' /\ PointerSound'
    BY <1>2, <1>3 DEF CardIInv, OneNode, PointerSound, SettingIsRead
  <1> QED
    BY <1>4, <1>5 DEF CardIInv

LEMMA CardNodeIsKnown ==
    ASSUME CardIInv, NEW req \in calls, NodeIsKnown(req)
    PROVE  CardIInv'
  <1> DEFINE new == [req EXCEPT !.at = "timer"]
  <1>1. req \in CardCall /\ req.node \in Settings
    BY DEF CardIInv, CardsTyped, NodeIsKnown, CardCall
  <1>2. /\ new \in CardCall /\ new.at = "timer" /\ new.card = req.card
        /\ new.kb = req.kb /\ new.node = req.node
    BY <1>1, CallChanged
  <1>3. calls' = Waits(new) /\ hides' \subseteq hides
    BY DEF NodeIsKnown, CancelHide
  <1> HIDE DEF new
  <1>4. /\ calls' \subseteq calls \cup {new} /\ calls' \subseteq CardCall
        /\ \A a \in calls' : a.at = "timer" => a = new
        /\ \A a \in calls' : a.node = NotKnown => a.at = "ask"
    BY <1>2, <1>3, WaitsTyped DEF CardIInv, NodeIsKnown
  <1>5. CardsTyped'
    BY <1>1, <1>3, <1>4 DEF CardIInv, CardsTyped, NodeIsKnown
  <1>6. OneNode'
    BY <1>2, <1>4 DEF CardIInv, OneNode, NodeIsKnown
  <1>7. req.card \in Card
    BY <1>1 DEF CardCall
  <1>8. PointerSound'
    <2> SUFFICES ASSUME ~keyed', ~wentOn'
                 PROVE  /\ focused' = NoCard /\ ~keyboard'
                        /\ \A a \in calls' : ~a.kb /\ (a.at = "timer" => hovered' = a.card)
                        /\ \A h \in hides' : ~h.kb
                        /\ tooltip' # NoCard /\ hovered' = NoCard => hides' # {}
      BY DEF PointerSound
    <2>1. ~keyed /\ ~wentOn /\ Attended(req.card)
      BY DEF NodeIsKnown, CardIInv, CardsTyped
    <2>2. hovered = req.card /\ hovered # NoCard
      BY <1>7, <2>1, CardAssumption DEF Attended, CardIInv, PointerSound
    <2> QED
      BY <1>2, <1>3, <1>4, <2>1, <2>2 DEF NodeIsKnown, CardIInv, PointerSound
  <1> QED
    BY <1>5, <1>6, <1>8 DEF CardIInv

LEMMA CardHoverTimerFires ==
    ASSUME CardIInv, NEW req \in calls, HoverTimerFires(req)
    PROVE  CardIInv'
  <1> DEFINE new == [req EXCEPT !.at = "look"]
  <1>1. req \in CardCall /\ req.card \in Card /\ req.at = "timer"
    BY DEF CardIInv, CardsTyped, CardCall, HoverTimerFires
  <1>2. /\ new \in CardCall /\ new.at = "look" /\ new.card = req.card
        /\ new.kb = req.kb /\ new.node = req.node
    BY <1>1, CallChanged
  <1>3. \/ calls' = (calls \ {req}) \cup {new} /\ UNCHANGED <<tooltip, hides>>
        \/ calls' = calls \ {req} /\ tooltip' = req.card /\ hides' \subseteq hides
        \/ calls' = calls \ {req} /\ UNCHANGED <<tooltip, hides>>
    BY DEF HoverTimerFires, Show, ShowNothing, CancelHide
  <1> HIDE DEF new
  <1>4. CardsTyped'
    BY <1>1, <1>2, <1>3 DEF CardIInv, CardsTyped, HoverTimerFires
  <1>5. OneNode'
    BY <1>2, <1>3 DEF CardIInv, OneNode, HoverTimerFires
  <1>6. PointerSound'
    BY <1>1, <1>2, <1>3, CardAssumption DEF CardIInv, PointerSound, HoverTimerFires
  <1> QED
    BY <1>4, <1>5, <1>6 DEF CardIInv

LEMMA CardPlaceFound ==
    ASSUME CardIInv, NEW req \in calls, PlaceFound(req)
    PROVE  CardIInv'
  <1> DEFINE entry == CardEntry(req.node, TRUE)
  <1>1. /\ req \in CardCall /\ req.card \in Card /\ req.node \in Settings
        /\ req.node # NotKnown
    BY DEF CardIInv, CardsTyped, CardCall, PlaceFound
  <1>2. entry \in PageEntry /\ entry.node = req.node
    BY <1>1, EntryTyped
  <1>3. cards' = [cards EXCEPT ![req.card] = entry] /\ calls' = calls \ {req}
    BY DEF PlaceFound
  <1> HIDE DEF entry
  <1>4. \/ UNCHANGED <<tooltip, hides>>
        \/ /\ tooltip' = req.card /\ hides' \subseteq hides
           /\ hovered = req.card \/ req.kb
    BY DEF PlaceFound, Show, ShowNothing, CancelHide, Wanted
  <1>5. CardsTyped'
    BY <1>1, <1>2, <1>3, <1>4 DEF CardIInv, CardsTyped, PlaceFound
  <1>6. OneNode'
    BY <1>1, <1>2, <1>3 DEF CardIInv, CardsTyped, OneNode, PlaceFound
  <1>7. PointerSound'
    BY <1>1, <1>3, <1>4, CardAssumption DEF CardIInv, PointerSound, PlaceFound
  <1> QED
    BY <1>5, <1>6, <1>7 DEF CardIInv

LEMMA CardPlaceMissing ==
    ASSUME CardIInv, NEW req \in calls, PlaceMissing(req)
    PROVE  CardIInv'
  <1> DEFINE entry == CardEntry(req.node, FALSE)
  <1>1. /\ req \in CardCall /\ req.card \in Card /\ req.node \in Settings
    BY DEF CardIInv, CardsTyped, CardCall, PlaceMissing
  <1>2. entry \in PageEntry /\ entry.node = req.node
    BY <1>1, EntryTyped
  <1>3. /\ cards' = cards \/ cards' = [cards EXCEPT ![req.card] = entry]
        /\ calls' = calls \ {req}
    BY DEF PlaceMissing
  <1> HIDE DEF entry
  <1>4. CardsTyped'
    BY <1>1, <1>2, <1>3 DEF CardIInv, CardsTyped, PlaceMissing
  <1>5. OneNode'
    BY <1>1, <1>2, <1>3 DEF CardIInv, CardsTyped, OneNode, PlaceMissing
  <1>6. PointerSound'
    BY <1>3 DEF CardIInv, PointerSound, PlaceMissing
  <1> QED
    BY <1>4, <1>5, <1>6 DEF CardIInv

LEMMA CardExpired ==
    ASSUME CardIInv, NEW c \in Card, CardExpires(c)
    PROVE  CardIInv'
  <1>1. CardsTyped'
    BY NoEntryNode DEF CardIInv, CardsTyped, CardExpires
  <1>2. OneNode'
    BY NoEntryNode DEF CardIInv, CardsTyped, OneNode, CardExpires
  <1>3. PointerSound'
    BY DEF CardIInv, PointerSound, CardExpires
  <1> QED
    BY <1>1, <1>2, <1>3 DEF CardIInv

LEMMA CardHideTimerFires ==
    ASSUME CardIInv, NEW h \in hides, HideTimerFires(h)
    PROVE  CardIInv'
  <1>1. CardsTyped'
    BY DEF CardIInv, CardsTyped, HideTimerFires
  <1>2. OneNode'
    BY DEF CardIInv, OneNode, HideTimerFires
  <1>3. PointerSound'
    BY DEF CardIInv, PointerSound, HideTimerFires
  <1> QED
    BY <1>1, <1>2, <1>3 DEF CardIInv

LEMMA InitCardIInv == CardInit => CardIInv
  <1> SUFFICES ASSUME CardInit PROVE CardsTyped /\ OneNode /\ PointerSound
    BY DEF CardIInv
  <1>1. 0 \in 0..MaxCardOps
    BY CardAssumption
  <1>2. CardsTyped
    BY <1>1, NoEntryNode DEF CardInit, CardsTyped, Settings
  <1>3. OneNode /\ PointerSound
    BY NoEntryNode DEF CardInit, OneNode, PointerSound
  <1> QED
    BY <1>2, <1>3

LEMMA NextCardIInv == CardIInv /\ [CardNext]_cardVars => CardIInv'
  <1> SUFFICES ASSUME CardIInv, [CardNext]_cardVars PROVE CardIInv'
    OBVIOUS
  <1>1. ASSUME NEW c \in Card, MouseEnter(c) \/ Focus(c) \/ CardExpires(c) PROVE CardIInv'
    BY <1>1, CardMouseEnter, CardFocus, CardExpired
  <1>2. CASE MouseLeave \/ Blur \/ ChangeSetting \/ SettingChanged
    BY <1>2, CardMouseLeave, CardBlur, CardChangeSetting, CardSettingChanged
  <1>3. ASSUME NEW req \in calls,
               \/ SettingIsRead(req) \/ NodeIsKnown(req) \/ HoverTimerFires(req)
               \/ PlaceFound(req) \/ PlaceMissing(req)
        PROVE  CardIInv'
    BY <1>3, CardSettingIsRead, CardNodeIsKnown, CardHoverTimerFires, CardPlaceFound,
       CardPlaceMissing
  <1>4. ASSUME NEW h \in hides, HideTimerFires(h) PROVE CardIInv'
    BY <1>4, CardHideTimerFires
  <1>5. CASE UNCHANGED cardVars
    BY <1>5 DEF cardVars, CardIInv, CardsTyped, OneNode, PointerSound
  <1> QED
    BY <1>1, <1>2, <1>3, <1>4, <1>5 DEF CardNext

LEMMA SpecCardIInv == CardSpec => []CardIInv
  <1> QED
    BY InitCardIInv, NextCardIInv, PTL DEF CardSpec

\* The variables have their types, and however hovers and answers overlap, one call
\* at most waits for the timer of the hover.
THEOREM CardTypesHold == CardSpec => []CardTypeOK
  <1>1. CardIInv => CardTypeOK
    <2> SUFFICES ASSUME CardsTyped PROVE CardTypeOK
      BY DEF CardIInv
    <2> DEFINE W == {req \in calls : req.at = "timer"}
    <2>1. Cardinality(W) <= 1
      <3>1. CASE W = {}
        BY <3>1, FS_EmptySet
      <3>2. ASSUME NEW w \in W PROVE Cardinality(W) <= 1
        <4>1. W = {w}
          BY <3>2 DEF CardsTyped
        <4>2. Cardinality({w}) = 1
          BY FS_Singleton
        <4> HIDE DEF W
        <4> QED
          BY <4>1, <4>2
      <3> QED
        BY <3>1, <3>2
    <2> QED
      BY <2>1 DEF CardsTyped, CardTypeOK, CardCall, Settings, PageEntry
  <1> QED
    BY <1>1, SpecCardIInv, PTL

\* Once the page has been told of a change of the setting it asks no other node and
\* shows no card of another one, unless a call was under way at a change.
THEOREM CardsAreOfOneNode == CardSpec => []CardsAreOfTheNode
  <1>1. CardIInv => CardsAreOfTheNode
    BY DEF CardIInv, OneNode, CardsAreOfTheNode
  <1> QED
    BY <1>1, SpecCardIInv, PTL

\* A pointer that has left the cards leaves no tooltip behind, in whatever order the
\* timers fire and the answers come, the keyboard and the wait for the node aside.
THEOREM TooltipsAreHidden == CardSpec => []NoTooltipIsLeftBehind
  <1>1. CardIInv => NoTooltipIsLeftBehind
    BY DEF CardIInv, PointerSound, NoTooltipIsLeftBehind
  <1> QED
    BY <1>1, SpecCardIInv, PTL
-----------------------------------------------------------------------------
(* ClientCache. *)

Item == [key : CacheKey, version : 0..MaxChanges, overtaken : BOOLEAN]
CacheRequest == [at : {"sent", "read"}, data : Item]

\* The memory is a list of entries with different keys.
MemoryTyped(m) ==
    /\ m \in Seq(Item)
    /\ \A i, j \in 1..Len(m) : m[i].key = m[j].key => i = j

\* A registered request is one for the key.
CacheTyped ==
    /\ client \in {"access", "lens"}
    /\ version \in 0..MaxChanges /\ confirmed \in 0..MaxChanges /\ confirmed <= version
    /\ owed \in BOOLEAN
    /\ MemoryTyped(memory) /\ Len(memory) <= MaxEntries
    /\ DOMAIN request \subseteq Fetch
    /\ \A r \in DOMAIN request : request[r] \in CacheRequest
    /\ inflight \in [CacheKey -> DOMAIN request \cup {NoFetch}]
    /\ \A k \in CacheKey : inflight[k] # NoFetch => request[inflight[k]].data.key = k

\* Data that was not under way at the last invalidation has seen what is confirmed.
Current(e) == e.key \in Concerned => e.overtaken \/ e.version >= confirmed

AnswersCurrent ==
    /\ \A i \in 1..Len(memory) : Current(memory[i])
    /\ \A r \in DOMAIN request : request[r].at = "read" => Current(request[r].data)

CacheIInv == CacheTyped /\ AnswersCurrent

\* What is left without one entry: the others, in their order.
LEMMA WithoutEntry ==
    ASSUME MemoryTyped(memory), NEW i \in 1..Len(memory)
    PROVE  /\ MemoryTyped(Without(i)) /\ Len(Without(i)) = Len(memory) - 1
           /\ \A j \in 1..Len(Without(i)) : \E x \in 1..Len(memory) :
                 x # i /\ Without(i)[j] = memory[x]
  <1> DEFINE A == SubSeq(memory, 1, i - 1)
             B == SubSeq(memory, i + 1, Len(memory))
             W == A \o B
  <1>1. memory \in Seq(Item) /\ Len(memory) \in Nat /\ i \in Nat /\ i >= 1 /\ i <= Len(memory)
    BY DEF MemoryTyped
  <1>2. /\ A \in Seq(Item) /\ Len(A) = i - 1
        /\ \A j \in 1..(i - 1) : A[j] = memory[j]
    BY <1>1
  <1>3. /\ B \in Seq(Item) /\ Len(B) = Len(memory) - i
        /\ \A j \in 1..(Len(memory) - i) : B[j] = memory[i + j]
    BY <1>1
  <1> HIDE DEF A, B
  <1>4. /\ W \in Seq(Item) /\ Len(W) = Len(memory) - 1
        /\ \A j \in 1..Len(W) : W[j] = memory[IF j < i THEN j ELSE j + 1]
    <2>0. /\ W \in Seq(Item) /\ Len(W) = Len(A) + Len(B)
          /\ \A j \in 1..(Len(A) + Len(B)) : W[j] = IF j <= Len(A) THEN A[j] ELSE B[j - Len(A)]
      BY <1>2, <1>3, ConcatProperties
    <2>1. W \in Seq(Item) /\ Len(W) = Len(memory) - 1
      <3> HIDE DEF W
      <3> QED
        BY <1>1, <1>2, <1>3, <2>0
    <2>2. \A j \in 1..Len(W) : W[j] = IF j <= Len(A) THEN A[j] ELSE B[j - Len(A)]
      BY <2>0
    <2>3. ASSUME NEW j \in 1..Len(W) PROVE W[j] = memory[IF j < i THEN j ELSE j + 1]
      <3>1. CASE j < i
        <4>1. j <= Len(A) /\ j \in 1..(i - 1)
          BY <1>1, <1>2, <2>1, <3>1
        <4> HIDE DEF W
        <4> QED
          BY <1>2, <2>2, <3>1, <4>1
      <3>2. CASE ~(j < i)
        <4>1. /\ ~(j <= Len(A)) /\ j - Len(A) \in 1..(Len(memory) - i)
              /\ i + (j - Len(A)) = j + 1
          BY <1>1, <1>2, <2>1, <3>2
        <4> HIDE DEF W
        <4> QED
          BY <1>3, <2>2, <3>2, <4>1
      <3> QED
        BY <3>1, <3>2
    <2> QED
      BY <2>1, <2>3
  <1>5. Without(i) = W
    BY DEF Without, A, B
  <1> HIDE DEF W
  <1>6. ASSUME NEW j \in 1..Len(W)
        PROVE  \E x \in 1..Len(memory) : x # i /\ W[j] = memory[x]
    <2>1. CASE j < i
      <3>1. j \in 1..Len(memory) /\ j # i /\ W[j] = memory[j]
        BY <1>1, <1>4, <2>1
      <3> QED
        BY <3>1
    <2>2. CASE ~(j < i)
      <3>1. j + 1 \in 1..Len(memory) /\ j + 1 # i /\ W[j] = memory[j + 1]
        BY <1>1, <1>4, <2>2
      <3> QED
        BY <3>1
    <2> QED
      BY <2>1, <2>2
  <1>7. \A j, l \in 1..Len(W) : W[j].key = W[l].key => j = l
    <2> SUFFICES ASSUME NEW j \in 1..Len(W), NEW l \in 1..Len(W), W[j].key = W[l].key
                 PROVE  j = l
      OBVIOUS
    <2> DEFINE x == IF j < i THEN j ELSE j + 1
               y == IF l < i THEN l ELSE l + 1
    <2>1. x \in 1..Len(memory) /\ y \in 1..Len(memory) /\ W[j] = memory[x] /\ W[l] = memory[y]
      BY <1>1, <1>4
    <2>2. x = y
      BY <2>1 DEF MemoryTyped
    <2> QED
      BY <1>1, <1>4, <2>2
  <1> QED
    BY <1>4, <1>5, <1>6, <1>7 DEF MemoryTyped

LEMMA CacheReadRemembered ==
    ASSUME CacheIInv, NEW k \in CacheKey, ReadRemembered(k)
    PROVE  CacheIInv'
  <1>1. PICK i \in 1..Len(memory) : memory' = Append(Without(i), memory[i])
    <2>1. DOMAIN memory = 1..Len(memory)
      BY DEF CacheIInv, CacheTyped, MemoryTyped
    <2>2. Remembered(k) \subseteq 1..Len(memory)
      BY <2>1 DEF Remembered
    <2> QED
      BY <2>2 DEF ReadRemembered
  <1>2. /\ MemoryTyped(Without(i)) /\ Len(Without(i)) = Len(memory) - 1
        /\ \A j \in 1..Len(Without(i)) : \E x \in 1..Len(memory) :
              x # i /\ Without(i)[j] = memory[x]
    BY WithoutEntry DEF CacheIInv, CacheTyped
  <1> DEFINE W == Without(i)
  <1>3. memory[i] \in Item /\ W \in Seq(Item) /\ Len(memory) \in Nat
    BY <1>2 DEF CacheIInv, CacheTyped, MemoryTyped
  <1> HIDE DEF W
  <1>4. /\ memory' \in Seq(Item) /\ Len(memory') = Len(memory)
        /\ \A j \in 1..Len(W) : memory'[j] = W[j]
        /\ memory'[Len(memory)] = memory[i]
    BY <1>1, <1>2, <1>3 DEF W
  <1>5. \A j \in 1..Len(W) : memory'[j].key # memory[i].key
    BY <1>2, <1>4 DEF W, CacheIInv, CacheTyped, MemoryTyped
  <1>6. \A j, l \in 1..Len(memory') : memory'[j].key = memory'[l].key => j = l
    <2> SUFFICES ASSUME NEW j \in 1..Len(memory), NEW l \in 1..Len(memory),
                        memory'[j].key = memory'[l].key
                 PROVE  j = l
      BY <1>4
    <2>1. Len(W) = Len(memory) - 1
      BY <1>2 DEF W
    <2>2. CASE j \in 1..Len(W) /\ l \in 1..Len(W)
      BY <1>2, <1>4, <2>2 DEF W, MemoryTyped
    <2>3. CASE j = Len(memory) \/ l = Len(memory)
      BY <1>3, <1>4, <1>5, <2>1, <2>3
    <2> QED
      BY <1>3, <2>1, <2>2, <2>3
  <1>7. \A j \in 1..Len(memory') : Current(memory'[j])
    BY <1>1, <1>2, <1>3, <1>4 DEF W, CacheIInv, AnswersCurrent
  <1>8. UNCHANGED <<client, version, inflight, request, confirmed, owed>>
    BY DEF ReadRemembered
  <1> QED
    BY <1>4, <1>6, <1>7, <1>8 DEF CacheIInv, CacheTyped, MemoryTyped, AnswersCurrent, Current, Concerned

LEMMA CacheOutlivesItsTime ==
    ASSUME CacheIInv, NEW k \in CacheKey, OutlivesItsTime(k)
    PROVE  CacheIInv'
  <1>1. PICK i \in 1..Len(memory) : memory' = Without(i)
    BY DEF OutlivesItsTime, Remembered, CacheIInv, CacheTyped, MemoryTyped
  <1>2. /\ MemoryTyped(memory') /\ Len(memory') = Len(memory) - 1
        /\ \A j \in 1..Len(memory') : \E x \in 1..Len(memory) : memory'[j] = memory[x]
    BY <1>1, WithoutEntry DEF CacheIInv, CacheTyped
  <1>3. Len(memory) \in Nat
    BY DEF CacheIInv, CacheTyped, MemoryTyped
  <1>4. UNCHANGED <<client, version, inflight, request, confirmed, owed>>
    BY DEF OutlivesItsTime
  <1>5. Len(memory') <= MaxEntries
    BY <1>2, <1>3, CacheAssumption DEF CacheIInv, CacheTyped
  <1> QED
    BY <1>2, <1>4, <1>5 DEF CacheIInv, CacheTyped, MemoryTyped, AnswersCurrent, Current, Concerned

LEMMA CacheStartFetch ==
    ASSUME CacheIInv, NEW k \in CacheKey, StartFetch(k)
    PROVE  CacheIInv'
  <1>1. PICK r \in Fetch \ DOMAIN request :
           /\ inflight' = [inflight EXCEPT ![k] = r]
           /\ request' = [d \in DOMAIN request \cup {r} |->
                            IF d = r THEN [at |-> "sent", data |-> Kept(k, 0, FALSE)]
                            ELSE request[d]]
    BY DEF StartFetch, Fresh
  <1> DEFINE new == [at |-> "sent", data |-> Kept(k, 0, FALSE)]
  <1>2. new \in CacheRequest /\ new.at = "sent" /\ new.data.key = k
    BY CacheAssumption DEF CacheRequest, Item, Kept
  <1>3. /\ DOMAIN request' = DOMAIN request \cup {r} /\ request'[r] = new
        /\ \A d \in DOMAIN request : request'[d] = request[d]
    BY <1>1
  <1> HIDE DEF new
  <1>4. inflight' \in [CacheKey -> DOMAIN request' \cup {NoFetch}]
    BY <1>1, <1>3 DEF CacheIInv, CacheTyped
  <1>5. \A x \in CacheKey : inflight'[x] # NoFetch => request'[inflight'[x]].data.key = x
    BY <1>1, <1>2, <1>3 DEF CacheIInv, CacheTyped
  <1>6. UNCHANGED <<client, version, memory, confirmed, owed>>
    BY DEF StartFetch
  <1> QED
    BY <1>2, <1>3, <1>4, <1>5, <1>6 DEF CacheIInv, CacheTyped, AnswersCurrent, Current, Concerned

LEMMA CacheNodeReads ==
    ASSUME CacheIInv, NEW r \in DOMAIN request, NodeReads(r)
    PROVE  CacheIInv'
  <1> DEFINE old == request[r]
             new == [at |-> "read", data |-> [old.data EXCEPT !.version = version]]
  <1>1. old \in CacheRequest /\ old.data \in Item
    BY DEF CacheIInv, CacheTyped, CacheRequest
  <1>2. /\ new \in CacheRequest /\ new.data.key = old.data.key /\ new.data.version = version
    BY <1>1 DEF CacheRequest, Item, CacheIInv, CacheTyped
  <1>3. DOMAIN request' = DOMAIN request /\ request'[r] = new
        /\ \A d \in DOMAIN request : d # r => request'[d] = request[d]
    BY <1>1 DEF NodeReads, CacheRequest
  <1> HIDE DEF new
  <1>4. UNCHANGED <<client, version, memory, inflight, confirmed, owed>>
    BY DEF NodeReads
  <1>5. inflight' \in [CacheKey -> DOMAIN request' \cup {NoFetch}]
    BY <1>3, <1>4 DEF CacheIInv, CacheTyped
  <1>6. \A x \in CacheKey : inflight'[x] # NoFetch => request'[inflight'[x]].data.key = x
    BY <1>2, <1>3, <1>4 DEF CacheIInv, CacheTyped
  <1> QED
    BY <1>2, <1>3, <1>4, <1>5, <1>6 DEF CacheIInv, CacheTyped, AnswersCurrent, Current, Concerned

\* The end of a request leaves no key registered with it.
LEMMA Unregistered ==
    ASSUME CacheTyped, NEW r \in DOMAIN request, Unregister(r)
    PROVE  /\ DOMAIN request' = DOMAIN request \ {r}
           /\ \A d \in DOMAIN request' : request'[d] = request[d]
           /\ inflight' \in [CacheKey -> DOMAIN request' \cup {NoFetch}]
           /\ \A x \in CacheKey : inflight'[x] # NoFetch => request'[inflight'[x]].data.key = x
  <1> DEFINE k == request[r].data.key
  <1>1. k \in CacheKey
    BY DEF CacheTyped, CacheRequest, Item
  <1>2. DOMAIN request' = DOMAIN request \ {r} /\ \A d \in DOMAIN request' : request'[d] = request[d]
    BY DEF Unregister
  <1>3. inflight' = [inflight EXCEPT ![k] = NoFetch]
    BY DEF Unregister
  <1>4. \A x \in CacheKey : inflight[x] = r => x = k
    BY CacheAssumption DEF CacheTyped
  <1>5. \A x \in CacheKey : inflight'[x] # NoFetch =>
           inflight'[x] = inflight[x] /\ inflight[x] \in DOMAIN request'
    BY <1>1, <1>2, <1>3, <1>4 DEF CacheTyped
  <1>6. inflight' \in [CacheKey -> DOMAIN request' \cup {NoFetch}]
    BY <1>1, <1>3, <1>5 DEF CacheTyped
  <1> QED
    BY <1>2, <1>5, <1>6 DEF CacheTyped

LEMMA CacheFetchFails ==
    ASSUME CacheIInv, NEW r \in DOMAIN request, FetchFails(r)
    PROVE  CacheIInv'
  <1>1. /\ DOMAIN request' = DOMAIN request \ {r}
        /\ \A d \in DOMAIN request' : request'[d] = request[d]
        /\ inflight' \in [CacheKey -> DOMAIN request' \cup {NoFetch}]
        /\ \A x \in CacheKey : inflight'[x] # NoFetch => request'[inflight'[x]].data.key = x
    BY Unregistered DEF CacheIInv, FetchFails
  <1>2. UNCHANGED <<client, version, memory, confirmed, owed>>
    BY DEF FetchFails
  <1> QED
    BY <1>1, <1>2 DEF CacheIInv, CacheTyped, AnswersCurrent, Current, Concerned

\* What is remembered: the entry itself, and entries that were there.
LEMMA RememberedSound ==
    ASSUME CacheTyped, NEW e \in Item, Remember(e)
    PROVE  /\ MemoryTyped(memory') /\ Len(memory') <= MaxEntries
           /\ \A j \in 1..Len(memory') :
                 memory'[j] = e \/ \E x \in 1..Len(memory) : memory'[j] = memory[x]
  <1> DEFINE written == IF Remembered(e.key) = {} THEN Append(memory, e)
                        ELSE [i \in DOMAIN memory |-> IF memory[i].key = e.key THEN e ELSE memory[i]]
  <1>1. memory \in Seq(Item) /\ Len(memory) \in Nat /\ DOMAIN memory = 1..Len(memory)
    BY DEF CacheTyped, MemoryTyped
  <1>2. memory' = IF Len(written) > MaxEntries THEN Tail(written) ELSE written
    BY DEF Remember
  <1>3. /\ MemoryTyped(written) /\ Len(written) <= MaxEntries + 1
        /\ \A j \in 1..Len(written) :
              written[j] = e \/ \E x \in 1..Len(memory) : written[j] = memory[x]
    <2>1. CASE Remembered(e.key) = {}
      <3>1. /\ written \in Seq(Item) /\ Len(written) = Len(memory) + 1
            /\ \A j \in 1..Len(memory) : written[j] = memory[j]
            /\ written[Len(memory) + 1] = e
        BY <1>1, <2>1
      <3>2. \A j \in 1..Len(memory) : memory[j].key # e.key
        BY <1>1, <2>1 DEF Remembered
      <3> HIDE DEF written
      <3>3. \A j \in 1..Len(written) : j \in 1..Len(memory) \/ j = Len(memory) + 1
        BY <1>1, <3>1
      <3>4. \A i, j \in 1..Len(written) : written[i].key = written[j].key => i = j
        BY <3>1, <3>2, <3>3 DEF CacheTyped, MemoryTyped
      <3>5. Len(written) <= MaxEntries + 1
        BY <1>1, <3>1, CacheAssumption DEF CacheTyped
      <3> QED
        BY <3>1, <3>3, <3>4, <3>5 DEF MemoryTyped
    <2>2. CASE Remembered(e.key) # {}
      <3>1. written = [i \in 1..Len(memory) |-> IF memory[i].key = e.key THEN e ELSE memory[i]]
        BY <1>1, <2>2
      <3> HIDE DEF written
      <3>2. \A i \in 1..Len(memory) : written[i] \in Item /\ written[i].key = memory[i].key
        BY <1>1, <3>1
      <3>3. written \in Seq(Item) /\ Len(written) = Len(memory)
        BY <1>1, <3>1, <3>2
      <3>4. Len(written) <= MaxEntries + 1
        BY <1>1, <3>3, CacheAssumption DEF CacheTyped
      <3> QED
        BY <3>1, <3>2, <3>3, <3>4 DEF CacheTyped, MemoryTyped
    <2> QED
      BY <2>1, <2>2
  <1> HIDE DEF written
  <1>4. CASE ~(Len(written) > MaxEntries)
    <2>1. Len(written) <= MaxEntries
      BY <1>3, <1>4, CacheAssumption DEF MemoryTyped
    <2> QED
      BY <1>2, <1>3, <1>4, <2>1
  <1>5. CASE Len(written) > MaxEntries
    <2>1. memory' = Tail(written) /\ written \in Seq(Item) /\ written # << >>
      BY <1>2, <1>3, <1>5, CacheAssumption DEF MemoryTyped
    <2>2. /\ memory' \in Seq(Item) /\ Len(memory') = Len(written) - 1
          /\ \A i \in 1..Len(memory') : memory'[i] = written[i + 1]
      BY <2>1
    <2>3. \A i \in 1..Len(memory') : i + 1 \in 1..Len(written)
      BY <2>1, <2>2
    <2>4. ASSUME NEW i \in 1..Len(memory'), NEW j \in 1..Len(memory'),
                 memory'[i].key = memory'[j].key
          PROVE  i = j
      <3>1. written[i + 1].key = written[j + 1].key
        BY <2>2, <2>4
      <3>2. i + 1 = j + 1
        BY <1>3, <2>3, <3>1 DEF MemoryTyped
      <3> QED
        BY <3>2
    <2>5. Len(memory') <= MaxEntries
      BY <1>3, <2>1, <2>2, CacheAssumption
    <2> QED
      BY <1>3, <2>2, <2>3, <2>4, <2>5 DEF MemoryTyped
  <1> QED
    BY <1>4, <1>5

LEMMA CacheAnswerArrives ==
    ASSUME CacheIInv, NEW r \in DOMAIN request, AnswerArrives(r)
    PROVE  CacheIInv'
  <1> DEFINE e == request[r].data
  <1>1. e \in Item /\ Current(e)
    BY DEF CacheIInv, CacheTyped, CacheRequest, AnswersCurrent, AnswerArrives
  <1>2. /\ DOMAIN request' = DOMAIN request \ {r}
        /\ \A d \in DOMAIN request' : request'[d] = request[d]
        /\ inflight' \in [CacheKey -> DOMAIN request' \cup {NoFetch}]
        /\ \A x \in CacheKey : inflight'[x] # NoFetch => request'[inflight'[x]].data.key = x
    BY Unregistered DEF CacheIInv, AnswerArrives
  <1>3. /\ MemoryTyped(memory') /\ Len(memory') <= MaxEntries
        /\ \A j \in 1..Len(memory') :
              memory'[j] = e \/ \E x \in 1..Len(memory) : memory'[j] = memory[x]
    BY <1>1, RememberedSound DEF CacheIInv, AnswerArrives
  <1>4. UNCHANGED <<client, version, confirmed, owed>>
    BY DEF AnswerArrives
  <1>5. \A j \in 1..Len(memory') : Current(memory'[j])
    BY <1>1, <1>3 DEF CacheIInv, AnswersCurrent
  <1> QED
    BY <1>2, <1>3, <1>4, <1>5 DEF CacheIInv, CacheTyped, MemoryTyped, AnswersCurrent, Current, Concerned

LEMMA CacheInvalidate ==
    ASSUME CacheIInv, Invalidate
    PROVE  CacheIInv'
  <1> DEFINE left == {i \in DOMAIN memory : memory[i].key \notin Concerned}
             size == Cardinality(left)
  <1>1. confirmed' = version /\ owed' = FALSE /\ UNCHANGED <<client, version>>
    BY DEF Invalidate
  <1>2. /\ left \subseteq 1..Len(memory) /\ size \in Nat /\ size <= Len(memory)
        /\ Len(memory) \in Nat
    <2>1. DOMAIN memory = 1..Len(memory) /\ Len(memory) \in Nat
      BY DEF CacheIInv, CacheTyped, MemoryTyped
    <2>2. IsFiniteSet(1..Len(memory)) /\ Cardinality(1..Len(memory)) = Len(memory)
      <3>1. PICK l \in Nat : l = Len(memory)
        BY <2>1
      <3>2. IsFiniteSet(1..l) /\ Cardinality(1..l) = l
        BY FS_Interval
      <3> QED
        BY <3>1, <3>2
    <2> QED
      BY <2>1, <2>2, FS_Subset, FS_CardinalityType
  <1>3. PICK at \in [1..size -> left] :
          /\ \A m, n \in 1..size : m < n => at[m] < at[n]
          /\ memory' = [n \in 1..size |-> memory[at[n]]]
    BY DEF Invalidate, ForgetKeys
  <1>4. ASSUME NEW n \in 1..size
        PROVE  /\ at[n] \in 1..Len(memory) /\ memory'[n] = memory[at[n]]
               /\ memory'[n] \in Item /\ memory'[n].key \notin Concerned
    <2>1. at[n] \in left /\ memory'[n] = memory[at[n]]
      BY <1>3
    <2> QED
      BY <1>2, <2>1 DEF CacheIInv, CacheTyped, MemoryTyped
  <1> HIDE DEF size, left
  <1>5. memory' \in Seq(Item) /\ Len(memory') = size
    <2>1. memory' \in [1..size -> Item]
      BY <1>3, <1>4
    <2> QED
      BY <1>2, <2>1
  <1>6. MemoryTyped(memory') /\ Len(memory') <= MaxEntries
    <2>1. ASSUME NEW m \in 1..size, NEW n \in 1..size, memory'[m].key = memory'[n].key
          PROVE  m = n
      <3>1. at[m] = at[n]
        BY <1>4, <2>1 DEF CacheIInv, CacheTyped, MemoryTyped
      <3>2. at[m] \in Nat /\ ~(m < n) /\ ~(n < m)
        BY <1>2, <1>3, <1>4, <3>1
      <3> QED
        BY <1>2, <3>2
    <2> QED
      BY <1>2, <1>5, <2>1, CacheAssumption DEF MemoryTyped, CacheIInv, CacheTyped
  <1>7. ASSUME NEW r \in DOMAIN request
        PROVE  /\ request'[r] \in CacheRequest
               /\ request'[r].data.key = request[r].data.key
               /\ request[r].data.key \in Concerned => request'[r].data.overtaken
    <2> DEFINE over == request[r].data.overtaken \/ request[r].data.key \in Concerned
               d == [request[r].data EXCEPT !.overtaken = over]
    <2>1. request[r] \in CacheRequest /\ request[r].data \in Item
      BY DEF CacheIInv, CacheTyped, CacheRequest
    <2>2. over \in BOOLEAN
      BY <2>1 DEF Item
    <2>3. request'[r] = [request[r] EXCEPT !.data = d]
      BY DEF Invalidate
    <2>4. request[r].data.key \in Concerned => over
      OBVIOUS
    <2> HIDE DEF over
    <2>5. d \in Item /\ d.key = request[r].data.key /\ d.overtaken = over
      BY <2>1, <2>2 DEF Item
    <2> HIDE DEF d
    <2> QED
      BY <2>1, <2>3, <2>4, <2>5 DEF CacheRequest
  <1>8. DOMAIN request' = DOMAIN request
    BY DEF Invalidate
  <1>9. /\ inflight' \in [CacheKey -> DOMAIN request \cup {NoFetch}]
        /\ \A x \in CacheKey : inflight'[x] # NoFetch => inflight'[x] = inflight[x]
    BY DEF Invalidate, CacheIInv, CacheTyped
  <1>10. \A x \in CacheKey : inflight'[x] # NoFetch => request'[inflight'[x]].data.key = x
    BY <1>7, <1>9 DEF CacheIInv, CacheTyped
  <1>11. version \in 0..MaxChanges /\ version <= version
    BY CacheAssumption DEF CacheIInv, CacheTyped
  <1>12. AnswersCurrent'
    <2>1. Concerned' = Concerned
      BY <1>1 DEF Concerned
    <2>2. \A i \in 1..Len(memory') : memory'[i].key \notin Concerned
      BY <1>4, <1>5
    <2>3. \A r \in DOMAIN request' :
             request'[r].data.key \in Concerned => request'[r].data.overtaken
      BY <1>7, <1>8
    <2> QED
      BY <2>1, <2>2, <2>3 DEF AnswersCurrent, Current
  <1>13. CacheTyped'
    BY <1>1, <1>6, <1>7, <1>8, <1>9, <1>10, <1>11 DEF CacheIInv, CacheTyped, MemoryTyped
  <1> QED
    BY <1>12, <1>13 DEF CacheIInv

LEMMA CacheChangeStored ==
    ASSUME CacheIInv, ChangeStored
    PROVE  CacheIInv'
  <1>1. version' \in 0..MaxChanges /\ confirmed <= version' /\ owed' \in BOOLEAN
    BY CacheAssumption DEF CacheIInv, CacheTyped, ChangeStored
  <1>2. UNCHANGED <<client, memory, inflight, request, confirmed>>
    BY DEF ChangeStored
  <1> QED
    BY <1>1, <1>2 DEF CacheIInv, CacheTyped, MemoryTyped, AnswersCurrent, Current, Concerned

LEMMA InitCacheIInv == CacheInit => CacheIInv
  <1> SUFFICES ASSUME CacheInit PROVE CacheTyped /\ AnswersCurrent
    BY DEF CacheIInv
  <1>1. 0 \in 0..MaxChanges /\ 0 <= MaxEntries
    BY CacheAssumption
  <1>2. MemoryTyped(memory) /\ Len(memory) = 0
    BY DEF CacheInit, MemoryTyped
  <1>3. DOMAIN request = {}
    BY DEF CacheInit
  <1>4. CacheTyped
    <2>1. /\ inflight \in [CacheKey -> DOMAIN request \cup {NoFetch}]
          /\ \A k \in CacheKey : inflight[k] = NoFetch
      BY DEF CacheInit
    <2>2. client \in {"access", "lens"} /\ version = 0 /\ confirmed = 0 /\ owed = FALSE
      BY DEF CacheInit
    <2>3. DOMAIN request \subseteq Fetch /\ \A r \in DOMAIN request : request[r] \in CacheRequest
      BY <1>3
    <2>4. confirmed <= version
      BY <2>2
    <2> QED
      BY <1>1, <1>2, <2>1, <2>2, <2>3, <2>4 DEF CacheTyped
  <1>5. \A i \in 1..Len(memory) : FALSE
    BY <1>2
  <1> QED
    BY <1>3, <1>4, <1>5 DEF AnswersCurrent

LEMMA NextCacheIInv == CacheIInv /\ [CacheNext]_cacheVars => CacheIInv'
  <1> SUFFICES ASSUME CacheIInv, [CacheNext]_cacheVars PROVE CacheIInv'
    OBVIOUS
  <1>1. CASE ChangeStored \/ Invalidate
    BY <1>1, CacheChangeStored, CacheInvalidate
  <1>2. ASSUME NEW k \in CacheKey, ReadRemembered(k) \/ StartFetch(k) \/ OutlivesItsTime(k)
        PROVE  CacheIInv'
    BY <1>2, CacheReadRemembered, CacheStartFetch, CacheOutlivesItsTime
  <1>3. ASSUME NEW r \in DOMAIN request, NodeReads(r) \/ AnswerArrives(r) \/ FetchFails(r)
        PROVE  CacheIInv'
    BY <1>3, CacheNodeReads, CacheAnswerArrives, CacheFetchFails
  <1>4. CASE UNCHANGED cacheVars
    BY <1>4 DEF cacheVars, CacheIInv, CacheTyped, MemoryTyped, AnswersCurrent,
             Current, Concerned
  <1> QED
    BY <1>1, <1>2, <1>3, <1>4 DEF CacheNext

LEMMA SpecCacheIInv == CacheSpec => []CacheIInv
  <1> QED
    BY InitCacheIInv, NextCacheIInv, PTL DEF CacheSpec

\* However requests for one key overlap, a key is remembered once, the memory keeps to
\* its limit, and a key is registered with a request that is under way.
THEOREM CacheTypesHold == CacheSpec => []CacheTypeOK
  <1>1. CacheIInv => CacheTypeOK
    <2> SUFFICES ASSUME CacheTyped PROVE CacheTypeOK
      BY DEF CacheIInv
    <2>1. ASSUME NEW k \in CacheKey PROVE Cardinality(Remembered(k)) <= 1
      <3>1. CASE Remembered(k) = {}
        BY <3>1, FS_EmptySet
      <3>2. ASSUME NEW i \in Remembered(k) PROVE Cardinality(Remembered(k)) <= 1
        <4>1. Remembered(k) = {i}
          BY <3>2 DEF Remembered, CacheTyped, MemoryTyped
        <4>2. Cardinality({i}) = 1
          BY FS_Singleton
        <4> QED
          BY <4>1, <4>2
      <3> QED
        BY <3>1, <3>2
    <2>2. confirmed \in 0..version
      BY CacheAssumption DEF CacheTyped
    <2> QED
      BY <2>1, <2>2 DEF CacheTyped, MemoryTyped, Item, CacheTypeOK
  <1> QED
    BY <1>1, SpecCacheIInv, PTL

\* What a client remembers has seen every change it knows is stored, but for answers
\* that were under way when it invalidated.
THEOREM OwnChangesAreSeen == CacheSpec => []OwnChangeIsSeen
  <1>1. CacheIInv => OwnChangeIsSeen
    BY DEF CacheIInv, CacheTyped, MemoryTyped, AnswersCurrent, Current, OwnChangeIsSeen
  <1> QED
    BY <1>1, SpecCacheIInv, PTL
-----------------------------------------------------------------------------
(* PlaceSearch. *)

SearchState == [at : {"idle", "due", "asked", "joined"}, q : Asked, node : DataNode \cup {NoSpot}]
NearRun == [at : Spot, id : Nat, node : DataNode, asked : BOOLEAN]

\* A typed search that is not idle is for what is typed, at the data node.
SearchMatches(s, q, near, node) ==
    /\ s \in SearchState
    /\ s.at = "idle" => s = NoSearch
    /\ s.at # "idle" => ~near /\ q \in Query /\ s.q = q /\ s.node = node

SearchTyped ==
    /\ homeNode \in HomeNode /\ typed \in Asked /\ nearMe \in BOOLEAN /\ coords \in Spot \cup {NoSpot}
    /\ dataNode \in DataNode
    /\ results \in [what : Query \cup Spot, from : DataNode] \cup {NoResults}
    /\ SearchMatches(search, typed, nearMe, dataNode)
    /\ aborted \subseteq [q : Query, node : DataNode]
    /\ runs \subseteq NearRun
    /\ nearMe => coords # NoSpot /\ typed.text = NoText
    /\ refresh \in Spot \cup {NoSpot}
    /\ searchOps \in 0..MaxSearchOps /\ strayed \in BOOLEAN

SearchIInv == SearchTyped /\ ShownIsWhatWasAskedFor

LEMMA FoundTyped ==
    ASSUME NEW what \in Query \cup Spot, NEW node \in DataNode
    PROVE  Found(what, node) \in [what : Query \cup Spot, from : DataNode]
  BY DEF Found

LEMMA NoQueryAsked ==
    /\ NoQuery \in Asked /\ NoQuery.text = NoText /\ Query \subseteq Asked
    /\ \A q \in Asked : q = NoQuery \/ q \in Query
    /\ \A q \in Asked : LET cleared == [q EXCEPT !.text = NoText]
                        IN cleared \in Asked /\ cleared.text = NoText
  BY DEF NoQuery, Asked, Query

LEMMA IdleSearch ==
    /\ NoSearch \in SearchState /\ NoSearch.at = "idle"
    /\ \A q, near, node : SearchMatches(NoSearch, q, near, node)
  BY NoQueryAsked DEF NoSearch, SearchState, Searching, SearchMatches

\* What the effect on the query, the position or the node does to the typed search.
LEMMA RestartMatches ==
    ASSUME SearchTyped, NEW q \in Asked, NEW near \in BOOLEAN, NEW node \in DataNode,
           RestartSearch(q, near, node)
    PROVE  /\ SearchMatches(search', q, near, node)
           /\ aborted' \subseteq [q : Query, node : DataNode]
           /\ near \/ q = NoQuery \/ search' # NoSearch
  <1>1. aborted' \subseteq [q : Query, node : DataNode]
    <2>1. CASE search.at = "asked"
      <3>1. search.q \in Query /\ search.node \in DataNode
        BY <2>1 DEF SearchTyped, SearchMatches
      <3>2. [q |-> search.q, node |-> search.node] \in [q : Query, node : DataNode]
        BY <3>1
      <3> QED
        BY <2>1, <3>2 DEF RestartSearch, Aborts, SearchTyped
    <2>2. CASE search.at # "asked"
      BY <2>2 DEF RestartSearch, Aborts, SearchTyped
    <2> QED
      BY <2>1, <2>2
  <1>2. CASE near \/ q = NoQuery
    BY <1>1, <1>2, IdleSearch DEF RestartSearch
  <1>3. CASE ~(near \/ q = NoQuery)
    <2> DEFINE due == Searching("due", q, node)
    <2>1. due \in SearchState /\ due.at = "due" /\ due.q = q /\ due.node = node
      BY DEF Searching, SearchState
    <2>2. search' = due
      BY <1>3 DEF RestartSearch
    <2> HIDE DEF due
    <2>3. SearchMatches(search', q, near, node) /\ search' # NoSearch
      BY <1>3, <2>1, <2>2, IdleSearch, NoQueryAsked DEF SearchMatches
    <2> QED
      BY <1>1, <2>3
  <1> QED
    BY <1>2, <1>3

\* It runs only when one of them changed.
LEMMA ShowsMatches ==
    ASSUME SearchTyped, NEW q \in Asked, NEW near \in BOOLEAN,
           NEW node \in DataNode, Shows(q, near, node)
    PROVE  /\ typed' = q /\ nearMe' = near /\ dataNode' = node
           /\ SearchMatches(search', q, near, node)
           /\ aborted' \subseteq [q : Query, node : DataNode]
           /\ \/ q = typed /\ near = nearMe /\ node = dataNode /\ search' = search
              \/ /\ q # typed \/ near # nearMe \/ node # dataNode
                 /\ near \/ q = NoQuery \/ search' # NoSearch
  <1>1. typed' = q /\ nearMe' = near /\ dataNode' = node
    BY DEF Shows
  <1>2. CASE <<q, near, node>> = <<typed, nearMe, dataNode>>
    <2>1. q = typed /\ near = nearMe /\ node = dataNode
      BY <1>2
    <2>2. search' = search /\ aborted' = aborted
      BY <1>2 DEF Shows
    <2> QED
      BY <1>1, <2>1, <2>2 DEF SearchTyped
  <1>3. CASE <<q, near, node>> # <<typed, nearMe, dataNode>>
    <2>1. RestartSearch(q, near, node) /\ (q # typed \/ near # nearMe \/ node # dataNode)
      BY <1>3 DEF Shows
    <2> QED
      BY <1>1, <2>1, RestartMatches
  <1> QED
    BY <1>2, <1>3

LEMMA SearchOpCounted ==
    ASSUME SearchTyped, SearchOp
    PROVE  searchOps' \in 0..MaxSearchOps /\ searchOps \in Nat /\ searchOps' \in Nat
  BY SearchAssumption DEF SearchTyped, SearchOp

\* A search around a place.
LEMMA RunTyped ==
    ASSUME NEW s \in Spot, NEW id \in Nat, NEW h \in HomeNode
    PROVE  Run(s, id, h) \in NearRun
  BY DEF Run, NearRun, DataNode

LEMMA SearchType ==
    ASSUME SearchIInv, NEW q \in Asked, Type(q)
    PROVE  SearchIInv'
  <1>1. /\ typed' = q /\ nearMe' = FALSE /\ dataNode' = dataNode
        /\ SearchMatches(search', q, FALSE, dataNode)
        /\ aborted' \subseteq [q : Query, node : DataNode]
        /\ q = NoQuery \/ search' # NoSearch
    BY ShowsMatches DEF SearchIInv, SearchTyped, Type
  <1>2. results' = IF q = NoQuery THEN NoResults ELSE results
    BY DEF Type, UnlessCleared
  <1>3. SearchTyped'
    BY <1>1, <1>2, SearchOpCounted DEF SearchIInv, SearchTyped, Type
  <1>4. ShownIsWhatWasAskedFor'
    BY <1>1, <1>2 DEF ShownIsWhatWasAskedFor
  <1> QED
    BY <1>3, <1>4 DEF SearchIInv

LEMMA SearchStartNearMe ==
    ASSUME SearchIInv, StartNearMe
    PROVE  SearchIInv'
  BY SearchOpCounted DEF SearchIInv, SearchTyped, StartNearMe, ShownIsWhatWasAskedFor

LEMMA SearchLocated ==
    ASSUME SearchIInv, NEW s \in Spot, Located(s)
    PROVE  SearchIInv'
  <1> DEFINE q == [typed EXCEPT !.text = NoText]
  <1>1. q \in Asked /\ q.text = NoText
    BY NoQueryAsked DEF SearchIInv, SearchTyped
  <1>2. dataNode \in DataNode /\ Shows(q, TRUE, dataNode)
    BY DEF SearchIInv, SearchTyped, Located
  <1> HIDE DEF q
  <1>3. /\ typed' = q /\ nearMe' = TRUE /\ dataNode' = dataNode
        /\ SearchMatches(search', q, TRUE, dataNode)
        /\ aborted' \subseteq [q : Query, node : DataNode]
    BY <1>1, <1>2, ShowsMatches DEF SearchIInv
  <1>4. Run(s, searchOps, homeNode) \in NearRun
    BY RunTyped, SearchAssumption DEF SearchIInv, SearchTyped
  <1>5. SearchTyped'
    BY <1>1, <1>3, <1>4, SearchAssumption DEF SearchIInv, SearchTyped, Located
  <1>6. ShownIsWhatWasAskedFor'
    BY DEF Located, ShownIsWhatWasAskedFor
  <1> QED
    BY <1>5, <1>6 DEF SearchIInv

LEMMA SearchNotLocated ==
    ASSUME SearchIInv, NotLocated
    PROVE  SearchIInv'
  <1>1. /\ typed' = typed /\ nearMe' = FALSE /\ dataNode' = dataNode
        /\ SearchMatches(search', typed, FALSE, dataNode)
        /\ aborted' \subseteq [q : Query, node : DataNode]
    BY ShowsMatches DEF SearchIInv, SearchTyped, NotLocated
  <1>2. SearchTyped'
    BY <1>1 DEF SearchIInv, SearchTyped, NotLocated
  <1>3. ShownIsWhatWasAskedFor'
    BY DEF NotLocated, ShownIsWhatWasAskedFor
  <1> QED
    BY <1>2, <1>3 DEF SearchIInv

LEMMA SearchReactivate ==
    ASSUME SearchIInv, Reactivate
    PROVE  SearchIInv'
  <1>1. Run(coords, searchOps', homeNode) \in NearRun
    BY RunTyped, SearchOpCounted DEF SearchIInv, SearchTyped, Reactivate
  <1>2. SearchTyped'
    BY <1>1, SearchOpCounted DEF SearchIInv, SearchTyped, Reactivate
  <1>3. ShownIsWhatWasAskedFor'
    BY DEF SearchIInv, SearchTyped, Reactivate, ShownIsWhatWasAskedFor
  <1> QED
    BY <1>2, <1>3 DEF SearchIInv

LEMMA SearchRefreshViewport ==
    ASSUME SearchIInv, NEW s \in Spot, RefreshViewport(s)
    PROVE  SearchIInv'
  BY SearchOpCounted DEF SearchIInv, SearchTyped, RefreshViewport, ShownIsWhatWasAskedFor

LEMMA SearchBrowseThisArea ==
    ASSUME SearchIInv, NEW s \in Spot, BrowseThisArea(s)
    PROVE  SearchIInv'
  <1>1. /\ typed' = NoQuery /\ nearMe' = FALSE /\ dataNode' = dataNode
        /\ SearchMatches(search', NoQuery, FALSE, dataNode)
        /\ aborted' \subseteq [q : Query, node : DataNode]
    BY ShowsMatches, NoQueryAsked DEF SearchIInv, SearchTyped, BrowseThisArea
  <1>2. SearchTyped'
    BY <1>1, SearchOpCounted, NoQueryAsked DEF SearchIInv, SearchTyped, BrowseThisArea
  <1>3. ShownIsWhatWasAskedFor'
    BY DEF BrowseThisArea, ShownIsWhatWasAskedFor
  <1> QED
    BY <1>2, <1>3 DEF SearchIInv

LEMMA SearchTimerFires ==
    ASSUME SearchIInv, TimerFires
    PROVE  SearchIInv'
  <1>1. PICK at \in {"joined", "asked"} : search' = [search EXCEPT !.at = at]
    BY DEF TimerFires
  <1>2. search \in SearchState /\ search.at # "idle"
    BY DEF SearchIInv, SearchTyped, SearchMatches, TimerFires
  <1>3. /\ search' \in SearchState /\ search'.at = at
        /\ search'.q = search.q /\ search'.node = search.node
    BY <1>1, <1>2 DEF SearchState
  <1>4. search' # NoSearch
    BY <1>3, IdleSearch
  <1>5. SearchTyped'
    BY <1>2, <1>3, <1>4 DEF SearchIInv, SearchTyped, SearchMatches, TimerFires
  <1>6. ShownIsWhatWasAskedFor'
    BY <1>2, <1>4 DEF SearchIInv, SearchTyped, SearchMatches, TimerFires, ShownIsWhatWasAskedFor
  <1> QED
    BY <1>5, <1>6 DEF SearchIInv

LEMMA SearchEnded ==
    ASSUME SearchIInv, SearchAnswers \/ SearchFails
    PROVE  SearchIInv'
  <1>1. /\ ~nearMe /\ typed \in Query /\ search.q = typed /\ search.node = dataNode
    BY DEF SearchIInv, SearchTyped, SearchMatches, SearchAnswers, SearchFails, SearchEnds
  <1>2. results' = Found(typed, dataNode) \/ results' = NoResults
    BY <1>1 DEF SearchAnswers, SearchFails, SearchEnds
  <1>3. /\ search' = NoSearch /\ strayed' = FALSE
        /\ UNCHANGED <<homeNode, typed, nearMe, coords, dataNode, aborted, runs, locating, nearLoading,
                       refresh, searchOps>>
    BY DEF SearchAnswers, SearchFails, SearchEnds
  <1>a. dataNode \in DataNode
    BY DEF SearchIInv, SearchTyped
  <1>b. results' \in [what : Query \cup Spot, from : DataNode] \cup {NoResults}
    BY <1>1, <1>2, <1>a, FoundTyped
  <1>c. SearchMatches(NoSearch, typed, nearMe, dataNode)
    BY <1>a, IdleSearch
  <1>4. SearchTyped'
    BY <1>3, <1>b, <1>c DEF SearchIInv, SearchTyped
  <1>5. ShownIsWhatWasAskedFor'
    BY <1>1, <1>2, <1>3 DEF ShownIsWhatWasAskedFor
  <1> QED
    BY <1>4, <1>5 DEF SearchIInv

LEMMA SearchAbortSettles ==
    ASSUME SearchIInv, NEW k \in aborted, AbortSettles(k)
    PROVE  SearchIInv'
  <1>1. \/ search' = search /\ strayed' = strayed
        \/ search' = NoSearch /\ strayed' = TRUE
    BY DEF AbortSettles, SearchIInv, SearchTyped
  <1>2. SearchTyped'
    BY <1>1, IdleSearch DEF SearchIInv, SearchTyped, AbortSettles
  <1>3. ShownIsWhatWasAskedFor'
    BY <1>1 DEF SearchIInv, AbortSettles, ShownIsWhatWasAskedFor
  <1> QED
    BY <1>2, <1>3 DEF SearchIInv

\* A node is resolved and the screen takes it over, whatever it shows by now.
LEMMA NodeTaken ==
    ASSUME SearchIInv, NEW node \in DataNode, Shows(typed, nearMe, node),
           results' = UnlessCleared(typed, nearMe, node, results),
           strayed' = (strayed \/ Strands(node)), coords' = coords
    PROVE  /\ typed' = typed /\ nearMe' = nearMe /\ dataNode' = node
           /\ SearchMatches(search', typed, nearMe, node)
           /\ aborted' \subseteq [q : Query, node : DataNode]
           /\ results' \in {results, NoResults} /\ strayed' \in BOOLEAN
           /\ \/ strayed' \/ results' = NoResults
              \/ /\ ~nearMe /\ typed # NoQuery /\ search' = NoSearch
                      => results' = Found(typed, node)
                 /\ nearMe => node = dataNode /\ results' = results /\ ~strayed
  <1>1. /\ typed' = typed /\ nearMe' = nearMe /\ dataNode' = node
        /\ SearchMatches(search', typed, nearMe, node)
        /\ aborted' \subseteq [q : Query, node : DataNode]
        /\ \/ node = dataNode /\ search' = search
           \/ node # dataNode /\ (nearMe \/ typed = NoQuery \/ search' # NoSearch)
    BY ShowsMatches DEF SearchIInv, SearchTyped
  <1>2. /\ results' \in {results, NoResults} /\ strayed' \in BOOLEAN
        /\ typed = NoQuery /\ ~nearMe /\ node # dataNode => results' = NoResults
    BY DEF UnlessCleared, SearchIInv, SearchTyped, Strands
  <1>3. ASSUME ~strayed', results' # NoResults
        PROVE  /\ ~nearMe /\ typed # NoQuery /\ search' = NoSearch => results' = Found(typed, node)
               /\ nearMe => node = dataNode /\ results' = results /\ ~strayed
    <2>1. ~strayed /\ ~Strands(node) /\ results' = results /\ results # NoResults
      BY <1>2, <1>3
    <2>2. nearMe => node = dataNode
      BY <2>1 DEF Strands
    <2>3. ~nearMe /\ typed # NoQuery /\ search' = NoSearch => node = dataNode /\ search = NoSearch
      BY <1>1, <2>2
    <2> QED
      BY <2>1, <2>2, <2>3 DEF SearchIInv, ShownIsWhatWasAskedFor
  <1> QED
    BY <1>1, <1>2, <1>3

LEMMA SearchNearResolved ==
    ASSUME SearchIInv, NEW r \in runs, NEW node \in DataNode, NearResolved(r, node)
    PROVE  SearchIInv'
  <1> DEFINE new == [r EXCEPT !.asked = TRUE, !.node = node]
  <1>1. new \in NearRun
    BY DEF SearchIInv, SearchTyped, NearRun
  <1>2. runs' = (runs \ {r}) \cup {new}
    BY DEF NearResolved
  <1> HIDE DEF new
  <1>3. /\ typed' = typed /\ nearMe' = nearMe /\ dataNode' = node
        /\ SearchMatches(search', typed, nearMe, node)
        /\ aborted' \subseteq [q : Query, node : DataNode]
        /\ results' \in {results, NoResults} /\ strayed' \in BOOLEAN
        /\ \/ strayed' \/ results' = NoResults
           \/ ~nearMe /\ typed # NoQuery /\ search' = NoSearch => results' = Found(typed, node)
    BY NodeTaken DEF NearResolved
  <1>4. SearchTyped'
    BY <1>1, <1>2, <1>3 DEF SearchIInv, SearchTyped, NearResolved
  <1>5. ShownIsWhatWasAskedFor'
    BY <1>2, <1>3 DEF ShownIsWhatWasAskedFor
  <1> QED
    BY <1>4, <1>5 DEF SearchIInv

LEMMA SearchViewportResolved ==
    ASSUME SearchIInv, NEW node \in DataNode, ViewportResolved(node)
    PROVE  SearchIInv'
  <1>1. /\ typed' = typed /\ nearMe' = nearMe /\ dataNode' = node
        /\ SearchMatches(search', typed, nearMe, node)
        /\ aborted' \subseteq [q : Query, node : DataNode]
        /\ results' \in {results, NoResults} /\ strayed' \in BOOLEAN
        /\ \/ strayed' \/ results' = NoResults
           \/ /\ ~nearMe /\ typed # NoQuery /\ search' = NoSearch
                   => results' = Found(typed, node)
              /\ nearMe => node = dataNode /\ results' = results /\ ~strayed
    BY NodeTaken DEF ViewportResolved
  <1>2. SearchTyped'
    BY <1>1 DEF SearchIInv, SearchTyped, ViewportResolved
  <1>3. ShownIsWhatWasAskedFor'
    BY <1>1 DEF SearchIInv, ShownIsWhatWasAskedFor, ViewportResolved
  <1> QED
    BY <1>2, <1>3 DEF SearchIInv

\* Another home node: the runs around the traveler, as well as the screen, ask it.
LEMMA SearchChangeHome ==
    ASSUME SearchIInv, NEW h \in HomeNode, ChangeHome(h)
    PROVE  SearchIInv'
  <1>1. h \in DataNode /\ UNCHANGED coords
    BY DEF DataNode, ChangeHome
  <1>2. /\ typed' = typed /\ nearMe' = nearMe /\ dataNode' = h
        /\ SearchMatches(search', typed, nearMe, h)
        /\ aborted' \subseteq [q : Query, node : DataNode]
        /\ results' \in {results, NoResults} /\ strayed' \in BOOLEAN
        /\ \/ strayed' \/ results' = NoResults
           \/ ~nearMe /\ typed # NoQuery /\ search' = NoSearch => results' = Found(typed, h)
    BY <1>1, NodeTaken DEF ChangeHome
  <1>3. nearMe => Run(coords, searchOps', h) \in NearRun
    BY RunTyped, SearchOpCounted DEF SearchIInv, SearchTyped, ChangeHome
  <1>4. SearchTyped'
    BY <1>1, <1>2, <1>3, SearchOpCounted DEF SearchIInv, SearchTyped, ChangeHome
  <1>5. nearMe => runs' # {}
    BY DEF ChangeHome
  <1>6. ShownIsWhatWasAskedFor'
    BY <1>2, <1>5 DEF ShownIsWhatWasAskedFor
  <1> QED
    BY <1>4, <1>6 DEF SearchIInv

\* The page opened again searches for what its session kept.
LEMMA SearchReopen ==
    ASSUME SearchIInv, Reopen
    PROVE  SearchIInv'
  <1> DEFINE node == IF homeNode = EnvNode THEN dataNode ELSE homeNode
  <1>1. node \in DataNode
    BY DEF SearchIInv, SearchTyped, DataNode
  <1>2. /\ typed' = typed /\ nearMe' = nearMe /\ dataNode' = node
        /\ RestartSearch(typed, nearMe, node) /\ UNCHANGED <<homeNode, coords>>
    BY DEF Reopen
  <1>3. strayed' \in BOOLEAN
    BY DEF Reopen, Strands, SearchIInv, SearchTyped
  <1>4. /\ results' = (IF nearMe THEN results ELSE NoResults) /\ refresh' = NoSpot
        /\ locating' = FALSE /\ nearLoading' = nearMe
        /\ runs' = IF nearMe THEN {Run(coords, searchOps', h) : h \in {EnvNode, homeNode}} ELSE {}
    BY DEF Reopen
  <1> HIDE DEF node
  <1>5. /\ SearchMatches(search', typed, nearMe, node)
        /\ aborted' \subseteq [q : Query, node : DataNode]
    BY <1>1, <1>2, RestartMatches DEF SearchIInv, SearchTyped
  <1>6. runs' \subseteq NearRun
    BY <1>4, RunTyped, SearchOpCounted, SearchAssumption DEF SearchIInv, SearchTyped, Reopen
  <1>7. searchOps' \in 0..MaxSearchOps
    BY SearchOpCounted DEF SearchIInv, Reopen
  <1>8. SearchTyped'
    BY <1>1, <1>2, <1>3, <1>4, <1>5, <1>6, <1>7 DEF SearchIInv, SearchTyped
  <1>9. ShownIsWhatWasAskedFor'
    BY <1>2, <1>4 DEF ShownIsWhatWasAskedFor
  <1> QED
    BY <1>8, <1>9 DEF SearchIInv

LEMMA SearchNearAnswers ==
    ASSUME SearchIInv, NEW r \in runs, NearAnswers(r) \/ NearFails(r)
    PROVE  SearchIInv'
  <1>1. r.at \in Spot /\ r.node \in DataNode
    BY DEF SearchIInv, SearchTyped, NearRun
  <1>2. Found(r.at, r.node) \in [what : Query \cup Spot, from : DataNode]
    BY <1>1, FoundTyped
  <1>3. /\ results' = NoResults \/ (results' = Found(r.at, r.node) /\ strayed' = ~NearAwaited(r))
        /\ strayed' \in BOOLEAN /\ runs' = runs \ {r}
        /\ UNCHANGED <<homeNode, typed, nearMe, coords, dataNode, search, aborted, locating, refresh,
                       searchOps>>
    BY DEF NearAnswers, NearFails, NearAwaited, SearchIInv, SearchTyped
  <1>4. SearchTyped'
    BY <1>2, <1>3 DEF SearchIInv, SearchTyped
  <1>5. ShownIsWhatWasAskedFor'
    BY <1>3 DEF SearchIInv, SearchTyped, NearAwaited, ShownIsWhatWasAskedFor
  <1> QED
    BY <1>4, <1>5 DEF SearchIInv

LEMMA InitSearchIInv == SearchInit => SearchIInv
  <1> SUFFICES ASSUME SearchInit PROVE SearchTyped /\ ShownIsWhatWasAskedFor
    BY DEF SearchIInv
  <1>1. 0 \in 0..MaxSearchOps
    BY SearchAssumption
  <1> QED
    BY <1>1, IdleSearch, NoQueryAsked
    DEF SearchInit, SearchTyped, ShownIsWhatWasAskedFor, DataNode

LEMMA NextSearchIInv == SearchIInv /\ [SearchNext]_searchVars => SearchIInv'
  <1> SUFFICES ASSUME SearchIInv, [SearchNext]_searchVars PROVE SearchIInv'
    OBVIOUS
  <1>1. CASE \/ StartNearMe \/ NotLocated \/ Reactivate \/ Reopen
             \/ TimerFires \/ SearchAnswers \/ SearchFails
    BY <1>1, SearchStartNearMe, SearchNotLocated, SearchReactivate, SearchReopen,
       SearchTimerFires, SearchEnded
  <1>2. ASSUME NEW q \in Asked, Type(q) PROVE SearchIInv'
    BY <1>2, SearchType
  <1>3. ASSUME NEW s \in Spot, Located(s) \/ RefreshViewport(s) \/ BrowseThisArea(s)
        PROVE  SearchIInv'
    BY <1>3, SearchLocated, SearchRefreshViewport, SearchBrowseThisArea
  <1>4. ASSUME NEW k \in aborted, AbortSettles(k) PROVE SearchIInv'
    BY <1>4, SearchAbortSettles
  <1>5. ASSUME NEW r \in runs, NearAnswers(r) \/ NearFails(r) PROVE SearchIInv'
    BY <1>5, SearchNearAnswers
  <1>6. ASSUME NEW r \in runs, NEW node \in DataNode, NearResolved(r, node) PROVE SearchIInv'
    BY <1>6, SearchNearResolved
  <1>7. ASSUME NEW node \in DataNode, ViewportResolved(node) PROVE SearchIInv'
    BY <1>7, SearchViewportResolved
  <1>8. ASSUME NEW h \in HomeNode, ChangeHome(h) PROVE SearchIInv'
    BY <1>8, SearchChangeHome
  <1>9. CASE UNCHANGED searchVars
    BY <1>9 DEF searchVars, SearchIInv, SearchTyped, ShownIsWhatWasAskedFor
  <1> QED
    BY <1>1, <1>2, <1>3, <1>4, <1>5, <1>6, <1>7, <1>8, <1>9 DEF SearchNext

LEMMA SpecSearchIInv == SearchSpec => []SearchIInv
  <1> QED
    BY InitSearchIInv, NextSearchIInv, PTL DEF SearchSpec

\* The variables have their types, and the typed search under way is for what is typed
\* and for the data node of the screen, whichever of them changed last.
THEOREM SearchTypesHold == SearchSpec => []SearchTypeOK
  <1>1. SearchIInv => SearchTypeOK
    BY DEF SearchIInv, SearchTyped, SearchMatches, SearchState, NearRun, SearchTypeOK
  <1> QED
    BY <1>1, SpecSearchIInv, PTL

\* However searches of the three kinds overlap, what is shown once one has settled is
\* what was asked for, and its links lead to the node it is from, but for the late
\* answers the property names.
THEOREM ShownResultsWereAskedFor == SearchSpec => []ShownIsWhatWasAskedFor
  <1>1. SearchIInv => ShownIsWhatWasAskedFor
    BY DEF SearchIInv
  <1> QED
    BY <1>1, SpecSearchIInv, PTL

-----------------------------------------------------------------------------
(* AuditWizard. *)

FormState == [n : Nat, page : Nat, open : BOOLEAN, values : Values, step : SUBSET Photo, room : SUBSET Photo,
              busy : BOOLEAN, changed : BOOLEAN, discard : BOOLEAN, done : BOOLEAN]
PickedPhoto == [n : Nat, kind : {"step", "room"}, photo : Photo, base : SUBSET Photo]

\* The step photos are within the limit, and the room photos can be counted.
Fits(step, room) == IsFiniteSet(step) /\ Cardinality(step) <= MaxPhotos /\ IsFiniteSet(room)

WizardTyped ==
    /\ loaded \in Values /\ given \in Values
    /\ form \in FormState /\ form.page <= form.n /\ Fits(form.step, form.room)
    /\ draft \in Drafts \cup {NoDraft} /\ (draft # NoDraft => Fits(draft.step, draft.room))
    /\ adding \subseteq PickedPhoto /\ \A a \in adding : IsFiniteSet(a.base)
    /\ \A p \in posts : Cardinality(p.photos) <= MaxPhotos
    /\ auditOps \in Nat
    /\ unsaved \subseteq Question \cup Photo /\ kept \subseteq Photo /\ taken \in BOOLEAN

\* What counts is in the open form, and in the draft unless it came after the last save.
InDraft(q) == ~form.open \/ q \notin unsaved
WorkIsHeld ==
    /\ \A q \in Question : given[q] # Blank =>
         /\ form.open => form.values[q] = given[q]
         /\ InDraft(q) => draft # NoDraft /\ draft.values[q] = given[q]
    /\ \A p \in kept :
         /\ form.open => p \in Shown
         /\ InDraft(p) => draft # NoDraft /\ p \in draft.step \cup draft.room

\* Nothing of a form that will not be saved counts.
DiscardForgets == form.discard => given = Empty /\ unsaved = {} /\ kept = {}

\* The form that stays open after its submission will not be saved.
TakenIsClean == taken => draft = NoDraft /\ (form.open => form.discard)

WizardIInv == WizardTyped /\ WorkIsHeld /\ DiscardForgets /\ TakenIsClean

LEMMA ClosedForm ==
    /\ Empty \in Values /\ Closed \in FormState /\ Fits(Closed.step, Closed.room)
    /\ \A q \in Question : Empty[q] = Blank
    /\ Closed.open = FALSE /\ Closed.discard = FALSE /\ Closed.done = FALSE
    /\ Closed.n = 0 /\ Closed.page = 0 /\ Closed.values = Empty /\ Closed.step = {} /\ Closed.room = {}
  BY FS_EmptySet, AuditAssumption DEF Closed, Empty, Values, FormState, Fits

LEMMA MergeDraftTyped ==
    ASSUME NEW base \in Values, NEW over \in Values
    PROVE  /\ MergeDraft(base, over) \in Values
           /\ \A q \in Question : over[q] # Blank => MergeDraft(base, over)[q] = over[q]
  BY DEF MergeDraft, Values

\* A save keeps the draft of a discarded form, and takes the form over or fails otherwise.
LEMMA SavedDraftIs ==
    ASSUME WizardTyped, NEW saved \in SavedDraft
    PROVE  /\ saved \in Drafts \cup {NoDraft}
           /\ saved # NoDraft => Fits(saved.step, saved.room)
           /\ saved = draft \/ (saved = Content /\ ~form.discard)
           /\ Content \in Drafts /\ Content # NoDraft /\ Fits(Content.step, Content.room)
           /\ Content.values = form.values /\ Content.step = form.step /\ Content.room = form.room
  <1>1. /\ Content \in Drafts
        /\ Content.values = form.values /\ Content.step = form.step /\ Content.room = form.room
    BY DEF WizardTyped, FormState, Content, Drafts
  <1>2. saved = draft \/ (saved = Content /\ ~form.discard)
    BY DEF SavedDraft
  <1> QED
    BY <1>1, <1>2, AuditAssumption DEF WizardTyped

LEMMA InitWizardIInv == AuditInit => WizardIInv
  <1> SUFFICES ASSUME AuditInit PROVE WizardIInv
    OBVIOUS
  <1>1. WizardTyped
    <2>1. form \in FormState /\ form.page = 0 /\ form.n = 0 /\ Fits(form.step, form.room)
      BY ClosedForm DEF AuditInit
    <2>2. form.page <= form.n
      BY <2>1
    <2> QED
      BY <2>1, <2>2, ClosedForm DEF AuditInit, WizardTyped
  <1>2. WorkIsHeld /\ DiscardForgets /\ TakenIsClean
    BY ClosedForm DEF AuditInit, WorkIsHeld, DiscardForgets, TakenIsClean
  <1> QED
    BY <1>1, <1>2 DEF WizardIInv

LEMMA AuditOpenForm == WizardIInv /\ OpenForm => WizardIInv'
  <1> SUFFICES ASSUME WizardIInv, OpenForm PROVE WizardIInv'
    OBVIOUS
  <1> USE DEF WizardIInv
  <1> DEFINE values == IF draft = NoDraft THEN loaded ELSE MergeDraft(loaded, draft.values)
             step == IF draft = NoDraft THEN {} ELSE draft.step
             room == IF draft = NoDraft THEN {} ELSE draft.room
  <1>1. /\ values \in Values /\ step \in SUBSET Photo /\ room \in SUBSET Photo /\ Fits(step, room)
        /\ \A q \in Question : draft # NoDraft /\ draft.values[q] # Blank => values[q] = draft.values[q]
    BY MergeDraftTyped, ClosedForm DEF WizardTyped, Drafts
  <1>2. /\ form' \in FormState /\ form'.page <= form'.n /\ form'.open /\ ~form'.discard
        /\ form'.values = values /\ form'.step = step /\ form'.room = room
    <2> HIDE DEF values, step, room
    <2>1. form' = [Closed EXCEPT !.n = form.n + 1, !.page = form.page, !.open = TRUE,
                                 !.changed = TRUE, !.values = values, !.step = step, !.room = room]
      BY DEF OpenForm, values, step, room
    <2>2. /\ form.n + 1 \in Nat /\ form.page \in Nat /\ form.page <= form.n + 1 /\ values \in Values /\ step \in SUBSET Photo /\ room \in SUBSET Photo
      BY <1>1 DEF WizardTyped, FormState
    <2> QED
      BY <2>1, <2>2 DEF Closed, FormState
  <1>3. /\ auditOps' \in Nat /\ ~form.open
        /\ taken' = FALSE /\ UNCHANGED <<loaded, draft, adding, posts, given, unsaved, kept>>
    BY DEF OpenForm, AuditOp, WizardTyped
  <1>4. WizardTyped'
    BY <1>1, <1>2, <1>3 DEF WizardTyped
  <1>5. WorkIsHeld'
    BY <1>1, <1>2, <1>3 DEF WorkIsHeld, Shown, InDraft
  <1>6. DiscardForgets' /\ TakenIsClean'
    BY <1>2, <1>3 DEF DiscardForgets, TakenIsClean
  <1> QED
    BY <1>4, <1>5, <1>6

LEMMA AuditLoadFacts == WizardIInv /\ LoadFacts => WizardIInv'
  <1> SUFFICES ASSUME WizardIInv, LoadFacts PROVE WizardIInv'
    OBVIOUS
  <1> USE DEF WizardIInv
  <1>1. PICK new \in Values :
          /\ loaded' = new
          /\ form' = IF form.open
                     THEN [form EXCEPT !.values = MergeDraft(new, form.values), !.changed = TRUE]
                     ELSE form
    BY DEF LoadFacts
  <1>2. /\ MergeDraft(new, form.values) \in Values
        /\ \A q \in Question : form.values[q] # Blank
                                => MergeDraft(new, form.values)[q] = form.values[q]
    BY MergeDraftTyped DEF WizardTyped, FormState
  <1>3. /\ form' \in FormState /\ form'.open = form.open /\ form'.n = form.n /\ form'.page = form.page
        /\ form'.discard = form.discard /\ form'.step = form.step /\ form'.room = form.room
        /\ \A q \in Question : form.values[q] # Blank => form'.values[q] = form.values[q]
    BY <1>1, <1>2 DEF WizardTyped, FormState
  <1>4. /\ auditOps' \in Nat
        /\ UNCHANGED <<draft, adding, posts, given, unsaved, kept, taken>>
    BY DEF LoadFacts, AuditOp, WizardTyped
  <1>5. WizardTyped'
    BY <1>1, <1>3, <1>4 DEF WizardTyped
  <1>6. WorkIsHeld'
    BY <1>3, <1>4 DEF WorkIsHeld, Shown, InDraft
  <1>7. DiscardForgets' /\ TakenIsClean'
    BY <1>3, <1>4 DEF DiscardForgets, TakenIsClean
  <1> QED
    BY <1>5, <1>6, <1>7

LEMMA AuditAutoSave == WizardIInv /\ AutoSave => WizardIInv'
  <1> SUFFICES ASSUME WizardIInv, AutoSave PROVE WizardIInv'
    OBVIOUS
  <1> USE DEF WizardIInv
  <1>1. /\ draft' \in Drafts \cup {NoDraft} /\ (draft' # NoDraft => Fits(draft'.step, draft'.room))
        /\ draft' = draft \/ (draft' = Content /\ ~form.discard)
        /\ Content # NoDraft /\ Content.values = form.values
        /\ Content.step = form.step /\ Content.room = form.room
    BY SavedDraftIs DEF AutoSave
  <1>2. /\ form.open /\ form' \in FormState /\ form'.open = form.open /\ form'.n = form.n /\ form'.page = form.page
        /\ form'.discard = form.discard /\ form'.step = form.step /\ form'.room = form.room
        /\ form'.values = form.values
    BY DEF AutoSave, WizardTyped, FormState
  <1>3. /\ unsaved' = IF draft' = Content THEN {} ELSE unsaved
        /\ UNCHANGED <<loaded, adding, posts, auditOps, given, kept, taken>>
    BY DEF AutoSave
  <1>4. WizardTyped'
    BY <1>1, <1>2, <1>3 DEF WizardTyped
  <1>5. WorkIsHeld'
    BY <1>1, <1>2, <1>3 DEF WorkIsHeld, Shown, InDraft
  <1>6. DiscardForgets' /\ TakenIsClean'
    BY <1>1, <1>2, <1>3 DEF DiscardForgets, TakenIsClean
  <1> QED
    BY <1>4, <1>5, <1>6

\* What the storage does not hold is forgotten when the form goes.
LEMMA ForgetKeeps ==
    ASSUME WizardIInv, Forget, draft' = draft, form'.open = FALSE
    PROVE  /\ given' \in Values /\ unsaved' = {} /\ kept' \subseteq kept
           /\ WorkIsHeld'
  <1> USE DEF WizardIInv
  <1>1. /\ given' \in Values /\ unsaved' = {} /\ kept' = kept \ unsaved
        /\ \A q \in Question : given'[q] = IF q \in unsaved THEN Blank ELSE given[q]
    BY DEF Forget, WizardTyped, Values
  <1> QED
    BY <1>1 DEF WorkIsHeld, InDraft

LEMMA AuditLeaveForm == WizardIInv /\ LeaveForm => WizardIInv'
  <1> SUFFICES ASSUME WizardIInv, LeaveForm PROVE WizardIInv'
    OBVIOUS
  <1> USE DEF WizardIInv
  <1>1. /\ draft' \in Drafts \cup {NoDraft} /\ (draft' # NoDraft => Fits(draft'.step, draft'.room))
        /\ draft' = draft \/ (draft' = Content /\ ~form.discard)
        /\ Content # NoDraft /\ Content.values = form.values
        /\ Content.step = form.step /\ Content.room = form.room
    BY SavedDraftIs DEF LeaveForm
  <1>2. /\ form.open /\ form' \in FormState /\ form'.open = FALSE
        /\ form'.n = form.n /\ form'.page = form.page
        /\ form'.discard = FALSE /\ Fits(form'.step, form'.room)
    BY ClosedForm DEF LeaveForm, WizardTyped, FormState
  <1>3. UNCHANGED <<loaded, adding, posts, auditOps, taken>>
    BY DEF LeaveForm
  <1>4. /\ given' \in Values /\ unsaved' = {} /\ kept' \subseteq kept
        /\ WorkIsHeld'
    <2>1. CASE draft' = Content
      <3>1. unsaved' = {} /\ given' = given /\ kept' = kept
        BY <2>1 DEF LeaveForm
      <3> QED
        BY <1>1, <1>2, <2>1, <3>1 DEF WorkIsHeld, Shown, InDraft, WizardTyped
    <2>2. CASE draft' # Content
      BY <2>2, <1>1, <1>2, ForgetKeeps DEF LeaveForm
    <2> QED
      BY <2>1, <2>2
  <1>5. WizardTyped'
    BY <1>1, <1>2, <1>3, <1>4 DEF WizardTyped
  <1>6. DiscardForgets' /\ TakenIsClean'
    BY <1>1, <1>2, <1>3 DEF DiscardForgets, TakenIsClean
  <1> QED
    BY <1>4, <1>5, <1>6

LEMMA AuditReloadPage == WizardIInv /\ ReloadPage => WizardIInv'
  <1> SUFFICES ASSUME WizardIInv, ReloadPage PROVE WizardIInv'
    OBVIOUS
  <1> USE DEF WizardIInv
  <1>1. /\ form' \in FormState /\ form'.open = FALSE /\ form'.page <= form'.n
        /\ form'.discard = FALSE /\ Fits(form'.step, form'.room)
    <2>1. PICK n \in Nat : n = form.n
      BY DEF WizardTyped, FormState
    <2>2. form' = [Closed EXCEPT !.n = n, !.page = n]
      BY <2>1 DEF ReloadPage
    <2>3. /\ form' \in FormState /\ form'.open = Closed.open /\ form'.page = n /\ form'.n = n
          /\ form'.discard = Closed.discard /\ form'.step = Closed.step /\ form'.room = Closed.room
      BY <2>2, ClosedForm DEF FormState
    <2> QED
      BY <2>3, ClosedForm
  <1>2. /\ adding' = {} /\ posts' = {} /\ auditOps' \in Nat
        /\ UNCHANGED <<loaded, draft, taken>>
    BY DEF ReloadPage, AuditOp, WizardTyped
  <1>3. /\ given' \in Values /\ unsaved' = {} /\ kept' \subseteq kept
        /\ WorkIsHeld'
    BY <1>1, <1>2, ForgetKeeps DEF ReloadPage
  <1>4. WizardTyped'
    BY <1>1, <1>2, <1>3 DEF WizardTyped
  <1>5. DiscardForgets' /\ TakenIsClean'
    BY <1>1, <1>2 DEF DiscardForgets, TakenIsClean
  <1> QED
    BY <1>3, <1>4, <1>5

LEMMA AuditCancel == WizardIInv /\ CancelAudit => WizardIInv'
  <1> SUFFICES ASSUME WizardIInv, CancelAudit PROVE WizardIInv'
    OBVIOUS
  <1> USE DEF WizardIInv
  <1>1. /\ form' \in FormState /\ form'.open /\ form'.n = form.n /\ form'.page = form.page /\ form'.discard
        /\ form'.step = form.step /\ form'.room = form.room
    BY DEF CancelAudit, WizardTyped, FormState
  <1>2. /\ draft' = NoDraft /\ given' = Empty /\ unsaved' = {} /\ kept' = {}
        /\ UNCHANGED <<loaded, adding, posts, auditOps, taken>>
    BY DEF CancelAudit
  <1>3. WizardTyped'
    BY <1>1, <1>2, ClosedForm DEF WizardTyped
  <1>4. WorkIsHeld' /\ DiscardForgets' /\ TakenIsClean'
    BY <1>1, <1>2, ClosedForm DEF WorkIsHeld, DiscardForgets, TakenIsClean
  <1> QED
    BY <1>3, <1>4

LEMMA AuditEditField ==
    ASSUME WizardIInv, NEW q \in Question, NEW a \in Choice \cup {Blank}, EditField(q, a)
    PROVE  WizardIInv'
  <1> USE DEF WizardIInv
  <1>1. /\ form.open /\ form'.open /\ form'.n = form.n /\ form'.page = form.page /\ form'.discard = form.discard
        /\ form'.step = form.step /\ form'.room = form.room
        /\ form'.values = [form.values EXCEPT ![q] = a] /\ form' \in FormState
    <2>1. [form.values EXCEPT ![q] = a] \in Values
      BY DEF WizardTyped, FormState, Values
    <2>2. form' = [form EXCEPT !.values = [form.values EXCEPT ![q] = a], !.changed = TRUE]
      BY DEF EditField, WizardTyped, FormState
    <2> QED
      BY <2>1, <2>2 DEF EditField, WizardTyped, FormState
  <1>2. \A p \in Question : form'.values[p] = IF p = q THEN a ELSE form.values[p]
    BY <1>1 DEF WizardTyped, FormState, Values
  <1>3. /\ auditOps' \in Nat
        /\ UNCHANGED <<loaded, draft, adding, posts, kept, taken>>
    BY DEF EditField, AuditOp, WizardTyped
  <1>4. \/ form.discard /\ given' = given /\ unsaved' = unsaved
        \/ /\ ~form.discard /\ unsaved' = unsaved \cup {q} /\ given' \in Values
           /\ \A p \in Question : given'[p] = IF p = q THEN a ELSE given[p]
    BY DEF EditField, WizardTyped, Values
  <1>5. WizardTyped'
    BY <1>1, <1>3, <1>4 DEF WizardTyped
  <1>6. WorkIsHeld'
    <2>1. CASE form.discard
      BY <1>1, <1>3, <1>4, <2>1, ClosedForm DEF DiscardForgets, WorkIsHeld
    <2>2. CASE ~form.discard
      BY <1>1, <1>2, <1>3, <1>4, <2>2 DEF WorkIsHeld, Shown, InDraft
    <2> QED
      BY <2>1, <2>2
  <1>7. DiscardForgets' /\ TakenIsClean'
    BY <1>1, <1>3, <1>4 DEF DiscardForgets, TakenIsClean
  <1> QED
    BY <1>5, <1>6, <1>7

LEMMA AuditPickPhoto ==
    ASSUME WizardIInv, NEW p \in Photo, NEW kind \in {"step", "room"}, PickPhoto(p, kind)
    PROVE  WizardIInv'
  <1> USE DEF WizardIInv
  <1> DEFINE picked == [n |-> form.n, kind |-> kind, photo |-> p,
                        base |-> IF kind = "step" THEN form.step ELSE form.room]
  <1>1. picked \in PickedPhoto /\ IsFiniteSet(picked.base)
    <2>1. picked \in PickedPhoto
      BY DEF WizardTyped, FormState, PickedPhoto
    <2>2. picked.base = form.step \/ picked.base = form.room
      OBVIOUS
    <2> QED
      BY <2>1, <2>2 DEF WizardTyped, Fits
  <1>2. /\ adding' = adding \cup {picked} /\ auditOps' \in Nat
        /\ UNCHANGED <<loaded, form, draft, posts, given, unsaved, kept, taken>>
    BY DEF PickPhoto, AuditOp, WizardTyped
  <1> HIDE DEF picked
  <1>3. WizardTyped'
    BY <1>1, <1>2 DEF WizardTyped
  <1>4. WorkIsHeld' /\ DiscardForgets' /\ TakenIsClean'
    BY <1>2 DEF WorkIsHeld, Shown, InDraft, DiscardForgets, TakenIsClean
  <1> QED
    BY <1>3, <1>4

LEMMA StepWithFits ==
    ASSUME WizardTyped, NEW a \in adding
    PROVE  /\ StepWith(a) \in SUBSET Photo
           /\ IsFiniteSet(StepWith(a)) /\ Cardinality(StepWith(a)) <= MaxPhotos
           /\ form.step \subseteq StepWith(a)
  <1>1. a.photo \in Photo /\ form.step \in SUBSET Photo /\ IsFiniteSet(form.step)
        /\ Cardinality(form.step) <= MaxPhotos
    BY DEF WizardTyped, FormState, Fits, PickedPhoto
  <1>2. /\ IsFiniteSet(form.step \cup {a.photo})
        /\ \/ Cardinality(form.step \cup {a.photo}) = Cardinality(form.step)
           \/ Cardinality(form.step \cup {a.photo}) = Cardinality(form.step) + 1
    BY <1>1, FS_AddElement
  <1>3. Cardinality(form.step) \in Nat
    BY <1>1, FS_CardinalityType
  <1>4. CASE Cardinality(form.step) < MaxPhotos
    BY <1>1, <1>2, <1>3, <1>4, AuditAssumption DEF StepWith
  <1>5. CASE ~(Cardinality(form.step) < MaxPhotos)
    BY <1>1, <1>5 DEF StepWith
  <1> QED
    BY <1>4, <1>5

LEMMA AuditAddPhoto ==
    ASSUME WizardIInv, NEW a \in adding, AddPhoto(a)
    PROVE  WizardIInv'
  <1> USE DEF WizardIInv
  <1> DEFINE step == IF a.kind = "step" THEN StepWith(a) ELSE form.step
             room == IF a.kind = "room" THEN a.base \cup {a.photo} ELSE form.room
             mine == {a.photo} \cap (step \cup room)
  <1>1. /\ adding' = adding \ {a}
        /\ UNCHANGED <<loaded, draft, posts, auditOps, given, taken>>
    BY DEF AddPhoto
  <1>2. CASE ~(form.open /\ form.n = a.n)
    <2>1. UNCHANGED <<form, unsaved, kept>>
      BY <1>2 DEF AddPhoto
    <2>2. WizardTyped'
      BY <1>1, <2>1 DEF WizardTyped
    <2> QED
      BY <1>1, <2>1, <2>2 DEF WorkIsHeld, Shown, InDraft, DiscardForgets, TakenIsClean
  <1>3. CASE form.open /\ form.n = a.n
    <2>1. a.photo \in Photo /\ a.base \in SUBSET Photo /\ IsFiniteSet(a.base)
      BY DEF WizardTyped, PickedPhoto
    <2>2. step \in SUBSET Photo /\ room \in SUBSET Photo /\ Fits(step, room)
      <3>1. IsFiniteSet(a.base \cup {a.photo})
        BY <2>1, FS_AddElement
      <3>2. form.step \in SUBSET Photo /\ form.room \in SUBSET Photo /\ Fits(form.step, form.room)
        BY DEF WizardTyped, FormState
      <3> QED
        BY <2>1, <3>1, <3>2, StepWithFits DEF Fits
    <2>3. mine \subseteq Photo /\ mine \subseteq step \cup room
      BY <2>1
    <2>4. form.step \subseteq step /\ (a.kind = "room" \/ form.room \subseteq room)
          /\ form.room \ (form.room \ a.base) \subseteq room \cup (form.room \cap a.base)
          /\ (a.kind = "room" => a.base \subseteq room)
      BY StepWithFits
    <2>5. \/ /\ form.discard /\ unsaved' = unsaved /\ kept' = kept
          \/ /\ unsaved' = unsaved \cup mine
             /\ ~form.discard
             /\ kept' = (kept \cup mine) \ IF a.kind = "room" THEN form.room \ a.base ELSE {}
      BY <1>3 DEF AddPhoto
    <2>6. form' = [form EXCEPT !.step = step, !.room = room, !.changed = TRUE]
      BY <1>3 DEF AddPhoto
    <2> HIDE DEF step, room, mine
    <2>7. /\ form' \in FormState /\ form'.open = form.open /\ form'.n = form.n /\ form'.page = form.page
          /\ form'.discard = form.discard /\ form'.values = form.values
          /\ form'.step = step /\ form'.room = room
      BY <2>2, <2>6 DEF WizardTyped, FormState
    <2>8. WizardTyped'
      BY <1>1, <2>2, <2>3, <2>5, <2>7 DEF WizardTyped
    <2>9. WorkIsHeld'
      <3>1. \A q \in Question : given'[q] # Blank =>
              /\ form'.open => form'.values[q] = given'[q]
              /\ InDraft(q)' => draft' # NoDraft /\ draft'.values[q] = given'[q]
        BY <1>1, <2>5, <2>7 DEF WorkIsHeld, InDraft
      <3>2. ASSUME NEW p \in kept'
            PROVE  /\ p \in step \cup room
                   /\ InDraft(p)' => draft # NoDraft /\ p \in draft.step \cup draft.room
        <4>1. CASE form.discard
          BY <2>5, <4>1, <3>2 DEF DiscardForgets
        <4>2. CASE p \in mine /\ ~form.discard
          BY <1>3, <2>3, <2>5, <2>7, <4>2 DEF InDraft
        <4>3. CASE p \notin mine /\ ~form.discard
          <5>1. p \in kept /\ (a.kind = "room" => p \notin form.room \ a.base)
            BY <2>5, <3>2, <4>3
          <5>2. p \in form.step \cup form.room
            BY <1>3, <5>1 DEF WorkIsHeld, Shown
          <5>3. InDraft(p)' => InDraft(p)
            BY <2>5, <2>7, <4>3 DEF InDraft
          <5> QED
            BY <2>4, <5>1, <5>2, <5>3 DEF WorkIsHeld
        <4> QED
          BY <4>1, <4>2, <4>3
      <3>3. Shown' = step \cup room
        BY <2>7 DEF Shown
      <3> QED
        BY <1>1, <3>1, <3>2, <3>3 DEF WorkIsHeld
    <2>10. DiscardForgets' /\ TakenIsClean'
      BY <1>1, <2>5, <2>7 DEF DiscardForgets, TakenIsClean
    <2> QED
      BY <2>8, <2>9, <2>10
  <1> QED
    BY <1>2, <1>3

LEMMA AuditRemovePhoto ==
    ASSUME WizardIInv, NEW p \in Photo, RemovePhoto(p)
    PROVE  WizardIInv'
  <1> USE DEF WizardIInv
  <1>1. form.step \in SUBSET Photo /\ form.room \in SUBSET Photo /\ Fits(form.step, form.room)
    BY DEF WizardTyped, FormState
  <1>2. Fits(form.step \ {p}, form.room \ {p})
    <2>1. /\ IsFiniteSet(form.step \ {p}) /\ IsFiniteSet(form.room \ {p})
          /\ \/ Cardinality(form.step \ {p}) = Cardinality(form.step)
             \/ Cardinality(form.step \ {p}) = Cardinality(form.step) - 1
      BY <1>1, FS_RemoveElement DEF Fits
    <2>2. Cardinality(form.step) \in Nat /\ Cardinality(form.step) <= MaxPhotos
      BY <1>1, FS_CardinalityType DEF Fits
    <2> QED
      BY <2>1, <2>2, AuditAssumption DEF Fits
  <1>3. /\ form' \in FormState /\ form'.open = form.open /\ form'.n = form.n /\ form'.page = form.page
        /\ form'.discard = form.discard /\ form'.values = form.values
        /\ form'.step = form.step \ {p} /\ form'.room = form.room \ {p}
    BY DEF RemovePhoto, WizardTyped, FormState
  <1>4. /\ kept' = kept \ {p} /\ auditOps' \in Nat
        /\ UNCHANGED <<loaded, draft, adding, posts, given, unsaved, taken>>
    BY DEF RemovePhoto, AuditOp, WizardTyped
  <1>5. WizardTyped'
    BY <1>2, <1>3, <1>4 DEF WizardTyped
  <1>6. WorkIsHeld'
    BY <1>3, <1>4 DEF WorkIsHeld, Shown, InDraft
  <1>7. DiscardForgets' /\ TakenIsClean'
    BY <1>3, <1>4 DEF DiscardForgets, TakenIsClean
  <1> QED
    BY <1>5, <1>6, <1>7

\* A submission is within the limit, whatever overlapping picks brought to the form.
LEMMA FlattenWithinLimit ==
    ASSUME NEW step, NEW room, Fits(step, room), NEW photos \in Flatten(step, room)
    PROVE  Cardinality(photos) <= MaxPhotos
  <1> DEFINE free == MaxPhotos - Cardinality(step)
  <1>1. /\ Cardinality(step) \in Nat /\ Cardinality(room) \in Nat
        /\ Cardinality(step) <= MaxPhotos
    BY FS_CardinalityType DEF Fits
  <1>2. PICK r \in SUBSET room :
          /\ photos = step \cup r
          /\ Cardinality(r) = IF Cardinality(room) <= free THEN Cardinality(room) ELSE free
    BY DEF Flatten
  <1>3. IsFiniteSet(r) /\ IsFiniteSet(step) /\ Cardinality(r) \in Nat
    BY FS_Subset, FS_CardinalityType DEF Fits
  <1>4. Cardinality(r) <= free
    BY <1>1, <1>2, AuditAssumption
  <1>5. Cardinality(step \cup r) = Cardinality(step) + Cardinality(r) - Cardinality(step \cap r)
    BY <1>3, FS_Union
  <1>6. Cardinality(step \cap r) \in Nat
    BY <1>3, FS_Intersection, FS_CardinalityType
  <1> QED
    BY <1>1, <1>2, <1>3, <1>4, <1>5, <1>6, AuditAssumption

LEMMA AuditSubmit == WizardIInv /\ Submit => WizardIInv'
  <1> SUFFICES ASSUME WizardIInv, Submit PROVE WizardIInv'
    OBVIOUS
  <1> USE DEF WizardIInv
  <1>1. PICK photos \in Flatten(form.step, form.room) :
          posts' = posts \cup {[n |-> form.n, values |-> form.values, photos |-> photos]}
    BY DEF Submit
  <1>2. Cardinality(photos) <= MaxPhotos
    BY FlattenWithinLimit DEF WizardTyped
  <1>3. /\ form' \in FormState /\ form'.open = form.open /\ form'.n = form.n /\ form'.page = form.page
        /\ form'.discard = form.discard /\ form'.values = form.values
        /\ form'.step = form.step /\ form'.room = form.room
    BY DEF Submit, WizardTyped, FormState
  <1>4. /\ auditOps' \in Nat
        /\ UNCHANGED <<loaded, draft, adding, given, unsaved, kept, taken>>
    BY DEF Submit, AuditOp, WizardTyped
  <1>5. WizardTyped'
    BY <1>1, <1>2, <1>3, <1>4 DEF WizardTyped
  <1>6. WorkIsHeld' /\ DiscardForgets' /\ TakenIsClean'
    BY <1>3, <1>4 DEF WorkIsHeld, Shown, InDraft, DiscardForgets, TakenIsClean
  <1> QED
    BY <1>5, <1>6

LEMMA AuditAccepted ==
    ASSUME WizardIInv, NEW p \in posts, Accepted(p)
    PROVE  WizardIInv'
  <1> USE DEF WizardIInv
  <1>1. /\ form' \in FormState /\ form'.open = form.open
        /\ form'.n = form.n /\ form'.page = form.page
        /\ form'.discard = (form.discard \/ Own(p)) /\ form'.values = form.values
        /\ form'.step = form.step /\ form'.room = form.room
    BY DEF Accepted, WizardTyped, FormState, Own
  <1>2. /\ draft' = NoDraft /\ given' = Empty /\ unsaved' = {} /\ kept' = {}
        /\ posts' = posts \ {p} /\ taken' = (taken \/ ~form.open \/ Own(p))
        /\ UNCHANGED <<loaded, adding, auditOps>>
    BY DEF Accepted
  <1>3. WizardTyped'
    BY <1>1, <1>2, ClosedForm DEF WizardTyped, Own
  <1>4. WorkIsHeld' /\ DiscardForgets' /\ TakenIsClean'
    BY <1>1, <1>2, ClosedForm DEF WorkIsHeld, DiscardForgets, TakenIsClean
  <1> QED
    BY <1>3, <1>4

\* An answer that is no success, and a photo that cannot be added, leave the work alone.
LEMMA AuditRest ==
    ASSUME WizardIInv,
           \/ \E p \in posts : Refused(p) \/ PostFails(p)
           \/ \E a \in adding : DropPhoto(a)
           \/ OpenPage
    PROVE  WizardIInv'
  <1> USE DEF WizardIInv
  <1>1. /\ form' \in FormState /\ form'.open = form.open /\ form'.page <= form'.n
        /\ form'.discard = form.discard /\ form'.values = form.values
        /\ form'.step = form.step /\ form'.room = form.room
    <2>1. CASE OpenPage
      <3>1. PICK n \in Nat : n = form.n
        BY DEF WizardTyped, FormState
      <3>2. form' = [form EXCEPT !.page = n, !.done = FALSE]
        BY <2>1, <3>1 DEF OpenPage
      <3>3. form'.page = n /\ form'.n = n
        BY <3>1, <3>2 DEF WizardTyped, FormState
      <3>4. form'.page <= form'.n
        BY <3>3
      <3> QED
        BY <3>2, <3>4 DEF WizardTyped, FormState
    <2>2. CASE ~OpenPage
      BY <2>2 DEF Refused, PostFails, DropPhoto, WizardTyped, FormState
    <2> QED
      BY <2>1, <2>2
  <1>2. /\ posts' \subseteq posts /\ adding' \subseteq adding /\ auditOps' \in Nat
        /\ UNCHANGED <<loaded, draft, given, unsaved, kept, taken>>
    BY DEF Refused, PostFails, DropPhoto, OpenPage, AuditOp, WizardTyped
  <1>3. WizardTyped'
    BY <1>1, <1>2 DEF WizardTyped
  <1>4. WorkIsHeld' /\ DiscardForgets' /\ TakenIsClean'
    BY <1>1, <1>2 DEF WorkIsHeld, Shown, InDraft, DiscardForgets, TakenIsClean
  <1> QED
    BY <1>3, <1>4

LEMMA NextWizardIInv == WizardIInv /\ [AuditNext]_auditVars => WizardIInv'
  <1> SUFFICES ASSUME WizardIInv, [AuditNext]_auditVars PROVE WizardIInv'
    OBVIOUS
  <1>1. CASE \/ OpenForm \/ LoadFacts \/ AutoSave \/ LeaveForm \/ ReloadPage \/ CancelAudit
             \/ Submit
    BY <1>1, AuditOpenForm, AuditLoadFacts, AuditAutoSave, AuditLeaveForm, AuditReloadPage,
       AuditCancel, AuditSubmit
  <1>2. ASSUME NEW q \in Question, NEW a \in Choice \cup {Blank}, EditField(q, a)
        PROVE  WizardIInv'
    BY <1>2, AuditEditField
  <1>3. ASSUME NEW p \in Photo, RemovePhoto(p) PROVE WizardIInv'
    BY <1>3, AuditRemovePhoto
  <1>4. ASSUME NEW p \in Photo, NEW kind \in {"step", "room"}, PickPhoto(p, kind)
        PROVE  WizardIInv'
    BY <1>4, AuditPickPhoto
  <1>5. ASSUME NEW a \in adding, AddPhoto(a) PROVE WizardIInv'
    BY <1>5, AuditAddPhoto
  <1>6. ASSUME NEW p \in posts, Accepted(p) PROVE WizardIInv'
    BY <1>6, AuditAccepted
  <1>7. CASE \/ \E p \in posts : Refused(p) \/ PostFails(p)
             \/ \E a \in adding : DropPhoto(a)
             \/ OpenPage
    BY <1>7, AuditRest
  <1>8. CASE UNCHANGED auditVars
    BY <1>8 DEF auditVars, WizardIInv, WizardTyped, WorkIsHeld, Shown, InDraft, DiscardForgets,
                TakenIsClean
  <1> QED
    BY <1>1, <1>2, <1>3, <1>4, <1>5, <1>6, <1>7, <1>8 DEF AuditNext

LEMMA SpecWizardIInv == AuditSpec => []WizardIInv
  <1> QED
    BY InitWizardIInv, NextWizardIInv, PTL DEF AuditSpec

\* The variables have their types, and no submission carries more photos than the limit,
\* though picks that overlap pass its test before any of them is added.
THEOREM WizardTypesHold == AuditSpec => []WizardTypeOK
  <1>1. WizardIInv => WizardTypeOK
    <2> SUFFICES ASSUME WizardTyped PROVE WizardTypeOK
      BY DEF WizardIInv
    <2>1. \A s \in {"open", "busy", "changed", "discard", "done"} : form[s] \in BOOLEAN
      BY DEF WizardTyped, FormState
    <2>2. [values |-> form.values, step |-> form.step, room |-> form.room] \in Drafts
      BY DEF WizardTyped, FormState, Drafts
    <2>3. form.n \in Nat /\ form.page \in 0..form.n
          /\ \A a \in adding : a.photo \in Photo /\ a.base \subseteq Photo
      BY DEF WizardTyped, FormState, PickedPhoto
    <2> QED
      BY <2>1, <2>2, <2>3 DEF WizardTyped, WizardTypeOK
  <1> QED
    BY <1>1, SpecWizardIInv, PTL

\* An answer stands in the form, or in the draft without one, whatever facts arrive late
\* and however often the form goes and opens again.
THEOREM AnswersStayKept == AuditSpec => []AnswersAreKept
  <1>1. WizardIInv => AnswersAreKept
    BY DEF WizardIInv, WorkIsHeld, InDraft, AnswersAreKept
  <1> QED
    BY <1>1, SpecWizardIInv, PTL

\* So does a photo, but for those a room photo that was picked earlier displaces.
THEOREM PhotosStayKept == AuditSpec => []PhotosAreKept
  <1>1. WizardIInv => PhotosAreKept
    BY DEF WizardIInv, WorkIsHeld, InDraft, PhotosAreKept
  <1> QED
    BY <1>1, SpecWizardIInv, PTL

\* No draft survives the submission of its form, at whatever moment the answer comes.
THEOREM DraftIsGone == AuditSpec => []DraftGoneAfterSubmit
  <1>1. WizardIInv => DraftGoneAfterSubmit
    BY DEF WizardIInv, TakenIsClean, DraftGoneAfterSubmit
  <1> QED
    BY <1>1, SpecWizardIInv, PTL

-----------------------------------------------------------------------------
(* ProfileSync. *)

SyncState == [at : {"idle", "flush", "get", "push"},
              list : List \cup {Unread}, stamp : Nat \cup {Unread}]
Pushes == [Slot -> Push \cup {Unread}]

\* The predicates below speak of what a device stores (c), of its PUTs (p) and of its
\* sync (y).  A sync that waits has its one push under way.
OfSync(p, s) == p[s] # Unread /\ p[s].by = "sync"
Awaits(p, y) ==
    /\ y.at \in {"flush", "push"} <=> \E s \in Slot : OfSync(p, s)
    /\ \A s, t \in Slot : OfSync(p, s) /\ OfSync(p, t) => s = t

\* No stamp is of a later time than now.
Begun(p, s) == p[s] # Unread /\ p[s].at = "begun"
InTime(c, p, y, now) ==
    /\ c.stamp <= now
    /\ y.stamp # Unread => y.stamp <= now
    /\ \A s \in Slot : p[s] # Unread => p[s].stamp <= now
    /\ \A s \in Slot : Begun(p, s) => p[s].stamp # 0

\* A device knows nothing of the time t.
Unused(t, c, p, y) ==
    /\ c.stamp # t /\ y.stamp # t
    /\ \A s \in Slot : p[s] # Unread /\ p[s].at = "answered" => p[s].stamp # t

\* Short of a crossing, a device has one call under way, which carries what it stores.
OneCall(c, p, y) ==
    /\ y.at # "get" => y.list = Unread /\ y.stamp = Unread
    /\ y.at # "idle" => ~c.timer
    /\ \A s \in Slot : p[s] # Unread =>
         /\ p[s].by # "nobody"
         /\ p[s].by = "sync" <=> y.at # "idle"
         /\ p[s].list = c.list
         /\ p[s].at \in {"sent", "begun"} => p[s].whole
    /\ \A s, t \in Slot : p[s] # Unread /\ p[t] # Unread => s = t

\* A stamp that is the account's is that of the list that was read or written with it.
Agrees(c, p, y, account) ==
    /\ c.stamp = account.stamp => c.list = account.list
    /\ y.list # Unread /\ (y.stamp = Unread \/ y.stamp = account.stamp) => y.list = account.list
    /\ \A s \in Slot : p[s] # Unread =>
         /\ p[s].at = "stored" => p[s].list = account.list
         /\ p[s].at = "answered" /\ p[s].stamp = account.stamp => p[s].list = account.list

\* An edit that the node has not stored waits for its timer or is on its way.
Scheduled(c, p) ==
    c.timer \/ \E s \in Slot : p[s] # Unread /\ p[s].at \in {"sent", "begun"}

ProfileTyped ==
    /\ server \in [list : List, stamp : Nat] /\ server.stamp \in 1..profileTime
    /\ profileTime \in 1..MaxProfileTime /\ profileFaults \in Nat
    /\ device \in [Device -> Copy] /\ push \in [Device -> Pushes] /\ sync \in [Device -> SyncState]
    /\ \A d \in Device : /\ Awaits(push[d], sync[d])
                         /\ InTime(device[d], push[d], sync[d], profileTime)
    /\ unpushed \subseteq Device /\ crossed \subseteq Device

CallsSettled ==
    \A d \in Device \ crossed :
        /\ OneCall(device[d], push[d], sync[d])
        /\ Agrees(device[d], push[d], sync[d], server)
        /\ d \in unpushed => Scheduled(device[d], push[d])

\* The time a PUT has read and not yet written with is its own: transactions that run in
\* another order than the clock was read give the account no stamp it had before.
StampsFresh ==
    \A d \in Device : \A s \in Slot : Begun(push[d], s) =>
        /\ push[d][s].stamp # server.stamp
        /\ \A e \in Device : Unused(push[d][s].stamp, device[e], push[e], sync[e])
        /\ \A e \in Device : \A t \in Slot :
             Begun(push[e], t) /\ push[e][t].stamp = push[d][s].stamp => e = d /\ t = s

ProfileIInv == ProfileTyped /\ CallsSettled /\ StampsFresh

\* What is known of the device that acts.
LEMMA OfDevice ==
    ASSUME ProfileIInv, NEW d \in Device
    PROVE  /\ device[d] \in Copy /\ push[d] \in Pushes /\ sync[d] \in SyncState
           /\ Awaits(push[d], sync[d]) /\ InTime(device[d], push[d], sync[d], profileTime)
           /\ d \notin crossed => /\ OneCall(device[d], push[d], sync[d])
                                  /\ Agrees(device[d], push[d], sync[d], server)
                                  /\ d \in unpushed => Scheduled(device[d], push[d])
           /\ server \in [list : List, stamp : Nat] /\ server.stamp <= profileTime
           /\ profileTime \in Nat /\ profileTime <= MaxProfileTime
           /\ unpushed \subseteq Device /\ crossed \subseteq Device /\ profileFaults \in Nat
  BY ProfileAssumption DEF ProfileIInv, ProfileTyped, CallsSettled

\* A PUT that is left as it was, or ends.
BegunKept(old, p) ==
    \A s \in Slot : Begun(p, s) => Begun(old, s) /\ p[s].stamp = old[s].stamp

\* A step of d to c, p and y that writes nothing on the node; the times it comes to know
\* are later than now, or the account's.
StepTo(d, c, p, y) ==
    /\ c \in Copy /\ p \in Pushes /\ y \in SyncState
    /\ device' = [device EXCEPT ![d] = c] /\ push' = [push EXCEPT ![d] = p]
    /\ sync' = [sync EXCEPT ![d] = y] /\ server' = server
    /\ profileTime' \in Nat /\ profileTime <= profileTime' /\ profileTime' <= MaxProfileTime
    /\ profileFaults' \in Nat
    /\ Awaits(p, y) /\ InTime(c, p, y, profileTime')
    /\ BegunKept(push[d], p)
    /\ \A t \in 0..profileTime :
         t # server.stamp /\ Unused(t, device[d], push[d], sync[d]) => Unused(t, c, p, y)
    /\ unpushed' \in {unpushed, unpushed \cup {d}, unpushed \ {d}}
    /\ crossed' \in {crossed, crossed \cup {d}}
    /\ d \notin crossed' => /\ OneCall(c, p, y) /\ Agrees(c, p, y, server)
                            /\ d \in unpushed' => Scheduled(c, p)

\* It leaves the other devices as they are.
LEMMA StepOfOne ==
    ASSUME ProfileIInv, NEW d \in Device, NEW c, NEW p, NEW y, StepTo(d, c, p, y)
    PROVE  ProfileIInv'
  <1> USE DEF StepTo
  <1>1. /\ device' \in [Device -> Copy] /\ push' \in [Device -> Pushes]
        /\ sync' \in [Device -> SyncState]
        /\ device'[d] = c /\ push'[d] = p /\ sync'[d] = y
        /\ \A e \in Device \ {d} : /\ device'[e] = device[e] /\ push'[e] = push[e]
                                   /\ sync'[e] = sync[e]
    BY DEF ProfileIInv, ProfileTyped
  <1>2. ASSUME NEW e \in Device
        PROVE  /\ Awaits(push'[e], sync'[e])
               /\ InTime(device'[e], push'[e], sync'[e], profileTime')
    <2>1. CASE e = d
      BY <1>1, <2>1
    <2>2. CASE e # d
      <3>1. /\ device[e] \in Copy /\ push[e] \in Pushes /\ sync[e] \in SyncState
            /\ Awaits(push[e], sync[e]) /\ InTime(device[e], push[e], sync[e], profileTime)
            /\ profileTime \in Nat
        BY OfDevice
      <3>2. InTime(device[e], push[e], sync[e], profileTime')
        BY <3>1 DEF InTime, Copy, Pushes, Push, SyncState
      <3> QED
        BY <1>1, <2>2, <3>1, <3>2
    <2> QED
      BY <2>1, <2>2
  <1>3. ProfileTyped'
    <2>1. server.stamp \in 1..profileTime /\ profileTime \in 1..MaxProfileTime
      BY DEF ProfileIInv, ProfileTyped
    <2>2. server'.stamp \in 1..profileTime' /\ profileTime' \in 1..MaxProfileTime
      BY <2>1, ProfileAssumption
    <2> QED
      BY <1>1, <1>2, <2>2 DEF ProfileIInv, ProfileTyped
  <1>4. ASSUME NEW e \in Device \ crossed'
        PROVE  /\ OneCall(device'[e], push'[e], sync'[e])
               /\ Agrees(device'[e], push'[e], sync'[e], server')
               /\ e \in unpushed' => Scheduled(device'[e], push'[e])
    <2>1. CASE e = d
      BY <1>1, <2>1
    <2>2. CASE e # d
      BY <1>1, <2>2, OfDevice
    <2> QED
      BY <2>1, <2>2
  <1>5. CallsSettled'
    BY <1>4 DEF CallsSettled
  <1>6. StampsFresh'
    <2>1. ASSUME NEW e \in Device, NEW s \in Slot, Begun(push'[e], s)
          PROVE  Begun(push[e], s) /\ push'[e][s].stamp = push[e][s].stamp
      BY <1>1, <2>1 DEF BegunKept
    <2>2. ASSUME NEW e \in Device, NEW s \in Slot, Begun(push'[e], s)
          PROVE  /\ push'[e][s].stamp # server'.stamp
                 /\ \A f \in Device : Unused(push'[e][s].stamp, device'[f], push'[f], sync'[f])
                 /\ \A f \in Device : \A t \in Slot :
                      Begun(push'[f], t) /\ push'[f][t].stamp = push'[e][s].stamp => f = e /\ t = s
      <3> DEFINE now == push[e][s].stamp
      <3>1. Begun(push[e], s) /\ push'[e][s].stamp = now
        BY <2>1, <2>2
      <3>2. now \in 0..profileTime
        BY <3>1, OfDevice DEF InTime, Begun, Pushes, Push
      <3>3. /\ now # server.stamp
            /\ \A f \in Device : Unused(now, device[f], push[f], sync[f])
            /\ \A f \in Device : \A t \in Slot :
                 Begun(push[f], t) /\ push[f][t].stamp = now => f = e /\ t = s
        BY <3>1 DEF ProfileIInv, StampsFresh
      <3> HIDE DEF now
      <3>4. ASSUME NEW f \in Device PROVE Unused(now, device'[f], push'[f], sync'[f])
        <4>1. CASE f = d
          BY <1>1, <3>2, <3>3, <4>1
        <4>2. CASE f # d
          BY <1>1, <3>3, <4>2
        <4> QED
          BY <4>1, <4>2
      <3> QED
        BY <2>1, <3>1, <3>3, <3>4
    <2> QED
      BY <2>2 DEF StampsFresh
  <1> QED
    BY <1>3, <1>5, <1>6 DEF ProfileIInv

LEMMA InitProfileIInv == ProfileInit => ProfileIInv
  <1> SUFFICES ASSUME ProfileInit PROVE ProfileIInv
    OBVIOUS
  <1>1. /\ server.list = {} /\ server.stamp = 1 /\ profileTime = 1 /\ unpushed = {}
        /\ server \in [list : List, stamp : Nat]
    BY DEF ProfileInit, List
  <1>2. ASSUME NEW d \in Device
        PROVE  /\ device[d] \in Copy /\ push[d] \in Pushes /\ sync[d] \in SyncState
               /\ device[d].stamp = 0
               /\ sync[d].at = "idle" /\ sync[d].list = Unread /\ sync[d].stamp = Unread
               /\ \A s \in Slot : push[d][s] = Unread
    BY DEF ProfileInit, NoSync, SyncState, Pushes, Copy, List
  <1>3. device \in [Device -> Copy] /\ push \in [Device -> Pushes] /\ sync \in [Device -> SyncState]
    BY <1>2 DEF ProfileInit
  <1>4. ProfileTyped
    <2>1. 1 \in 1..MaxProfileTime /\ 1 \in 1..1
      BY ProfileAssumption
    <2>2. \A d \in Device : Awaits(push[d], sync[d]) /\ InTime(device[d], push[d], sync[d], 1)
      BY <1>2 DEF Awaits, OfSync, InTime, Begun
    <2> QED
      BY <1>1, <1>3, <2>1, <2>2 DEF ProfileInit, ProfileTyped
  <1>5. CallsSettled
    BY <1>1, <1>2 DEF CallsSettled, OneCall, Agrees
  <1>6. StampsFresh
    BY <1>2 DEF StampsFresh, Begun
  <1> QED
    BY <1>4, <1>5, <1>6 DEF ProfileIInv

\* A push that starts carries what the device stores.
SentIn(d, by, p, s) ==
    /\ s \in Slot /\ push[d][s] = Unread /\ p \in Pushes
    /\ p[s] # Unread /\ p[s].by = by /\ p[s].at = "sent"
    /\ p[s].list = device[d].list /\ p[s].stamp = 0 /\ p[s].whole
    /\ \A t \in Slot : t # s => p[t] = push[d][t]

LEMMA PutSent ==
    ASSUME ProfileIInv, NEW d \in Device, NEW by \in {"timer", "sync", "nobody"}, SendPut(d, by)
    PROVE  \E p : \E s \in Slot : push' = [push EXCEPT ![d] = p] /\ SentIn(d, by, p, s)
  <1> DEFINE fresh == [by |-> by, at |-> "sent", list |-> device[d].list, stamp |-> 0, whole |-> TRUE]
  <1>1. PICK s \in Slot : /\ s \notin Pushing(d)
                          /\ push' = [push EXCEPT ![d] = [push[d] EXCEPT ![s] = fresh]]
    BY DEF SendPut
  <1>2. device[d].list \in List
    BY OfDevice DEF Copy
  <1>3. /\ fresh \in Push /\ fresh.by = by /\ fresh.at = "sent" /\ fresh.list = device[d].list
        /\ fresh.stamp = 0 /\ fresh.whole
    BY <1>2 DEF Push
  <1>4. fresh # Unread
    BY <1>3, ProfileAssumption
  <1> HIDE DEF fresh
  <1> DEFINE p == [push[d] EXCEPT ![s] = fresh]
  <1>5. p \in Pushes /\ p[s] = fresh /\ \A t \in Slot : t # s => p[t] = push[d][t]
    BY <1>3, OfDevice DEF Pushes
  <1>6. push[d][s] = Unread
    BY <1>1 DEF Pushing
  <1>7. SentIn(d, by, p, s)
    BY <1>3, <1>4, <1>5, <1>6 DEF SentIn
  <1> QED
    BY <1>1, <1>7

\* It has read no time yet.
LEMMA SentKeeps ==
    ASSUME ProfileIInv, NEW d \in Device, NEW by, NEW p, NEW s \in Slot, SentIn(d, by, p, s),
           NEW c, c.stamp = device[d].stamp, NEW y, y.stamp \in {sync[d].stamp, Unread}
    PROVE  /\ BegunKept(push[d], p) /\ InTime(c, p, y, profileTime)
           /\ \A t \in 0..profileTime : Unused(t, device[d], push[d], sync[d]) => Unused(t, c, p, y)
  <1>1. BegunKept(push[d], p)
    BY DEF SentIn, BegunKept, Begun
  <1>2. InTime(device[d], push[d], sync[d], profileTime) /\ profileTime \in Nat
    BY OfDevice
  <1>3. InTime(c, p, y, profileTime)
    <2>1. \A t \in Slot : p[t] # Unread => p[t].stamp <= profileTime
      BY <1>2 DEF InTime, SentIn
    <2>2. \A t \in Slot : Begun(p, t) => p[t].stamp # 0
      BY <1>1, <1>2 DEF InTime, BegunKept
    <2> QED
      BY <1>2, <2>1, <2>2 DEF InTime
  <1>4. \A t \in 0..profileTime : Unread # t
    BY <1>2, ProfileAssumption
  <1> QED
    BY <1>1, <1>3, <1>4 DEF Unused, SentIn

LEMMA IdleSync ==
    /\ NoSync \in SyncState
    /\ NoSync.at = "idle" /\ NoSync.list = Unread /\ NoSync.stamp = Unread
  BY DEF NoSync, SyncState

\* A device with no call under way.
LEMMA NotWorking ==
    ASSUME NEW d \in Device, ~Working(d)
    PROVE  sync[d].at = "idle" /\ \A s \in Slot : push[d][s] = Unread
  BY DEF Working, Pushing

LEMMA ProfileEdit ==
    ASSUME ProfileIInv, NEW d \in Device, NEW f \in Favorite, Edit(d, f)
    PROVE  ProfileIInv'
  <1>1. PICK list \in List : device' = [device EXCEPT ![d] =
            [device[d] EXCEPT !.list = list, !.stamp = profileTime', !.edited = TRUE, !.timer = TRUE]]
    <2>1. device[d].list \in SUBSET Favorite
      BY OfDevice DEF Copy, List
    <2>2. \A l \in SUBSET device[d].list : {f} \cup l \in List
      BY <2>1 DEF List
    <2>3. device[d].list \ {f} \in List
      BY <2>1 DEF List
    <2> DEFINE lists == IF f \in device[d].list THEN {device[d].list \ {f}}
                        ELSE {{f} \cup l : l \in {l \in SUBSET device[d].list :
                                Cardinality(l) = IF Cardinality(device[d].list) < MaxFavorites
                                                 THEN Cardinality(device[d].list)
                                                 ELSE MaxFavorites - 1}}
    <2>4. \A list \in lists : list \in List
      <3>1. CASE f \in device[d].list
        BY <2>3, <3>1
      <3>2. CASE f \notin device[d].list
        BY <2>2, <3>2
      <3> QED
        BY <3>1, <3>2
    <2>5. \E list \in lists : device' = [device EXCEPT ![d] =
             [device[d] EXCEPT !.list = list, !.stamp = profileTime', !.edited = TRUE, !.timer = TRUE]]
      BY DEF Edit
    <2> HIDE DEF lists
    <2> QED
      BY <2>4, <2>5
  <1> DEFINE c == [device[d] EXCEPT !.list = list, !.stamp = profileTime', !.edited = TRUE,
                                    !.timer = TRUE]
             p == [s \in Slot |-> IF push[d][s] = Unread THEN push[d][s]
                                  ELSE [push[d][s] EXCEPT !.whole = FALSE]]
  <1>2. /\ profileTime' = profileTime + 1 /\ profileTime' <= MaxProfileTime
        /\ profileTime' \in Nat /\ profileFaults' \in Nat
    BY OfDevice, ProfileAssumption DEF Edit, ProfileTick
  <1>3. /\ c \in Copy /\ c.list = list /\ c.stamp = profileTime' /\ c.timer
    BY OfDevice, <1>2 DEF Copy
  <1>4. /\ p \in Pushes
        /\ \A s \in Slot : /\ p[s] = Unread <=> push[d][s] = Unread
                           /\ p[s] # Unread => /\ p[s].stamp = push[d][s].stamp
                                               /\ p[s].by = push[d][s].by
                                               /\ p[s].at = push[d][s].at
    <2>1. ASSUME NEW s \in Slot, push[d][s] # Unread
          PROVE  /\ [push[d][s] EXCEPT !.whole = FALSE] \in Push
                 /\ [push[d][s] EXCEPT !.whole = FALSE].stamp = push[d][s].stamp
                 /\ [push[d][s] EXCEPT !.whole = FALSE].by = push[d][s].by
                 /\ [push[d][s] EXCEPT !.whole = FALSE].at = push[d][s].at
      <3>1. push[d][s] \in Push
        BY <2>1, OfDevice DEF Pushes
      <3> QED
        BY <3>1 DEF Push
    <2> QED
      BY <2>1, ProfileAssumption DEF Pushes
  <1>5. /\ device' = [device EXCEPT ![d] = c] /\ push' = [push EXCEPT ![d] = p]
        /\ sync' = [sync EXCEPT ![d] = sync[d]]
    BY <1>1 DEF Edit, ProfileIInv, ProfileTyped
  <1>6. /\ server' = server /\ unpushed' = unpushed \cup {d}
        /\ crossed' = IF Working(d) THEN crossed \cup {d} ELSE crossed
    BY DEF Edit
  <1> HIDE DEF c, p
  <1>7. Awaits(p, sync[d])
    <2>1. \A s \in Slot : OfSync(p, s) <=> OfSync(push[d], s)
      BY <1>4 DEF OfSync
    <2> QED
      BY <2>1, OfDevice DEF Awaits
  <1>8. /\ InTime(c, p, sync[d], profileTime') /\ BegunKept(push[d], p)
        /\ \A t \in 0..profileTime : Unused(t, device[d], push[d], sync[d]) => Unused(t, c, p, sync[d])
    <2>1. \A s \in Slot : Begun(p, s) => Begun(push[d], s)
      BY <1>4 DEF Begun
    <2>2. BegunKept(push[d], p)
      BY <1>4, <2>1 DEF BegunKept, Begun
    <2>3. InTime(device[d], push[d], sync[d], profileTime) /\ sync[d] \in SyncState
          /\ push[d] \in Pushes /\ profileTime \in Nat
      BY OfDevice
    <2>4. InTime(c, p, sync[d], profileTime')
      <3>1. \A s \in Slot : Begun(p, s) => p[s].stamp # 0
        BY <1>4, <2>1, <2>3 DEF InTime, Begun
      <3>2. \A s \in Slot : p[s] # Unread => p[s].stamp <= profileTime'
        BY <1>2, <1>4, <2>3 DEF InTime, Pushes, Push
      <3>3. sync[d].stamp # Unread => sync[d].stamp <= profileTime'
        BY <1>2, <2>3 DEF InTime, SyncState
      <3> QED
        BY <1>2, <1>3, <3>1, <3>2, <3>3 DEF InTime
    <2>5. \A t \in 0..profileTime : c.stamp # t
      BY <1>2, <1>3, <2>3
    <2> QED
      BY <1>4, <2>2, <2>4, <2>5 DEF Unused
  <1>9. ASSUME d \notin crossed'
        PROVE  OneCall(c, p, sync[d]) /\ Agrees(c, p, sync[d], server) /\ Scheduled(c, p)
    <2>1. d \notin crossed /\ sync[d].at = "idle" /\ \A s \in Slot : p[s] = Unread
      BY <1>4, <1>6, <1>9, NotWorking
    <2>2. OneCall(c, p, sync[d])
      BY <2>1, OfDevice DEF OneCall
    <2>3. server.stamp < c.stamp /\ c.stamp \in Nat /\ server.stamp \in Nat
      BY <1>2, <1>3, OfDevice
    <2>4. Agrees(c, p, sync[d], server)
      BY <2>1, <2>3, OfDevice DEF Agrees, OneCall
    <2> QED
      BY <1>3, <2>2, <2>4 DEF Scheduled
  <1>20. StepTo(d, c, p, sync[d])
    BY <1>2, <1>3, <1>4, <1>5, <1>6, <1>7, <1>8, <1>9, OfDevice DEF StepTo
  <1> QED
    BY <1>20, StepOfOne

LEMMA ProfileTimerPush ==
    ASSUME ProfileIInv, NEW d \in Device, TimerPush(d)
    PROVE  ProfileIInv'
  <1> DEFINE c == [device[d] EXCEPT !.timer = FALSE, !.inFlight = TRUE]
  <1>1. /\ c \in Copy /\ c.list = device[d].list /\ c.stamp = device[d].stamp
    BY OfDevice DEF Copy
  <1>2. PICK p : \E s \in Slot : push' = [push EXCEPT ![d] = p] /\ SentIn(d, "timer", p, s)
    BY PutSent DEF TimerPush
  <1>3. PICK s \in Slot : push' = [push EXCEPT ![d] = p] /\ SentIn(d, "timer", p, s)
    BY <1>2
  <1>4. /\ device' = [device EXCEPT ![d] = c] /\ sync' = [sync EXCEPT ![d] = sync[d]]
        /\ server' = server /\ unpushed' = unpushed /\ profileTime' = profileTime
        /\ profileFaults' = profileFaults
        /\ crossed' = IF Working(d) THEN crossed \cup {d} ELSE crossed
    BY DEF TimerPush, ProfileIInv, ProfileTyped
  <1> HIDE DEF c
  <1>5. Awaits(p, sync[d])
    <2>1. \A t \in Slot : OfSync(p, t) <=> OfSync(push[d], t)
      BY <1>3 DEF OfSync, SentIn
    <2> QED
      BY <2>1, OfDevice DEF Awaits
  <1>6. /\ BegunKept(push[d], p) /\ InTime(c, p, sync[d], profileTime)
        /\ \A t \in 0..profileTime : Unused(t, device[d], push[d], sync[d]) => Unused(t, c, p, sync[d])
    BY <1>1, <1>3, SentKeeps
  <1>7. ASSUME d \notin crossed'
        PROVE  OneCall(c, p, sync[d]) /\ Agrees(c, p, sync[d], server) /\ Scheduled(c, p)
    <2>1. d \notin crossed /\ sync[d].at = "idle" /\ \A t \in Slot : push[d][t] = Unread
      BY <1>4, <1>7, NotWorking
    <2>2. OneCall(device[d], push[d], sync[d]) /\ Agrees(device[d], push[d], sync[d], server)
      BY <2>1, OfDevice
    <2>3. OneCall(c, p, sync[d])
      BY <1>1, <1>3, <2>1, <2>2 DEF OneCall, SentIn
    <2>4. Agrees(c, p, sync[d], server)
      BY <1>1, <1>3, <2>1, <2>2 DEF Agrees, SentIn
    <2> QED
      BY <1>3, <2>3, <2>4 DEF Scheduled, SentIn
  <1>8. p \in Pushes
    BY <1>3 DEF SentIn
  <1>20. StepTo(d, c, p, sync[d])
    BY <1>1, <1>3, <1>4, <1>5, <1>6, <1>7, <1>8, OfDevice DEF StepTo
  <1> QED
    BY <1>20, StepOfOne

\* A sync that awaits a PUT it sends.
LEMMA SentAwaited ==
    ASSUME ProfileIInv, NEW d \in Device, sync[d].at \in {"idle", "get"}, NEW p, NEW s \in Slot,
           SentIn(d, "sync", p, s), NEW y, y.at \in {"flush", "push"}
    PROVE  Awaits(p, y)
  <1>1. \A t \in Slot : ~OfSync(push[d], t)
    BY OfDevice DEF Awaits
  <1>2. \A t \in Slot : OfSync(p, t) <=> t = s
    BY <1>1 DEF OfSync, SentIn
  <1> QED
    BY <1>2 DEF Awaits

LEMMA ProfileStartSync ==
    ASSUME ProfileIInv, NEW d \in Device, StartSync(d)
    PROVE  ProfileIInv'
  <1>1. /\ server' = server /\ unpushed' = unpushed /\ profileTime' = profileTime
        /\ profileFaults' = profileFaults /\ sync[d].at = "idle"
        /\ crossed' = IF Working(d) THEN crossed \cup {d} ELSE crossed
    BY DEF StartSync
  <1>3. CASE device[d].timer \/ device[d].inFlight
    <2> DEFINE c == [device[d] EXCEPT !.timer = FALSE, !.inFlight = TRUE]
               y == [sync[d] EXCEPT !.at = "flush"]
    <2>1. /\ c \in Copy /\ c.list = device[d].list /\ c.stamp = device[d].stamp /\ ~c.timer
      BY OfDevice DEF Copy
    <2>2. /\ y \in SyncState /\ y.at = "flush" /\ y.list = sync[d].list /\ y.stamp = sync[d].stamp
      BY OfDevice DEF SyncState
    <2>3. PICK p : \E s \in Slot : push' = [push EXCEPT ![d] = p] /\ SentIn(d, "sync", p, s)
      BY <1>3, PutSent DEF StartSync
    <2>4. PICK s \in Slot : push' = [push EXCEPT ![d] = p] /\ SentIn(d, "sync", p, s)
      BY <2>3
    <2>5. device' = [device EXCEPT ![d] = c] /\ sync' = [sync EXCEPT ![d] = y]
      BY <1>3 DEF StartSync
    <2> HIDE DEF c, y
    <2>6. Awaits(p, y)
      BY <1>1, <2>2, <2>4, SentAwaited
    <2>7. /\ BegunKept(push[d], p) /\ InTime(c, p, y, profileTime)
          /\ \A t \in 0..profileTime : Unused(t, device[d], push[d], sync[d]) => Unused(t, c, p, y)
      BY <2>1, <2>2, <2>4, SentKeeps
    <2>8. ASSUME d \notin crossed'
          PROVE  OneCall(c, p, y) /\ Agrees(c, p, y, server) /\ Scheduled(c, p)
      <3>1. d \notin crossed /\ \A t \in Slot : push[d][t] = Unread
        BY <1>1, <2>8, NotWorking
      <3>2. OneCall(device[d], push[d], sync[d]) /\ Agrees(device[d], push[d], sync[d], server)
        BY <3>1, OfDevice
      <3>3. OneCall(c, p, y)
        BY <1>1, <2>1, <2>2, <2>4, <3>1, <3>2 DEF OneCall, SentIn
      <3>4. Agrees(c, p, y, server)
        BY <1>1, <2>1, <2>2, <2>4, <3>1, <3>2 DEF Agrees, OneCall, SentIn
      <3> QED
        BY <2>4, <3>3, <3>4 DEF Scheduled, SentIn
    <2>9. p \in Pushes
      BY <2>4 DEF SentIn
    <2>20. StepTo(d, c, p, y)
      BY <1>1, <2>1, <2>2, <2>4, <2>5, <2>6, <2>7, <2>8, <2>9, OfDevice DEF StepTo
    <2> QED
      BY <2>20, StepOfOne
  <1>4. CASE ~(device[d].timer \/ device[d].inFlight)
    <2> DEFINE y == [sync[d] EXCEPT !.at = "get"]
    <2>1. /\ y \in SyncState /\ y.at = "get" /\ y.list = sync[d].list /\ y.stamp = sync[d].stamp
      BY OfDevice DEF SyncState
    <2>2. /\ device' = [device EXCEPT ![d] = device[d]] /\ push' = [push EXCEPT ![d] = push[d]]
          /\ sync' = [sync EXCEPT ![d] = y]
      BY <1>4 DEF StartSync, ProfileIInv, ProfileTyped
    <2> HIDE DEF y
    <2>3. Awaits(push[d], y)
      BY <1>1, <2>1, OfDevice DEF Awaits
    <2>4. InTime(device[d], push[d], y, profileTime')
      BY OfDevice, <1>1, <2>1 DEF InTime
    <2>5. ASSUME d \notin crossed'
          PROVE  /\ OneCall(device[d], push[d], y) /\ Agrees(device[d], push[d], y, server)
                 /\ d \in unpushed' => Scheduled(device[d], push[d])
      <3>1. d \notin crossed /\ \A s \in Slot : push[d][s] = Unread
        BY <1>1, <2>5, NotWorking
      <3> QED
        BY <1>1, <1>4, <2>1, <3>1, OfDevice DEF OneCall, Agrees
    <2>6. \A t \in 0..profileTime :
             Unused(t, device[d], push[d], sync[d]) => Unused(t, device[d], push[d], y)
      BY <2>1 DEF Unused
    <2>20. StepTo(d, device[d], push[d], y)
      BY <1>1, <2>1, <2>2, <2>3, <2>4, <2>5, <2>6, OfDevice DEF StepTo, BegunKept
    <2> QED
      BY <2>20, StepOfOne
  <1> QED
    BY <1>3, <1>4

\* A PUT that ends, or is no longer awaited.
Ended(d, p, s) ==
    /\ p \in Pushes /\ ~OfSync(p, s) /\ (p[s] # Unread => p[s].at = push[d][s].at /\ p[s].stamp = push[d][s].stamp)
    /\ \A t \in Slot : t # s => p[t] = push[d][t]

LEMMA EndedKeeps ==
    ASSUME ProfileIInv, NEW d \in Device, NEW s \in Slot, push[d][s] # Unread, NEW p, Ended(d, p, s),
           NEW c, NEW y, y.stamp \in {sync[d].stamp, Unread},
           \/ c.stamp = device[d].stamp
           \/ c.stamp = push[d][s].stamp /\ push[d][s].at = "answered"
    PROVE  /\ BegunKept(push[d], p) /\ InTime(c, p, y, profileTime)
           /\ \A t \in 0..profileTime : Unused(t, device[d], push[d], sync[d]) => Unused(t, c, p, y)
  <1>1. BegunKept(push[d], p)
    BY DEF Ended, BegunKept, Begun
  <1>2. InTime(device[d], push[d], sync[d], profileTime) /\ profileTime \in Nat
    BY OfDevice
  <1>3. InTime(c, p, y, profileTime)
    <2>1. \A t \in Slot : p[t] # Unread => p[t].stamp <= profileTime
      BY <1>2 DEF InTime, Ended
    <2>2. \A t \in Slot : Begun(p, t) => p[t].stamp # 0
      BY <1>1, <1>2 DEF InTime, BegunKept
    <2> QED
      BY <1>2, <2>1, <2>2 DEF InTime
  <1>4. \A t \in 0..profileTime : Unread # t
    BY <1>2, ProfileAssumption
  <1>5. ASSUME NEW t \in 0..profileTime, Unused(t, device[d], push[d], sync[d])
        PROVE  Unused(t, c, p, y)
    <2>1. c.stamp # t /\ y.stamp # t
      BY <1>4, <1>5 DEF Unused
    <2>2. \A r \in Slot : p[r] # Unread /\ p[r].at = "answered" => p[r].stamp # t
      BY <1>5 DEF Unused, Ended
    <2> QED
      BY <2>1, <2>2 DEF Unused
  <1> QED
    BY <1>1, <1>3, <1>5

\* What becomes of the sync then.
LEMMA PushEnds ==
    ASSUME ProfileIInv, NEW d \in Device, NEW s \in Slot, push[d][s] # Unread, GoesOnAfter(d, s),
           NEW p, Ended(d, p, s)
    PROVE  \E y \in SyncState :
              /\ sync' = [sync EXCEPT ![d] = y]
              /\ y.list = sync[d].list /\ y.stamp = sync[d].stamp
              /\ Awaits(p, y)
              /\ push[d][s].by # "sync" => y = sync[d]
              /\ push[d][s].by = "sync" => y.at \in {"get", "idle"}
  <1> DEFINE y == IF push[d][s].by # "sync" THEN sync[d]
                  ELSE [sync[d] EXCEPT !.at = IF sync[d].at = "flush" THEN "get" ELSE "idle"]
  <1>1. /\ y \in SyncState /\ y.list = sync[d].list /\ y.stamp = sync[d].stamp
        /\ push[d][s].by # "sync" => y = sync[d]
        /\ push[d][s].by = "sync" => y.at \in {"get", "idle"}
    <2>1. sync[d] \in SyncState
      BY OfDevice
    <2> QED
      BY <2>1 DEF SyncState
  <1>2. sync' = [sync EXCEPT ![d] = y]
    <2>1. CASE push[d][s].by # "sync"
      BY <2>1 DEF GoesOnAfter, ProfileIInv, ProfileTyped
    <2>2. CASE push[d][s].by = "sync"
      BY <2>2 DEF GoesOnAfter, ProfileIInv, ProfileTyped
    <2> QED
      BY <2>1, <2>2
  <1> HIDE DEF y
  <1>3. Awaits(p, y)
    <2>1. Awaits(push[d], sync[d])
      BY OfDevice
    <2>2. CASE push[d][s].by # "sync"
      <3>1. \A t \in Slot : OfSync(p, t) <=> OfSync(push[d], t)
        BY <2>2 DEF Ended, OfSync
      <3> QED
        BY <1>1, <2>1, <2>2, <3>1 DEF Awaits
    <2>3. CASE push[d][s].by = "sync"
      <3>1. \A t \in Slot : ~OfSync(p, t)
        <4>1. \A t \in Slot : OfSync(push[d], t) => t = s
          BY <2>1, <2>3 DEF Awaits, OfSync
        <4> QED
          BY <4>1 DEF Ended, OfSync
      <3> QED
        BY <1>1, <2>3, <3>1 DEF Awaits
    <2> QED
      BY <2>2, <2>3
  <1> QED
    BY <1>1, <1>2, <1>3

LEMMA ProfilePushReturns ==
    ASSUME ProfileIInv, NEW d \in Device, NEW s \in Slot, PushReturns(d, s)
    PROVE  ProfileIInv'
  <1> DEFINE c == [device[d] EXCEPT !.stamp = push[d][s].stamp, !.edited = FALSE, !.inFlight = FALSE]
             p == [push[d] EXCEPT ![s] = Unread]
  <1>1. push[d][s] # Unread /\ push[d][s].at = "answered" /\ GoesOnAfter(d, s)
        /\ push[d][s] \in Push
    BY OfDevice DEF PushReturns, Pushing, Pushes
  <1>2. p \in Pushes /\ p[s] = Unread /\ \A t \in Slot : t # s => p[t] = push[d][t]
    BY OfDevice DEF Pushes
  <1>3. Ended(d, p, s)
    BY <1>2 DEF Ended, OfSync
  <1>4. c \in Copy /\ c.list = device[d].list /\ c.stamp = push[d][s].stamp
        /\ c.timer = device[d].timer
    BY <1>1, OfDevice DEF Copy, Push
  <1>5. /\ device' = [device EXCEPT ![d] = c] /\ push' = [push EXCEPT ![d] = p]
        /\ server' = server /\ unpushed' = unpushed /\ profileTime' = profileTime
        /\ profileFaults' = profileFaults /\ crossed' = crossed
    BY DEF PushReturns
  <1> HIDE DEF c, p
  <1>6. PICK y \in SyncState :
          /\ sync' = [sync EXCEPT ![d] = y]
          /\ y.list = sync[d].list /\ y.stamp = sync[d].stamp /\ Awaits(p, y)
          /\ push[d][s].by # "sync" => y = sync[d]
          /\ push[d][s].by = "sync" => y.at \in {"get", "idle"}
    BY <1>1, <1>3, PushEnds
  <1>7. /\ BegunKept(push[d], p) /\ InTime(c, p, y, profileTime)
        /\ \A t \in 0..profileTime : Unused(t, device[d], push[d], sync[d]) => Unused(t, c, p, y)
    BY <1>1, <1>3, <1>4, <1>6, EndedKeeps
  <1>8. ASSUME d \notin crossed'
        PROVE  OneCall(c, p, y) /\ Agrees(c, p, y, server) /\ (d \in unpushed' => Scheduled(c, p))
    <2>1. OneCall(device[d], push[d], sync[d]) /\ Agrees(device[d], push[d], sync[d], server)
          /\ (d \in unpushed => Scheduled(device[d], push[d]))
          /\ Awaits(push[d], sync[d])
      BY <1>5, <1>8, OfDevice
    <2>2. \A t \in Slot : p[t] = Unread /\ (push[d][t] # Unread => t = s)
      BY <1>1, <1>2, <2>1 DEF OneCall
    <2>3. push[d][s].by = "sync" => sync[d].list = Unread /\ sync[d].stamp = Unread /\ ~device[d].timer
      BY <1>1, <2>1 DEF OneCall, Awaits, OfSync
    <2>4. push[d][s].by # "sync" => sync[d].at = "idle"
      BY <1>1, <2>1 DEF OneCall
    <2>5. OneCall(c, p, y)
      BY <1>4, <1>6, <2>1, <2>2, <2>3, <2>4 DEF OneCall
    <2>6. Agrees(c, p, y, server)
      BY <1>1, <1>4, <1>6, <2>1, <2>2 DEF Agrees, OneCall
    <2> QED
      BY <1>1, <1>4, <1>5, <2>1, <2>2, <2>5, <2>6 DEF Scheduled
  <1>9. StepTo(d, c, p, y)
    BY <1>2, <1>4, <1>5, <1>6, <1>7, <1>8, OfDevice DEF StepTo
  <1> QED
    BY <1>9, StepOfOne

\* A PUT that nobody awaits any more goes on.
LEMMA Abandoned ==
    ASSUME NEW q \in Push
    PROVE  LET r == [q EXCEPT !.by = "nobody"]
           IN  r \in Push /\ r.by = "nobody" /\ r.at = q.at /\ r.stamp = q.stamp
  BY DEF Push

LEMMA ProfilePushFails ==
    ASSUME ProfileIInv, NEW d \in Device, NEW s \in Slot, PushFails(d, s)
    PROVE  ProfileIInv'
  <1> DEFINE c == [device[d] EXCEPT !.inFlight = FALSE]
             left == [push[d][s] EXCEPT !.by = "nobody"]
             p == [push[d] EXCEPT ![s] = left]
  <1>1. push[d][s] # Unread /\ GoesOnAfter(d, s) /\ push[d][s] \in Push
    BY OfDevice DEF PushFails, Pushing, Pushes
  <1>2. left \in Push /\ left.by = "nobody" /\ left.at = push[d][s].at /\ left.stamp = push[d][s].stamp
    BY <1>1, Abandoned
  <1>3. c \in Copy /\ c.stamp = device[d].stamp
    BY OfDevice DEF Copy
  <1>4. /\ device' = [device EXCEPT ![d] = c] /\ push' = [push EXCEPT ![d] = p]
        /\ server' = server /\ unpushed' = unpushed /\ profileTime' = profileTime
        /\ profileFaults' \in Nat /\ crossed' = crossed \cup {d}
    BY OfDevice DEF PushFails, ProfileFault
  <1> HIDE DEF c, left
  <1>5. p \in Pushes /\ p[s] = left /\ \A t \in Slot : t # s => p[t] = push[d][t]
    BY <1>2, OfDevice DEF Pushes
  <1> HIDE DEF p
  <1>6. Ended(d, p, s)
    BY <1>2, <1>5 DEF Ended, OfSync
  <1>7. PICK y \in SyncState :
          /\ sync' = [sync EXCEPT ![d] = y]
          /\ y.list = sync[d].list /\ y.stamp = sync[d].stamp /\ Awaits(p, y)
    BY <1>1, <1>6, PushEnds
  <1>8. /\ BegunKept(push[d], p) /\ InTime(c, p, y, profileTime)
        /\ \A t \in 0..profileTime : Unused(t, device[d], push[d], sync[d]) => Unused(t, c, p, y)
    BY <1>1, <1>3, <1>6, <1>7, EndedKeeps
  <1>9. StepTo(d, c, p, y)
    BY <1>3, <1>4, <1>5, <1>7, <1>8, OfDevice DEF StepTo
  <1> QED
    BY <1>9, StepOfOne

LEMMA ProfileCloseTab ==
    ASSUME ProfileIInv, NEW d \in Device, CloseTab(d)
    PROVE  ProfileIInv'
  <1> DEFINE c == [device[d] EXCEPT !.edited = FALSE, !.timer = FALSE, !.inFlight = FALSE]
             p == [s \in Slot |-> IF push[d][s] = Unread THEN push[d][s]
                                  ELSE [push[d][s] EXCEPT !.by = "nobody"]]
  <1>1. c \in Copy /\ c.stamp = device[d].stamp
    BY OfDevice DEF Copy
  <1>2. /\ p \in Pushes
        /\ \A s \in Slot : p[s] # Unread => /\ push[d][s] # Unread /\ p[s].by = "nobody"
                                            /\ p[s].at = push[d][s].at
                                            /\ p[s].stamp = push[d][s].stamp
    <2>1. ASSUME NEW s \in Slot, push[d][s] # Unread PROVE push[d][s] \in Push
      BY <2>1, OfDevice DEF Pushes
    <2>2. \A s \in Slot : p[s] \in Push \cup {Unread}
      BY <2>1, Abandoned
    <2>3. p \in Pushes
      BY <2>2 DEF Pushes
    <2>4. ASSUME NEW s \in Slot, p[s] # Unread
          PROVE  /\ push[d][s] # Unread /\ p[s].by = "nobody"
                 /\ p[s].at = push[d][s].at /\ p[s].stamp = push[d][s].stamp
      BY <2>1, <2>4, Abandoned
    <2> QED
      BY <2>3, <2>4
  <1>3. /\ device' = [device EXCEPT ![d] = c] /\ push' = [push EXCEPT ![d] = p]
        /\ sync' = [sync EXCEPT ![d] = NoSync]
        /\ server' = server /\ unpushed' = unpushed /\ profileTime' = profileTime
        /\ profileFaults' \in Nat /\ crossed' = crossed \cup {d}
    BY OfDevice DEF CloseTab, ProfileFault, ProfileIInv, ProfileTyped
  <1> HIDE DEF c, p
  <1>4. Awaits(p, NoSync)
    BY IdleSync, <1>2 DEF Awaits, OfSync
  <1>5. BegunKept(push[d], p)
    BY <1>2 DEF BegunKept, Begun
  <1>6. InTime(device[d], push[d], sync[d], profileTime) /\ profileTime \in Nat
    BY OfDevice
  <1>7. InTime(c, p, NoSync, profileTime)
    <2>1. \A s \in Slot : Begun(p, s) => p[s].stamp # 0
      BY <1>5, <1>6 DEF BegunKept, InTime
    <2> QED
      BY <1>1, <1>2, <1>6, <2>1, IdleSync DEF InTime
  <1>8. \A t \in 0..profileTime : Unread # t
    BY <1>6, ProfileAssumption
  <1>9. \A t \in 0..profileTime : Unused(t, device[d], push[d], sync[d]) => Unused(t, c, p, NoSync)
    BY <1>1, <1>2, <1>8, IdleSync DEF Unused
  <1>10. StepTo(d, c, p, NoSync)
    BY <1>1, <1>2, <1>3, <1>4, <1>5, <1>7, <1>9, IdleSync, OfDevice DEF StepTo
  <1> QED
    BY <1>10, StepOfOne

\* What nobody awaits ends.
LEMMA ProfileVanish ==
    ASSUME ProfileIInv, NEW d \in Device, NEW s \in Slot, Vanish(d, s)
    PROVE  ProfileIInv'
  <1> DEFINE p == [push[d] EXCEPT ![s] = Unread]
  <1>1. push[d][s] # Unread /\ push[d][s].by = "nobody"
    BY DEF Vanish, Pushing
  <1>2. p \in Pushes /\ p[s] = Unread /\ \A t \in Slot : t # s => p[t] = push[d][t]
    BY OfDevice DEF Pushes
  <1>3. /\ device' = [device EXCEPT ![d] = device[d]] /\ push' = [push EXCEPT ![d] = p]
        /\ sync' = [sync EXCEPT ![d] = sync[d]]
        /\ server' = server /\ unpushed' = unpushed /\ profileTime' = profileTime
        /\ profileFaults' = profileFaults /\ crossed' = crossed
    BY DEF Vanish, ProfileIInv, ProfileTyped
  <1> HIDE DEF p
  <1>4. Ended(d, p, s)
    BY <1>2 DEF Ended, OfSync
  <1>5. /\ BegunKept(push[d], p) /\ InTime(device[d], p, sync[d], profileTime)
        /\ \A t \in 0..profileTime :
             Unused(t, device[d], push[d], sync[d]) => Unused(t, device[d], p, sync[d])
    BY <1>1, <1>4, EndedKeeps
  <1>6. Awaits(p, sync[d])
    <2>1. \A t \in Slot : OfSync(p, t) <=> OfSync(push[d], t)
      BY <1>1, <1>2 DEF OfSync
    <2> QED
      BY <2>1, OfDevice DEF Awaits
  <1>7. d \in crossed
    BY <1>1, OfDevice DEF OneCall
  <1>8. StepTo(d, device[d], p, sync[d])
    BY <1>2, <1>3, <1>5, <1>6, <1>7, OfDevice DEF StepTo
  <1> QED
    BY <1>8, StepOfOne

\* A device whose sync has fetched, short of a crossing: nothing of it waits or is on its way.
LEMMA FetchedIsAlone ==
    ASSUME ProfileIInv, NEW d \in Device, sync[d].at = "get"
    PROVE  /\ \A s \in Slot : ~OfSync(push[d], s)
           /\ d \notin crossed => /\ \A s \in Slot : push[d][s] = Unread
                                  /\ ~device[d].timer /\ d \notin unpushed
  <1>1. \A s \in Slot : ~OfSync(push[d], s)
    BY OfDevice DEF Awaits
  <1> QED
    BY <1>1, OfDevice DEF OneCall, Scheduled, OfSync

LEMMA ProfilePushLocal ==
    ASSUME ProfileIInv, NEW d \in Device, PushLocal(d)
    PROVE  ProfileIInv'
  <1> DEFINE c == [device[d] EXCEPT !.inFlight = TRUE]
             y == [NoSync EXCEPT !.at = "push"]
  <1>1. c \in Copy /\ c.list = device[d].list /\ c.stamp = device[d].stamp
        /\ c.timer = device[d].timer
    BY OfDevice DEF Copy
  <1>2. y \in SyncState /\ y.at = "push" /\ y.list = Unread /\ y.stamp = Unread
    BY DEF NoSync, SyncState
  <1>3. PICK p : \E s \in Slot : push' = [push EXCEPT ![d] = p] /\ SentIn(d, "sync", p, s)
    BY PutSent DEF PushLocal
  <1>4. PICK s \in Slot : push' = [push EXCEPT ![d] = p] /\ SentIn(d, "sync", p, s)
    BY <1>3
  <1>5. /\ device' = [device EXCEPT ![d] = c]
        /\ sync' = [sync EXCEPT ![d] = y] /\ sync[d].at = "get"
        /\ server' = server /\ unpushed' = unpushed /\ profileTime' = profileTime
        /\ profileFaults' = profileFaults /\ crossed' = crossed
    BY DEF PushLocal, Fetched
  <1> HIDE DEF c, y
  <1>6. Awaits(p, y)
    BY <1>2, <1>4, <1>5, SentAwaited
  <1>7. /\ BegunKept(push[d], p) /\ InTime(c, p, y, profileTime)
        /\ \A t \in 0..profileTime : Unused(t, device[d], push[d], sync[d]) => Unused(t, c, p, y)
    BY <1>1, <1>2, <1>4, SentKeeps
  <1>8. ASSUME d \notin crossed'
        PROVE  OneCall(c, p, y) /\ Agrees(c, p, y, server) /\ d \notin unpushed'
    <2>1. (\A t \in Slot : push[d][t] = Unread) /\ ~device[d].timer /\ d \notin unpushed
      BY <1>5, <1>8, FetchedIsAlone
    <2>2. Agrees(device[d], push[d], sync[d], server)
      BY <1>5, <1>8, OfDevice
    <2>3. OneCall(c, p, y)
      BY <1>1, <1>2, <1>4, <2>1 DEF OneCall, SentIn
    <2>4. Agrees(c, p, y, server)
      BY <1>1, <1>2, <1>4, <2>1, <2>2 DEF Agrees, SentIn
    <2> QED
      BY <1>5, <2>1, <2>3, <2>4
  <1>9. p \in Pushes
    BY <1>4 DEF SentIn
  <1>10. StepTo(d, c, p, y)
    BY <1>1, <1>2, <1>4, <1>5, <1>6, <1>7, <1>8, <1>9, OfDevice DEF StepTo
  <1> QED
    BY <1>10, StepOfOne

LEMMA ProfileApplyServer ==
    ASSUME ProfileIInv, NEW d \in Device, ApplyServer(d)
    PROVE  ProfileIInv'
  <1> DEFINE c == [device[d] EXCEPT !.list = sync[d].list, !.stamp = sync[d].stamp]
  <1>1. sync[d].at = "get" /\ sync[d].list # Unread /\ sync[d].stamp # Unread
    BY DEF ApplyServer, Fetched
  <1>2. c \in Copy /\ c.list = sync[d].list /\ c.stamp = sync[d].stamp
        /\ c.timer = device[d].timer
    <2>1. sync[d].list \in List /\ sync[d].stamp \in Nat
      BY <1>1, OfDevice DEF SyncState
    <2> QED
      BY <2>1, OfDevice DEF Copy
  <1>3. /\ device' = [device EXCEPT ![d] = c] /\ push' = [push EXCEPT ![d] = push[d]]
        /\ sync' = [sync EXCEPT ![d] = NoSync]
        /\ server' = server /\ unpushed' = unpushed \ {d} /\ profileTime' = profileTime
        /\ profileFaults' = profileFaults /\ crossed' = crossed
    BY DEF ApplyServer, ProfileIInv, ProfileTyped
  <1> HIDE DEF c
  <1>4. Awaits(push[d], NoSync) /\ InTime(c, push[d], NoSync, profileTime')
    BY <1>1, <1>2, <1>3, OfDevice, FetchedIsAlone, IdleSync DEF Awaits, InTime
  <1>5. ASSUME d \notin crossed'
        PROVE  OneCall(c, push[d], NoSync) /\ Agrees(c, push[d], NoSync, server)
    <2>1. \A s \in Slot : push[d][s] = Unread
      BY <1>1, <1>3, <1>5, FetchedIsAlone
    <2>2. Agrees(device[d], push[d], sync[d], server)
      BY <1>3, <1>5, OfDevice
    <2> QED
      BY <1>1, <1>2, <2>1, <2>2, IdleSync DEF OneCall, Agrees
  <1>6. \A t \in 0..profileTime :
           Unused(t, device[d], push[d], sync[d]) => Unused(t, c, push[d], NoSync)
    <2>1. \A t \in 0..profileTime : Unread # t
      BY OfDevice, ProfileAssumption
    <2> QED
      BY <1>2, <2>1, IdleSync DEF Unused
  <1>7. StepTo(d, c, push[d], NoSync)
    BY <1>2, <1>3, <1>4, <1>5, <1>6, IdleSync, OfDevice DEF StepTo, BegunKept
  <1> QED
    BY <1>7, StepOfOne

LEMMA ProfileEndSync ==
    ASSUME ProfileIInv, NEW d \in Device, EndSync(d)
    PROVE  ProfileIInv'
  <1>1. /\ device' = [device EXCEPT ![d] = device[d]] /\ push' = [push EXCEPT ![d] = push[d]]
        /\ sync' = [sync EXCEPT ![d] = NoSync] /\ sync[d].at = "get"
        /\ server' = server /\ unpushed' = unpushed /\ profileTime' = profileTime
        /\ profileFaults' = profileFaults /\ crossed' = crossed
    BY DEF EndSync, ProfileIInv, ProfileTyped
  <1>2. Awaits(push[d], NoSync) /\ InTime(device[d], push[d], NoSync, profileTime')
    BY <1>1, OfDevice, FetchedIsAlone, IdleSync DEF Awaits, InTime
  <1>3. ASSUME d \notin crossed'
        PROVE  /\ OneCall(device[d], push[d], NoSync) /\ Agrees(device[d], push[d], NoSync, server)
               /\ d \notin unpushed'
    <2>1. (\A s \in Slot : push[d][s] = Unread) /\ d \notin unpushed
      BY <1>1, <1>3, FetchedIsAlone
    <2>2. Agrees(device[d], push[d], sync[d], server)
      BY <1>1, <1>3, OfDevice
    <2> QED
      BY <1>1, <2>1, <2>2, IdleSync DEF OneCall, Agrees
  <1>4. \A t \in 0..profileTime :
           Unused(t, device[d], push[d], sync[d]) => Unused(t, device[d], push[d], NoSync)
    <2>1. \A t \in 0..profileTime : Unread # t
      BY OfDevice, ProfileAssumption
    <2> QED
      BY <2>1, IdleSync DEF Unused
  <1>5. StepTo(d, device[d], push[d], NoSync)
    BY <1>1, <1>2, <1>3, <1>4, IdleSync, OfDevice DEF StepTo, BegunKept
  <1> QED
    BY <1>5, StepOfOne

\* GET reads the list and the stamp one after the other, in either order.
LEMMA ProfileRead ==
    ASSUME ProfileIInv, NEW d \in Device, ReadPlaces(d) \/ ReadStamp(d)
    PROVE  ProfileIInv'
  <1> DEFINE y == IF ReadPlaces(d) THEN [sync[d] EXCEPT !.list = server.list]
                  ELSE [sync[d] EXCEPT !.stamp = server.stamp]
  <1>1. sync[d] \in SyncState /\ server.list \in List /\ server.stamp \in Nat
    BY OfDevice
  <1>2. /\ y \in SyncState /\ y.at = sync[d].at /\ sync[d].at = "get"
        /\ \/ y.list = server.list /\ y.stamp = sync[d].stamp
           \/ y.list = sync[d].list /\ y.stamp = server.stamp /\ sync[d].stamp = Unread
    BY <1>1 DEF SyncState, ReadPlaces, ReadStamp
  <1>3. /\ device' = [device EXCEPT ![d] = device[d]] /\ push' = [push EXCEPT ![d] = push[d]]
        /\ sync' = [sync EXCEPT ![d] = y]
        /\ server' = server /\ unpushed' = unpushed /\ profileTime' = profileTime
        /\ profileFaults' = profileFaults /\ crossed' = crossed
    BY DEF ReadPlaces, ReadStamp, ProfileIInv, ProfileTyped
  <1> HIDE DEF y
  <1>4. Awaits(push[d], y) /\ InTime(device[d], push[d], y, profileTime')
    BY <1>2, <1>3, OfDevice DEF Awaits, InTime
  <1>5. ASSUME d \notin crossed'
        PROVE  /\ OneCall(device[d], push[d], y) /\ Agrees(device[d], push[d], y, server)
               /\ d \notin unpushed'
    <2>1. (\A s \in Slot : push[d][s] = Unread) /\ ~device[d].timer /\ d \notin unpushed
      BY <1>2, <1>3, <1>5, FetchedIsAlone
    <2>2. Agrees(device[d], push[d], sync[d], server)
      BY <1>3, <1>5, OfDevice
    <2> QED
      BY <1>2, <1>3, <2>1, <2>2 DEF OneCall, Agrees
  <1>6. \A t \in 0..profileTime :
           t # server.stamp /\ Unused(t, device[d], push[d], sync[d]) => Unused(t, device[d], push[d], y)
    BY <1>2 DEF Unused
  <1>7. StepTo(d, device[d], push[d], y)
    BY <1>2, <1>3, <1>4, <1>5, <1>6, OfDevice DEF StepTo, BegunKept
  <1> QED
    BY <1>7, StepOfOne

LEMMA ProfileAnswerPut ==
    ASSUME ProfileIInv, NEW d \in Device, NEW s \in Slot, AnswerPut(d, s)
    PROVE  ProfileIInv'
  <1> DEFINE answered == [push[d][s] EXCEPT !.at = "answered", !.stamp = server.stamp]
             p == [push[d] EXCEPT ![s] = answered]
  <1>1. push[d][s] # Unread /\ push[d][s].at = "stored" /\ push[d][s] \in Push
    BY OfDevice DEF AnswerPut, Pushing, Pushes
  <1>2. /\ answered \in Push /\ answered.at = "answered" /\ answered.stamp = server.stamp
        /\ answered.list = push[d][s].list /\ answered.by = push[d][s].by
    BY <1>1, OfDevice DEF Push
  <1>3. push' = [push EXCEPT ![d] = p]
    BY DEF AnswerPut
  <1>4. /\ device' = [device EXCEPT ![d] = device[d]] /\ sync' = [sync EXCEPT ![d] = sync[d]]
        /\ server' = server /\ unpushed' = unpushed /\ profileTime' = profileTime
        /\ profileFaults' = profileFaults /\ crossed' = crossed
    BY DEF AnswerPut, ProfileIInv, ProfileTyped
  <1> HIDE DEF answered
  <1>5. p \in Pushes /\ p[s] = answered /\ \A t \in Slot : t # s => p[t] = push[d][t]
    BY <1>2, OfDevice DEF Pushes
  <1>6. answered # Unread
    BY <1>2, ProfileAssumption
  <1> HIDE DEF p
  <1>7. Awaits(p, sync[d]) /\ InTime(device[d], p, sync[d], profileTime')
    <2>1. Awaits(push[d], sync[d]) /\ InTime(device[d], push[d], sync[d], profileTime)
          /\ server.stamp <= profileTime
      BY OfDevice
    <2>2. Awaits(p, sync[d])
      <3>1. \A t \in Slot : OfSync(p, t) <=> OfSync(push[d], t)
        BY <1>1, <1>2, <1>5, <1>6 DEF OfSync
      <3> QED
        BY <2>1, <3>1 DEF Awaits
    <2>3. \A t \in Slot : Begun(p, t) => Begun(push[d], t) /\ p[t].stamp = push[d][t].stamp
      BY <1>2, <1>5 DEF Begun
    <2> QED
      BY <1>2, <1>4, <1>5, <2>1, <2>2, <2>3 DEF InTime
  <1>8. ASSUME d \notin crossed'
        PROVE  /\ OneCall(device[d], p, sync[d]) /\ Agrees(device[d], p, sync[d], server)
               /\ d \in unpushed' => Scheduled(device[d], p)
    <2>1. /\ OneCall(device[d], push[d], sync[d]) /\ Agrees(device[d], push[d], sync[d], server)
          /\ d \in unpushed => Scheduled(device[d], push[d])
      BY <1>4, <1>8, OfDevice
    <2>2. OneCall(device[d], p, sync[d])
      BY <1>1, <1>2, <1>5, <2>1 DEF OneCall
    <2>3. Agrees(device[d], p, sync[d], server)
      BY <1>1, <1>2, <1>5, <2>1 DEF Agrees
    <2>4. Scheduled(device[d], push[d]) => Scheduled(device[d], p)
      BY <1>1, <1>5 DEF Scheduled
    <2> QED
      BY <1>4, <2>1, <2>2, <2>3, <2>4
  <1>9. /\ BegunKept(push[d], p)
        /\ \A t \in 0..profileTime :
             t # server.stamp /\ Unused(t, device[d], push[d], sync[d]) => Unused(t, device[d], p, sync[d])
    BY <1>2, <1>5 DEF BegunKept, Begun, Unused
  <1>10. StepTo(d, device[d], p, sync[d])
    BY <1>3, <1>4, <1>5, <1>7, <1>8, <1>9, OfDevice DEF StepTo
  <1> QED
    BY <1>10, StepOfOne

\* The clock is read at a time that nobody knows of yet.
LEMMA ProfileBeginPut ==
    ASSUME ProfileIInv, NEW d \in Device, NEW s \in Slot, BeginPut(d, s)
    PROVE  ProfileIInv'
  <1> DEFINE begun == [push[d][s] EXCEPT !.at = "begun", !.stamp = profileTime + 1]
             p == [push[d] EXCEPT ![s] = begun]
  <1>1. /\ push[d][s] # Unread /\ push[d][s].at = "sent" /\ push[d][s] \in Push
        /\ profileTime \in Nat
    BY OfDevice DEF BeginPut, Pushing, Pushes
  <1>2. /\ begun \in Push /\ begun.at = "begun" /\ begun.stamp = profileTime + 1
        /\ begun.list = push[d][s].list /\ begun.by = push[d][s].by
        /\ begun.whole <=> push[d][s].whole
    <2>1. PICK now \in Nat : now = profileTime + 1
      BY <1>1
    <2>2. [push[d][s] EXCEPT !.at = "begun", !.stamp = now] \in Push
      BY <1>1 DEF Push
    <2>3. begun = [push[d][s] EXCEPT !.at = "begun", !.stamp = now]
      BY <2>1
    <2> QED
      BY <1>1, <2>1, <2>2, <2>3 DEF Push
  <1>3. /\ profileTime' = profileTime + 1 /\ profileTime' <= MaxProfileTime
        /\ UNCHANGED <<server, device, sync, profileFaults, unpushed, crossed>>
    BY OfDevice, ProfileAssumption DEF BeginPut, ProfileTick
  <1>4. push' = [push EXCEPT ![d] = p]
    BY <1>3 DEF BeginPut
  <1>5. begun # Unread
    BY <1>2, ProfileAssumption
  <1> HIDE DEF begun
  <1>6. p \in Pushes /\ p[s] = begun /\ \A t \in Slot : t # s => p[t] = push[d][t]
    BY <1>2, OfDevice DEF Pushes
  <1> HIDE DEF p
  <1>7. /\ push' \in [Device -> Pushes] /\ push'[d] = p
        /\ \A e \in Device : e # d => push'[e] = push[e]
    BY <1>4, <1>6 DEF ProfileIInv, ProfileTyped
  <1>8. ASSUME NEW e \in Device
        PROVE  /\ device[e].stamp \in Nat /\ device[e].stamp <= profileTime
               /\ sync[e].stamp # Unread => sync[e].stamp \in Nat /\ sync[e].stamp <= profileTime
               /\ \A t \in Slot : push[e][t] # Unread => push[e][t].stamp \in Nat
                                                       /\ push[e][t].stamp <= profileTime
               /\ \A t \in Slot : Begun(push[e], t) => push[e][t].stamp # 0
               /\ Awaits(push[e], sync[e])
    BY OfDevice DEF InTime, Copy, SyncState, Pushes, Push
  <1>9. \A e \in Device : \A t \in Slot : ~(e = d /\ t = s) =>
           /\ push'[e][t] = push[e][t]
           /\ Begun(push'[e], t) <=> Begun(push[e], t)
           /\ OfSync(push'[e], t) <=> OfSync(push[e], t)
    BY <1>6, <1>7 DEF Begun, OfSync
  <1>10. /\ push'[d][s] = begun /\ Begun(push'[d], s) /\ ~Begun(push[d], s)
         /\ OfSync(push'[d], s) <=> OfSync(push[d], s)
    BY <1>1, <1>2, <1>5, <1>6, <1>7 DEF Begun, OfSync
  <1>11. ASSUME NEW e \in Device
         PROVE  Awaits(push'[e], sync[e]) /\ InTime(device[e], push'[e], sync[e], profileTime + 1)
    <2>1. \A t \in Slot : OfSync(push'[e], t) <=> OfSync(push[e], t)
      BY <1>9, <1>10
    <2>2. Awaits(push'[e], sync[e])
      BY <1>8, <2>1 DEF Awaits
    <2>3. \A t \in Slot : push'[e][t] # Unread => push'[e][t].stamp <= profileTime + 1
      BY <1>1, <1>2, <1>8, <1>9, <1>10
    <2>4. \A t \in Slot : Begun(push'[e], t) => push'[e][t].stamp # 0
      BY <1>1, <1>2, <1>8, <1>9, <1>10
    <2>5. device[e].stamp <= profileTime + 1 /\ (sync[e].stamp # Unread => sync[e].stamp <= profileTime + 1)
      BY <1>1, <1>8
    <2> QED
      BY <2>2, <2>3, <2>4, <2>5 DEF InTime
  <1>12. ProfileTyped'
    <2>1. profileTime' \in 1..MaxProfileTime /\ server.stamp \in 1..profileTime'
      BY <1>3, OfDevice, ProfileAssumption DEF ProfileIInv, ProfileTyped
    <2> QED
      BY <1>3, <1>7, <1>11, <2>1 DEF ProfileIInv, ProfileTyped
  <1>13. CallsSettled'
    <2>1. ASSUME NEW e \in Device \ crossed
          PROVE  /\ OneCall(device[e], push'[e], sync[e])
                 /\ Agrees(device[e], push'[e], sync[e], server)
                 /\ e \in unpushed => Scheduled(device[e], push'[e])
      <3>1. /\ OneCall(device[e], push[e], sync[e]) /\ Agrees(device[e], push[e], sync[e], server)
            /\ e \in unpushed => Scheduled(device[e], push[e])
        BY OfDevice
      <3>2. CASE e # d
        BY <1>7, <3>1, <3>2
      <3>3. CASE e = d
        <4>1. OneCall(device[e], p, sync[e])
          BY <1>1, <1>2, <1>5, <1>6, <3>1, <3>3 DEF OneCall
        <4>2. Agrees(device[e], p, sync[e], server)
          BY <1>2, <1>6, <3>1, <3>3 DEF Agrees
        <4>3. Scheduled(device[e], push[e]) => Scheduled(device[e], p)
          BY <1>2, <1>5, <1>6, <3>3 DEF Scheduled
        <4> QED
          BY <1>7, <3>1, <3>3, <4>1, <4>2, <4>3
      <3> QED
        BY <3>2, <3>3
    <2> QED
      BY <1>3, <2>1 DEF CallsSettled
  <1>14. StampsFresh'
    <2>1. ASSUME NEW e \in Device, NEW t \in Slot, Begun(push'[e], t)
          PROVE  /\ push'[e][t].stamp # server.stamp
                 /\ \A f \in Device : Unused(push'[e][t].stamp, device[f], push'[f], sync[f])
                 /\ \A f \in Device : \A r \in Slot :
                      Begun(push'[f], r) /\ push'[f][r].stamp = push'[e][t].stamp => f = e /\ r = t
      <3>1. \A f \in Device : \A r \in Slot : push'[f][r] # Unread /\ push'[f][r].at = "answered"
               => push[f][r] # Unread /\ push[f][r].at = "answered" /\ push'[f][r] = push[f][r]
        BY <1>2, <1>9, <1>10
      <3>2. CASE e = d /\ t = s
        <4>1. push'[e][t].stamp = profileTime + 1
          BY <1>2, <1>10, <3>2
        <4>2. profileTime + 1 # server.stamp /\ Unread # profileTime + 1
              /\ \A n \in Nat : n <= profileTime => n # profileTime + 1
          BY <1>1, OfDevice, ProfileAssumption
        <4>3. \A f \in Device : Unused(profileTime + 1, device[f], push'[f], sync[f])
          BY <1>8, <3>1, <4>2 DEF Unused
        <4>4. \A f \in Device : \A r \in Slot :
                 Begun(push'[f], r) /\ push'[f][r].stamp = profileTime + 1 => f = d /\ r = s
          BY <1>8, <1>9, <4>2 DEF Begun
        <4> QED
          BY <3>2, <4>1, <4>2, <4>3, <4>4
      <3>3. CASE ~(e = d /\ t = s)
        <4>1. Begun(push[e], t) /\ push'[e][t] = push[e][t]
          BY <1>9, <2>1, <3>3
        <4> DEFINE now == push[e][t].stamp
        <4>2. /\ now # server.stamp
              /\ \A f \in Device : Unused(now, device[f], push[f], sync[f])
              /\ \A f \in Device : \A r \in Slot :
                   Begun(push[f], r) /\ push[f][r].stamp = now => f = e /\ r = t
          BY <4>1 DEF ProfileIInv, StampsFresh
        <4>3. now # profileTime + 1
          BY <1>1, <1>8, <4>1 DEF Begun
        <4> HIDE DEF now
        <4>4. \A f \in Device : Unused(now, device[f], push'[f], sync[f])
          BY <3>1, <4>2 DEF Unused
        <4>5. \A f \in Device : \A r \in Slot :
                 Begun(push'[f], r) /\ push'[f][r].stamp = now => f = e /\ r = t
          BY <1>2, <1>9, <1>10, <4>2, <4>3
        <4> QED
          BY <4>1, <4>2, <4>4, <4>5 DEF now
      <3> QED
        BY <3>2, <3>3
    <2> QED
      BY <1>3, <2>1 DEF StampsFresh
  <1> QED
    BY <1>12, <1>13, <1>14 DEF ProfileIInv

\* A PUT gives the account a stamp that was its own: what the devices have of the account
\* is of another one, but for the calls half done, which are crossed.
LEMMA ProfilePut ==
    ASSUME ProfileIInv, NEW d \in Device, NEW s \in Slot, PutFavorites(d, s)
    PROVE  ProfileIInv'
  <1> DEFINE storing == [push[d][s] EXCEPT !.at = "stored"]
             p == [push[d] EXCEPT ![s] = storing]
  <1>1. push[d][s] # Unread /\ Begun(push[d], s) /\ push[d][s] \in Push
        /\ push[d][s].at = "begun"
    BY OfDevice DEF PutFavorites, Pushing, Pushes, Begun
  <1>2. /\ storing \in Push /\ storing # Unread /\ storing.at = "stored"
        /\ storing.stamp = push[d][s].stamp /\ storing.list = push[d][s].list
        /\ storing.by = push[d][s].by
    <2>1. storing \in Push
      BY <1>1 DEF Push
    <2> QED
      BY <1>1, <2>1, ProfileAssumption DEF Push
  <1>3. /\ profileTime' = profileTime
        /\ server' = [list |-> push[d][s].list, stamp |-> push[d][s].stamp]
        /\ crossed' = crossed \cup HalfDone
        /\ unpushed' = IF push[d][s].whole THEN unpushed \ {d} ELSE unpushed
        /\ device' = device /\ sync' = sync /\ profileFaults' = profileFaults
    BY DEF PutFavorites, WriteList
  <1>4. push' = [push EXCEPT ![d] = p]
    <2>1. push' = [push EXCEPT ![d] = [push[d] EXCEPT ![s] = [push[d][s] EXCEPT !.at = "stored"]]]
      BY DEF PutFavorites
    <2> QED
      BY <2>1
  <1> HIDE DEF storing
  <1>5. p \in Pushes /\ p[s] = storing /\ \A t \in Slot : t # s => p[t] = push[d][t]
    BY <1>2, OfDevice DEF Pushes
  <1> HIDE DEF p
  <1>6. /\ push' \in [Device -> Pushes] /\ push'[d] = p
        /\ \A e \in Device : e # d => push'[e] = push[e]
    BY <1>4, <1>5 DEF ProfileIInv, ProfileTyped
  <1>7. \A e \in Device : \A t \in Slot :
           /\ Begun(push'[e], t) => ~(e = d /\ t = s) /\ Begun(push[e], t) /\ push'[e][t] = push[e][t]
           /\ OfSync(push'[e], t) <=> OfSync(push[e], t)
           /\ push'[e][t] # Unread <=> push[e][t] # Unread
           /\ push'[e][t] # Unread => push'[e][t].stamp = push[e][t].stamp
           /\ push'[e][t] # Unread /\ push'[e][t].at = "answered" => push[e][t].at = "answered"
    BY <1>1, <1>2, <1>5, <1>6 DEF Begun, OfSync
  <1>8. ProfileTyped'
    <2>1. ASSUME NEW e \in Device
          PROVE  Awaits(push'[e], sync[e]) /\ InTime(device[e], push'[e], sync[e], profileTime)
      <3>1. Awaits(push[e], sync[e]) /\ InTime(device[e], push[e], sync[e], profileTime)
        BY OfDevice
      <3> QED
        BY <1>7, <3>1 DEF Awaits, InTime
    <2>2. HalfDone \subseteq Device
      BY DEF HalfDone
    <2>3. server' \in [list : List, stamp : Nat] /\ server'.stamp \in 1..profileTime
      <3>1. push[d][s].stamp \in Nat /\ push[d][s].stamp # 0 /\ push[d][s].stamp <= profileTime
            /\ profileTime \in Nat /\ push[d][s].list \in List
        BY <1>1, OfDevice DEF InTime, Push
      <3> QED
        BY <1>3, <3>1
    <2> QED
      BY <1>3, <1>6, <2>1, <2>2, <2>3 DEF ProfileIInv, ProfileTyped
  <1>9. ASSUME NEW e \in Device \ crossed'
        PROVE  /\ OneCall(device[e], push'[e], sync[e])
               /\ Agrees(device[e], push'[e], sync[e], server')
               /\ e \in unpushed' => Scheduled(device[e], push'[e])
    <2>1. /\ OneCall(device[e], push[e], sync[e])
          /\ Agrees(device[e], push[e], sync[e], server)
          /\ e \in unpushed => Scheduled(device[e], push[e])
      BY <1>3, <1>9, OfDevice
    <2>2. /\ \A t \in Slot : push[e][t] # Unread => push[e][t].at # "stored"
          /\ sync[e].list # Unread => sync[e].stamp # Unread
      BY <1>3, <1>9 DEF HalfDone, Pushing
    <2>3. /\ device[e].stamp # server'.stamp
          /\ sync[e].list # Unread => sync[e].stamp # server'.stamp
          /\ \A t \in Slot : push[e][t] # Unread /\ push[e][t].at = "answered"
               => push[e][t].stamp # server'.stamp
      <3>1. Unused(push[d][s].stamp, device[e], push[e], sync[e])
        BY <1>1 DEF ProfileIInv, StampsFresh
      <3> QED
        BY <1>3, <3>1 DEF Unused
    <2>4. CASE e # d
      <3>1. push'[e] = push[e] /\ (e \in unpushed' => e \in unpushed)
        BY <1>3, <1>6, <2>4
      <3> QED
        BY <2>1, <2>2, <2>3, <3>1 DEF Agrees
    <2>5. CASE e = d
      <3>1. push'[e] = p /\ push[e][s].whole
        BY <1>1, <1>6, <2>1, <2>5 DEF OneCall
      <3>2. OneCall(device[e], p, sync[e])
        BY <1>1, <1>2, <1>5, <2>1, <2>5 DEF OneCall
      <3>3. server'.list = storing.list
        BY <1>2, <1>3
      <3>4. Agrees(device[e], p, sync[e], server')
        BY <1>2, <1>5, <2>2, <2>3, <2>5, <3>3 DEF Agrees
      <3> QED
        BY <1>3, <2>5, <3>1, <3>2, <3>4
    <2> QED
      BY <2>4, <2>5
  <1>10. CallsSettled'
    BY <1>3, <1>9 DEF CallsSettled
  <1>11. StampsFresh'
    <2>1. ASSUME NEW e \in Device, NEW t \in Slot, Begun(push'[e], t)
          PROVE  /\ push'[e][t].stamp # server'.stamp
                 /\ \A f \in Device : Unused(push'[e][t].stamp, device[f], push'[f], sync[f])
                 /\ \A f \in Device : \A r \in Slot :
                      Begun(push'[f], r) /\ push'[f][r].stamp = push'[e][t].stamp => f = e /\ r = t
      <3> DEFINE now == push[e][t].stamp
      <3>1. ~(e = d /\ t = s) /\ Begun(push[e], t) /\ push'[e][t] = push[e][t]
        BY <1>7, <2>1
      <3>2. /\ \A f \in Device : Unused(now, device[f], push[f], sync[f])
            /\ \A f \in Device : \A r \in Slot :
                 Begun(push[f], r) /\ push[f][r].stamp = now => f = e /\ r = t
        BY <3>1 DEF ProfileIInv, StampsFresh
      <3>3. push[d][s].stamp # now
        BY <1>1, <3>1, <3>2
      <3> HIDE DEF now
      <3>4. \A f \in Device : Unused(now, device[f], push'[f], sync[f])
        BY <1>7, <3>2 DEF Unused
      <3>5. \A f \in Device : \A r \in Slot :
               Begun(push'[f], r) /\ push'[f][r].stamp = now => f = e /\ r = t
        BY <1>7, <3>2
      <3> QED
        BY <1>3, <3>1, <3>3, <3>4, <3>5 DEF now
    <2> QED
      BY <1>3, <2>1 DEF StampsFresh
  <1> QED
    BY <1>8, <1>10, <1>11 DEF ProfileIInv

LEMMA NextProfileIInv == ProfileIInv /\ [ProfileNext]_profileVars => ProfileIInv'
  <1> SUFFICES ASSUME ProfileIInv, [ProfileNext]_profileVars PROVE ProfileIInv'
    OBVIOUS
  <1>1. ASSUME NEW d \in Device, NEW f \in Favorite, Edit(d, f) PROVE ProfileIInv'
    BY <1>1, ProfileEdit
  <1>2. ASSUME NEW d \in Device,
               \/ TimerPush(d) \/ StartSync(d) \/ CloseTab(d)
               \/ PushLocal(d) \/ ApplyServer(d) \/ EndSync(d)
               \/ ReadPlaces(d) \/ ReadStamp(d)
        PROVE  ProfileIInv'
    BY <1>2, ProfileTimerPush, ProfileStartSync, ProfileCloseTab, ProfilePushLocal,
       ProfileApplyServer, ProfileEndSync, ProfileRead
  <1>3. ASSUME NEW d \in Device, NEW s \in Slot,
               \/ PushReturns(d, s) \/ PushFails(d, s) \/ BeginPut(d, s)
               \/ PutFavorites(d, s) \/ AnswerPut(d, s) \/ Vanish(d, s)
        PROVE  ProfileIInv'
    BY <1>3, ProfilePushReturns, ProfilePushFails, ProfileBeginPut, ProfilePut, ProfileAnswerPut,
       ProfileVanish
  <1>4. CASE UNCHANGED profileVars
    BY <1>4 DEF profileVars, ProfileIInv, ProfileTyped, CallsSettled, StampsFresh
  <1> QED
    BY <1>1, <1>2, <1>3, <1>4 DEF ProfileNext

LEMMA SpecProfileIInv == ProfileSpec => []ProfileIInv
  <1> QED
    BY InitProfileIInv, NextProfileIInv, PTL DEF ProfileSpec

\* The variables have their types, and a sync that waits has its push under way.
THEOREM ProfileTypesHold == ProfileSpec => []ProfileTypeOK
  <1>1. ProfileIInv => ProfileTypeOK
    <2> SUFFICES ASSUME ProfileIInv PROVE ProfileTypeOK
      OBVIOUS
    <2>1. server.list \in List /\ server.stamp \in 1..MaxProfileTime
      BY ProfileAssumption DEF ProfileIInv, ProfileTyped
    <2>2. \A d \in Device : /\ sync[d].at \in {"idle", "flush", "get", "push"}
                            /\ sync[d].at \in {"flush", "push"} <=>
                                 \E s \in Pushing(d) : push[d][s].by = "sync"
                            /\ sync[d].list \in {Unread} \cup List
                            /\ sync[d].stamp \in Nat \cup {Unread}
      BY OfDevice DEF SyncState, Awaits, OfSync, Pushing
    <2>3. profileTime \in Nat
      BY DEF ProfileIInv, ProfileTyped
    <2> QED
      BY <2>1, <2>2, <2>3 DEF ProfileIInv, ProfileTyped, Pushes, ProfileTypeOK
  <1> QED
    BY <1>1, SpecProfileIInv, PTL

\* A device shows the account's favourites whenever its stamp is the account's, however
\* its reads and writes interleave with those of the others, short of a crossing.
THEOREM EqualStampsShowEqualLists == ProfileSpec => []SameStampSameList
  <1>1. ProfileIInv => SameStampSameList
    BY DEF ProfileIInv, CallsSettled, Agrees, SameStampSameList
  <1> QED
    BY <1>1, SpecProfileIInv, PTL

\* No pull overwrites an edit the node never stored, short of a crossing: a sync that
\* fetches has nothing left to push.
THEOREM PullsKeepEdits == ProfileSpec => PullKeepsUncrossedEdits
  <1>1. ProfileIInv /\ [ProfileNext]_profileVars
          => [\A d \in Device : Overwrites(d) => d \in crossed]_profileVars
    <2> SUFFICES ASSUME ProfileIInv, ProfileNext, NEW d \in Device, Overwrites(d), d \notin crossed
                 PROVE  FALSE
      OBVIOUS
    <2>1. /\ d \in unpushed /\ d \notin unpushed' /\ device'[d].list # device[d].list
          /\ device \in [Device -> Copy] /\ device[d] \in Copy
      BY OfDevice DEF Overwrites, ProfileIInv, ProfileTyped
    <2>2. ASSUME NEW e \in Device, ApplyServer(e) PROVE FALSE
      <3>1. e # d
        BY <2>1, <2>2, FetchedIsAlone DEF ApplyServer, Fetched
      <3> QED
        BY <2>1, <2>2, <3>1 DEF ApplyServer
    <2>3. ASSUME NEW e \in Device, NEW f \in Favorite, Edit(e, f) PROVE FALSE
      BY <2>1, <2>3 DEF Edit
    <2>4. ASSUME NEW e \in Device, NEW s \in Slot,
                 \/ PushReturns(e, s) \/ PushFails(e, s) \/ BeginPut(e, s) \/ AnswerPut(e, s)
                 \/ Vanish(e, s)
          PROVE  FALSE
      BY <2>1, <2>4 DEF PushReturns, PushFails, BeginPut, AnswerPut, Vanish
    <2>5. ASSUME NEW e \in Device, NEW s \in Slot, PutFavorites(e, s) PROVE FALSE
      BY <2>1, <2>5 DEF PutFavorites
    <2>6. ASSUME NEW e \in Device,
                 \/ TimerPush(e) \/ StartSync(e) \/ CloseTab(e)
                 \/ PushLocal(e) \/ EndSync(e) \/ ReadPlaces(e) \/ ReadStamp(e)
          PROVE  FALSE
      BY <2>1, <2>6 DEF TimerPush, StartSync, CloseTab, PushLocal, EndSync, ReadPlaces, ReadStamp
    <2> QED
      BY <2>2, <2>3, <2>4, <2>5, <2>6 DEF ProfileNext
  <1> QED
    BY <1>1, SpecProfileIInv, PTL DEF ProfileSpec, PullKeepsUncrossedEdits

-----------------------------------------------------------------------------
(* The components side by side. *)

\* A step of the composition moves the component that was chosen and leaves the
\* variables of the others: each component sees a step of its own or a stutter.
LEMMA PartiesStep ==
    [PartiesNext]_partiesVars =>
        /\ [ProfileNext]_profileVars
        /\ [PeerNext]_peerVars
        /\ [Next]_vars
        /\ [AuditNext]_auditVars
        /\ [LensNext]_lensVars
        /\ [CacheNext]_cacheVars
        /\ [SearchNext]_searchVars
        /\ [CardNext]_cardVars
  BY DEF PartiesNext, partiesVars

\* A behaviour of the composition is one of every component, so that every
\* theorem about a component holds where TLC checks them together.
THEOREM PartiesImplementComponents ==
    PartiesSpec => /\ ProfileSpec /\ PeerSpec /\ Spec /\ AuditSpec
                   /\ LensSpec /\ CacheSpec /\ SearchSpec /\ CardSpec
  <1>1. PartiesInit => /\ ProfileInit /\ PeerInit /\ Init /\ AuditInit
                       /\ LensInit /\ CacheInit /\ SearchInit /\ CardInit
    BY DEF PartiesInit
  <1> QED
    BY <1>1, PartiesStep, PTL
    DEF PartiesSpec, ProfileSpec, PeerSpec, Spec, AuditSpec, LensSpec, CacheSpec,
        SearchSpec, CardSpec

\* The types of the variables of all clients and of the peer tables.
THEOREM ClientsTypesHold == PartiesSpec => []ClientsTypeOK
  <1>1. /\ ProfileTypeOK /\ PeerTypeOK /\ TypeOK /\ WizardTypeOK
        /\ LensTypeOK /\ CacheTypeOK /\ SearchTypeOK /\ CardTypeOK
        => ClientsTypeOK
    BY DEF ClientsTypeOK
  <1> QED
    BY <1>1, PartiesImplementComponents, ProfileTypesHold, PeerTypesCorrect,
       TypeCorrect, WizardTypesHold, LensTypesCorrect, CacheTypesHold,
       SearchTypesHold, CardTypesHold, PTL
=============================================================================
