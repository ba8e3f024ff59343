----------------------------- MODULE LensSession -----------------------------
(***************************************************************************)
(* The session of the Lens extension: popup, options page and the content  *)
(* scripts of all tabs share the tokens in the extension's storage, each   *)
(* refreshes them by itself when a call is refused, and each forgets them  *)
(* when the refresh does not succeed.  The home node is the abstract one   *)
(* of SessionFamily; it looks a token up, spends it and issues the next    *)
(* one in three statements.                                                *)
(***************************************************************************)
EXTENDS Naturals, FiniteSets

CONSTANTS
    Context,      \* pages of the extension
    Account,      \* accounts of the home node
    LensToken,    \* refresh tokens; bound: how many are issued
    Absent,       \* nothing stored
    MaxLensOps    \* bound: calls, sign-ins and sign-outs

ASSUME LensAssumption == Absent \notin LensToken \cup Account /\ MaxLensOps \in Nat

VARIABLES
    issued,     \* the home node's tokens
    storage,    \* wtToken (whose it is), wtRefresh and wtUsername
    call,       \* what each context waits for
    lensOps,
    late,       \* tokens the home node is rotating though nobody waits any more
    died        \* history: tokens a context held when its page went away

lensVars == <<issued, storage, call, lensOps, late, died>>

Home == INSTANCE SessionFamily WITH
            Token <- LensToken, User <- Account, NoParent <- Absent, family <- issued

Forgotten == [access |-> Absent, refresh |-> Absent, username |-> Absent]
Calling(at, token, next) == [at |-> at, token |-> token, next |-> next]
NoCall == Calling("idle", Absent, Absent)

LensInit ==
    /\ Home!FamilyInit
    /\ storage = Forgotten
    /\ call = [c \in Context |-> NoCall]
    /\ lensOps = 0
    /\ late = {} /\ died = {}

LensOp == lensOps < MaxLensOps /\ lensOps' = lensOps + 1

Goes(c, state) == call' = [call EXCEPT ![c] = state]
At(c, state) == call[c].at = state
-----------------------------------------------------------------------------
(* Signing in and out: the popup's form and the options page. *)

\* The home node opens a session; its answer is on the way.
SendLogin(c, u) ==
    /\ LensOp
    /\ At(c, "idle")
    /\ \E k \in LensToken :
         /\ Home!OpenFamily(k, u)
         /\ Goes(c, Calling("login", Absent, k))
    /\ UNCHANGED <<storage, late, died>>

Stored(k, username) ==
    [access |-> issued[k].owner, refresh |-> k, username |-> username]

StoreLogin(c) ==
    /\ At(c, "login")
    /\ storage' = Stored(call[c].next, issued[call[c].next].owner)
    /\ Goes(c, NoCall)
    /\ UNCHANGED <<issued, lensOps, late, died>>

SignOutLens ==
    /\ LensOp
    /\ storage # Forgotten
    /\ storage' = Forgotten
    /\ UNCHANGED <<issued, call, late, died>>

\* The home node goes on with a session it found.
Abandon(c) ==
    late' = IF \/ call[c].at \in {"found", "spent"}
               \/ At(c, "sent") /\ ~issued[call[c].token].spent
            THEN late \cup {call[c].token} ELSE late

\* A page goes away: the popup closes, a tab is left.
CloseContext(c) ==
    /\ ~At(c, "idle")
    /\ Goes(c, NoCall)
    /\ Abandon(c)
    /\ died' = died \cup {call[c].token}
    /\ UNCHANGED <<issued, storage, lensOps>>
-----------------------------------------------------------------------------
(* authNodeFetch *)

\* A call is refused: the access token is too old, or its node wants none of it.
CallRefused(c) ==
    /\ LensOp
    /\ At(c, "idle")
    /\ Goes(c, Calling("refused", Absent, Absent))
    /\ UNCHANGED <<issued, storage, late, died>>

\* refreshLensAccessSession takes the token that is stored by now, if any.
TakeToken(c) ==
    /\ At(c, "refused")
    /\ Goes(c, IF storage.refresh = Absent THEN Calling("failed", Absent, Absent)
               ELSE Calling("sent", storage.refresh, Absent))
    /\ UNCHANGED <<issued, storage, lensOps, late, died>>

\* The home node finds the session.
FindIssued(c) ==
    /\ At(c, "sent")
    /\ ~issued[call[c].token].spent
    /\ Goes(c, Calling("found", call[c].token, Absent))
    /\ UNCHANGED <<issued, storage, lensOps, late, died>>

SpendToken(c) ==
    /\ At(c, "found")
    /\ Home!Spend(call[c].token)
    /\ Goes(c, Calling("spent", call[c].token, Absent))
    /\ UNCHANGED <<storage, lensOps, late, died>>

RenewToken(c) ==
    /\ At(c, "spent")
    /\ \E k \in LensToken :
         /\ Home!Renew(call[c].token, k)
         /\ Goes(c, Calling("renewed", call[c].token, k))
    /\ UNCHANGED <<storage, lensOps, late, died>>

\* Refused, timed out, no answer, or asked of a node that is not the home node.
RefreshFails(c) ==
    /\ call[c].at \in {"sent", "found", "spent", "renewed"}
    /\ Abandon(c)
    /\ Goes(c, Calling("failed", call[c].token, Absent))
    /\ UNCHANGED <<issued, storage, lensOps, died>>

LateSpend(k) ==
    /\ k \in late /\ ~issued[k].spent
    /\ Home!Spend(k)
    /\ UNCHANGED <<storage, call, lensOps, late, died>>

\* The token that nobody gets.
LateRenew(k) ==
    /\ k \in late /\ issued[k].spent
    /\ \E next \in LensToken : Home!Renew(k, next)
    /\ late' = late \ {k}
    /\ UNCHANGED <<storage, call, lensOps, died>>

\* Mutant: the refresh token is kept.
RenewedStorageSame(c) ==
    [Stored(call[c].next, issued[call[c].next].owner) EXCEPT !.refresh = call[c].token]

RenewedStorage(c) == Stored(call[c].next, issued[call[c].next].owner)

\* What the answer says is stored, over whatever is stored by now.
StoreRenewed(c) ==
    /\ At(c, "renewed")
    /\ storage' = RenewedStorage(c)
    /\ Goes(c, NoCall)
    /\ UNCHANGED <<issued, lensOps, late, died>>

\* The tokens are forgotten, also those that another context just stored.
ForgetTokens(c) ==
    /\ At(c, "failed")
    /\ storage' = Forgotten
    /\ Goes(c, NoCall)
    /\ UNCHANGED <<issued, lensOps, late, died>>

\* The popup forgets the tokens, and not the username, when a call ends as refused.
PopupForgets ==
    /\ LensOp
    /\ storage.access # Absent
    /\ storage' = [access |-> Absent, refresh |-> Absent, username |-> storage.username]
    /\ UNCHANGED <<issued, call, late, died>>

LensNext ==
    \/ SignOutLens \/ PopupForgets
    \/ \E c \in Context :
         \/ StoreLogin(c) \/ CloseContext(c) \/ CallRefused(c) \/ TakeToken(c)
         \/ FindIssued(c) \/ SpendToken(c) \/ RenewToken(c)
         \/ RefreshFails(c) \/ StoreRenewed(c) \/ ForgetTokens(c)
         \/ \E u \in Account : SendLogin(c, u)
    \/ \E k \in late : LateSpend(k) \/ LateRenew(k)

LensSpec == LensInit /\ [][LensNext]_lensVars
-----------------------------------------------------------------------------
(* Properties. *)

\* The types of the variables; the access token, the refresh token and the name
\* in the storage are of one account, though sign-ins and refreshes of several
\* accounts overlap.
LensTypeOK ==
    /\ storage \in [access : Account \cup {Absent}, refresh : LensToken \cup {Absent},
                    username : Account \cup {Absent}]
    /\ storage.refresh # Absent =>
         /\ storage.refresh \in DOMAIN issued
         /\ storage.access = issued[storage.refresh].owner
         /\ storage.username = storage.access
    /\ \A c \in Context :
         /\ call[c].at \in {"idle", "login", "refused", "sent", "found", "spent", "renewed", "failed"}
         /\ call[c].token \in DOMAIN issued \cup {Absent}
         /\ call[c].next \in DOMAIN issued \cup {Absent}
    /\ lensOps \in Nat /\ late \subseteq DOMAIN issued /\ died \subseteq DOMAIN issued \cup {Absent}

\* Without a single flight, the storage still never stays on a token that is
\* spent: some context that sent it will store its successor or forget it,
\* unless the page of one was closed before it could.
StoredTokenIsLive ==
    storage.refresh # Absent /\ issued[storage.refresh].spent =>
        \/ storage.refresh \in died
        \/ \E c \in Context : /\ call[c].token = storage.refresh
                              /\ call[c].at \in {"spent", "renewed", "failed"}
=============================================================================
