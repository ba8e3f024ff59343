---------------------------- MODULE RefreshSession ----------------------------
(***************************************************************************)
(* The opaque refresh tokens of a home node and the browser that spends    *)
(* them.  The tabs of one browser share the stored token (localStorage);   *)
(* inside one tab all callers share one request in flight.  On the server  *)
(* a rotation finds the session, revokes it and creates the next one in    *)
(* three statements without a transaction.                                 *)
(***************************************************************************)
EXTENDS Naturals, FiniteSets

CONSTANTS
    Tab,         \* tabs of one browser
    User,        \* accounts of the home node
    Token,       \* refresh tokens; bound: how many can be generated
    NoToken,     \* no token is stored
    NoSession,   \* the token was never issued
    MaxRequests  \* bound: number of refresh requests

ASSUME NoTokenAssumption == NoToken \notin Token
ASSUME BoundAssumption == MaxRequests \in Nat

\* The row RefreshSession of a token; from is the token it was rotated from.
Session == [user : User, revoked : BOOLEAN, expired : BOOLEAN, from : Token \cup {NoToken}]

ASSUME NoSessionAssumption == NoSession \notin Session

VARIABLES
    session,    \* session[k]: the server's row of the token k
    stored,     \* the refresh token in localStorage
    waiting,    \* waiting[t]: the request tab t has in flight, 0 when none
    requests,   \* the requests sent, with how far the server is with each
    sent,       \* number of requests sent
    abandoned   \* history: tokens whose request lost its tab to a navigation

vars == <<session, stored, waiting, requests, sent, abandoned>>

Step == {"received", "found", "revoked", "answered"}
Request == [id : Nat \ {0}, token : Token, step : Step, answer : Token \cup {NoToken}]

Issued(k) == session[k] # NoSession

Init ==
    /\ session = [k \in Token |-> NoSession]
    /\ stored = NoToken
    /\ waiting = [t \in Tab |-> 0]
    /\ requests = {}
    /\ sent = 0
    /\ abandoned = {}

Replace(r, new) == requests' = (requests \ {r}) \cup {new}
Answer(r, k) == [r EXCEPT !.step = "answered", !.answer = k]

\* issueAuthSession with a token no row has: randomBytes never repeats.
CreateRefreshSession(k, u, parent) ==
    /\ ~Issued(k)
    /\ session' = [session EXCEPT ![k] =
           [user |-> u, revoked |-> FALSE, expired |-> FALSE, from |-> parent]]

\* Any tab can show a login form; persistAuth stores the new token for all tabs.
Login(u, k) ==
    /\ CreateRefreshSession(k, u, NoToken)
    /\ stored' = k
    /\ UNCHANGED <<waiting, requests, sent, abandoned>>

\* clearAuth forgets the token in the browser; the server is not told.
SignOut ==
    /\ stored # NoToken
    /\ stored' = NoToken
    /\ UNCHANGED <<session, waiting, requests, sent, abandoned>>

\* authFetch saw a 401: refreshAccessSession sends the stored token, unless this
\* tab has a request in flight that its callers then share.
RefreshAccessSession(t) ==
    /\ waiting[t] = 0
    /\ stored # NoToken
    /\ sent < MaxRequests
    /\ sent' = sent + 1
    /\ waiting' = [waiting EXCEPT ![t] = sent']
    /\ requests' = requests \cup
           {[id |-> sent', token |-> stored, step |-> "received", answer |-> NoToken]}
    /\ UNCHANGED <<session, stored, abandoned>>

Revoked(k) == [session EXCEPT ![k].revoked = TRUE]

\* rotateRefreshSession reads the row; an expired one is revoked and refused.
FindSession(r) ==
    /\ r.step = "received"
    /\ IF session[r.token].revoked
       THEN Replace(r, Answer(r, NoToken)) /\ UNCHANGED session
       ELSE IF session[r.token].expired
       THEN Replace(r, Answer(r, NoToken)) /\ session' = Revoked(r.token)
       ELSE Replace(r, [r EXCEPT !.step = "found"]) /\ UNCHANGED session
    /\ UNCHANGED <<stored, waiting, sent, abandoned>>

\* Mutant: the new session is created and the old one is left alone.
RevokeSessionForgets(r) ==
    /\ r.step = "found"
    /\ Replace(r, [r EXCEPT !.step = "revoked"])
    /\ UNCHANGED <<session, stored, waiting, sent, abandoned>>

RevokeSession(r) ==
    /\ r.step = "found"
    /\ session' = Revoked(r.token)
    /\ Replace(r, [r EXCEPT !.step = "revoked"])
    /\ UNCHANGED <<stored, waiting, sent, abandoned>>

IssueSession(r, k) ==
    /\ r.step = "revoked"
    /\ CreateRefreshSession(k, session[r.token].user, r.token)
    /\ Replace(r, Answer(r, k))
    /\ UNCHANGED <<stored, waiting, sent, abandoned>>

\* The handler throws or its process stops, wherever it was.
RotationFails(r) ==
    /\ r.step # "answered"
    /\ Replace(r, Answer(r, NoToken))
    /\ UNCHANGED <<session, stored, waiting, sent, abandoned>>

\* Mutant: a refused refresh leaves the stored token in place.
AfterAnswerKeeps(r) == IF r.answer = NoToken THEN stored ELSE r.answer

\* A new token is persisted; on any failure authFetch clears what is stored now.
AfterAnswer(r) == r.answer

ReceiveAnswer(t, r) ==
    /\ r.step = "answered"
    /\ r.id = waiting[t]
    /\ stored' = AfterAnswer(r)
    /\ waiting' = [waiting EXCEPT ![t] = 0]
    /\ UNCHANGED <<session, requests, sent, abandoned>>

\* The request times out or its answer is lost; the server may still handle it.
GiveUp(t) ==
    /\ waiting[t] # 0
    /\ waiting' = [waiting EXCEPT ![t] = 0]
    /\ stored' = NoToken
    /\ UNCHANGED <<session, requests, sent, abandoned>>

\* The tab is closed or navigates away: its answer will reach nobody.
Navigate(t) ==
    /\ waiting[t] # 0
    /\ waiting' = [waiting EXCEPT ![t] = 0]
    /\ abandoned' = abandoned \cup {r.token : r \in {q \in requests : q.id = waiting[t]}}
    /\ UNCHANGED <<session, stored, requests, sent>>

\* Thirty days pass.
Expire(k) ==
    /\ Issued(k)
    /\ ~session[k].expired
    /\ session' = [session EXCEPT ![k].expired = TRUE]
    /\ UNCHANGED <<stored, waiting, requests, sent, abandoned>>

Next ==
    \/ \E u \in User, k \in Token : Login(u, k)
    \/ SignOut
    \/ \E t \in Tab : RefreshAccessSession(t)
    \/ \E r \in requests : FindSession(r)
    \/ \E r \in requests : RevokeSession(r)
    \/ \E r \in requests, k \in Token : IssueSession(r, k)
    \/ \E r \in requests : RotationFails(r)
    \/ \E t \in Tab, r \in requests : ReceiveAnswer(t, r)
    \/ \E t \in Tab : GiveUp(t)
    \/ \E t \in Tab : Navigate(t)
    \/ \E k \in Token : Expire(k)

Spec == Init /\ [][Next]_vars
-----------------------------------------------------------------------------
\* The types of the variables.
TypeOK ==
    /\ session \in [Token -> Session \cup {NoSession}]
    /\ stored \in Token \cup {NoToken}
    /\ waiting \in [Tab -> Nat]
    /\ requests \in SUBSET Request
    /\ sent \in Nat
    /\ abandoned \in SUBSET Token

\* refreshSession.ts revokes the old session before it mints the next: however
\* rotations, failures and expiry interleave, a token that has a successor is
\* dead on the server.
RotatedIsRevoked ==
    \A k \in Token :
        (Issued(k) /\ session[k].from # NoToken) => session[session[k].from].revoked

\* With no refresh in flight the browser never holds a token it already spent,
\* unless a navigation dropped the answer: its next 401 does not end in a logout
\* for a reason of its own making.  Tabs that share the token keep this.
StoredIsUnspent ==
    (stored # NoToken /\ (\A t \in Tab : waiting[t] = 0) /\ stored \notin abandoned)
        => ~session[stored].revoked

Awaited(r) == \E t \in Tab : waiting[t] = r.id

\* What the two statements above rest on.  A request only names tokens the
\* server issued and is at most one tab's; the answer a tab still waits for is
\* known to nobody else; and whoever spends the stored token is waited for.
RequestsSound ==
    \A r \in requests :
        /\ r.id <= sent
        /\ Issued(r.token)
        /\ r.answer # NoToken => Issued(r.answer) /\ r.step = "answered"
        /\ r.step = "revoked" => session[r.token].revoked
        /\ \A q \in requests : q.id = r.id => q = r
TabsSound ==
    \A t \in Tab :
        /\ waiting[t] <= sent
        /\ waiting[t] # 0 => \A u \in Tab : waiting[u] = waiting[t] => u = t
AnswersFresh ==
    \A r \in requests :
        (r.answer # NoToken /\ Awaited(r)) =>
            /\ ~session[r.answer].revoked
            /\ r.answer # stored
            /\ \A q \in requests : q.token # r.answer /\ (q.answer = r.answer => q = r)
SpendersAwaited ==
    stored # NoToken =>
        /\ Issued(stored)
        /\ \A r \in requests : r.token = stored => (Awaited(r) \/ stored \in abandoned)
        /\ session[stored].revoked => (\E r \in requests : r.token = stored) \/ stored \in abandoned
ParentsIssued == \A k \in Token : (Issued(k) /\ session[k].from # NoToken) => Issued(session[k].from)

IInv ==
    /\ TypeOK
    /\ RotatedIsRevoked
    /\ ParentsIssued
    /\ RequestsSound
    /\ TabsSound
    /\ AnswersFresh
    /\ SpendersAwaited

-----------------------------------------------------------------------------
\* The sessions without the requests, the statements and the browser.
Family == INSTANCE SessionFamily WITH
    NoParent <- NoToken,
    family <- [k \in {k \in Token : Issued(k)} |->
                 [owner |-> session[k].user, parent |-> session[k].from,
                  spent |-> session[k].revoked]]

\* However requests, failures, tabs and expiry interleave, the table of sessions
\* behaves as a family of tokens: each is issued once, a spent one stays spent,
\* and only a spent one gets a successor, of the same account.
ImplementsFamily == Family!FamilySpec

\* authStorage.ts: the opaque refresh token is single-use.
SingleUse ==
    \A j, k \in Token :
        (Issued(j) /\ Issued(k) /\ session[j].from = session[k].from /\ session[j].from # NoToken)
            => j = k
=============================================================================
