--------------------------- MODULE Sessions_proofs ---------------------------
(***************************************************************************)
(* Theorems about the sessions of the two clients, for any number of tabs  *)
(* or pages, accounts, tokens and requests: RefreshSession (Access and the *)
(* home node), its implementation of SessionFamily, and LensSession (pages *)
(* that refresh the same session without a lock).                          *)
(***************************************************************************)
EXTENDS RefreshSession, LensSession, TLAPS

-----------------------------------------------------------------------------
(* RefreshSession. *)

\* Nothing is issued, stored or requested at first.
LEMMA InitIInv == Init => IInv
  BY NoSessionAssumption DEF Init, IInv, TypeOK, RotatedIsRevoked, ParentsIssued,
     RequestsSound, TabsSound, AnswersFresh, SpendersAwaited, Issued

\* What a step may do to the rows: none disappears, changes its parent or comes
\* back to life; at most the row of the token k is revoked.
RowsKept(k) ==
    \A x \in Token :
        /\ Issued(x)' <=> Issued(x)
        /\ Issued(x) => /\ session'[x].from = session[x].from
                        /\ session[x].revoked => session'[x].revoked
                        /\ x # k => (session'[x].revoked => session[x].revoked)

\* Revoking the row of an issued token is such a step.
LEMMA RevokeKeepsRows ==
    ASSUME session \in [Token -> Session \cup {NoSession}],
           NEW k \in Token, Issued(k), session' = Revoked(k)
    PROVE  /\ session' \in [Token -> Session \cup {NoSession}]
           /\ session'[k].revoked
           /\ RowsKept(k)
  <1>1. PICK row \in Session : row = session[k]
    BY DEF Issued
  <1>2. PICK new : new = [row EXCEPT !.revoked = TRUE]
    OBVIOUS
  <1>3. new \in Session /\ new.revoked /\ new.from = row.from
    BY <1>2 DEF Session
  <1>4. session' = [session EXCEPT ![k] = new]
    BY <1>1, <1>2 DEF Revoked
  <1>5. session' \in [Token -> Session \cup {NoSession}] /\ session'[k] = new
    BY <1>3, <1>4
  <1>6. \A x \in Token : x # k => session'[x] = session[x]
    BY <1>4
  <1> QED
    BY <1>1, <1>3, <1>5, <1>6, NoSessionAssumption DEF RowsKept, Issued

\* The server advances one request, and revokes at most that request's token,
\* without answering it with a token.
LEMMA ProgressIInv ==
    ASSUME IInv, NEW r \in requests, NEW new \in Request,
           new.id = r.id, new.token = r.token, new.answer = NoToken,
           new.step = "revoked" => session'[r.token].revoked,
           Replace(r, new),
           session' \in [Token -> Session \cup {NoSession}], RowsKept(r.token),
           UNCHANGED <<stored, waiting, sent, abandoned>>
    PROVE  IInv'
  <1>1. requests' = (requests \ {r}) \cup {new}
    BY DEF Replace
  <1>2. \A q \in requests : q \in Request
    BY DEF IInv, TypeOK
  <1>3. r.token \in Token /\ Issued(r.token)
    BY <1>2 DEF IInv, RequestsSound, Request
  <1>4. TypeOK'
    BY <1>1 DEF IInv, TypeOK
  <1>5. ParentsIssued' /\ RotatedIsRevoked'
    <2> SUFFICES ASSUME NEW k \in Token, Issued(k)', session'[k].from # NoToken
                 PROVE  Issued(session[k].from)' /\ session'[session'[k].from].revoked
      BY DEF ParentsIssued, RotatedIsRevoked
    <2>1. Issued(k) /\ session'[k].from = session[k].from
      BY DEF RowsKept
    <2>2. session[k].from \in Token
      BY <2>1 DEF IInv, TypeOK, Session, Issued
    <2>3. Issued(session[k].from) /\ session[session[k].from].revoked
      BY <2>1 DEF IInv, ParentsIssued, RotatedIsRevoked
    <2> QED
      BY <2>1, <2>2, <2>3 DEF RowsKept
  <1>6. RequestsSound'
    <2> SUFFICES ASSUME NEW q \in requests'
                 PROVE  /\ q.id <= sent
                        /\ Issued(q.token)'
                        /\ q.answer # NoToken => Issued(q.answer)' /\ q.step = "answered"
                        /\ q.step = "revoked" => session'[q.token].revoked
                        /\ \A p \in requests' : p.id = q.id => p = q
      BY DEF RequestsSound
    <2>1. CASE q = new
      BY <1>1, <1>3, <2>1 DEF IInv, RequestsSound, RowsKept
    <2>2. CASE q \in requests /\ q # r
      <3>1. /\ q.token \in Token /\ q.answer \in Token \cup {NoToken}
            /\ Issued(q.token) /\ q.id <= sent
            /\ q.answer # NoToken => Issued(q.answer) /\ q.step = "answered"
            /\ q.step = "revoked" => session[q.token].revoked
        BY <1>2, <2>2 DEF IInv, RequestsSound, Request
      <3>2. \A p \in requests' : p.id = q.id => p = q
        BY <1>1, <2>2 DEF IInv, RequestsSound
      <3> QED
        BY <3>1, <3>2 DEF RowsKept
    <2> QED
      BY <1>1, <2>1, <2>2
  <1>7. TabsSound'
    BY DEF IInv, TabsSound
  <1>8. AnswersFresh'
    <2> SUFFICES ASSUME NEW q \in requests', q.answer # NoToken, Awaited(q)'
                 PROVE  /\ ~session'[q.answer].revoked
                        /\ q.answer # stored
                        /\ \A p \in requests' :
                              p.token # q.answer /\ (p.answer = q.answer => p = q)
      BY DEF AnswersFresh
    <2>1. q \in requests /\ Awaited(q)
      BY <1>1 DEF Awaited
    <2>2. /\ ~session[q.answer].revoked /\ q.answer # stored
          /\ \A p \in requests : p.token # q.answer /\ (p.answer = q.answer => p = q)
      BY <2>1 DEF IInv, AnswersFresh
    <2>3. q.answer \in Token /\ Issued(q.answer)
      BY <1>2, <2>1 DEF IInv, RequestsSound, Request
    <2>4. q.answer # r.token
      BY <2>2
    <2>5. ~session'[q.answer].revoked
      BY <2>2, <2>3, <2>4 DEF RowsKept
    <2> QED
      BY <1>1, <2>2, <2>5
  <1>9. SpendersAwaited'
    <2> SUFFICES ASSUME stored # NoToken
                 PROVE  /\ Issued(stored)'
                        /\ \A q \in requests' :
                              q.token = stored => (Awaited(q)' \/ stored \in abandoned)
                        /\ session'[stored].revoked =>
                              (\E q \in requests' : q.token = stored) \/ stored \in abandoned
      BY DEF SpendersAwaited
    <2>1. stored \in Token /\ Issued(stored)
      BY DEF IInv, TypeOK, SpendersAwaited
    <2>2. \A q \in requests' : q.token = stored => (Awaited(q)' \/ stored \in abandoned)
      BY <1>1 DEF IInv, SpendersAwaited, Awaited
    <2>3. ASSUME session'[stored].revoked, stored \notin abandoned
          PROVE  \E q \in requests' : q.token = stored
      <3>1. CASE stored = r.token
        BY <1>1, <3>1
      <3>2. CASE stored # r.token
        <4>1. session[stored].revoked
          BY <2>1, <2>3, <3>2 DEF RowsKept
        <4> QED
          BY <1>1, <2>3, <3>2, <4>1 DEF IInv, SpendersAwaited
      <3> QED
        BY <3>1, <3>2
    <2> QED
      BY <2>1, <2>2, <2>3 DEF RowsKept
  <1> QED
    BY <1>4, <1>5, <1>6, <1>7, <1>8, <1>9 DEF IInv

\* A new session leaves the others alone and is not revoked.
LEMMA CreateKeepsRows ==
    ASSUME session \in [Token -> Session \cup {NoSession}],
           NEW k \in Token, NEW u \in User, NEW parent \in Token \cup {NoToken},
           CreateRefreshSession(k, u, parent)
    PROVE  /\ ~Issued(k) /\ Issued(k)'
           /\ session' \in [Token -> Session \cup {NoSession}]
           /\ \A x \in Token : x # k => session'[x] = session[x]
           /\ session'[k].from = parent /\ ~session'[k].revoked
  <1>1. PICK new : new = [user |-> u, revoked |-> FALSE, expired |-> FALSE, from |-> parent]
    OBVIOUS
  <1>2. new \in Session /\ new.from = parent /\ ~new.revoked
    BY <1>1 DEF Session
  <1>3. session' = [session EXCEPT ![k] = new]
    BY <1>1 DEF CreateRefreshSession
  <1>4. session'[k] = new /\ \A x \in Token : x # k => session'[x] = session[x]
    BY <1>3
  <1>5. session' \in [Token -> Session \cup {NoSession}]
    BY <1>2, <1>3
  <1> QED
    BY <1>2, <1>4, <1>5, NoSessionAssumption DEF CreateRefreshSession, Issued

\* The rows after a new session whose parent, if any, is revoked.
LEMMA CreateParents ==
    ASSUME IInv, NEW k \in Token, NEW u \in User, NEW parent \in Token \cup {NoToken},
           CreateRefreshSession(k, u, parent),
           parent # NoToken => Issued(parent) /\ session[parent].revoked
    PROVE  ParentsIssued' /\ RotatedIsRevoked'
  <1>1. /\ ~Issued(k) /\ Issued(k)'
        /\ \A x \in Token : x # k => session'[x] = session[x]
        /\ session'[k].from = parent
    BY CreateKeepsRows DEF IInv, TypeOK
  <1>2. \A x \in Token : Issued(x) => Issued(x)' /\ session'[x] = session[x]
    BY <1>1 DEF Issued
  <1> SUFFICES ASSUME NEW x \in Token, Issued(x)', session'[x].from # NoToken
               PROVE  Issued(session[x].from)' /\ session'[session'[x].from].revoked
    BY DEF ParentsIssued, RotatedIsRevoked
  <1>3. CASE x = k
    BY <1>1, <1>2, <1>3
  <1>4. CASE x # k
    <2>1. Issued(x) /\ session'[x] = session[x]
      BY <1>1, <1>4 DEF Issued
    <2>2. session[x].from \in Token
      BY <2>1 DEF IInv, TypeOK, Session, Issued
    <2>3. Issued(session[x].from) /\ session[session[x].from].revoked
      BY <2>1 DEF IInv, ParentsIssued, RotatedIsRevoked
    <2> QED
      BY <1>2, <2>1, <2>2, <2>3
  <1> QED
    BY <1>3, <1>4

\* A login stores a token nobody else knows.
LEMMA LoginIInv ==
    ASSUME IInv, NEW u \in User, NEW k \in Token, Login(u, k)
    PROVE  IInv'
  <1>1. /\ ~Issued(k) /\ Issued(k)' /\ ~session'[k].revoked
        /\ session' \in [Token -> Session \cup {NoSession}]
        /\ \A x \in Token : x # k => session'[x] = session[x]
    BY CreateKeepsRows DEF Login, IInv, TypeOK
  <1>2. \A x \in Token : Issued(x) => Issued(x)' /\ session'[x] = session[x]
    BY <1>1 DEF Issued
  <1>3. ParentsIssued' /\ RotatedIsRevoked'
    BY CreateParents DEF Login
  <1>4. \A r \in requests : r \in Request /\ r.token \in Token /\ r.answer \in Token \cup {NoToken}
    BY DEF IInv, TypeOK, Request
  <1>5. TypeOK'
    BY <1>1 DEF Login, IInv, TypeOK
  <1>6. RequestsSound' /\ TabsSound'
    BY <1>2, <1>4 DEF Login, IInv, RequestsSound, TabsSound
  <1>7. \A r \in requests : r.token # k /\ (r.answer # NoToken => r.answer # k)
    BY <1>1 DEF IInv, RequestsSound
  <1>8. AnswersFresh'
    BY <1>2, <1>4, <1>7 DEF Login, IInv, AnswersFresh, RequestsSound, Awaited
  <1>9. SpendersAwaited'
    BY <1>1, <1>7 DEF Login, SpendersAwaited
  <1> QED
    BY <1>3, <1>5, <1>6, <1>8, <1>9 DEF IInv

\* Forgetting the stored token disturbs nothing.
LEMMA ForgetIInv ==
    ASSUME IInv, stored' = NoToken, waiting' \in [Tab -> Nat],
           \A t \in Tab : waiting'[t] = waiting[t] \/ waiting'[t] = 0,
           UNCHANGED <<session, requests, sent, abandoned>>
    PROVE  IInv'
  <1>1. \A r \in requests : r \in Request /\ r.id # 0
    BY DEF IInv, TypeOK, Request
  <1>2. \A r \in requests : Awaited(r)' => Awaited(r)
    BY <1>1 DEF Awaited
  <1>3. TypeOK'
    BY DEF IInv, TypeOK
  <1>4. ParentsIssued' /\ RotatedIsRevoked' /\ RequestsSound'
    BY DEF IInv, ParentsIssued, RotatedIsRevoked, RequestsSound, Issued
  <1>5. TabsSound'
    BY DEF IInv, TabsSound, TypeOK
  <1>6. AnswersFresh'
    BY <1>2 DEF IInv, AnswersFresh
  <1>7. SpendersAwaited'
    BY DEF SpendersAwaited
  <1> QED
    BY <1>3, <1>4, <1>5, <1>6, <1>7 DEF IInv

\* A new request carries the stored token and is its tab's only one.
LEMMA RefreshIInv ==
    ASSUME IInv, NEW t \in Tab, RefreshAccessSession(t)
    PROVE  IInv'
  <1>0. PICK new :
          new = [id |-> sent + 1, token |-> stored, step |-> "received", answer |-> NoToken]
    OBVIOUS
  <1>1. /\ sent \in Nat /\ sent' = sent + 1 /\ waiting[t] = 0
        /\ waiting' = [waiting EXCEPT ![t] = sent + 1] /\ waiting \in [Tab -> Nat]
        /\ requests' = requests \cup {new}
        /\ stored \in Token /\ Issued(stored)
        /\ new.id = sent + 1 /\ new.token = stored
        /\ new.step = "received" /\ new.answer = NoToken
    BY <1>0 DEF RefreshAccessSession, IInv, TypeOK, SpendersAwaited
  <1>2. \A r \in requests :
          /\ r.id \in Nat \ {0} /\ r.id <= sent /\ r.token \in Token
          /\ r.answer \in Token \cup {NoToken}
    BY DEF IInv, TypeOK, Request, RequestsSound
  <1>3. new \in Request
    BY <1>0, <1>1 DEF Request, Step
  <1>4. \A r \in requests : Awaited(r)' <=> Awaited(r)
    <2> SUFFICES ASSUME NEW r \in requests PROVE Awaited(r)' <=> Awaited(r)
      OBVIOUS
    <2>1. \A u \in Tab : waiting'[u] = r.id <=> waiting[u] = r.id
      BY <1>1, <1>2
    <2> QED
      BY <2>1 DEF Awaited
  <1>5. waiting'[t] = sent + 1 /\ waiting' \in [Tab -> Nat]
    BY <1>1
  <1>6. TypeOK'
    BY <1>1, <1>3, <1>5 DEF RefreshAccessSession, IInv, TypeOK
  <1>7. ParentsIssued' /\ RotatedIsRevoked'
    BY DEF RefreshAccessSession, IInv, ParentsIssued, RotatedIsRevoked, Issued
  <1>8. RequestsSound'
    <2> SUFFICES ASSUME NEW r \in requests'
                 PROVE  /\ r.id <= sent'
                        /\ Issued(r.token)'
                        /\ r.answer # NoToken => Issued(r.answer)' /\ r.step = "answered"
                        /\ r.step = "revoked" => session'[r.token].revoked
                        /\ \A q \in requests' : q.id = r.id => q = r
      BY DEF RequestsSound
    <2>1. CASE r \in requests
      BY <1>1, <1>2, <2>1 DEF RefreshAccessSession, IInv, RequestsSound, Issued
    <2>2. CASE r = new
      BY <1>1, <1>2, <2>2 DEF RefreshAccessSession, Issued
    <2> QED
      BY <1>1, <2>1, <2>2
  <1>9. TabsSound'
    <2> SUFFICES ASSUME NEW x \in Tab
                 PROVE  /\ waiting'[x] <= sent'
                        /\ waiting'[x] # 0 => \A u \in Tab : waiting'[u] = waiting'[x] => u = x
      BY DEF TabsSound
    <2>1. \A u \in Tab : waiting[u] <= sent /\ (u # t => waiting'[u] = waiting[u])
      BY <1>1 DEF IInv, TabsSound
    <2> QED
      BY <1>1, <1>5, <2>1 DEF IInv, TabsSound
  <1>10. AnswersFresh'
    <2>1. UNCHANGED <<session, stored>>
      BY DEF RefreshAccessSession
    <2> QED
      BY <1>1, <1>4, <2>1 DEF IInv, AnswersFresh
  <1>11. SpendersAwaited'
    <2>1. Awaited(new)'
      BY <1>1, <1>5 DEF Awaited
    <2>2. \A r \in requests' : r.token = stored => (Awaited(r)' \/ stored \in abandoned)
      BY <1>1, <1>4, <2>1, NoTokenAssumption DEF IInv, SpendersAwaited
    <2>3. \E r \in requests' : r.token = stored
      BY <1>1
    <2> QED
      BY <1>1, <2>2, <2>3 DEF RefreshAccessSession, SpendersAwaited, Issued
  <1> QED
    BY <1>6, <1>7, <1>8, <1>9, <1>10, <1>11 DEF IInv

\* Advancing a request changes nothing else of it.
LEMMA StepFacts ==
    ASSUME NEW r \in Request, NEW s \in Step
    PROVE  /\ [r EXCEPT !.step = s] \in Request
           /\ [r EXCEPT !.step = s].id = r.id
           /\ [r EXCEPT !.step = s].token = r.token
           /\ [r EXCEPT !.step = s].answer = r.answer
           /\ [r EXCEPT !.step = s].step = s
  BY DEF Request

\* Nor does answering it.
LEMMA AnswerFacts ==
    ASSUME NEW r \in Request, NEW k \in Token \cup {NoToken}
    PROVE  /\ Answer(r, k) \in Request
           /\ Answer(r, k).id = r.id
           /\ Answer(r, k).token = r.token
           /\ Answer(r, k).answer = k
           /\ Answer(r, k).step = "answered"
  BY DEF Request, Answer, Step

\* rotateRefreshSession's read: refuse, or go on.
LEMMA FindIInv ==
    ASSUME IInv, NEW r \in requests, FindSession(r)
    PROVE  IInv'
  <1>1. /\ r \in Request /\ r.token \in Token /\ Issued(r.token) /\ r.answer = NoToken
        /\ session \in [Token -> Session \cup {NoSession}]
    BY DEF FindSession, IInv, TypeOK, Request, RequestsSound
  <1>2. PICK no \in Request : /\ no = Answer(r, NoToken)
                              /\ no.id = r.id /\ no.token = r.token
                              /\ no.answer = NoToken /\ no.step = "answered"
    BY <1>1, AnswerFacts
  <1>3. PICK yes \in Request : /\ yes = [r EXCEPT !.step = "found"]
                               /\ yes.id = r.id /\ yes.token = r.token
                               /\ yes.answer = NoToken /\ yes.step = "found"
    <2>1. "found" \in Step
      BY DEF Step
    <2> DEFINE go == [r EXCEPT !.step = "found"]
    <2>2. go \in Request /\ go.id = r.id /\ go.token = r.token
          /\ go.answer = r.answer /\ go.step = "found"
      BY <1>1, <2>1, StepFacts
    <2> QED
      BY <1>1, <2>2
  <1>4. UNCHANGED <<stored, waiting, sent, abandoned>>
    BY DEF FindSession
  <1>5. CASE Replace(r, no) /\ session' = Revoked(r.token)
    BY <1>1, <1>2, <1>4, <1>5, RevokeKeepsRows, ProgressIInv DEF IInv
  <1>6. CASE Replace(r, no) /\ UNCHANGED session
    BY <1>1, <1>2, <1>4, <1>6, ProgressIInv DEF RowsKept, Issued
  <1>7. CASE Replace(r, yes) /\ UNCHANGED session
    BY <1>1, <1>3, <1>4, <1>7, ProgressIInv DEF RowsKept, Issued
  <1> QED
    BY <1>2, <1>3, <1>5, <1>6, <1>7 DEF FindSession

\* The old session is revoked.
LEMMA RevokeIInv ==
    ASSUME IInv, NEW r \in requests, RevokeSession(r)
    PROVE  IInv'
  <1>1. /\ r \in Request /\ r.token \in Token /\ Issued(r.token) /\ r.answer = NoToken
        /\ session \in [Token -> Session \cup {NoSession}]
    BY DEF RevokeSession, IInv, TypeOK, Request, RequestsSound
  <1>2. PICK new \in Request : /\ new = [r EXCEPT !.step = "revoked"]
                               /\ new.id = r.id /\ new.token = r.token
                               /\ new.answer = NoToken
    BY <1>1, StepFacts DEF Step
  <1> QED
    BY <1>1, <1>2, RevokeKeepsRows, ProgressIInv DEF RevokeSession

\* The handler fails wherever it was.
LEMMA FailIInv ==
    ASSUME IInv, NEW r \in requests, RotationFails(r)
    PROVE  IInv'
  <1>1. /\ r \in Request /\ r.token \in Token /\ Issued(r.token)
        /\ session \in [Token -> Session \cup {NoSession}]
    BY DEF IInv, TypeOK, Request, RequestsSound
  <1>2. PICK new \in Request : /\ new = Answer(r, NoToken)
                               /\ new.id = r.id /\ new.token = r.token
                               /\ new.answer = NoToken /\ new.step = "answered"
    BY <1>1, AnswerFacts
  <1> QED
    BY <1>1, <1>2, ProgressIInv DEF RotationFails, RowsKept, Issued

\* The next session is created: its token is in nobody's hands but this answer's.
LEMMA IssueIInv ==
    ASSUME IInv, NEW r \in requests, NEW k \in Token, IssueSession(r, k)
    PROVE  IInv'
  <1>1. /\ r \in Request /\ r.token \in Token /\ Issued(r.token)
        /\ session[r.token].revoked
        /\ session[r.token] \in Session
    BY DEF IssueSession, IInv, TypeOK, Request, RequestsSound, Issued
  <1>2. session[r.token].user \in User
    BY <1>1 DEF Session
  <1>3. /\ ~Issued(k) /\ Issued(k)' /\ ~session'[k].revoked
        /\ session' \in [Token -> Session \cup {NoSession}]
        /\ \A x \in Token : x # k => session'[x] = session[x]
    BY <1>1, <1>2, CreateKeepsRows DEF IssueSession, IInv, TypeOK
  <1>4. ParentsIssued' /\ RotatedIsRevoked'
    BY <1>1, <1>2, CreateParents DEF IssueSession
  <1>5. \A x \in Token : Issued(x) => Issued(x)' /\ session'[x] = session[x]
    BY <1>3 DEF Issued
  <1>6. PICK new : /\ new = Answer(r, k) /\ new \in Request
                   /\ new.id = r.id /\ new.token = r.token
                   /\ new.answer = k /\ new.step = "answered"
    BY <1>1, AnswerFacts
  <1>7. /\ requests' = (requests \ {r}) \cup {new}
        /\ UNCHANGED <<stored, waiting, sent, abandoned>>
    BY <1>6 DEF IssueSession, Replace
  <1>8. \A q \in requests :
          /\ q \in Request /\ q.token \in Token /\ q.answer \in Token \cup {NoToken}
          /\ Issued(q.token) /\ q.token # k
          /\ q.answer # NoToken => Issued(q.answer) /\ q.answer # k
    BY <1>3 DEF IInv, TypeOK, Request, RequestsSound
  <1>9. TypeOK'
    BY <1>3, <1>6, <1>7 DEF IInv, TypeOK
  <1>10. RequestsSound'
    <2> SUFFICES ASSUME NEW q \in requests'
                 PROVE  /\ q.id <= sent
                        /\ Issued(q.token)'
                        /\ q.answer # NoToken => Issued(q.answer)' /\ q.step = "answered"
                        /\ q.step = "revoked" => session'[q.token].revoked
                        /\ \A p \in requests' : p.id = q.id => p = q
      BY <1>7 DEF RequestsSound
    <2>1. CASE q = new
      BY <1>1, <1>3, <1>5, <1>6, <1>7, <2>1 DEF IInv, RequestsSound
    <2>2. CASE q \in requests /\ q # r
      BY <1>5, <1>6, <1>7, <1>8, <2>2 DEF IInv, RequestsSound
    <2> QED
      BY <1>7, <2>1, <2>2
  <1>11. TabsSound'
    BY <1>7 DEF IInv, TabsSound
  <1>12. stored # NoToken => stored \in Token /\ Issued(stored) /\ stored # k
    BY <1>3 DEF IInv, TypeOK, SpendersAwaited
  <1>13. AnswersFresh'
    <2> SUFFICES ASSUME NEW q \in requests', q.answer # NoToken, Awaited(q)'
                 PROVE  /\ ~session'[q.answer].revoked
                        /\ q.answer # stored
                        /\ \A p \in requests' :
                              p.token # q.answer /\ (p.answer = q.answer => p = q)
      BY <1>7 DEF AnswersFresh
    <2>1. CASE q = new
      BY <1>1, <1>3, <1>6, <1>7, <1>8, <1>12, <2>1, NoTokenAssumption
    <2>2. CASE q \in requests /\ q # r
      <3>1. Awaited(q)
        BY <1>7 DEF Awaited
      <3>2. /\ ~session[q.answer].revoked /\ q.answer # stored
            /\ \A p \in requests : p.token # q.answer /\ (p.answer = q.answer => p = q)
        BY <2>2, <3>1 DEF IInv, AnswersFresh
      <3> QED
        BY <1>5, <1>6, <1>7, <1>8, <2>2, <3>2
    <2> QED
      BY <1>7, <2>1, <2>2
  <1>14. SpendersAwaited'
    <2> SUFFICES ASSUME stored # NoToken
                 PROVE  /\ Issued(stored)'
                        /\ \A q \in requests' :
                              q.token = stored => (Awaited(q)' \/ stored \in abandoned)
                        /\ session'[stored].revoked =>
                              (\E q \in requests' : q.token = stored) \/ stored \in abandoned
      BY <1>7 DEF SpendersAwaited
    <2>1. \A q \in requests' : q.token = stored => (Awaited(q)' \/ stored \in abandoned)
      BY <1>6, <1>7 DEF IInv, SpendersAwaited, Awaited
    <2>2. session[stored].revoked =>
              (\E q \in requests : q.token = stored) \/ stored \in abandoned
      BY DEF IInv, SpendersAwaited
    <2> QED
      BY <1>5, <1>6, <1>7, <1>12, <2>1, <2>2
  <1> QED
    BY <1>4, <1>9, <1>10, <1>11, <1>13, <1>14 DEF IInv

\* A tab stores the answer it waited for: a token that is unspent, that no
\* request carries and that no other tab is going to receive.
LEMMA ReceiveIInv ==
    ASSUME IInv, NEW t \in Tab, NEW r \in requests, ReceiveAnswer(t, r)
    PROVE  IInv'
  <1>1. /\ waiting[t] = r.id /\ waiting \in [Tab -> Nat]
        /\ waiting' = [waiting EXCEPT ![t] = 0]
        /\ stored' = r.answer
        /\ UNCHANGED <<session, requests, sent, abandoned>>
    BY DEF ReceiveAnswer, AfterAnswer, IInv, TypeOK
  <1>2. \A q \in requests : /\ q.id \in Nat \ {0} /\ q.token \in Token
                            /\ q.answer \in Token \cup {NoToken}
    BY DEF IInv, TypeOK, Request
  <1>3. \A u \in Tab : waiting'[u] = IF u = t THEN 0 ELSE waiting[u]
    BY <1>1
  <1>4. Awaited(r)
    BY <1>1 DEF Awaited
  <1>5. \A q \in requests : Awaited(q)' => Awaited(q) /\ q # r
    <2> SUFFICES ASSUME NEW q \in requests, NEW u \in Tab, waiting'[u] = q.id
                 PROVE  Awaited(q) /\ q # r
      BY DEF Awaited
    <2>1. u # t /\ waiting[u] = q.id
      BY <1>2, <1>3
    <2>2. q.id # r.id
      BY <1>1, <1>2, <2>1 DEF IInv, TabsSound
    <2> QED
      BY <2>1, <2>2 DEF Awaited
  <1>6. TypeOK'
    BY <1>1, <1>2 DEF IInv, TypeOK
  <1>7. ParentsIssued' /\ RotatedIsRevoked' /\ RequestsSound'
    BY <1>1 DEF IInv, ParentsIssued, RotatedIsRevoked, RequestsSound, Issued
  <1>8. TabsSound'
    BY <1>1, <1>3 DEF IInv, TabsSound, TypeOK
  <1>9. AnswersFresh'
    <2> SUFFICES ASSUME NEW q \in requests, q.answer # NoToken, Awaited(q)'
                 PROVE  /\ ~session[q.answer].revoked
                        /\ q.answer # r.answer
                        /\ \A p \in requests :
                              p.token # q.answer /\ (p.answer = q.answer => p = q)
      BY <1>1 DEF AnswersFresh
    <2>1. Awaited(q) /\ q # r
      BY <1>5
    <2> QED
      BY <2>1 DEF IInv, AnswersFresh
  <1>10. SpendersAwaited'
    <2> SUFFICES ASSUME r.answer # NoToken
                 PROVE  /\ Issued(r.answer)
                        /\ \A q \in requests : q.token # r.answer
                        /\ ~session[r.answer].revoked
      BY <1>1 DEF SpendersAwaited, Issued
    <2> QED
      BY <1>4 DEF IInv, AnswersFresh, RequestsSound
  <1> QED
    BY <1>6, <1>7, <1>8, <1>9, <1>10 DEF IInv

\* A navigation drops a request, whose token counts as abandoned from then on.
LEMMA NavigateIInv ==
    ASSUME IInv, NEW t \in Tab, Navigate(t)
    PROVE  IInv'
  <1>1. /\ waiting \in [Tab -> Nat] /\ waiting[t] # 0
        /\ waiting' = [waiting EXCEPT ![t] = 0]
        /\ abandoned' = abandoned \cup {r.token : r \in {q \in requests : q.id = waiting[t]}}
        /\ UNCHANGED <<session, stored, requests, sent>>
    BY DEF Navigate, IInv, TypeOK
  <1>2. \A q \in requests : q.id \in Nat \ {0} /\ q.token \in Token
    BY DEF IInv, TypeOK, Request
  <1>3. \A u \in Tab : waiting'[u] = IF u = t THEN 0 ELSE waiting[u]
    BY <1>1
  <1>4. \A q \in requests : Awaited(q)' => Awaited(q)
    BY <1>2, <1>3 DEF Awaited
  <1>5. \A q \in requests : Awaited(q) => Awaited(q)' \/ q.token \in abandoned'
    <2> SUFFICES ASSUME NEW q \in requests, NEW u \in Tab, waiting[u] = q.id
                 PROVE  Awaited(q)' \/ q.token \in abandoned'
      BY DEF Awaited
    <2>1. CASE u = t
      BY <1>1, <2>1
    <2>2. CASE u # t
      BY <1>3, <2>2 DEF Awaited
    <2> QED
      BY <2>1, <2>2
  <1>6. TypeOK'
    BY <1>1, <1>2 DEF IInv, TypeOK
  <1>7. ParentsIssued' /\ RotatedIsRevoked' /\ RequestsSound'
    BY <1>1 DEF IInv, ParentsIssued, RotatedIsRevoked, RequestsSound, Issued
  <1>8. TabsSound'
    BY <1>1, <1>3 DEF IInv, TabsSound, TypeOK
  <1>9. AnswersFresh'
    BY <1>1, <1>4 DEF IInv, AnswersFresh
  <1>10. SpendersAwaited'
    <2> SUFFICES ASSUME stored # NoToken
                 PROVE  /\ Issued(stored)
                        /\ \A q \in requests :
                              q.token = stored => (Awaited(q)' \/ stored \in abandoned')
                        /\ session[stored].revoked =>
                              (\E q \in requests : q.token = stored) \/ stored \in abandoned'
      BY <1>1 DEF SpendersAwaited, Issued
    <2>1. abandoned \subseteq abandoned'
      BY <1>1
    <2> QED
      BY <1>5, <2>1 DEF IInv, SpendersAwaited
  <1> QED
    BY <1>6, <1>7, <1>8, <1>9, <1>10 DEF IInv

\* The age of a session matters to nothing but the next rotation.
LEMMA ExpireIInv ==
    ASSUME IInv, NEW k \in Token, Expire(k)
    PROVE  IInv'
  <1>1. PICK row \in Session : row = session[k]
    BY DEF Expire, IInv, TypeOK, Issued
  <1>2. PICK new : new = [row EXCEPT !.expired = TRUE]
    OBVIOUS
  <1>3. new \in Session /\ new.from = row.from /\ new.revoked = row.revoked
    BY <1>2 DEF Session
  <1>4. session' = [session EXCEPT ![k] = new] /\ session \in [Token -> Session \cup {NoSession}]
    BY <1>1, <1>2 DEF Expire, IInv, TypeOK
  <1>5. \A x \in Token : session'[x] = IF x = k THEN new ELSE session[x]
    BY <1>4
  <1>6. \A x \in Token :
          /\ Issued(x)' <=> Issued(x)
          /\ Issued(x) => /\ session'[x].from = session[x].from
                          /\ session'[x].revoked = session[x].revoked
    BY <1>1, <1>3, <1>5, NoSessionAssumption DEF Issued
  <1>7. UNCHANGED <<stored, waiting, requests, sent, abandoned>>
    BY DEF Expire
  <1>8. \A q \in requests : q.token \in Token /\ q.answer \in Token \cup {NoToken}
    BY DEF IInv, TypeOK, Request
  <1>9. TypeOK'
    BY <1>3, <1>4, <1>7 DEF IInv, TypeOK
  <1>10. ParentsIssued' /\ RotatedIsRevoked'
    <2> SUFFICES ASSUME NEW x \in Token, Issued(x)', session'[x].from # NoToken
                 PROVE  Issued(session[x].from)' /\ session'[session'[x].from].revoked
      BY DEF ParentsIssued, RotatedIsRevoked
    <2>1. Issued(x) /\ session'[x].from = session[x].from
      BY <1>6
    <2>2. session[x].from \in Token
      BY <2>1 DEF IInv, TypeOK, Session, Issued
    <2>3. Issued(session[x].from) /\ session[session[x].from].revoked
      BY <2>1 DEF IInv, ParentsIssued, RotatedIsRevoked
    <2> QED
      BY <1>6, <2>1, <2>2, <2>3
  <1>11. RequestsSound' /\ TabsSound'
    BY <1>6, <1>7, <1>8 DEF IInv, RequestsSound, TabsSound
  <1>12. AnswersFresh'
    BY <1>6, <1>7, <1>8 DEF IInv, AnswersFresh, RequestsSound, Awaited
  <1>13. SpendersAwaited'
    BY <1>6, <1>7 DEF IInv, TypeOK, SpendersAwaited, Awaited
  <1> QED
    BY <1>9, <1>10, <1>11, <1>12, <1>13 DEF IInv

\* IInv is inductive.
LEMMA NextIInv == IInv /\ [Next]_vars => IInv'
  <1> SUFFICES ASSUME IInv, [Next]_vars PROVE IInv'
    OBVIOUS
  <1>1. CASE \E u \in User, k \in Token : Login(u, k)
    BY <1>1, LoginIInv
  <1>2. CASE SignOut
    BY <1>2, ForgetIInv DEF SignOut, IInv, TypeOK
  <1>3. CASE \E t \in Tab : RefreshAccessSession(t)
    BY <1>3, RefreshIInv
  <1>4. CASE \E r \in requests : FindSession(r)
    BY <1>4, FindIInv
  <1>5. CASE \E r \in requests : RevokeSession(r)
    BY <1>5, RevokeIInv
  <1>6. CASE \E r \in requests, k \in Token : IssueSession(r, k)
    BY <1>6, IssueIInv
  <1>7. CASE \E r \in requests : RotationFails(r)
    BY <1>7, FailIInv
  <1>8. CASE \E t \in Tab, r \in requests : ReceiveAnswer(t, r)
    BY <1>8, ReceiveIInv
  <1>9. CASE \E t \in Tab : GiveUp(t)
    <2>1. PICK t \in Tab : GiveUp(t)
      BY <1>9
    <2>2. waiting' \in [Tab -> Nat] /\ \A u \in Tab : waiting'[u] = waiting[u] \/ waiting'[u] = 0
      BY <2>1 DEF GiveUp, IInv, TypeOK
    <2> QED
      BY <2>1, <2>2, ForgetIInv DEF GiveUp
  <1>10. CASE \E t \in Tab : Navigate(t)
    BY <1>10, NavigateIInv
  <1>11. CASE \E k \in Token : Expire(k)
    BY <1>11, ExpireIInv
  <1>12. CASE UNCHANGED vars
    BY <1>12 DEF vars, IInv, TypeOK, RotatedIsRevoked, ParentsIssued, RequestsSound,
       TabsSound, AnswersFresh, SpendersAwaited, Issued, Awaited
  <1> QED
    BY <1>1, <1>2, <1>3, <1>4, <1>5, <1>6, <1>7, <1>8, <1>9, <1>10, <1>11, <1>12 DEF Next

\* The inductive invariant of the refresh protocol.
THEOREM SpecIInv == Spec => []IInv
  <1> QED
    BY InitIInv, NextIInv, PTL DEF Spec

\* The types of the variables are invariant.
THEOREM TypeCorrect == Spec => []TypeOK
  <1>1. IInv => TypeOK
    BY DEF IInv
  <1> QED
    BY <1>1, SpecIInv, PTL

\* rotateRefreshSession never leaves a token alive that it replaced, whatever
\* requests overlap and wherever they fail.
THEOREM RotationRevokes == Spec => []RotatedIsRevoked
  <1>1. IInv => RotatedIsRevoked
    BY DEF IInv
  <1> QED
    BY <1>1, SpecIInv, PTL

\* However many tabs share it, a token at rest in the browser is one it has not
\* spent, unless a navigation dropped an answer.
THEOREM StoredTokenUnspent == Spec => []StoredIsUnspent
  <1>1. IInv => StoredIsUnspent
    <2> SUFFICES ASSUME IInv, stored # NoToken, \A t \in Tab : waiting[t] = 0,
                        stored \notin abandoned, session[stored].revoked
                 PROVE  FALSE
      BY DEF StoredIsUnspent
    <2>1. PICK r \in requests : r.token = stored
      BY DEF IInv, SpendersAwaited
    <2>2. Awaited(r)
      BY <2>1 DEF IInv, SpendersAwaited
    <2>3. r.id # 0
      BY DEF IInv, TypeOK, Request
    <2> QED
      BY <2>2, <2>3 DEF Awaited
  <1> QED
    BY <1>1, SpecIInv, PTL
-----------------------------------------------------------------------------
(* RefreshSession implements SessionFamily: every step of the server, its    *)
(* requests and the browser is a step of the token family or none.           *)

\* What the refinement maps one row to, and the whole table.
Member(row) == [owner |-> row.user, parent |-> row.from, spent |-> row.revoked]
Mapped == [k \in {k \in Token : Issued(k)} |-> Member(session[k])]

\* Nothing is issued at first.
LEMMA InitFamily == Init => Family!FamilyInit
  <1> SUFFICES ASSUME Init PROVE Mapped = [k \in {} |-> NoToken]
    BY DEF Mapped, Member, Family!FamilyInit
  <1>1. {k \in Token : Issued(k)} = {}
    BY DEF Init, Issued
  <1> QED
    BY <1>1 DEF Mapped

\* Rows that keep their columns, the expiry aside, keep the family.
LEMMA KeptFamily ==
    ASSUME \A k \in Token : Issued(k)' <=> Issued(k),
           \A k \in Token : Issued(k) => Member(session[k])' = Member(session[k])
    PROVE  Mapped' = Mapped
  <1>1. {k \in Token : Issued(k)}' = {k \in Token : Issued(k)}
    OBVIOUS
  <1> QED
    BY <1>1 DEF Mapped

\* A table that does not change maps to a stutter.
LEMMA StutterFamily == session' = session => Mapped' = Mapped
  BY DEF Mapped, Member, Issued

\* A member that is spent.
LEMMA SpentMember ==
    ASSUME NEW owner, NEW parent, NEW spent \in BOOLEAN, NEW member,
           member = [owner |-> owner, parent |-> parent, spent |-> spent]
    PROVE  [member EXCEPT !.spent = TRUE] = [owner |-> owner, parent |-> parent, spent |-> TRUE]
  <1> DEFINE M == [owner : {owner}, parent : {parent}, spent : BOOLEAN]
  <1>1. member \in M
    OBVIOUS
  <1>2. \A m \in M : [m EXCEPT !.spent = TRUE] \in M /\ [m EXCEPT !.spent = TRUE].spent = TRUE
    OBVIOUS
  <1>3. \A m \in M : m.spent = TRUE => m = [owner |-> owner, parent |-> parent, spent |-> TRUE]
    OBVIOUS
  <1> HIDE DEF M
  <1> QED
    BY <1>1, <1>2, <1>3

\* Revoking a session spends its token.
LEMMA RevokeSpends ==
    ASSUME session \in [Token -> Session \cup {NoSession}],
           NEW k \in Token, Issued(k), session' = Revoked(k)
    PROVE  Family!Spend(k) /\ k \in DOMAIN Mapped
  <1>1. PICK row \in Session : row = session[k]
    BY DEF Issued
  <1>2. session' = [session EXCEPT ![k] = [row EXCEPT !.revoked = TRUE]]
    BY <1>1 DEF Revoked
  <1>3. [row EXCEPT !.revoked = TRUE] \in Session
    BY DEF Session
  <1>4. \A x \in Token : Issued(x)' <=> Issued(x)
    BY <1>1, <1>2, <1>3, NoSessionAssumption DEF Issued
  <1>5. Member(session[k])' = [owner |-> row.user, parent |-> row.from, spent |-> TRUE]
    <2>1. session'[k] = [row EXCEPT !.revoked = TRUE]
      BY <1>2
    <2>2. /\ session'[k].user = row.user /\ session'[k].from = row.from
          /\ session'[k].revoked = TRUE
      BY <2>1 DEF Session
    <2> QED
      BY <2>2 DEF Member
  <1>6. \A x \in Token : x # k => Member(session[x])' = Member(session[x])
    BY <1>2 DEF Member
  <1>7. {x \in Token : Issued(x)}' = {x \in Token : Issued(x)}
    BY <1>4
  <1>8. Mapped' = [Mapped EXCEPT ![k].spent = TRUE]
    <2>1. Mapped[k] = [owner |-> row.user, parent |-> row.from, spent |-> row.revoked]
      BY <1>1 DEF Mapped, Member
    <2>2. [Mapped[k] EXCEPT !.spent = TRUE] = [owner |-> row.user, parent |-> row.from, spent |-> TRUE]
      BY <2>1, SpentMember DEF Session
    <2>3. [Mapped EXCEPT ![k].spent = TRUE] = [Mapped EXCEPT ![k] = Member(session[k])']
      BY <1>5, <2>2
    <2> QED
      BY <1>5, <1>6, <1>7, <2>3 DEF Mapped
  <1> QED
    BY <1>8 DEF Mapped, Member, Family!Spend

\* A new session issues its token to the family.
LEMMA CreateIssues ==
    ASSUME session \in [Token -> Session \cup {NoSession}],
           NEW k \in Token, NEW u \in User, NEW parent \in Token \cup {NoToken},
           CreateRefreshSession(k, u, parent)
    PROVE  Family!Issue(k, u, parent)
  <1>1. /\ ~Issued(k) /\ Issued(k)'
        /\ \A x \in Token : x # k => session'[x] = session[x]
    BY CreateKeepsRows
  <1>2. session'[k] = [user |-> u, revoked |-> FALSE, expired |-> FALSE, from |-> parent]
    BY DEF CreateRefreshSession
  <1>3. Member(session[k])' = [owner |-> u, parent |-> parent, spent |-> FALSE]
    BY <1>2 DEF Member
  <1>4. {x \in Token : Issued(x)}' = {x \in Token : Issued(x)} \cup {k}
    BY <1>1 DEF Issued
  <1>5. \A x \in Token : x # k => Member(session[x])' = Member(session[x])
    BY <1>1 DEF Member
  <1>6. k \notin DOMAIN Mapped /\ DOMAIN Mapped = {x \in Token : Issued(x)}
    BY <1>1 DEF Mapped
  <1>7. Mapped' = [j \in DOMAIN Mapped \cup {k} |->
                     IF j = k THEN [owner |-> u, parent |-> parent, spent |-> FALSE]
                     ELSE Mapped[j]]
    BY <1>1, <1>3, <1>4, <1>5, <1>6 DEF Mapped
  <1> QED
    BY <1>6, <1>7 DEF Mapped, Member, Family!Issue

\* Every step is a step of the family or leaves it alone.
LEMMA NextFamily ==
    ASSUME IInv, [Next]_vars
    PROVE  Family!FamilyNext \/ Mapped' = Mapped
  <1>1. /\ session \in [Token -> Session \cup {NoSession}]
        /\ \A r \in requests : r.token \in Token /\ Issued(r.token)
    BY DEF IInv, TypeOK, Request, RequestsSound
  <1>2. CASE session' = session
    BY <1>2, StutterFamily
  <1>3. ASSUME NEW u \in User, NEW k \in Token, Login(u, k)
        PROVE  Family!FamilyNext
    <2>1. Family!OpenFamily(k, u)
      BY <1>1, <1>3, CreateIssues DEF Login, Family!OpenFamily
    <2> QED
      BY <2>1 DEF Family!FamilyNext
  <1>4. ASSUME NEW r \in requests, session' = Revoked(r.token)
        PROVE  Family!FamilyNext
    <2>1. Family!Spend(r.token) /\ r.token \in DOMAIN Mapped
      BY <1>1, <1>4, RevokeSpends
    <2> QED
      BY <2>1 DEF Family!FamilyNext, Mapped, Member
  <1>5. ASSUME NEW r \in requests, NEW k \in Token, IssueSession(r, k)
        PROVE  Family!FamilyNext
    <2>1. PICK row \in Session : row = session[r.token]
      BY <1>1 DEF Issued
    <2>2. row.revoked /\ row.user \in User
      BY <1>5, <2>1 DEF IInv, RequestsSound, IssueSession, Session
    <2>3. Family!Issue(k, row.user, r.token)
      BY <1>1, <1>5, <2>1, <2>2, CreateIssues DEF IssueSession
    <2>4. Mapped[r.token].spent /\ Mapped[r.token].owner = row.user /\ r.token \in DOMAIN Mapped
      BY <1>1, <2>1, <2>2 DEF Mapped, Member
    <2>5. Family!Renew(r.token, k)
      BY <2>3, <2>4 DEF Family!Renew, Mapped, Member
    <2> QED
      BY <2>4, <2>5 DEF Family!FamilyNext, Mapped, Member
  <1>6. ASSUME NEW k \in Token, Expire(k)
        PROVE  Mapped' = Mapped
    <2>1. PICK row \in Session : row = session[k]
      BY <1>1, <1>6 DEF Expire, Issued
    <2>2. session' = [session EXCEPT ![k] = [row EXCEPT !.expired = TRUE]]
      BY <1>6, <2>1 DEF Expire
    <2>3. [row EXCEPT !.expired = TRUE] \in Session
      BY DEF Session
    <2>4. \A x \in Token : Issued(x)' <=> Issued(x)
      BY <2>1, <2>2, <2>3, <1>1, NoSessionAssumption DEF Issued
    <2>5. \A x \in Token : Member(session[x])' = Member(session[x])
      BY <1>1, <2>1, <2>2 DEF Member, Session
    <2> QED
      BY <2>4, <2>5, KeptFamily
  <1>7. CASE \E r \in requests : FindSession(r)
    BY <1>2, <1>4, <1>7 DEF FindSession
  <1>8. CASE \E r \in requests : RevokeSession(r)
    BY <1>4, <1>8 DEF RevokeSession
  <1>9. CASE \/ SignOut
             \/ \E t \in Tab : RefreshAccessSession(t) \/ GiveUp(t) \/ Navigate(t)
             \/ \E r \in requests : RotationFails(r)
             \/ \E t \in Tab, r \in requests : ReceiveAnswer(t, r)
             \/ UNCHANGED vars
    BY <1>2, <1>9 DEF SignOut, RefreshAccessSession, GiveUp, Navigate, RotationFails,
       ReceiveAnswer, vars
  <1> QED
    BY <1>3, <1>5, <1>6, <1>7, <1>8, <1>9 DEF Next

\* The table of sessions, with the requests, failures, tabs and expiry around it,
\* implements the token families, for any number of tabs, accounts and tokens.
THEOREM SessionsImplementFamily == Spec => ImplementsFamily
  <1>1. IInv /\ [Next]_vars => [Family!FamilyNext]_Mapped
    BY NextFamily
  <1> QED
    BY <1>1, InitFamily, SpecIInv, PTL DEF Spec, ImplementsFamily, Family!FamilySpec, Mapped, Member
-----------------------------------------------------------------------------
(* LensSession. *)

LensMember == [owner : Account, parent : LensToken \cup {Absent}, spent : BOOLEAN]
CallStep == {"idle", "login", "refused", "sent", "found", "spent", "renewed", "failed"}
CallState == [at : CallStep, token : LensToken \cup {Absent}, next : LensToken \cup {Absent}]

IssuedSound ==
    /\ DOMAIN issued \subseteq LensToken
    /\ issued \in [DOMAIN issued -> LensMember]
    /\ late \subseteq DOMAIN issued
    /\ died \subseteq DOMAIN issued \cup {Absent}

StorageSound ==
    /\ storage \in [access : Account \cup {Absent}, refresh : LensToken \cup {Absent},
                    username : Account \cup {Absent}]
    /\ storage.refresh # Absent =>
         /\ storage.refresh \in DOMAIN issued
         /\ storage.access = issued[storage.refresh].owner
         /\ storage.username = storage.access

\* What a page waits for concerns tokens that were issued.
WaitsSound(c) ==
    /\ call[c].token \in DOMAIN issued \cup {Absent}
    /\ call[c].next \in DOMAIN issued \cup {Absent}
    /\ call[c].at \in {"sent", "found", "spent", "renewed"} => call[c].token \in DOMAIN issued

CallsSound ==
    /\ call \in [Context -> CallState]
    /\ \A c \in Context : WaitsSound(c)

\* The token in an answer on its way to page c is known to nobody else.
AnswerFresh(c) ==
    call[c].at \in {"login", "renewed"} =>
        /\ call[c].next \in DOMAIN issued /\ ~issued[call[c].next].spent
        /\ call[c].next \notin late
        /\ storage.refresh # call[c].next
        /\ \A d \in Context : /\ call[d].token # call[c].next
                              /\ d # c => call[d].next # call[c].next

AnswersToCome == \A c \in Context : AnswerFresh(c)

\* Somebody who sent the token k will replace or forget it, or went away.
Pending(k) ==
    \/ k \in died
    \/ \E c \in Context : call[c].token = k /\ call[c].at \in {"spent", "renewed", "failed"}

\* Also where the home node is only about to spend the token.
StoredPending ==
    (storage.refresh # Absent /\ (issued[storage.refresh].spent \/ storage.refresh \in late))
        => Pending(storage.refresh)

LensIInv ==
    /\ lensOps \in Nat
    /\ IssuedSound /\ StorageSound /\ CallsSound /\ AnswersToCome /\ StoredPending

\* Nothing is issued, stored or called at first.
LEMMA InitLensIInv == LensInit => LensIInv
  <1> SUFFICES ASSUME LensInit PROVE LensIInv
    OBVIOUS
  <1>1. issued = [k \in {} |-> Absent] /\ DOMAIN issued = {}
    BY DEF LensInit, Home!FamilyInit
  <1>2. IssuedSound
    BY <1>1 DEF LensInit, IssuedSound
  <1>3. StorageSound /\ StoredPending /\ lensOps \in Nat
    BY DEF LensInit, StorageSound, StoredPending, Forgotten
  <1>4. CallsSound /\ AnswersToCome
    BY DEF LensInit, CallsSound, WaitsSound, AnswersToCome, AnswerFresh, NoCall, Calling,
           CallState, CallStep
  <1> QED
    BY <1>2, <1>3, <1>4 DEF LensIInv

\* A page waits for something else.
LEMMA CallGoes ==
    ASSUME CallsSound, NEW c \in Context, NEW at \in CallStep,
           NEW token \in LensToken \cup {Absent}, NEW next \in LensToken \cup {Absent},
           Goes(c, Calling(at, token, next))
    PROVE  /\ call' \in [Context -> CallState]
           /\ call'[c].at = at /\ call'[c].token = token /\ call'[c].next = next
           /\ \A d \in Context : d # c => call'[d] = call[d]
  <1> DEFINE new == Calling(at, token, next)
  <1>1. new \in CallState /\ new.at = at /\ new.token = token /\ new.next = next
    BY DEF Calling, CallState
  <1>2. call' = [call EXCEPT ![c] = new]
    BY DEF Goes
  <1> HIDE DEF new
  <1> QED
    BY <1>1, <1>2 DEF CallsSound

LEMMA OpNat == ASSUME LensIInv, LensOp PROVE lensOps' \in Nat
  BY DEF LensIInv, LensOp

\* The home node issues a token.
LEMMA IssueSound ==
    ASSUME IssuedSound, NEW k \in LensToken, NEW u \in Account, NEW parent \in LensToken \cup {Absent},
           Home!Issue(k, u, parent)
    PROVE  /\ k \notin DOMAIN issued /\ DOMAIN issued' = DOMAIN issued \cup {k}
           /\ issued' \in [DOMAIN issued' -> LensMember]
           /\ issued'[k].owner = u /\ issued'[k].spent = FALSE
           /\ \A j \in DOMAIN issued : issued'[j] = issued[j]
  <1> DEFINE row == [owner |-> u, parent |-> parent, spent |-> FALSE]
  <1>1. row \in LensMember /\ row.owner = u /\ row.spent = FALSE
    BY DEF LensMember
  <1>2. k \notin DOMAIN issued
        /\ issued' = [j \in DOMAIN issued \cup {k} |-> IF j = k THEN row ELSE issued[j]]
    BY DEF Home!Issue
  <1> HIDE DEF row
  <1>3. issued' \in [DOMAIN issued \cup {k} -> LensMember]
    BY <1>1, <1>2 DEF IssuedSound
  <1> QED
    BY <1>1, <1>2, <1>3

\* The home node spends a token.
LEMMA SpendSound ==
    ASSUME IssuedSound, NEW k \in DOMAIN issued, Home!Spend(k)
    PROVE  /\ DOMAIN issued' = DOMAIN issued /\ issued' \in [DOMAIN issued' -> LensMember]
           /\ \A j \in DOMAIN issued : issued'[j].owner = issued[j].owner
           /\ \A j \in DOMAIN issued : j # k => issued'[j] = issued[j]
  <1>1. PICK row \in LensMember : row = issued[k]
    BY DEF IssuedSound
  <1>2. PICK new : new = [row EXCEPT !.spent = TRUE]
    OBVIOUS
  <1>3. new \in LensMember /\ new.owner = row.owner
    BY <1>2 DEF LensMember
  <1>4. issued' = [issued EXCEPT ![k] = new]
    BY <1>1, <1>2 DEF Home!Spend
  <1>5. issued' \in [DOMAIN issued -> LensMember]
    BY <1>3, <1>4 DEF IssuedSound
  <1> QED
    BY <1>1, <1>3, <1>4, <1>5

\* A page that issues, stores and spends nothing takes its next step: it keeps
\* its token, takes the one that is stored, or drops it while nobody needs it.
LEMMA PageStep ==
    ASSUME LensIInv, NEW c \in Context, UNCHANGED <<issued, storage, late, died>>, lensOps' \in Nat,
           NEW at \in {"refused", "sent", "found", "failed"},
           NEW token \in DOMAIN issued \cup {Absent},
           Goes(c, Calling(at, token, Absent)),
           token \in {call[c].token, storage.refresh, Absent},
           at \in {"sent", "found"} => token \in DOMAIN issued,
           call[c].at \in {"spent", "renewed", "failed"} => at = "failed" /\ token = call[c].token
    PROVE  LensIInv'
  <1>1. at \in CallStep /\ token \in LensToken \cup {Absent}
    BY DEF CallStep, LensIInv, IssuedSound
  <1>2. /\ call' \in [Context -> CallState]
        /\ call'[c].at = at /\ call'[c].token = token /\ call'[c].next = Absent
        /\ \A d \in Context : d # c => call'[d] = call[d]
    BY <1>1, CallGoes DEF LensIInv
  <1>3. IssuedSound' /\ StorageSound'
    BY DEF LensIInv, IssuedSound, StorageSound
  <1>4. CallsSound'
    BY <1>2 DEF LensIInv, CallsSound, WaitsSound
  <1>5. AnswersToCome'
    <2> SUFFICES ASSUME NEW d \in Context PROVE AnswerFresh(d)'
      BY DEF AnswersToCome
    <2>1. CASE d = c
      BY <1>2, <2>1 DEF AnswerFresh
    <2>2. CASE d # c /\ call[d].at \in {"login", "renewed"}
      <3>1. call'[d] = call[d] /\ AnswerFresh(d)
        BY <1>2, <2>2 DEF LensIInv, AnswersToCome
      <3>2. call[d].next # token /\ call[d].next # Absent
        BY <2>2, <3>1, LensAssumption DEF AnswerFresh, LensIInv, IssuedSound
      <3> QED
        BY <1>2, <2>2, <3>1, <3>2 DEF AnswerFresh
    <2>3. CASE d # c /\ call[d].at \notin {"login", "renewed"}
      BY <1>2, <2>3 DEF AnswerFresh
    <2> QED
      BY <2>1, <2>2, <2>3
  <1>6. StoredPending'
    BY <1>2 DEF LensIInv, StoredPending, Pending
  <1> QED
    BY <1>3, <1>4, <1>5, <1>6 DEF LensIInv

LEMMA CallRefusedIInv ==
    ASSUME LensIInv, NEW c \in Context, CallRefused(c) PROVE LensIInv'
  BY PageStep, OpNat DEF CallRefused, At, IssuedSound, LensIInv

LEMMA TakeTokenIInv ==
    ASSUME LensIInv, NEW c \in Context, TakeToken(c) PROVE LensIInv'
  <1>1. storage.refresh \in DOMAIN issued \cup {Absent}
    BY DEF LensIInv, StorageSound
  <1>2. CASE storage.refresh = Absent
    <2>1. Goes(c, Calling("failed", Absent, Absent))
      BY <1>2 DEF TakeToken
    <2> QED
      BY <2>1, PageStep DEF TakeToken, At, LensIInv
  <1>3. CASE storage.refresh # Absent
    <2>1. Goes(c, Calling("sent", storage.refresh, Absent))
      BY <1>3 DEF TakeToken
    <2> QED
      BY <1>1, <1>3, <2>1, PageStep DEF TakeToken, At, LensIInv
  <1> QED
    BY <1>2, <1>3

LEMMA FindIssuedIInv ==
    ASSUME LensIInv, NEW c \in Context, FindIssued(c) PROVE LensIInv'
  <1>1. call[c].token \in DOMAIN issued
    BY DEF FindIssued, At, LensIInv, CallsSound, WaitsSound
  <1> QED
    BY <1>1, PageStep DEF FindIssued, At, LensIInv

\* A token nobody has seen goes into the answer to page c.
LEMMA IssueStep ==
    ASSUME LensIInv, NEW c \in Context, NEW k \in LensToken, NEW u \in Account,
           NEW parent \in LensToken \cup {Absent}, Home!Issue(k, u, parent),
           NEW at \in {"login", "renewed"}, NEW token \in {Absent, call[c].token},
           Goes(c, Calling(at, token, k)),
           at = "renewed" => token \in DOMAIN issued,
           call[c].at \in {"spent", "renewed", "failed"} => at = "renewed" /\ token = call[c].token,
           UNCHANGED <<storage, late, died>>, lensOps' \in Nat
    PROVE  LensIInv'
  <1>1. /\ k \notin DOMAIN issued /\ DOMAIN issued' = DOMAIN issued \cup {k}
        /\ issued' \in [DOMAIN issued' -> LensMember] /\ issued'[k].spent = FALSE
        /\ \A j \in DOMAIN issued : issued'[j] = issued[j]
    BY IssueSound DEF LensIInv
  <1>2. token \in DOMAIN issued \cup {Absent} /\ k # Absent /\ DOMAIN issued \subseteq LensToken
    BY LensAssumption DEF LensIInv, CallsSound, WaitsSound, IssuedSound
  <1>3. /\ call' \in [Context -> CallState]
        /\ call'[c].at = at /\ call'[c].token = token /\ call'[c].next = k
        /\ \A d \in Context : d # c => call'[d] = call[d]
    <2>1. CallsSound /\ at \in CallStep
      BY DEF LensIInv, CallStep
    <2>2. token \in LensToken \cup {Absent} /\ k \in LensToken \cup {Absent}
      BY <1>2
    <2> QED
      BY <2>1, <2>2, CallGoes
  <1>4. \A d \in Context : call[d].token # k /\ call[d].next # k
    BY <1>1, <1>2 DEF LensIInv, CallsSound, WaitsSound
  <1>5. IssuedSound'
    BY <1>1, <1>2 DEF LensIInv, IssuedSound
  <1>6. StorageSound'
    BY <1>1 DEF LensIInv, StorageSound
  <1>7. CallsSound'
    BY <1>1, <1>2, <1>3 DEF LensIInv, CallsSound, WaitsSound
  <1>8. AnswersToCome'
    <2> SUFFICES ASSUME NEW d \in Context, call'[d].at \in {"login", "renewed"}
                 PROVE  AnswerFresh(d)'
      BY DEF AnswersToCome, AnswerFresh
    <2>1. CASE d = c
      <3>1. k \notin late /\ storage.refresh # k
        BY <1>1, <1>2 DEF LensIInv, IssuedSound, StorageSound
      <3> QED
        BY <1>1, <1>2, <1>3, <1>4, <2>1, <3>1 DEF AnswerFresh
    <2>2. CASE d # c
      <3>1. call'[d] = call[d] /\ AnswerFresh(d)
        BY <1>3, <2>2 DEF LensIInv, AnswersToCome
      <3>2. call[d].next \in DOMAIN issued /\ call[d].next # token /\ call[d].next # k
        BY <1>1, <1>2, <2>2, <3>1, LensAssumption DEF AnswerFresh
      <3> QED
        BY <1>1, <1>3, <2>2, <3>1, <3>2 DEF AnswerFresh
    <2> QED
      BY <2>1, <2>2
  <1>9. StoredPending'
    <2>1. storage.refresh # Absent => storage.refresh \in DOMAIN issued
      BY DEF LensIInv, StorageSound
    <2> QED
      BY <1>1, <1>3, <2>1 DEF LensIInv, StoredPending, Pending
  <1> QED
    BY <1>5, <1>6, <1>7, <1>8, <1>9 DEF LensIInv

LEMMA SendLoginIInv ==
    ASSUME LensIInv, NEW c \in Context, NEW u \in Account, SendLogin(c, u) PROVE LensIInv'
  <1>1. PICK k \in LensToken : Home!Issue(k, u, Absent) /\ Goes(c, Calling("login", Absent, k))
    BY DEF SendLogin, Home!OpenFamily
  <1> QED
    BY <1>1, IssueStep, OpNat DEF SendLogin, At

\* The successor of a token is of the same account.
LEMMA RenewTokenIInv ==
    ASSUME LensIInv, NEW c \in Context, RenewToken(c) PROVE LensIInv'
  <1> DEFINE j == call[c].token
  <1>1. PICK k \in LensToken : /\ Home!Issue(k, issued[j].owner, j)
                               /\ Goes(c, Calling("renewed", j, k))
    BY DEF RenewToken, Home!Renew
  <1>2. j \in DOMAIN issued /\ j \in LensToken /\ issued[j] \in LensMember
    BY DEF RenewToken, At, LensIInv, CallsSound, WaitsSound, IssuedSound
  <1>3. issued[j].owner \in Account
    BY <1>2 DEF LensMember
  <1> QED
    BY <1>1, <1>2, <1>3, IssueStep DEF RenewToken, At, LensIInv

\* The token of an answer nobody waits for.
LEMMA LateRenewIInv ==
    ASSUME LensIInv, NEW k \in late, LateRenew(k) PROVE LensIInv'
  <1>1. PICK next \in LensToken : Home!Issue(next, issued[k].owner, k)
    BY DEF LateRenew, Home!Renew
  <1>2. k \in DOMAIN issued /\ k \in LensToken /\ issued[k] \in LensMember
    BY DEF LensIInv, IssuedSound
  <1>3. issued[k].owner \in Account
    BY <1>2 DEF LensMember
  <1>4. /\ next \notin DOMAIN issued /\ DOMAIN issued' = DOMAIN issued \cup {next}
        /\ issued' \in [DOMAIN issued' -> LensMember]
        /\ \A j \in DOMAIN issued : issued'[j] = issued[j]
    BY <1>1, <1>2, <1>3, IssueSound DEF LensIInv
  <1>5. UNCHANGED <<storage, call, lensOps, died>> /\ late' \subseteq late
    BY DEF LateRenew
  <1>6. IssuedSound' /\ StorageSound'
    BY <1>4, <1>5 DEF LensIInv, IssuedSound, StorageSound
  <1>7. CallsSound'
    BY <1>4, <1>5 DEF LensIInv, CallsSound, WaitsSound
  <1>8. AnswersToCome'
    BY <1>4, <1>5 DEF LensIInv, AnswersToCome, AnswerFresh
  <1>9. StoredPending'
    BY <1>4, <1>5 DEF LensIInv, StorageSound, StoredPending, Pending
  <1> QED
    BY <1>5, <1>6, <1>7, <1>8, <1>9 DEF LensIInv

\* A token is spent of which the home node, or a page that goes on, knows.
LEMMA SpendTokenIInv ==
    ASSUME LensIInv, NEW c \in Context, SpendToken(c) PROVE LensIInv'
  <1> DEFINE k == call[c].token
  <1>1. k \in DOMAIN issued /\ k \in LensToken /\ call[c].at = "found"
    BY DEF SpendToken, At, LensIInv, CallsSound, WaitsSound, IssuedSound
  <1>2. /\ DOMAIN issued' = DOMAIN issued /\ issued' \in [DOMAIN issued' -> LensMember]
        /\ \A j \in DOMAIN issued : issued'[j].owner = issued[j].owner
        /\ \A j \in DOMAIN issued : j # k => issued'[j] = issued[j]
    BY <1>1, SpendSound DEF SpendToken, LensIInv
  <1>3. /\ call' \in [Context -> CallState]
        /\ call'[c].at = "spent" /\ call'[c].token = k /\ call'[c].next = Absent
        /\ \A d \in Context : d # c => call'[d] = call[d]
    BY <1>1, CallGoes DEF SpendToken, LensIInv, CallStep
  <1>4. UNCHANGED <<storage, lensOps, late, died>>
    BY DEF SpendToken
  <1> HIDE DEF k
  <1>5. IssuedSound' /\ StorageSound'
    BY <1>2, <1>4 DEF LensIInv, IssuedSound, StorageSound
  <1>6. CallsSound'
    BY <1>1, <1>2, <1>3 DEF LensIInv, CallsSound, WaitsSound
  <1>7. AnswersToCome'
    <2> SUFFICES ASSUME NEW d \in Context, call'[d].at \in {"login", "renewed"}
                 PROVE  AnswerFresh(d)'
      BY DEF AnswersToCome, AnswerFresh
    <2>1. d # c /\ call'[d] = call[d] /\ AnswerFresh(d)
      BY <1>3 DEF LensIInv, AnswersToCome
    <2>2. call[d].next \in DOMAIN issued /\ call[d].next # k /\ call[d].next # Absent
      BY <2>1, LensAssumption DEF AnswerFresh, k, LensIInv, IssuedSound
    <2> QED
      BY <1>2, <1>3, <1>4, <2>1, <2>2 DEF AnswerFresh
  <1>8. StoredPending'
    BY <1>1, <1>2, <1>3, <1>4 DEF LensIInv, StorageSound, StoredPending, Pending
  <1> QED
    BY <1>4, <1>5, <1>6, <1>7, <1>8 DEF LensIInv

LEMMA LateSpendIInv ==
    ASSUME LensIInv, NEW k \in late, LateSpend(k) PROVE LensIInv'
  <1>1. k \in DOMAIN issued /\ UNCHANGED <<storage, call, lensOps, late, died>>
    BY DEF LateSpend, LensIInv, IssuedSound
  <1>2. /\ DOMAIN issued' = DOMAIN issued /\ issued' \in [DOMAIN issued' -> LensMember]
        /\ \A j \in DOMAIN issued : issued'[j].owner = issued[j].owner
        /\ \A j \in DOMAIN issued : j # k => issued'[j] = issued[j]
    BY <1>1, SpendSound DEF LateSpend, LensIInv
  <1>3. IssuedSound' /\ StorageSound'
    BY <1>1, <1>2 DEF LensIInv, IssuedSound, StorageSound
  <1>4. CallsSound'
    BY <1>1, <1>2 DEF LensIInv, CallsSound, WaitsSound
  <1>5. AnswersToCome'
    BY <1>1, <1>2 DEF LensIInv, AnswersToCome, AnswerFresh
  <1>6. StoredPending'
    BY <1>1, <1>2 DEF LensIInv, StorageSound, StoredPending, Pending
  <1> QED
    BY <1>1, <1>3, <1>4, <1>5, <1>6 DEF LensIInv

\* A page goes away, or its refresh fails, while the home node may go on.
LEMMA AbandonSound ==
    ASSUME LensIInv, NEW c \in Context, Abandon(c), UNCHANGED <<issued, storage>>,
           NEW at \in {"idle", "failed"}, NEW token \in {Absent, call[c].token},
           Goes(c, Calling(at, token, Absent)),
           died' = died \cup (IF at = "idle" THEN {call[c].token} ELSE {}),
           at = "failed" => token = call[c].token,
           lensOps' = lensOps
    PROVE  LensIInv'
  <1>1. call[c].token \in DOMAIN issued \cup {Absent} /\ DOMAIN issued \subseteq LensToken
    BY DEF LensIInv, CallsSound, WaitsSound, IssuedSound
  <1>2. late \subseteq late' /\ late' \subseteq late \cup {call[c].token} /\ late' \subseteq DOMAIN issued
    BY DEF Abandon, At, LensIInv, CallsSound, WaitsSound, IssuedSound
  <1>3. /\ call' \in [Context -> CallState]
        /\ call'[c].at = at /\ call'[c].token = token /\ call'[c].next = Absent
        /\ \A d \in Context : d # c => call'[d] = call[d]
    BY <1>1, CallGoes DEF LensIInv, CallStep
  <1>4. IssuedSound' /\ StorageSound'
    BY <1>1, <1>2 DEF LensIInv, IssuedSound, StorageSound
  <1>5. CallsSound'
    BY <1>1, <1>3 DEF LensIInv, CallsSound, WaitsSound
  <1>6. AnswersToCome'
    <2> SUFFICES ASSUME NEW d \in Context, call'[d].at \in {"login", "renewed"}
                 PROVE  AnswerFresh(d)'
      BY DEF AnswersToCome, AnswerFresh
    <2>1. d # c /\ call'[d] = call[d] /\ AnswerFresh(d)
      BY <1>3 DEF LensIInv, AnswersToCome
    <2>2. call[d].next \in DOMAIN issued /\ call[d].next # call[c].token /\ call[d].next # Absent
      BY <1>1, <2>1, LensAssumption DEF AnswerFresh
    <2> QED
      BY <1>2, <1>3, <2>1, <2>2 DEF AnswerFresh
  <1>7. StoredPending'
    BY <1>2, <1>3 DEF LensIInv, StoredPending, Pending
  <1> QED
    BY <1>4, <1>5, <1>6, <1>7 DEF LensIInv

LEMMA CloseContextIInv ==
    ASSUME LensIInv, NEW c \in Context, CloseContext(c) PROVE LensIInv'
  BY AbandonSound DEF CloseContext, NoCall

LEMMA RefreshFailsIInv ==
    ASSUME LensIInv, NEW c \in Context, RefreshFails(c) PROVE LensIInv'
  BY AbandonSound DEF RefreshFails

\* The page is done, and the storage holds what it stored.
LEMMA StoreAnswer ==
    ASSUME LensIInv, NEW c \in Context, call[c].at \in {"login", "renewed"},
           storage' = Stored(call[c].next, issued[call[c].next].owner),
           Goes(c, NoCall), UNCHANGED <<issued, lensOps, late, died>>
    PROVE  LensIInv'
  <1> DEFINE k == call[c].next
             row == [access |-> issued[k].owner, refresh |-> k, username |-> issued[k].owner]
  <1>1. AnswerFresh(c)
    BY DEF LensIInv, AnswersToCome
  <1>2. k \in DOMAIN issued /\ k \in LensToken /\ issued[k] \in LensMember
    BY <1>1 DEF AnswerFresh, LensIInv, IssuedSound
  <1>3. issued[k].owner \in Account
    BY <1>2 DEF LensMember
  <1>4. /\ row \in [access : Account \cup {Absent}, refresh : LensToken \cup {Absent},
                    username : Account \cup {Absent}]
        /\ row.refresh = k /\ row.access = issued[k].owner /\ row.username = issued[k].owner
    BY <1>2, <1>3
  <1>5. storage' = row
    BY DEF Stored
  <1>6. /\ call' \in [Context -> CallState]
        /\ call'[c].at = "idle" /\ call'[c].token = Absent /\ call'[c].next = Absent
        /\ \A d \in Context : d # c => call'[d] = call[d]
    BY CallGoes DEF LensIInv, CallStep, NoCall
  <1> HIDE DEF row
  <1>7. IssuedSound' /\ StorageSound'
    BY <1>2, <1>4, <1>5 DEF LensIInv, IssuedSound, StorageSound
  <1>8. CallsSound'
    BY <1>6 DEF LensIInv, CallsSound, WaitsSound
  <1>9. AnswersToCome'
    <2> SUFFICES ASSUME NEW d \in Context, call'[d].at \in {"login", "renewed"}
                 PROVE  AnswerFresh(d)'
      BY DEF AnswersToCome, AnswerFresh
    <2>1. d # c /\ call'[d] = call[d] /\ AnswerFresh(d)
      BY <1>6 DEF LensIInv, AnswersToCome
    <2>2. call[d].next \in DOMAIN issued /\ call[d].next # k /\ call[d].next # Absent
      BY <2>1, LensAssumption DEF AnswerFresh, LensIInv, IssuedSound
    <2> QED
      BY <1>4, <1>5, <1>6, <2>1, <2>2 DEF AnswerFresh
  <1>10. StoredPending'
    BY <1>1, <1>4, <1>5 DEF StoredPending, AnswerFresh
  <1> QED
    BY <1>7, <1>8, <1>9, <1>10 DEF LensIInv

LEMMA StoreLoginIInv ==
    ASSUME LensIInv, NEW c \in Context, StoreLogin(c) PROVE LensIInv'
  BY StoreAnswer DEF StoreLogin, At

LEMMA StoreRenewedIInv ==
    ASSUME LensIInv, NEW c \in Context, StoreRenewed(c) PROVE LensIInv'
  BY StoreAnswer DEF StoreRenewed, RenewedStorage, At

\* The storage holds no token.
LEMMA NothingStored ==
    ASSUME LensIInv, UNCHANGED <<issued, late, died>>, lensOps' \in Nat,
           NEW name \in Account \cup {Absent},
           storage' = [access |-> Absent, refresh |-> Absent, username |-> name],
           \/ call' = call
           \/ \E c \in Context : Goes(c, NoCall)
    PROVE  LensIInv'
  <1>1. /\ storage' \in [access : Account \cup {Absent}, refresh : LensToken \cup {Absent},
                         username : Account \cup {Absent}]
        /\ storage'.refresh = Absent
    OBVIOUS
  <1>2. IssuedSound' /\ StorageSound' /\ StoredPending'
    BY <1>1 DEF LensIInv, IssuedSound, StorageSound, StoredPending
  <1>3. CASE call' = call
    <2>1. AnswersToCome'
      BY <1>1, <1>3, LensAssumption DEF LensIInv, AnswersToCome, AnswerFresh, IssuedSound
    <2> QED
      BY <1>2, <1>3, <2>1 DEF LensIInv, CallsSound, WaitsSound
  <1>4. ASSUME NEW c \in Context, Goes(c, NoCall) PROVE LensIInv'
    <2>1. /\ call' \in [Context -> CallState]
          /\ call'[c].at = "idle" /\ call'[c].token = Absent /\ call'[c].next = Absent
          /\ \A d \in Context : d # c => call'[d] = call[d]
      BY <1>4, CallGoes DEF LensIInv, CallStep, NoCall
    <2>2. CallsSound'
      BY <2>1 DEF LensIInv, CallsSound, WaitsSound
    <2>3. AnswersToCome'
      <3> SUFFICES ASSUME NEW d \in Context, call'[d].at \in {"login", "renewed"}
                   PROVE  AnswerFresh(d)'
        BY DEF AnswersToCome, AnswerFresh
      <3>1. d # c /\ call'[d] = call[d] /\ AnswerFresh(d)
        BY <2>1 DEF LensIInv, AnswersToCome
      <3>2. call[d].next \in DOMAIN issued /\ call[d].next # Absent
        BY <3>1, LensAssumption DEF AnswerFresh, LensIInv, IssuedSound
      <3> QED
        BY <1>1, <2>1, <3>1, <3>2 DEF AnswerFresh
    <2> QED
      BY <1>2, <2>2, <2>3 DEF LensIInv
  <1> QED
    BY <1>3, <1>4

LEMMA ForgetTokensIInv ==
    ASSUME LensIInv, NEW c \in Context, ForgetTokens(c) PROVE LensIInv'
  BY NothingStored DEF ForgetTokens, Forgotten, LensIInv

LEMMA SignOutIInv == ASSUME LensIInv, SignOutLens PROVE LensIInv'
  BY NothingStored, OpNat DEF SignOutLens, Forgotten

LEMMA PopupForgetsIInv == ASSUME LensIInv, PopupForgets PROVE LensIInv'
  <1>1. storage.username \in Account \cup {Absent}
    BY DEF LensIInv, StorageSound
  <1> QED
    BY <1>1, NothingStored, OpNat DEF PopupForgets

\* LensIInv is inductive.
LEMMA NextLensIInv == LensIInv /\ [LensNext]_lensVars => LensIInv'
  <1> SUFFICES ASSUME LensIInv, [LensNext]_lensVars PROVE LensIInv'
    OBVIOUS
  <1>1. CASE UNCHANGED lensVars
    BY <1>1 DEF lensVars, LensIInv, IssuedSound, StorageSound, CallsSound, WaitsSound,
       AnswersToCome, AnswerFresh, StoredPending, Pending
  <1>2. CASE LensNext
    BY <1>2, SignOutIInv, PopupForgetsIInv, StoreLoginIInv, CloseContextIInv, CallRefusedIInv,
       TakeTokenIInv, FindIssuedIInv, SpendTokenIInv, RenewTokenIInv, RefreshFailsIInv,
       StoreRenewedIInv, ForgetTokensIInv, SendLoginIInv, LateSpendIInv, LateRenewIInv
       DEF LensNext
  <1> QED
    BY <1>1, <1>2

\* The invariant of the storage, the pages' calls and the answers on their way.
THEOREM SpecLensIInv == LensSpec => []LensIInv
  <1> QED
    BY InitLensIInv, NextLensIInv, PTL DEF LensSpec

\* The types of the variables are invariant, and what is stored together is of
\* one account.
THEOREM LensTypesCorrect == LensSpec => []LensTypeOK
  <1>1. LensIInv => LensTypeOK
    BY DEF LensIInv, IssuedSound, StorageSound, CallsSound, WaitsSound, CallState, CallStep,
       LensTypeOK
  <1> QED
    BY <1>1, SpecLensIInv, PTL

\* The storage stays on a spent token only while a page that sent it is still to
\* replace or forget it, or where that page was closed.
THEOREM StoredTokensAreLive == LensSpec => []StoredTokenIsLive
  <1>1. LensIInv => StoredTokenIsLive
    BY DEF LensIInv, StoredPending, Pending, StoredTokenIsLive
  <1> QED
    BY <1>1, SpecLensIInv, PTL
=============================================================================
