\* Two tabs of one browser refresh at the same time.
CONSTANTS
    Tab = {t1, t2}
    User = {alice, bob}
    Token = {k1, k2, k3}
    NoToken = NoToken
    NoSession = NoSession
    MaxRequests = 2
SPECIFICATION Spec
INVARIANTS
    SingleUse
\* The browser may stop asking, and the pool of tokens is finite.
CHECK_DEADLOCK FALSE
