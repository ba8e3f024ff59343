---------------------------- MODULE SessionFamily ----------------------------
(***************************************************************************)
(* What the refresh tokens of a home node promise, without the statements  *)
(* and the browser that bring it about: tokens form families that begin    *)
(* with a login, and a token is spent before it gets a successor.          *)
(***************************************************************************)
CONSTANTS Token, User, NoParent

VARIABLE family   \* the owner, the parent and the state of each token issued

FamilyInit == family = [k \in {} |-> NoParent]

Issue(k, u, parent) ==
    /\ k \notin DOMAIN family
    /\ family' = [j \in DOMAIN family \cup {k} |->
                    IF j = k THEN [owner |-> u, parent |-> parent, spent |-> FALSE]
                    ELSE family[j]]

OpenFamily(k, u) == Issue(k, u, NoParent)

Renew(j, k) ==
    /\ family[j].spent
    /\ Issue(k, family[j].owner, j)

Spend(k) == family' = [family EXCEPT ![k].spent = TRUE]

FamilyNext ==
    \/ \E k \in Token, u \in User : OpenFamily(k, u)
    \/ \E j \in DOMAIN family, k \in Token : Renew(j, k)
    \/ \E k \in DOMAIN family : Spend(k)

FamilySpec == FamilyInit /\ [][FamilyNext]_family
=============================================================================
