---------------------------- MODULE ClientsAndPeers ----------------------------
(***************************************************************************)
(* What clients and nodes keep of one another, side by side: a behaviour   *)
(* is one of the component chosen at the start, the others stay where they *)
(* begin.                                                                  *)
(***************************************************************************)
EXTENDS ProfileSync, PeerTables, RefreshSession, AuditWizard, LensSession,
        ClientCache, PlaceSearch, LensCards

VARIABLE part   \* the component that moves

partiesVars == <<part, profileVars, peerVars, vars, auditVars, lensVars, cacheVars,
                 searchVars, cardVars>>

PartiesInit ==
    /\ part \in {"profile", "peers", "sessions", "wizard", "lens", "cache", "search", "cards"}
    /\ ProfileInit /\ PeerInit /\ Init /\ LensInit /\ CardInit
    /\ SearchInit /\ (part # "search" => homeNode = EnvNode)
    /\ AuditInit /\ (part # "wizard" => loaded = Empty)
    /\ CacheInit /\ (part # "cache" => client = "lens")

PartiesNext ==
    /\ UNCHANGED part
    /\ \/ /\ part = "profile" /\ ProfileNext
          /\ UNCHANGED <<peerVars, vars, auditVars, lensVars, cacheVars, searchVars, cardVars>>
       \/ /\ part = "peers" /\ PeerNext
          /\ UNCHANGED <<profileVars, vars, auditVars, lensVars, cacheVars, searchVars, cardVars>>
       \/ /\ part = "sessions" /\ Next
          /\ UNCHANGED <<profileVars, peerVars, auditVars, lensVars, cacheVars, searchVars, cardVars>>
       \/ /\ part = "wizard" /\ AuditNext
          /\ UNCHANGED <<profileVars, peerVars, vars, lensVars, cacheVars, searchVars, cardVars>>
       \/ /\ part = "lens" /\ LensNext
          /\ UNCHANGED <<profileVars, peerVars, vars, auditVars, cacheVars, searchVars, cardVars>>
       \/ /\ part = "cache" /\ CacheNext
          /\ UNCHANGED <<profileVars, peerVars, vars, auditVars, lensVars, searchVars, cardVars>>
       \/ /\ part = "search" /\ SearchNext
          /\ UNCHANGED <<profileVars, peerVars, vars, auditVars, lensVars, cacheVars, cardVars>>
       \/ /\ part = "cards" /\ CardNext
          /\ UNCHANGED <<profileVars, peerVars, vars, auditVars, lensVars, cacheVars, searchVars>>

PartiesSpec == PartiesInit /\ [][PartiesNext]_partiesVars

-----------------------------------------------------------------------------
\* The types of the variables of all components.
ClientsTypeOK ==
    /\ ProfileTypeOK
    /\ PeerTypeOK
    /\ TypeOK
    /\ WizardTypeOK
    /\ LensTypeOK
    /\ CacheTypeOK
    /\ SearchTypeOK
    /\ CardTypeOK
===============================================================================
