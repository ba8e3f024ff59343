----------------------------- MODULE NodeServices -----------------------------
(***************************************************************************)
(* Components of one node that share no variable, side by side: a behaviour *)
(* is one of the component chosen at the start, the others stay where they  *)
(* begin.                                                                  *)
(***************************************************************************)
EXTENDS IngestJob, FactWriters, NodeData, CommunitySignals, PropertyIds

VARIABLE part   \* the component that moves

serviceVars == <<part, jobVars, writersVars, nodeVars, signalVars, propertyVars>>

ServicesInit ==
    /\ part \in {"jobs", "writers", "data", "signals", "properties"}
    /\ JobInit /\ WritersInit /\ SignalInit /\ PropertyInit
    /\ NodeInit /\ (part # "data" => bbox = NoBbox)

ServicesNext ==
    /\ UNCHANGED part
    /\ \/ /\ part = "jobs" /\ JobNext
          /\ UNCHANGED <<writersVars, nodeVars, signalVars, propertyVars>>
       \/ /\ part = "writers" /\ WritersNext
          /\ UNCHANGED <<jobVars, nodeVars, signalVars, propertyVars>>
       \/ /\ part = "data" /\ NodeNext
          /\ UNCHANGED <<jobVars, writersVars, signalVars, propertyVars>>
       \/ /\ part = "signals" /\ SignalNext
          /\ UNCHANGED <<jobVars, writersVars, nodeVars, propertyVars>>
       \/ /\ part = "properties" /\ PropertyNext
          /\ UNCHANGED <<jobVars, writersVars, nodeVars, signalVars>>

ServicesSpec == ServicesInit /\ [][ServicesNext]_serviceVars

-----------------------------------------------------------------------------
\* The types of the variables of all components.
ServicesTypeOK ==
    /\ JobTypeOK
    /\ WritersTypeOK
    /\ NodeDataTypeOK
    /\ SignalTypeOK
    /\ PropertyTypeOK
===============================================================================
