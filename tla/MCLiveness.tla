----------------------------- MODULE MCLiveness -----------------------------
(***************************************************************************)
(* What must come about in the long-context lane, for the managed services *)
(* and for the visits to applications, in one instance for TLC.  The parts *)
(* share no state: a behaviour is one of the part it begins with, and the  *)
(* others stay as they are.                                                *)
(***************************************************************************)
EXTENDS ContextLane, Services, Apps

VARIABLE part   \* which part runs

laneVars == vars

GatewayTypeOK == ServicesTypeOK /\ AppsTypeOK

PartsInit ==
  /\ part \in {"lane", "services", "apps"}
  /\ Init /\ ServicesInit /\ AppsInit

PartsNext ==
  /\ UNCHANGED part
  /\ \/ part = "lane" /\ Next /\ UNCHANGED <<serviceVars, appVars>>
     \/ part = "services" /\ ServicesNext /\ UNCHANGED <<laneVars, appVars>>
     \/ part = "apps" /\ AppsNext /\ UNCHANGED <<laneVars, serviceVars>>

\* Nothing that fairness asks for is enabled in the first state of a part.
PartsSpec ==
  /\ PartsInit /\ [][PartsNext]_<<laneVars, serviceVars, appVars, part>>
  /\ Fairness /\ ServicesFairness /\ AppsFairness
=============================================================================
