------------------------------ MODULE Services ------------------------------
(***************************************************************************)
(* Managed services of one environment.  The gateway                       *)
(* (scripts/auth_proxy.js) keeps the wishes of the administrator and its   *)
(* own permission in config.json, each change one synchronous step that    *)
(* replaces the file; the supervisor (container/app-supervisor.py) in the  *)
(* environment polls the file and starts and stops processes, from what it *)
(* read at the start of the round.                                         *)
(***************************************************************************)
EXTENDS Naturals, FiniteSets

CONSTANTS
  Names,          \* services, four at most
  MaxGeneration   \* bound on the generation of one definition

ASSUME ServicesConstants == MaxGeneration \in Nat

VARIABLES
  access,   \* servicesAllowed: account enabled, internet approved, or target registered
  config,   \* config.json
  usable,   \* services whose folder and script are there
  round,    \* where the supervisor's round is
  read,     \* config.json as read in this round
  child     \* its processes

serviceVars == <<access, config, usable, round, read, child>>

NoService == [generation |-> 0]
NoChild == [generation |-> 0]
Definition == [generation : 1..MaxGeneration, enabled : BOOLEAN]
Config == [allowed : BOOLEAN, services : [Names -> {NoService} \cup Definition]]
Nothing == [allowed |-> FALSE, services |-> [n \in Names |-> NoService]]
Child == [generation : 1..MaxGeneration, alive : BOOLEAN]

ServicesTypeOK ==
  /\ access \in BOOLEAN
  /\ config \in Config /\ read \in Config
  /\ usable \subseteq Names
  /\ round \in {"down", "asleep", "stopping", "starting"}
  /\ child \in [Names -> {NoChild} \cup Child]

ServicesInit ==
  /\ access = TRUE
  /\ config = [Nothing EXCEPT !.allowed = TRUE]
  /\ usable = Names
  /\ round = "down" /\ read = Nothing
  /\ child = [n \in Names |-> NoChild]

Defined(c, n) == c.services[n] # NoService
Wanted(c, n) == c.allowed /\ Defined(c, n) /\ c.services[n].enabled
Runs(n) == child[n] # NoChild /\ child[n].generation = config.services[n].generation

AccessChanges ==
  /\ access' = ~access
  /\ UNCHANGED <<config, usable, round, read, child>>

(* A user moves the folder of a service away, or back.                     *)
FolderChanges(n) ==
  /\ usable' = IF n \in usable THEN usable \ {n} ELSE usable \cup {n}
  /\ UNCHANGED <<access, config, round, read, child>>

Writes(n, definition) ==
  config' = [allowed |-> access, services |-> [config.services EXCEPT ![n] = definition]]

(* Save keeps whether it is enabled.  Start leaves an enabled one as it    *)
(* is; start, restart and stop otherwise make a new generation.            *)
ServiceChange(n, action) ==
  LET old == config.services[n] IN
  /\ action # "save" => Defined(config, n)
  /\ CASE action = "save" ->
            /\ old.generation < MaxGeneration
            /\ Writes(n, [generation |-> old.generation + 1,
                          enabled |-> Defined(config, n) /\ old.enabled])
       [] action = "delete" -> Writes(n, NoService)
       [] action = "start" /\ old.enabled -> Writes(n, old)
       [] OTHER ->
            /\ old.generation < MaxGeneration
            /\ Writes(n, [generation |-> old.generation + 1, enabled |-> action # "stop"])
  /\ UNCHANGED <<access, usable, round, read, child>>

(* Mutant: the timer only ever gives permission.                           *)
MutantReconcile ==
  /\ ~config.allowed /\ access
  /\ config' = [config EXCEPT !.allowed = TRUE]
  /\ UNCHANGED <<access, usable, round, read, child>>

(* The gateway's timer.  A registration that is gone counts as no access.  *)
Reconcile ==
  /\ config.allowed # access
  /\ config' = [config EXCEPT !.allowed = access]
  /\ UNCHANGED <<access, usable, round, read, child>>

(* A file that cannot be read, or one service that is not valid, counts as *)
(* no permission for all of them.                                          *)
ReadControl ==
  /\ round = "asleep" /\ round' = "stopping"
  /\ \/ /\ \A n \in Names : Defined(config, n) => n \in usable
        /\ read' = config
     \/ read' = Nothing
  /\ UNCHANGED <<access, config, usable, child>>

Differs(n) ==
  child[n] # NoChild /\ ( ~Wanted(read, n)
                          \/ child[n].generation # read.services[n].generation )

(* TERM, and KILL after five seconds; dead before the round goes on.       *)
StopChildren ==
  /\ round = "stopping" /\ round' = "starting"
  /\ child' = [n \in Names |-> IF Differs(n) THEN NoChild ELSE child[n]]
  /\ UNCHANGED <<access, config, usable, read>>

(* A process that ended by itself is taken off and waits for its backoff.  *)
Due(n) == Wanted(read, n) /\ child[n] = NoChild
Reaped == [n \in Names |-> IF child[n] # NoChild /\ ~child[n].alive
                           THEN NoChild ELSE child[n]]

(* Started are those of which backoff is over, the port free and the       *)
(* program there.                                                          *)
StartChildren(S) ==
  /\ round = "starting" /\ round' = "asleep"
  /\ S \subseteq {n \in usable : Due(n)}
  /\ child' = [n \in Names |->
       IF n \in S THEN [generation |-> read.services[n].generation, alive |-> TRUE]
                  ELSE Reaped[n]]
  /\ UNCHANGED <<access, config, usable, read>>

Dies(n) ==
  /\ child[n] # NoChild /\ child[n].alive
  /\ child' = [child EXCEPT ![n].alive = FALSE]
  /\ UNCHANGED <<access, config, usable, round, read>>

(* The environment's pod starts, or is replaced: all its processes are     *)
(* gone.                                                                   *)
SupervisorStart ==
  /\ round' = "asleep" /\ child' = [n \in Names |-> NoChild]
  /\ UNCHANGED <<access, config, usable, read>>

ServicesNext ==
  \/ AccessChanges \/ Reconcile \/ ReadControl \/ StopChildren \/ SupervisorStart
  \/ \E n \in Names :
       \/ FolderChanges(n) \/ Dies(n)
       \/ \E action \in {"save", "start", "restart", "stop", "delete"} :
            ServiceChange(n, action)
  \/ \E S \in SUBSET Names : StartChildren(S)

(* The gateway's timer and the supervisor's loop go on.  The control file  *)
(* can be read, and the port of a service that is due is found free, again *)
(* and again.                                                              *)
ServicesFairness ==
  /\ WF_serviceVars(Reconcile)
  /\ WF_serviceVars(ReadControl) /\ SF_serviceVars(ReadControl /\ read' = config)
  /\ WF_serviceVars(StopChildren)
  /\ WF_serviceVars(\E S \in SUBSET Names : StartChildren(S))
  /\ \A n \in Names :
       SF_serviceVars(\E S \in SUBSET Names : n \in S /\ StartChildren(S))

ServicesSpec == ServicesInit /\ [][ServicesNext]_serviceVars /\ ServicesFairness

-----------------------------------------------------------------------------
(* A service that stays enabled and permitted comes to run, in its latest  *)
(* generation, if all services are usable and the supervisor is there and  *)
(* not replaced over and over; where access stays denied everything is     *)
(* stopped.  From the administrator through the file, the gateway's timer  *)
(* and the supervisor's rounds.                                            *)
WishesAreCarriedOut ==
  \A n \in Names :
    /\ (/\ <>[](access /\ Wanted(config, n) /\ usable = Names)
        /\ <>(round # "down") /\ <>[][~SupervisorStart]_serviceVars) => []<>Runs(n)
    /\ <>[](~access) => <>[](child[n] = NoChild)
=============================================================================
