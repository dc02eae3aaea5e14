------------------------------ MODULE Packages ------------------------------
(***************************************************************************)
(* Self-service Python packages.  The gateway (scripts/package_portal.js)  *)
(* writes request folders and a projection of the accounts; the controller *)
(* (scripts/package_controller.py) goes through the folders in the order   *)
(* of their random names, one tick after the other, and starts a download  *)
(* Job and then an install Job for each; the Jobs                          *)
(* (container/package_task.py) share a staging volume per owner.           *)
(***************************************************************************)
EXTENDS Naturals, FiniteSets

CONSTANTS
  Requests,     \* folder names, as numbers
  Owners,
  ActiveLimit   \* requests in progress, 2 in the code

ASSUME PackageConstants == 
  Requests \subseteq Nat /\ IsFiniteSet(Requests) /\ ActiveLimit \in Nat

VARIABLES
  projected,  \* authorization.json, what the account of each owner allows
  fresh,      \* it is not older than thirty seconds
  creating,   \* folders the gateway is just writing, one or none
  owner,      \* request.json
  state,      \* public.json and how far the folder was written
  turn,       \* folders this tick still has to visit
  active,     \* requests in progress, as this tick counts them
  job,        \* the Jobs
  result,     \* their result files
  staged,     \* requests with a staging directory
  late        \* history: owners of a request that ended before its download Job

packageVars == <<projected, fresh, creating, owner, state, turn, active, job,
                 result, staged, late>>

NoOne == "none"
Levels == {"internet", "offline", "disabled"}
Phases == {"download", "install"}
Unwritten == {"empty", "half"}
InProgress == {"downloading", "installing"}
Ended == {"complete", "failed"}
Live == {"pending", "working", "deleted"}

PackagesTypeOK ==
  /\ projected \in [Owners -> Levels] /\ fresh \in BOOLEAN
  /\ creating \subseteq Requests /\ turn \subseteq Requests /\ staged \subseteq Requests
  /\ owner \in [Requests -> Owners \cup {NoOne}]
  /\ state \in [Requests -> {"none", "queued"} \cup Unwritten \cup InProgress \cup Ended]
  /\ active \in Nat
  /\ job \in [Requests -> [Phases -> {"none", "over"} \cup Live]]
  /\ result \in [Requests -> [Phases -> {"none", "ok", "failed"}]]
  /\ late \subseteq Owners

PackagesInit ==
  /\ projected = [o \in Owners |-> "internet"] /\ fresh = TRUE
  /\ creating = {}
  /\ owner = [r \in Requests |-> NoOne]
  /\ state = [r \in Requests |-> "none"]
  /\ turn = {} /\ active = 0
  /\ job = [r \in Requests |-> [p \in Phases |-> "none"]]
  /\ result = [r \in Requests |-> [p \in Phases |-> "none"]]
  /\ staged = {} /\ late = {}

gatewayVars == <<creating, owner>>
jobVars == <<job, result, staged>>
tickVars == <<turn, active, late>>
accessVars == <<projected, fresh>>

(* The gateway's timer, and every request of a browser; the accounts may   *)
(* have changed in any way.  The gateway may be down for half a minute.    *)
Project ==
  /\ projected' \in [Owners -> Levels] /\ fresh' = TRUE
  /\ UNCHANGED <<gatewayVars, state, tickVars, jobVars>>
Ages ==
  /\ fresh /\ fresh' = FALSE
  /\ UNCHANGED <<projected, gatewayVars, state, tickVars, jobVars>>

(* A folder without a readable request.json is nobody's; one without       *)
(* public.json counts as queued.                                           *)
Unfinished(o) == {r \in Requests : owner[r] = o /\ state[r] \notin Ended}

(* Folder, request.json and public.json are written one after the other;   *)
(* the controller may look in between.                                     *)
Create(r, o) ==
  /\ creating = {} /\ state[r] = "none"
  /\ fresh /\ projected[o] = "internet" /\ Unfinished(o) = {}
  /\ creating' = {r} /\ state' = [state EXCEPT ![r] = "empty"]
  /\ UNCHANGED <<accessVars, owner, tickVars, jobVars>>
WriteRequest(r, o) ==
  /\ r \in creating /\ state[r] = "empty"
  /\ Unfinished(o) = {}
  /\ owner' = [owner EXCEPT ![r] = o] /\ state' = [state EXCEPT ![r] = "half"]
  /\ UNCHANGED <<accessVars, creating, tickVars, jobVars>>
WritePublic(r) ==
  /\ r \in creating /\ state[r] = "half"
  /\ creating' = {} /\ state' = [state EXCEPT ![r] = "queued"]
  /\ UNCHANGED <<accessVars, owner, tickVars, jobVars>>

(* The gateway dies or a write fails.  The folder stays as it is.          *)
CreateFails ==
  /\ creating # {} /\ creating' = {}
  /\ UNCHANGED <<accessVars, owner, state, tickVars, jobVars>>

(* One folder that is not complete ends every tick before it began.        *)
TickBegins ==
  /\ turn = {}
  /\ \A r \in Requests : state[r] \notin Unwritten
  /\ turn' = {r \in Requests : state[r] # "none"}
  /\ active' = Cardinality({r \in Requests : state[r] \in InProgress})
  /\ UNCHANGED <<accessVars, gatewayVars, state, late, jobVars>>

(* An error of the API or of a file that is not a ValueError; a restart.   *)
TickAborts ==
  /\ turn # {} /\ turn' = {} /\ active' = 0
  /\ UNCHANGED <<accessVars, gatewayVars, state, late, jobVars>>

Phase(r) == IF state[r] = "installing" THEN "install" ELSE "download"
Refused(r) == LET may == projected[owner[r]] IN
  ~fresh \/ may = "disabled" \/ (Phase(r) = "download" /\ may # "internet")

Becomes(r, s) ==
  /\ state' = [state EXCEPT ![r] = s]
  /\ late' = IF s \in Ended /\ job'[r]["download"] \in Live
             THEN late \cup {owner[r]} ELSE late
  /\ UNCHANGED <<result, staged>>

(* Both Jobs are deleted, and may go on for the grace period.              *)
Revokes(r) ==
  /\ Refused(r)
  /\ job' = [job EXCEPT ![r] = [p \in Phases |->
       IF @[p] \in Live THEN "deleted" ELSE @[p]]]
  /\ Becomes(r, "failed")

(* The route, the image or the mounts of the runtime, or the name of a     *)
(* Job, are not as expected: the Jobs that are there go on.                *)
Rejects(r) == ~Refused(r) /\ UNCHANGED job /\ Becomes(r, "failed")

(* The Job is there or made.  Its result counts, and without one that it   *)
(* failed.                                                                 *)
Proceeds(r) ==
  LET p == Phase(r)
      done == IF p = "download" THEN "installing" ELSE "complete" IN
  /\ ~Refused(r)
  /\ job' = [job EXCEPT ![r][p] = IF @ = "none" THEN "pending" ELSE @]
  /\ Becomes(r, CASE result[r][p] = "ok" -> done
                  [] result[r][p] = "failed" \/ job[r][p] = "over" -> "failed"
                  [] OTHER -> IF p = "download" THEN "downloading" ELSE "installing")

(* The Job was made, and the record could not be written.                  *)
MakesJobOnly(r) ==
  /\ ~Refused(r) /\ job[r][Phase(r)] = "none"
  /\ job' = [job EXCEPT ![r][Phase(r)] = "pending"]
  /\ UNCHANGED <<state, late, result, staged>>

Visit(r) ==
  /\ r \in turn /\ \A q \in turn : r <= q
  /\ LET waits == ~Refused(r) /\ state[r] = "queued" /\ active >= ActiveLimit
         rest == turn' = turn \ {r}
         counts == active' = IF state[r] = "queued" THEN active + 1 ELSE active IN
     \/ /\ state[r] \in Ended \/ waits
        /\ rest /\ UNCHANGED <<active, state, late, jobVars>>
     \/ /\ state[r] \notin Ended /\ ~waits
        /\ \/ Revokes(r) /\ rest /\ UNCHANGED active
           \/ (Rejects(r) \/ Proceeds(r)) /\ rest /\ counts
           \/ MakesJobOnly(r) /\ turn' = {} /\ active' = 0
  /\ UNCHANGED <<accessVars, gatewayVars>>

Others(r) == {q \in Requests \ {r} : owner[q] = owner[r]}

(* The Job reclaims the other directories of its owner and makes its own.  *)
DownloadBegins(r) ==
  /\ job[r]["download"] \in {"pending", "deleted"} /\ result[r]["download"] = "none"
  /\ r \notin staged
  /\ staged' = (staged \ Others(r)) \cup {r}
  /\ job' = [job EXCEPT ![r]["download"] = IF @ = "pending" THEN "working" ELSE @]
  /\ UNCHANGED <<accessVars, gatewayVars, state, tickVars, result>>

(* Mutant: a download Job cleans up its directory when it ends.            *)
MutantJobEnds(r, p, outcome) ==
  /\ job[r][p] \in Live
  /\ outcome = "ok" => r \in staged
  /\ outcome = "ok" /\ p = "download" => job[r][p] # "pending"
  /\ job' = [job EXCEPT ![r][p] = "over"]
  /\ result' = [result EXCEPT ![r][p] = outcome]
  /\ staged' = IF p = "download" THEN staged \ {r} ELSE staged
  /\ UNCHANGED <<accessVars, gatewayVars, state, tickVars>>

(* Without its directory a phase fails.  It may fail for other reasons,    *)
(* and end without a result when it is killed or exceeds ten minutes.      *)
JobEnds(r, p, outcome) ==
  /\ job[r][p] \in Live
  /\ outcome = "ok" => r \in staged
  /\ outcome = "ok" /\ p = "download" => job[r][p] # "pending"
  /\ job' = [job EXCEPT ![r][p] = "over"]
  /\ result' = [result EXCEPT ![r][p] = outcome]
  /\ UNCHANGED <<accessVars, gatewayVars, state, tickVars, staged>>

PackagesNext ==
  \/ Project \/ Ages \/ CreateFails \/ TickBegins \/ TickAborts
  \/ \E r \in Requests :
       \/ \E o \in Owners : Create(r, o) \/ WriteRequest(r, o)
       \/ WritePublic(r) \/ Visit(r) \/ DownloadBegins(r)
       \/ \E p \in Phases, outcome \in {"none", "ok", "failed"} : JobEnds(r, p, outcome)

PackagesSpec == PackagesInit /\ [][PackagesNext]_packageVars

-----------------------------------------------------------------------------
(* A request that is to be installed has its wheels until its install Job  *)
(* ended, unless an earlier request of its owner ended before its download *)
(* Job did: that Job then takes the newer wheels for old ones.             *)
StagedUntilInstalled ==
  \A r \in Requests :
    state[r] = "installing" /\ job[r]["install"] # "over" =>
      r \in staged \/ owner[r] \in late
=============================================================================
