----------------------------- MODULE SignupPool -----------------------------
(***************************************************************************)
(* Preparing a pool of runtime pairs for new accounts, by an operator      *)
(* (src/scripts/prepare_signup_pool.py): credentials into Secrets, private *)
(* folders on the central share, claims, workloads.  It is meant to make   *)
(* only what is absent and empty, and there is nothing that keeps two      *)
(* operators from preparing the same pool, or one from being cut off       *)
(* anywhere and starting again; the Job that makes the folders has one     *)
(* name for all of them, and stays when its operator is cut off.           *)
(*                                                                         *)
(* A pair's folder stays for ever.  An operator may retire a pair by hand  *)
(* while nobody prepares the pool, as the acceptance tool does with the    *)
(* pairs that it has tried.                                                *)
(***************************************************************************)
EXTENDS Naturals, FiniteSets

CONSTANTS
  Pairs,        \* the pairs of the pool
  Operators,    \* who prepares it
  MaxRetired    \* pairs that are retired, a bound of the model

ASSUME PoolConstants == MaxRetired \in Nat

Environments == {"secure", "internet"}
Runtimes == Pairs \X Environments
(* One key for inference, and one for the harness of each environment.     *)
Credentials == Pairs \X (Environments \cup {"inference"})

VARIABLES
  secrets,      \* Secrets that are there
  folder,       \* what is in the pair's folder on the central share
  claims,       \* the storage claims of runtimes
  workloads,    \* the Deployments of runtimes
  initJob,      \* the Job that makes the folders
  looked,       \* the folders it has been through
  reached,      \* where each operator's run is
  lacks,        \* credentials it has still to provide
  created,      \* its Job was not there before
  retired       \* how many pairs were

poolVars == <<secrets, folder, claims, workloads, initJob, looked, reached,
              lacks, created, retired>>

PoolTypeOK ==
  /\ secrets \subseteq Credentials
  /\ folder \in [Pairs -> {"absent", "empty", "used"}]
  /\ claims \subseteq Runtimes /\ workloads \subseteq Runtimes
  /\ initJob \in {"none", "running", "complete", "failed"}
  /\ looked \subseteq Pairs
  /\ reached \in [Operators -> {"idle", "listed", "keys", "waiting",
                                "deleting", "documents"}]
  /\ lacks \in [Operators -> SUBSET Credentials]
  /\ created \in [Operators -> BOOLEAN]
  /\ retired \in 0..MaxRetired

PoolInit ==
  /\ secrets = {} /\ folder = [s \in Pairs |-> "absent"]
  /\ claims = {} /\ workloads = {}
  /\ initJob = "none" /\ looked = {}
  /\ reached = [o \in Operators |-> "idle"]
  /\ lacks = [o \in Operators |-> {}]
  /\ created = [o \in Operators |-> FALSE]
  /\ retired = 0

clusterVars == <<secrets, folder, claims, workloads, initJob, looked, retired>>

Reaches(o, s) == reached' = [reached EXCEPT ![o] = s]

(* Done, refused, or cut off: what is in the cluster stays.                *)
Concludes(o) ==
  /\ reached[o] # "idle" /\ Reaches(o, "idle")
  /\ lacks' = [lacks EXCEPT ![o] = {}]
  /\ created' = [created EXCEPT ![o] = FALSE]
  /\ UNCHANGED clusterVars

(* The templates are checked and the documents made from them.  A claim    *)
(* that exists is never reused, ...                                        *)
ListsClaims(o) ==
  /\ reached[o] = "idle" /\ claims = {}
  /\ Reaches(o, "listed")
  /\ UNCHANGED <<lacks, created, clusterVars>>

(* ... nor a workload overwritten.                                         *)
ListsWorkloads(o) ==
  /\ reached[o] = "listed" /\ workloads = {}
  /\ Reaches(o, "keys")
  /\ lacks' = [lacks EXCEPT ![o] = Credentials]
  /\ UNCHANGED <<created, clusterVars>>

Provides(o, credential) ==
  /\ credential \in lacks[o]
  /\ secrets' = secrets \cup {credential}
  /\ lacks' = [lacks EXCEPT ![o] = @ \ {credential}]
  /\ UNCHANGED <<folder, claims, workloads, initJob, looked, reached, created,
                 retired>>

(* A new key, tried out, takes the place of one that is there.             *)
ProvidesInference(o, s) ==
  reached[o] = "keys" /\ Provides(o, <<s, "inference">>)

(* A key is issued for a Secret that is not there.                         *)
ProvidesHarness(o, s, environment) ==
  /\ reached[o] = "keys" /\ <<s, "inference">> \notin lacks[o]
  /\ Provides(o, <<s, environment>>)

(* A Job of that name which is there stays as it is, or is refused when    *)
(* the image has changed.                                                  *)
AppliesJob(o) ==
  /\ reached[o] = "keys" /\ lacks[o] = {}
  /\ Reaches(o, "waiting")
  /\ created' = [created EXCEPT ![o] = initJob = "none"]
  /\ initJob' = IF initJob = "none" THEN "running" ELSE initJob
  /\ looked' = IF initJob = "none" THEN {} ELSE looked
  /\ UNCHANGED <<secrets, folder, claims, workloads, lacks, retired>>

(* Mutant: the Job is taken away before it is through.                     *)
MutantWaitsForJob(o) ==
  /\ reached[o] = "waiting" /\ initJob # "none"
  /\ Reaches(o, "deleting")
  /\ UNCHANGED <<lacks, created, clusterVars>>

WaitsForJob(o) ==
  /\ reached[o] = "waiting" /\ initJob = "complete"
  /\ Reaches(o, "deleting")
  /\ UNCHANGED <<lacks, created, clusterVars>>

DeletesJob(o) ==
  /\ reached[o] = "deleting" /\ initJob # "none" /\ initJob' = "none"
  /\ Reaches(o, "documents")
  /\ UNCHANGED <<secrets, folder, claims, workloads, looked, lacks, created,
                 retired>>

(* The list is applied document by document; what comes after one that     *)
(* fails is applied all the same, and what is there stays as it is.        *)
AppliesClaim(o, r) ==
  /\ reached[o] = "documents" /\ r \notin claims
  /\ claims' = claims \cup {r}
  /\ UNCHANGED <<secrets, folder, workloads, initJob, looked, reached, lacks,
                 created, retired>>

AppliesWorkload(o, r) ==
  /\ reached[o] = "documents" /\ r \notin workloads
  /\ workloads' = workloads \cup {r}
  /\ UNCHANGED <<secrets, folder, claims, initJob, looked, reached, lacks,
                 created, retired>>

-----------------------------------------------------------------------------
(* One that is not empty is refused, and ends the Job.                     *)
JobLooks(s) ==
  /\ initJob = "running" /\ s \notin looked
  /\ IF folder[s] = "used"
       THEN initJob' = "failed" /\ UNCHANGED <<looked, folder>>
       ELSE /\ looked' = looked \cup {s} /\ initJob' = initJob
            /\ folder' = [folder EXCEPT ![s] = "empty"]
  /\ UNCHANGED <<secrets, claims, workloads, reached, lacks, created, retired>>

(* It has three minutes, and one Pod.                                      *)
JobStops ==
  /\ initJob = "running"
  /\ initJob' \in {"failed"} \cup IF looked = Pairs THEN {"complete"} ELSE {}
  /\ UNCHANGED <<secrets, folder, claims, workloads, looked, reached, lacks,
                 created, retired>>

(* Somebody works in the runtime.                                          *)
Fills(s) ==
  /\ <<s, "secure">> \in workloads /\ folder[s] # "used"
  /\ folder' = [folder EXCEPT ![s] = "used"]
  /\ UNCHANGED <<secrets, claims, workloads, initJob, looked, reached, lacks,
                 created, retired>>

Retires(s) ==
  /\ \A o \in Operators : reached[o] = "idle"
  /\ \E e \in Environments : <<s, e>> \in workloads
  /\ retired < MaxRetired /\ retired' = retired + 1
  /\ workloads' = {r \in workloads : r[1] # s}
  /\ claims' = {r \in claims : r[1] # s}
  /\ UNCHANGED <<secrets, folder, initJob, looked, reached, lacks, created>>

PoolNext ==
  \/ \E o \in Operators :
       \/ ListsClaims(o) \/ ListsWorkloads(o)
       \/ \E s \in Pairs :
            \/ ProvidesInference(o, s)
            \/ \E e \in Environments : ProvidesHarness(o, s, e)
       \/ AppliesJob(o) \/ WaitsForJob(o) \/ DeletesJob(o)
       \/ \E r \in Runtimes : AppliesClaim(o, r) \/ AppliesWorkload(o, r)
       \/ Concludes(o)
  \/ \E s \in Pairs : JobLooks(s) \/ Fills(s) \/ Retires(s)
  \/ JobStops

PoolSpec == PoolInit /\ [][PoolNext]_poolVars

-----------------------------------------------------------------------------
(* What a runtime of pair s needs to come up.                              *)
Needs(r) == {<<r[1], "inference">>, r}

(* Nobody works in this folder but the pair it belongs to.                 *)
IsPrivate(s) == folder[s] = "used" => <<s, "secure">> \in workloads

(* However often the pool is prepared and wherever a run is cut off: a     *)
(* runtime that is there has its credentials and its folder, and where a   *)
(* run makes workloads after a Job of its own has looked, no new runtime   *)
(* finds the history of a retired one.  (A Job that was there before may   *)
(* have looked before the folder was used.)                                *)
PoolIsFresh ==
  /\ \A r \in workloads : Needs(r) \subseteq secrets /\ folder[r[1]] # "absent"
  /\ \A o \in Operators :
       reached[o] = "documents" /\ created[o] => \A s \in Pairs : IsPrivate(s)
=============================================================================
