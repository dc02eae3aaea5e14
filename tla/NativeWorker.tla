---------------------------- MODULE NativeWorker ----------------------------
(***************************************************************************)
(* One native worker: a Sandbox, its workload Pod and its supervisor Pod.  *)
(* The broker records their UIDs in the task's journal when it observes    *)
(* them (openshell_kubernetes_observer.py), executions are sent into the   *)
(* workload Pod (openshell_worker_entry.py, openshell_worker_execution.py) *)
(* and the three are retired one by one (openshell_kubernetes_retirement.  *)
(* py).  The cluster, which removes, changes and recreates resources by    *)
(* itself, is external.                                                    *)
(***************************************************************************)
EXTENDS Naturals, Sequences, FiniteSets

CONSTANTS
  Resources,   \* _resources, in its order: "sandbox", "pod", "supervisor"
  Envelopes,   \* executions sent for the one binding, replays among them
  MaxUid,      \* bound on the resources made under one name
  MaxRemade,   \* bound on the resources made again in all
  MaxVersion   \* bound on the changes of one resource

ASSUME WorkerConstants ==
  /\ Resources \in Seq(STRING)
  /\ {"sandbox", "pod"} \subseteq {Resources[i] : i \in 1..Len(Resources)}
  /\ MaxUid \in Nat \ {0} /\ MaxVersion \in Nat \ {0}

VARIABLES
  object,      \* the three resources in the cluster
  made,        \* the latest UID given out for each
  identity,    \* the journal's nativeResources: a UID for each
  stopping,    \* the journal's phase is stop-reserved, fenced and revoked
  deletes,     \* nativeDeleteOperations, in memory
  saved,       \* and in the journal's file
  asking,      \* the observation or retirement under way
  saw,         \* what it read
  underWay,    \* DELETEs sent and not seen by the cluster
  submitted,   \* how often a DELETE was sent for each
  removed,     \* UIDs that a DELETE of the broker took effect on
  receipt,     \* a receipt resourcesAbsent was given
  entry,       \* the worker process of each envelope
  file,        \* the execution's reservation in the Pod
  group,       \* envelopes whose process group lives
  launched     \* envelopes for which a client was started

workerVars == <<object, made, identity, stopping, deletes, saved, asking, saw,
                underWay, submitted, removed, receipt, entry, file, group,
                launched>>
clusterVars == <<object, made, underWay, removed>>
brokerVars == <<identity, stopping, deletes, saved, asking, saw, submitted,
                receipt>>
entryVars == <<entry, file, group, launched>>

Size == Len(Resources)
Natives == {Resources[i] : i \in 1..Size}
Absent == [uid |-> 0]
Object == [uid : 1..MaxUid, version : 1..MaxVersion, owner : 1..MaxUid,
           deleting : BOOLEAN]
Unobserved == [k \in Natives |-> 0]
Resting == <<"idle", 0>>
Blank == [k \in Natives |-> Absent]
Positions == {Resting, <<"pods", 0>>}
               \cup ({"snapshot", "delete", "answer", "verify"} \X (1..Size + 2))

WorkerTypeOK ==
  /\ object \in [Natives -> {Absent} \cup Object] /\ made \in [Natives -> 1..MaxUid]
  /\ identity \in [Natives -> 0..MaxUid] /\ stopping \in BOOLEAN
  /\ deletes \in [Natives -> {"none", "reserved", "accepted"}]
  /\ saved \in [Natives -> {"none", "reserved", "accepted"}]
  /\ asking \in Positions /\ saw \in [Natives -> {Absent} \cup Object]
  /\ underWay \subseteq [kind : Natives, uid : 1..MaxUid, version : 1..MaxVersion]
  /\ submitted \in [Natives -> Nat] /\ receipt \in BOOLEAN
  /\ removed \subseteq Natives \X (1..MaxUid)
  /\ entry \in [Envelopes -> {"none", "read", "reserved", "running", "fencing",
                              "ended", "killed"}]
  /\ file \in BOOLEAN /\ group \subseteq Envelopes /\ launched \subseteq Envelopes

New(uid, owner) == [uid |-> uid, version |-> 1, owner |-> owner, deleting |-> FALSE]

WorkerInit ==
  /\ object = [k \in Natives |-> New(1, 1)] /\ made = [k \in Natives |-> 1]
  /\ identity = Unobserved /\ stopping = FALSE
  /\ deletes = [k \in Natives |-> "none"] /\ saved = deletes
  /\ asking = Resting /\ saw = Blank
  /\ underWay = {} /\ submitted = [k \in Natives |-> 0] /\ removed = {} /\ receipt = FALSE
  /\ entry = [e \in Envelopes |-> "none"]
  /\ file = FALSE /\ group = {} /\ launched = {}

(* Returned, or given up as a request failed, timed out or found what it   *)
(* must not.                                                               *)
Ends == asking' = Resting /\ saw' = Blank

(* _metadata: present, and not being deleted.                              *)
Usable(o) == o # Absent /\ ~o.deleting
(* _owner: a Pod of this very Sandbox, not of one that had its name.       *)
OwnedBy(sandbox, pod) == pod.owner = sandbox.uid

Verified(sandbox, o) ==
  /\ Usable(sandbox)
  /\ \A k \in Natives \ {"sandbox"} : Usable(o[k]) /\ OwnedBy(sandbox, o[k])

ObserveSandbox ==
  /\ asking = Resting /\ ~stopping /\ object["sandbox"] # Absent
  /\ asking' = <<"pods", 0>> /\ saw' = [saw EXCEPT !["sandbox"] = object["sandbox"]]
  /\ UNCHANGED <<clusterVars, identity, stopping, deletes, saved, submitted,
                 receipt, entryVars>>

(* The second list, the verification and the journal.  A later observation *)
(* must find the same UIDs; anything else leaves the journal alone.        *)
ObservePods ==
  LET found == [object EXCEPT !["sandbox"] = saw["sandbox"]]
      uids == [k \in Natives |-> found[k].uid] IN
  /\ asking = <<"pods", 0>> /\ Ends
  /\ identity' = IF Verified(saw["sandbox"], object) /\ identity \in {Unobserved, uids}
                 THEN uids ELSE identity
  /\ UNCHANGED <<clusterVars, stopping, deletes, saved, submitted, receipt,
                 entryVars>>

(* The task's binding reserves the stop (OpenShellBinding).                *)
StopReserved ==
  /\ asking = Resting /\ identity # Unobserved /\ ~stopping /\ stopping' = TRUE
  /\ UNCHANGED <<clusterVars, identity, deletes, saved, asking, saw, submitted,
                 receipt, entryVars>>

(* retire_exact, or verify_resources_absent called by itself.              *)
Retire ==
  /\ asking = Resting /\ stopping
  /\ \E first \in {"snapshot", "verify"} : asking' = <<first, 1>>
  /\ UNCHANGED <<clusterVars, identity, stopping, deletes, saved, saw,
                 submitted, receipt, entryVars>>

Of(position) == Resources[position]
Replaced(k) == object[k] # Absent /\ object[k].uid # identity[k]

Snapshot(k) ==
  /\ asking[1] = "snapshot" /\ k = Of(asking[2])
  /\ \/ Ends
     \/ /\ ~Replaced(k) /\ saw' = [saw EXCEPT ![k] = object[k]]
        /\ asking' = IF asking[2] = Size THEN <<"delete", 1>>
                                         ELSE <<"snapshot", asking[2] + 1>>
  /\ UNCHANGED <<clusterVars, identity, stopping, deletes, saved, submitted,
                 receipt, entryVars>>

AfterDelete ==
  \/ asking[2] < Size /\ asking' = <<"delete", asking[2] + 1>> /\ UNCHANGED saw
  \/ asking[2] = Size /\ asking' = <<"verify", 1>> /\ saw' = Blank

SkipAbsent(k) ==
  /\ asking[1] = "delete" /\ k = Of(asking[2]) /\ saw[k] = Absent
  /\ AfterDelete
  /\ UNCHANGED <<clusterVars, identity, stopping, deletes, saved, submitted,
                 receipt, entryVars>>

NoRetry(k) ==
  /\ asking[1] = "delete" /\ k = Of(asking[2]) /\ saw[k] # Absent /\ deletes[k] # "none"
  /\ Ends
  /\ UNCHANGED <<clusterVars, identity, stopping, deletes, saved, submitted,
                 receipt, entryVars>>

Delete(k) == [kind |-> k, uid |-> saw[k].uid, version |-> saw[k].version]

(* Mutant: only an accepted DELETE counts as one that was submitted.       *)
MutantReserveDelete(k) ==
  /\ asking[1] = "delete" /\ k = Of(asking[2])
  /\ saw[k] # Absent /\ deletes[k] # "accepted"
  /\ deletes' = [deletes EXCEPT ![k] = "reserved"]
  /\ \/ saved' = deletes' /\ asking' = <<"answer", asking[2]>>
        /\ UNCHANGED saw
        /\ submitted' = [submitted EXCEPT ![k] = @ + 1]
        /\ underWay' = underWay \cup {Delete(k)}
     \/ Ends /\ UNCHANGED <<saved, submitted, underWay>>
  /\ UNCHANGED <<object, made, removed, identity, stopping, receipt,
                 entryVars>>

(* The journal is saved before the request goes out; where saving fails,   *)
(* memory alone knows of it.                                               *)
ReserveDelete(k) ==
  /\ asking[1] = "delete" /\ k = Of(asking[2])
  /\ saw[k] # Absent /\ deletes[k] = "none"
  /\ deletes' = [deletes EXCEPT ![k] = "reserved"]
  /\ \/ saved' = deletes' /\ asking' = <<"answer", asking[2]>>
        /\ UNCHANGED saw
        /\ submitted' = [submitted EXCEPT ![k] = @ + 1]
        /\ underWay' = underWay \cup {Delete(k)}
     \/ Ends /\ UNCHANGED <<saved, submitted, underWay>>
  /\ UNCHANGED <<object, made, removed, identity, stopping, receipt,
                 entryVars>>

(* The cluster's side of a DELETE with both preconditions.                 *)
Applies(d) == object[d.kind] # Absent /\ object[d.kind].uid = d.uid
              /\ object[d.kind].version = d.version
Deleting(o) == [o EXCEPT !.deleting = TRUE, !.version = IF @ < MaxVersion THEN @ + 1 ELSE @]

ClusterDeletes(d) ==
  /\ d \in underWay /\ underWay' = underWay \ {d}
  /\ object' = IF Applies(d) THEN [object EXCEPT ![d.kind] = Deleting(@)] ELSE object
  /\ removed' = IF Applies(d) THEN removed \cup {<<d.kind, d.uid>>} ELSE removed
  /\ UNCHANGED <<made, brokerVars, entryVars>>

(* The answer: accepted, or refused, lost or late.                         *)
DeleteAnswered(k) ==
  /\ asking[1] = "answer" /\ k = Of(asking[2])
  /\ \/ /\ <<k, identity[k]>> \in removed
        /\ deletes' = [deletes EXCEPT ![k] = "accepted"]
        /\ \/ saved' = deletes' /\ AfterDelete
           \/ UNCHANGED saved /\ Ends
     \/ Ends /\ UNCHANGED <<deletes, saved>>
  /\ UNCHANGED <<clusterVars, identity, stopping, submitted, receipt,
                 entryVars>>

(* Absence by name, one read after another, and then the two lists by the  *)
(* native ID.                                                              *)
VerifyAbsent(k) ==
  /\ asking[1] = "verify" /\ asking[2] <= Size /\ k = Of(asking[2])
  /\ \/ Ends
     \/ object[k] = Absent /\ asking' = <<"verify", asking[2] + 1>> /\ UNCHANGED saw
  /\ UNCHANGED <<clusterVars, identity, stopping, deletes, saved, submitted,
                 receipt, entryVars>>

VerifyLists ==
  /\ \/ /\ asking = <<"verify", Size + 1>>
        /\ \A k \in Natives \ {"sandbox"} : object[k] = Absent
        /\ asking' = <<"verify", Size + 2>> /\ UNCHANGED <<receipt, saw>>
     \/ /\ asking = <<"verify", Size + 2>> /\ object["sandbox"] = Absent
        /\ Ends /\ receipt' = TRUE
     \/ asking \in {"verify"} \X {Size + 1, Size + 2} /\ Ends /\ UNCHANGED receipt
  /\ UNCHANGED <<clusterVars, identity, stopping, deletes, saved, submitted,
                 entryVars>>

BrokerRestart ==
  /\ Ends /\ deletes' = saved
  /\ UNCHANGED <<clusterVars, identity, stopping, saved, submitted, receipt,
                 entryVars>>

(* The cluster: a status changes, a deletion finishes or begins with that  *)
(* of the owner, a resource is made again under its name.                  *)
StatusChanges(k) ==
  /\ object[k] # Absent /\ object[k].version < MaxVersion
  /\ saw[k] = object[k] \/ \E d \in underWay : d.kind = k   \* someone can notice
  /\ object' = [object EXCEPT ![k].version = @ + 1]
  /\ UNCHANGED <<made, underWay, removed, brokerVars, entryVars>>

OwnerLives(k) ==
  LET sandbox == object["sandbox"] IN
  sandbox # Absent /\ ~sandbox.deleting /\ sandbox.uid = object[k].owner

Collected(k) ==
  /\ k # "sandbox" /\ object[k] # Absent /\ ~object[k].deleting /\ ~OwnerLives(k)
  /\ object' = [object EXCEPT ![k] = Deleting(@)]
  /\ UNCHANGED <<made, underWay, removed, brokerVars, entryVars>>

InPod(e) == entry[e] \in {"read", "reserved", "running", "fencing"}

(* Whatever runs in a Pod ends with it.                                    *)
Gone(k) ==
  /\ object[k] # Absent
  /\ object' = [object EXCEPT ![k] = Absent]
  /\ IF k = "pod"
     THEN /\ entry' = [e \in Envelopes |-> IF InPod(e) THEN "killed" ELSE entry[e]]
          /\ group' = {}
     ELSE UNCHANGED <<entry, group>>
  /\ UNCHANGED <<made, underWay, removed, brokerVars, file, launched>>

Remakes == Cardinality({p \in Natives \X (2..MaxUid) : p[2] <= made[p[1]]})

Remade(k) ==
  LET uid == made[k] + 1 IN
  /\ object[k] = Absent /\ made[k] < MaxUid /\ Remakes < MaxRemade
  /\ made' = [made EXCEPT ![k] = uid]
  /\ \/ k = "sandbox" /\ object' = [object EXCEPT ![k] = New(uid, uid)]
     \/ /\ k # "sandbox" /\ object["sandbox"] # Absent /\ ~object["sandbox"].deleting
        /\ object' = [object EXCEPT ![k] = New(uid, object["sandbox"].uid)]
  /\ UNCHANGED <<underWay, removed, brokerVars, entryVars>>

-----------------------------------------------------------------------------
(* An envelope is for the Pod that the journal's observation names.        *)
ForThisPod == object["pod"].uid = identity["pod"]

(* An entry in any other Pod ends.  So does one that finds its envelope    *)
(* expired or not its own, or is asked to stop.                            *)
EntryReads(e) ==
  /\ entry[e] = "none" /\ identity # Unobserved /\ object["pod"] # Absent
  /\ \/ entry' = [entry EXCEPT ![e] = "ended"]
     \/ ForThisPod /\ entry' = [entry EXCEPT ![e] = "read"]
  /\ UNCHANGED <<clusterVars, brokerVars, file, group, launched>>

(* One reservation for the binding, whichever operation comes.             *)
ReserveExecution(e) ==
  /\ entry[e] = "read"
  /\ entry' = [entry EXCEPT ![e] = IF file THEN "ended" ELSE "reserved"]
  /\ file' = TRUE
  /\ UNCHANGED <<clusterVars, brokerVars, group, launched>>

(* Expired, or asked to stop, before the launch; the reservation stays.    *)
LaunchClient(e) ==
  /\ entry[e] = "reserved"
  /\ \/ entry' = [entry EXCEPT ![e] = "ended"] /\ UNCHANGED <<group, launched>>
     \/ /\ entry' = [entry EXCEPT ![e] = "running"]
        /\ group' = group \cup {e} /\ launched' = launched \cup {e}
  /\ UNCHANGED <<clusterVars, brokerVars, file>>

(* The client ended by itself, its tools may live on; or expiry, or a      *)
(* signal to the entry.                                                    *)
WatchClient(e) ==
  /\ entry[e] = "running" /\ entry' = [entry EXCEPT ![e] = "fencing"]
  /\ group' \in {group, group \ {e}}
  /\ UNCHANGED <<clusterVars, brokerVars, file, launched>>

Fence(e) ==
  /\ entry[e] = "fencing" /\ entry' = [entry EXCEPT ![e] = "ended"]
  /\ group' = group \ {e}
  /\ UNCHANGED <<clusterVars, brokerVars, file, launched>>

(* The entry alone is killed; its group is not.                            *)
EntryKilled(e) ==
  /\ InPod(e) /\ entry' = [entry EXCEPT ![e] = "killed"]
  /\ UNCHANGED <<clusterVars, brokerVars, file, group, launched>>

WorkerNext ==
  \/ ObserveSandbox \/ ObservePods \/ StopReserved \/ Retire \/ VerifyLists
  \/ BrokerRestart
  \/ \E k \in Natives :
       \/ Snapshot(k) \/ SkipAbsent(k) \/ NoRetry(k) \/ ReserveDelete(k)
       \/ DeleteAnswered(k) \/ VerifyAbsent(k)
       \/ StatusChanges(k) \/ Collected(k) \/ Gone(k) \/ Remade(k)
  \/ \E d \in underWay : ClusterDeletes(d)
  \/ \E e \in Envelopes :
       \/ EntryReads(e) \/ ReserveExecution(e) \/ LaunchClient(e) \/ WatchClient(e)
       \/ Fence(e) \/ EntryKilled(e)

WorkerSpec == WorkerInit /\ [][WorkerNext]_workerVars

-----------------------------------------------------------------------------
(* Whatever restarts, times out or is replayed: no DELETE is sent twice,   *)
(* none takes effect on a resource made since under the same name, the     *)
(* receipt of absence is given over no recorded resource, and the binding  *)
(* starts one client, of whose group nothing outlives an entry that        *)
(* returned.                                                               *)
ActsOnce ==
  /\ \A k \in Natives : submitted[k] <= 1
  /\ \A d \in removed : d[2] = identity[d[1]]
  /\ receipt => \A k \in Natives : object[k] = Absent \/ object[k].uid # identity[k]
  /\ Cardinality(launched) <= 1
  /\ \A e \in Envelopes : entry[e] = "ended" => e \notin group
=============================================================================
