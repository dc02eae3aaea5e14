-------------------------- MODULE OpenShellBinding --------------------------
(***************************************************************************)
(* OpenShell tasks of the broker: one or two stages, each on a worker of   *)
(* its own that is allocated, dispatched, revoked and stopped through the  *)
(* binding record in task.json (scripts/openshell_task_binding.py, with    *)
(* the transport of openshell_broker_transport.py), the typed requests of  *)
(* the task's owner, cancel, and the recovery of a restarted broker.       *)
(*                                                                         *)
(* The service's lock is held over the calls to the transport, so each     *)
(* operation is one step whose outcome the step chooses; a crash inside    *)
(* it leaves what its failure leaves.  run_task holds the lock only over   *)
(* its two critical sections: its other reads and writes of task.state are *)
(* steps of their own.  A save() that merely follows a step is part of it. *)
(***************************************************************************)
EXTENDS Naturals, FiniteSets

CONSTANTS
  Tasks,        \* task identities
  MaxCrashes    \* bound on broker restarts

ASSUME CrashBound == MaxCrashes \in Nat

VARIABLES
  state,      \* Task.state in memory
  disk,       \* the state in task.json
  handoff,    \* the request names a second stage
  stage,      \* execution_stage
  phase,      \* task.openshell: its phase, "none" without a record
  fenced,     \* its fence (revoked sets it for good)
  expired,    \* its expiresAt has passed
  run,        \* the thread in run_task
  canc,       \* a cancel that waits for the service's lock
  served,     \* task.execution_service is set
  cancelled,  \* a cancel of the task has reported success
  worker,     \* the worker of each stage of each task
  execs,      \* how often it was told to execute
  broker,     \* "up", "bare" of the service, in "boot", "failed"
  toRecover,
  crashes

record == <<phase, fenced, expired>>
outside == <<worker, execs>>
boot == <<broker, toRecover, crashes>>
vars == <<state, disk, handoff, stage, record, run, canc, served, cancelled,
          outside, boot>>

Terminal == {"completed", "failed", "cancelled"}
Busy == {"queued", "running", "handoff", "finalizing", "cancelling"}
States == Terminal \cup Busy \cup {"absent", "interrupted"}
Phases == {"none", "allocation-reserved", "bound", "expired",
           "dispatch-reserved", "running", "stop-reserved", "stopped"}
RunStates == {"none", "start", "restage", "bound", "stream", "exit",
              "drain", "revoke", "stop", "advance", "except", "interrupt", "finally", "done"}
Stages == {1, 2}
WorkerStates == {"none", "late", "alive", "gone"}

TypeOK ==
  /\ state \in [Tasks -> States]
  /\ disk \in [Tasks -> States]
  /\ handoff \in [Tasks -> BOOLEAN]
  /\ stage \in [Tasks -> Stages]
  /\ phase \in [Tasks -> Phases]
  /\ fenced \in [Tasks -> BOOLEAN]
  /\ expired \in [Tasks -> BOOLEAN]
  /\ run \in [Tasks -> RunStates]
  /\ canc \in [Tasks -> BOOLEAN]
  /\ served \in [Tasks -> BOOLEAN]
  /\ cancelled \in [Tasks -> BOOLEAN]
  /\ worker \in [Tasks \X Stages -> WorkerStates]
  /\ execs \in [Tasks \X Stages -> Nat]
  /\ broker \in {"up", "bare", "boot", "failed"}
  /\ toRecover \subseteq Tasks
  /\ crashes \in 0..MaxCrashes

Init ==
  /\ state = [t \in Tasks |-> "absent"]
  /\ disk = [t \in Tasks |-> "absent"]
  /\ handoff = [t \in Tasks |-> FALSE]
  /\ stage = [t \in Tasks |-> 1]
  /\ phase = [t \in Tasks |-> "none"]
  /\ fenced = [t \in Tasks |-> FALSE]
  /\ expired = [t \in Tasks |-> FALSE]
  /\ run = [t \in Tasks |-> "none"]
  /\ canc = [t \in Tasks |-> FALSE]
  /\ served = [t \in Tasks |-> FALSE]
  /\ cancelled = [t \in Tasks |-> FALSE]
  /\ worker = [w \in Tasks \X Stages |-> "none"]
  /\ execs = [w \in Tasks \X Stages |-> 0]
  /\ broker = "up"
  /\ toRecover = {}
  /\ crashes = 0

W(t) == <<t, stage[t]>>
SetState(t, s) == state' = [state EXCEPT ![t] = s]
SetPhase(t, p) == phase' = [phase EXCEPT ![t] = p]
SetFence(t, b) == fenced' = [fenced EXCEPT ![t] = b]
SetWorker(t, s) == worker' = [worker EXCEPT ![W(t)] = s]
Goto(t, pc) == run' = [run EXCEPT ![t] = pc]
Save(t) == disk' = [disk EXCEPT ![t] = state'[t]]

Up == broker = "up"
CancelSeen(t) == state[t] \in {"cancelled", "cancelling"}
-----------------------------------------------------------------------------
(* Registry.create with the backend openshell and a qualified service.     *)

Blocks(t) == state[t] \in Busy \/ phase[t] \notin {"none", "stopped"}

Create(t, h) ==
  /\ Up /\ state[t] = "absent"
  /\ \A u \in Tasks : ~Blocks(u)
  /\ SetState(t, "queued") /\ Save(t)
  /\ handoff' = [handoff EXCEPT ![t] = h]
  /\ served' = [served EXCEPT ![t] = TRUE]
  /\ Goto(t, "start")
  /\ UNCHANGED <<stage, record, canc, cancelled, outside, boot>>

-----------------------------------------------------------------------------
(* BrokerOpenShellService.operate, one operator for each operation.  The   *)
(* last argument is the outcome the caller sees.                           *)

(* Allocation: reserved in the record, then submitted.  A failure may mean *)
(* that no worker was created, that it was, or that it still will be; an   *)
(* accepted worker whose binding has expired meanwhile stays fenced.       *)
MutantBind(t, s, ok) ==
  \/ /\ ok
     /\ worker' = [worker EXCEPT ![<<t, s>>] = "alive"]
     /\ SetPhase(t, "bound") /\ SetFence(t, FALSE)
     /\ expired' = [expired EXCEPT ![t] = FALSE]
  \/ /\ ~ok
     /\ \E w \in {"none", "late", "alive"} :
          worker' = [worker EXCEPT ![<<t, s>>] = w]
     /\ SetPhase(t, "none")
     /\ UNCHANGED <<fenced, expired>>

Bind(t, s, ok) ==
  \/ /\ ok
     /\ worker' = [worker EXCEPT ![<<t, s>>] = "alive"]
     /\ \E late \in BOOLEAN :
          /\ SetPhase(t, IF late THEN "expired" ELSE "bound")
          /\ SetFence(t, late)
          /\ expired' = [expired EXCEPT ![t] = late]
  \/ /\ ~ok
     /\ \E w \in {"none", "late", "alive"} :
          worker' = [worker EXCEPT ![<<t, s>>] = w]
     /\ SetPhase(t, "allocation-reserved")
     /\ SetFence(t, TRUE)
     /\ expired' = [expired EXCEPT ![t] = FALSE]
  \/ /\ ~ok                         \* the admission of the service expired
     /\ SetPhase(t, "none")
     /\ UNCHANGED <<fenced, expired, worker>>

(* The exact lookup of a reserved allocation, and what it accepts.         *)
MutantLookupAccepts(t) ==
  /\ phase[t] # "none" /\ worker[W(t)] = "alive"
  /\ SetPhase(t, "bound") /\ SetFence(t, expired[t])

LookupAccepts(t) ==
  /\ phase[t] = "allocation-reserved" /\ worker[W(t)] = "alive"
  /\ SetPhase(t, IF expired[t] THEN "expired" ELSE "bound")
  /\ SetFence(t, expired[t])

MutantDispatchable(t) ==
  phase[t] \in {"bound", "dispatch-reserved"} /\ ~fenced[t] /\ ~expired[t]

Dispatchable(t) == phase[t] = "bound" /\ ~fenced[t] /\ ~expired[t]

Execute(t) ==
  /\ worker[W(t)] = "alive"
  /\ execs' = [execs EXCEPT ![W(t)] = @ + 1]

Dispatch(t, ok) ==
  \/ ok /\ Dispatchable(t) /\ Execute(t) /\ SetPhase(t, "running")
  \/ /\ ~ok /\ Dispatchable(t)
     /\ SetPhase(t, "dispatch-reserved")
     /\ Execute(t) \/ UNCHANGED execs
  \/ ~ok /\ UNCHANGED <<phase, execs>>

Revocable(t) == phase[t] \notin {"none", "allocation-reserved"}

(* The exact stop and the proof of absence, under one stop operation.      *)
MutantStop(t, ok) ==
  \/ /\ ok /\ phase[t] # "stopped"
     /\ SetPhase(t, "stopped") /\ SetFence(t, TRUE)
     /\ \E s \in {worker[W(t)], "gone"} : SetWorker(t, s)
  \/ /\ ok /\ phase[t] = "stopped"
     /\ SetFence(t, TRUE) /\ UNCHANGED <<phase, worker>>
  \/ /\ ~ok /\ phase[t] # "stopped"
     /\ SetPhase(t, "stop-reserved") /\ SetFence(t, TRUE)
     /\ \E s \in {worker[W(t)], "gone"} : SetWorker(t, s)

Stop(t, ok) ==
  \/ /\ ok /\ phase[t] # "stopped"
     /\ SetPhase(t, "stopped") /\ SetFence(t, TRUE)
     /\ SetWorker(t, "gone")
  \/ /\ ok /\ phase[t] = "stopped"          \* fenced by the stop before
     /\ SetFence(t, TRUE) /\ UNCHANGED <<phase, worker>>
  \/ /\ ~ok /\ phase[t] # "stopped"
     /\ SetPhase(t, "stop-reserved") /\ SetFence(t, TRUE)
     /\ \E s \in {worker[W(t)], "gone"} : SetWorker(t, s)
-----------------------------------------------------------------------------
(* run_task.                                                               *)

(* The first critical section of stage one: the bind refuses a record the  *)
(* task's owner made before.                                               *)
RunStart(t) ==
  /\ run[t] = "start" /\ ~CancelSeen(t)
  /\ SetState(t, "queued") /\ Save(t)
  /\ \/ /\ phase[t] = "none"
        /\ \E ok \in BOOLEAN :
             Bind(t, 1, ok) /\ Goto(t, IF ok THEN "bound" ELSE "except")
     \/ phase[t] # "none" /\ Goto(t, "except") /\ UNCHANGED <<record, worker>>
  /\ UNCHANGED <<handoff, stage, canc, served, cancelled, execs, boot>>

(* That of stage two, after the worker of the first is proved absent.      *)
RunRestage(t) ==
  /\ run[t] = "restage" /\ ~CancelSeen(t)
  /\ phase[t] = "stopped"
  /\ stage' = [stage EXCEPT ![t] = 2]
  /\ SetState(t, "queued") /\ Save(t)
  /\ \E ok \in BOOLEAN :
       Bind(t, 2, ok) /\ Goto(t, IF ok THEN "bound" ELSE "except")
  /\ UNCHANGED <<handoff, canc, served, cancelled, execs, boot>>

RunStageCancelled(t) ==
  /\ run[t] \in {"start", "restage"} /\ CancelSeen(t)
  /\ Goto(t, "finally")
  /\ UNCHANGED <<state, disk, handoff, stage, record, canc, served, cancelled,
                 outside, boot>>

(* _cancel_task_locked: without an allocated worker on record there is     *)
(* nothing to stop, and the task stays cancelling.                         *)
CancelTask(t) ==
  /\ \/ /\ ~Revocable(t)
        /\ SetState(t, "cancelling")
        /\ UNCHANGED <<phase, fenced, worker, cancelled>>
     \/ /\ Revocable(t)
        /\ \E ok \in BOOLEAN :
             /\ Stop(t, ok)
             /\ SetState(t, IF ok THEN "cancelled" ELSE "cancelling")
             /\ cancelled' = [cancelled EXCEPT ![t] = @ \/ ok]
  /\ Save(t)

(* The second critical section.                                            *)
RunDispatch(t) ==
  /\ run[t] = "bound" /\ ~CancelSeen(t)
  /\ SetState(t, "running") /\ Save(t)
  /\ \E ok \in BOOLEAN :
       Dispatch(t, ok) /\ Goto(t, IF ok THEN "stream" ELSE "except")
  /\ UNCHANGED <<handoff, stage, fenced, expired, canc, served, cancelled,
                 worker, boot>>

RunBoundCancelled(t) ==
  /\ run[t] = "bound" /\ CancelSeen(t)
  /\ Goto(t, "finally")
  /\ \/ state[t] = "cancelling" /\ CancelTask(t)
     \/ /\ state[t] = "cancelled"
        /\ UNCHANGED <<state, disk, phase, fenced, worker, cancelled>>
  /\ UNCHANGED <<handoff, stage, expired, canc, served, execs, boot>>

(* A step of run_task that neither saves nor touches the record.           *)
RunMove(t, from, to) ==
  /\ run[t] = from
  /\ Goto(t, to)
  /\ UNCHANGED <<disk, handoff, stage, record, canc, served, cancelled, outside,
                 boot>>

(* The loop over the worker's events, each looked at after the state.  The *)
(* stream has a deadline.                                                  *)
RunStream(t) ==
  /\ \/ CancelSeen(t) /\ RunMove(t, "stream", "finally")
     \/ ~CancelSeen(t) /\ RunMove(t, "stream", "exit")
     \/ RunMove(t, "stream", "except")
  /\ UNCHANGED state

RunExit(t) == RunMove(t, "exit", "drain") /\ SetState(t, "finalizing")

RunDrain(t) ==
  /\ \/ CancelSeen(t) /\ RunMove(t, "drain", "finally")
     \/ ~CancelSeen(t) /\ RunMove(t, "drain", "revoke")
     \/ RunMove(t, "drain", "except")
  /\ UNCHANGED state

RunRevoke(t) ==
  /\ run[t] = "revoke" /\ Revocable(t)
  /\ SetFence(t, TRUE)
  /\ UNCHANGED state /\ Save(t)
  /\ Goto(t, "stop")
  /\ UNCHANGED <<handoff, stage, phase, expired, canc, served, cancelled,
                 outside, boot>>

RunStop(t) ==
  /\ run[t] = "stop"
  /\ \E ok \in BOOLEAN :
       Stop(t, ok) /\ Goto(t, IF ok THEN "advance" ELSE "except")
  /\ UNCHANGED state /\ Save(t)
  /\ UNCHANGED <<handoff, stage, expired, canc, served, cancelled, execs, boot>>

MutantFailedExit == {"awaiting_approval", "failed"}

(* Exit code 75 is a pause, which an ended worker cannot resume from.      *)
FailedExit == {"interrupted", "failed"}

(* The state is assigned without a look at what it is by now.              *)
RunFailed(t) ==
  /\ RunMove(t, "advance", "finally")
  /\ \E s \in FailedExit : SetState(t, s)

RunHandoff(t) ==
  /\ run[t] = "advance" /\ handoff[t] /\ stage[t] = 1
  /\ SetState(t, "handoff") /\ Save(t)
  /\ Goto(t, "restage")
  /\ UNCHANGED <<handoff, stage, record, canc, served, cancelled, outside, boot>>

RunCompleted(t) ==
  /\ ~(handoff[t] /\ stage[t] = 1)
  /\ RunMove(t, "advance", "finally")
  /\ SetState(t, "completed")

MutantRunExcept(t) ==
  /\ RunMove(t, "except", IF state[t] # "running" THEN "finally" ELSE "interrupt")
  /\ UNCHANGED state

RunExcept(t) ==
  /\ RunMove(t, "except", IF CancelSeen(t) THEN "finally" ELSE "interrupt")
  /\ UNCHANGED state

RunInterrupt(t) ==
  RunMove(t, "interrupt", "finally") /\ SetState(t, "interrupted")

RunFinally(t) ==
  /\ run[t] = "finally"
  /\ UNCHANGED state /\ Save(t)
  /\ Goto(t, "done")
  /\ UNCHANGED <<handoff, stage, record, canc, served, cancelled, outside, boot>>

-----------------------------------------------------------------------------
(* Task.cancel: its guard, and what it does once it has the lock.          *)
CancelRequest(t) ==
  /\ Up /\ ~canc[t] /\ served[t]
  /\ state[t] \in Busy \ {"cancelling"}
  /\ canc' = [canc EXCEPT ![t] = TRUE]
  /\ UNCHANGED <<state, disk, handoff, stage, record, run, served, cancelled,
                 outside, boot>>

CancelLocked(t) ==
  /\ canc[t]
  /\ canc' = [canc EXCEPT ![t] = FALSE]
  /\ CancelTask(t)
  /\ UNCHANGED <<handoff, stage, expired, run, served, execs, boot>>

(* The typed operations of the task's owner: operate, on a request thread. *)
OwnerBind(t) ==
  /\ state[t] = "queued" /\ phase[t] = "none"
  /\ \E ok \in BOOLEAN : Bind(t, stage[t], ok)
  /\ UNCHANGED execs

OwnerResolve(t) == LookupAccepts(t) /\ UNCHANGED <<expired, outside>>

OwnerDispatch(t) ==              \* one refused saves nothing
  /\ \E ok \in BOOLEAN : Dispatch(t, ok) /\ phase'[t] # phase[t]
  /\ UNCHANGED <<fenced, expired, worker>>

OwnerRevoke(t) ==
  /\ Revocable(t) /\ SetFence(t, TRUE)
  /\ UNCHANGED <<phase, expired, outside>>

OwnerStop(t) ==
  /\ Revocable(t) /\ phase[t] # "stopped"
  /\ \E ok \in BOOLEAN : Stop(t, ok)
  /\ UNCHANGED <<expired, execs>>

Operate(t) ==
  /\ Up
  /\ \/ OwnerBind(t) \/ OwnerResolve(t) \/ OwnerDispatch(t)
     \/ OwnerRevoke(t) \/ OwnerStop(t)
  /\ UNCHANGED state /\ Save(t)
  /\ UNCHANGED <<handoff, stage, run, canc, served, cancelled, boot>>

-----------------------------------------------------------------------------
(* Time, and the workers: a creation given up on may come to pass late, or *)
(* never, and a worker may disappear by itself.                            *)
Expire(t) ==
  /\ phase[t] \notin {"none", "stopped"} /\ ~expired[t]
  /\ expired' = [expired EXCEPT ![t] = TRUE]
  /\ UNCHANGED <<state, disk, handoff, stage, phase, fenced, run, canc, served,
                 cancelled, outside, boot>>

WorkerMoves(t, s) ==
  /\ \/ /\ worker[<<t, s>>] = "late"
        /\ \E w \in {"alive", "gone"} : worker' = [worker EXCEPT ![<<t, s>>] = w]
     \/ /\ worker[<<t, s>>] = "alive"
        /\ worker' = [worker EXCEPT ![<<t, s>>] = "gone"]
  /\ UNCHANGED <<state, disk, handoff, stage, record, run, canc, served,
                 cancelled, execs, boot>>

-----------------------------------------------------------------------------
(* configure: without an admission file there is no service, and a bare    *)
(* broker leaves the journal as it is; with one that every check accepts   *)
(* the service first stops what the journal still has of it, or does not   *)
(* come up, and the broker with it.  One that is refused ends the process  *)
(* before it serves: it is down until an operator starts it again.         *)
Configures ==
  \/ broker' = "bare" /\ toRecover' = {}
  \/ /\ broker' = "boot"
     /\ toRecover' = {t \in Tasks : phase[t] \notin {"none", "stopped"}}

\* The broker dies and is started again.
Crash ==
  /\ crashes < MaxCrashes
  /\ crashes' = crashes + 1
  /\ disk' = [t \in Tasks |-> IF disk[t] \in Busy THEN "interrupted" ELSE disk[t]]
  /\ state' = disk'
  /\ run' = [t \in Tasks |-> "none"]
  /\ canc' = [t \in Tasks |-> FALSE]
  /\ served' = [t \in Tasks |-> FALSE]
  /\ Configures
  /\ UNCHANGED <<handoff, stage, record, cancelled, outside>>

Recovering(t) == broker = "boot" /\ t \in toRecover

(* recover_pending: what was allocated is looked up, revoked and stopped.  *)
Found(t) == phase[t] = "allocation-reserved" => worker[W(t)] = "alive"

RecoverStops(t) ==
  /\ Recovering(t) /\ Found(t)
  /\ Stop(t, TRUE)
  /\ SetState(t, "interrupted") /\ Save(t)
  /\ toRecover' = toRecover \ {t}
  /\ UNCHANGED <<handoff, stage, expired, run, canc, served, cancelled, execs,
                 broker, crashes>>

RecoverRaises(t) ==
  /\ Recovering(t)
  /\ SetState(t, "cancelling") /\ Save(t)
  /\ \/ phase[t] = "allocation-reserved" /\ UNCHANGED <<phase, fenced, worker>>
     \/ LookupAccepts(t) /\ UNCHANGED worker
     \/ Found(t) /\ Stop(t, FALSE)
  /\ broker' = "failed"
  /\ UNCHANGED <<handoff, stage, expired, run, canc, served, cancelled, execs,
                 toRecover, crashes>>

BootDone ==
  /\ broker = "boot" /\ toRecover = {}
  /\ broker' = "up"
  /\ UNCHANGED <<state, disk, handoff, stage, record, run, canc, served,
                 cancelled, outside, toRecover, crashes>>

-----------------------------------------------------------------------------
RunStep(t) ==
  \/ RunStart(t) \/ RunRestage(t) \/ RunStageCancelled(t) \/ RunDispatch(t)
  \/ RunBoundCancelled(t) \/ RunStream(t) \/ RunExit(t) \/ RunDrain(t)
  \/ RunRevoke(t) \/ RunStop(t) \/ RunFailed(t) \/ RunHandoff(t)
  \/ RunCompleted(t) \/ RunExcept(t) \/ RunInterrupt(t) \/ RunFinally(t)

Next ==
  \/ \E t \in Tasks, h \in BOOLEAN : Create(t, h)
  \/ \E t \in Tasks : RunStep(t)
  \/ \E t \in Tasks : CancelRequest(t)
  \/ \E t \in Tasks : CancelLocked(t)
  \/ \E t \in Tasks : Operate(t)
  \/ \E t \in Tasks : Expire(t)
  \/ \E t \in Tasks, s \in Stages : WorkerMoves(t, s)
  \/ Crash
  \/ \E t \in Tasks : RecoverStops(t)
  \/ \E t \in Tasks : RecoverRaises(t)
  \/ BootDone

(* The threads of the broker run, and each call to the transport has a     *)
(* deadline, the stream of events included.                                *)
Fairness == \A t \in Tasks : WF_vars(RunStep(t)) /\ WF_vars(CancelLocked(t))

Spec == Init /\ [][Next]_vars /\ Fairness

-----------------------------------------------------------------------------
MayRun(w) == worker[w] \in {"late", "alive"}

(* Proof of absence comes first: a task that reports an outcome has left   *)
(* no worker behind, and the second stage is allocated when the worker of  *)
(* the first is gone.                                                      *)
SettledMeansAbsent ==
  \A t \in Tasks :
    /\ state[t] \in Terminal => \A s \in Stages : ~MayRun(<<t, s>>)
    /\ ~(MayRun(<<t, 1>>) /\ MayRun(<<t, 2>>))

(* No uncertain dispatch is replayed, by the run thread, by the owner or   *)
(* after a restart: a worker executes at most once.                        *)
ExecutesOnce == \A w \in Tasks \X Stages : execs[w] <= 1

(* The fence of a stage's binding is final: no late lookup, owner or run   *)
(* thread lifts it or executes on its worker before the next stage has a   *)
(* binding of its own.                                                     *)
FenceHolds ==
  [][\A t \in Tasks :
       fenced[t] /\ Revocable(t) /\ stage'[t] = stage[t]
         => fenced'[t] /\ execs'[W(t)] = execs[W(t)]]_vars

Promise == INSTANCE SessionClaim WITH
  Tasks <- Tasks \X Stages,
  claimed <- {w \in Tasks \X Stages : Blocks(w[1])},
  mayRun <- {w \in Tasks \X Stages : MayRun(w)},
  launched <- {w \in Tasks \X Stages : worker[w] # "none"}

(* Each stage keeps the promise of the native sessions: one allocation,    *)
(* under the task's claim.  A worker that exists, or that a lost           *)
(* allocation may still bring about, keeps every other task out, whatever  *)
(* cancel, the owner, the run thread and a restart have made of the task.  *)
KeepsPromise == Promise!Spec

(* No task is held in finalizing for ever: its worker is proved absent, or *)
(* the doubt about it ends the run.                                        *)
FinalizingEnds ==
  \A t \in Tasks : state[t] = "finalizing" ~> state[t] # "finalizing"

(* The promise that a cancellation between stages prevents the next one:   *)
(* once a cancel has reported success, no worker is allocated.             *)
NoStageAfterCancel ==
  [][\A t \in Tasks, s \in Stages :
       cancelled[t] /\ worker[<<t, s>>] = "none"
         => worker'[<<t, s>>] = "none"]_vars
=============================================================================
