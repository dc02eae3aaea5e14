----------------------- MODULE OpenShellBinding_proofs -----------------------
(***************************************************************************)
(* The safety of OpenShell tasks for any number of tasks and of restarts:  *)
(* a fence holds, a worker executes at most once, a settled task has left  *)
(* no worker behind, and each stage keeps the promise of SessionClaim.     *)
(***************************************************************************)
EXTENDS OpenShellBinding, TLAPS

(* What the record says of the worker of its stage, and of the other one.  *)
WorkerInv(t) ==
  /\ phase[t] = "none" => worker[W(t)] = "none"
  /\ Revocable(t) => worker[W(t)] \in {"alive", "gone"}
  /\ phase[t] = "stopped" => worker[W(t)] = "gone"
  /\ stage[t] = 1 => worker[<<t, 2>>] = "none"
  /\ stage[t] = 2 => worker[<<t, 1>>] = "gone"

Unexecuted == {"none", "allocation-reserved", "bound", "expired"}

ExecInv(t) ==
  /\ \A s \in Stages : execs[<<t, s>>] \in {0, 1}
  /\ phase[t] \in Unexecuted => execs[W(t)] = 0
  /\ stage[t] = 1 => execs[<<t, 2>>] = 0

(* An outcome, also one that only a restart would read from task.json, is  *)
(* that of a stopped worker.                                               *)
OutcomeInv(t) ==
  /\ state[t] \in Terminal \/ disk[t] \in Terminal => phase[t] = "stopped"
  /\ stage[t] = 2 => state[t] # "absent" /\ disk[t] # "absent"

(* The run thread allocates under the task's claim, and decides about a    *)
(* worker that is stopped.                                                 *)
RunInv(t) ==
  /\ run[t] \in {"start", "restage"} => stage[t] = 1
  /\ run[t] = "start" => state[t] = "queued" \/ CancelSeen(t)
  /\ run[t] = "restage" => state[t] = "handoff" \/ CancelSeen(t)
  /\ run[t] = "stop" => Revocable(t)
  /\ run[t] = "advance" => phase[t] = "stopped"

TaskInv(t) == WorkerInv(t) /\ ExecInv(t) /\ OutcomeInv(t) /\ RunInv(t)

BootInv ==
  \A t \in Tasks :
    /\ broker \in {"boot", "failed"} => run[t] = "none"
    /\ broker = "boot" /\ t \in toRecover => phase[t] # "none"

BindingInv == TypeOK /\ BootInv /\ \A t \in Tasks : TaskInv(t)

(* What every step of a task does to the workers: none starts but under    *)
(* the task's claim, and once; and to its fence.                           *)
WorkerStep(t, s) ==
  \/ worker'[<<t, s>>] = worker[<<t, s>>]
  \/ MayRun(<<t, s>>) /\ worker'[<<t, s>>] # "none"
  \/ /\ worker[<<t, s>>] = "none" /\ worker'[<<t, s>>] \in {"late", "alive"}
     /\ Blocks(t)

FenceStep(t) ==
  fenced[t] /\ Revocable(t) /\ stage'[t] = stage[t]
    => fenced'[t] /\ execs'[W(t)] = execs[W(t)]

Same(t) ==
  /\ state'[t] = state[t] /\ disk'[t] = disk[t]
  /\ stage'[t] = stage[t] /\ phase'[t] = phase[t] /\ fenced'[t] = fenced[t]
  /\ run'[t] = run[t]
  /\ \A s \in Stages : /\ worker'[<<t, s>>] = worker[<<t, s>>]
                       /\ execs'[<<t, s>>] = execs[<<t, s>>]

Good(t) ==
  /\ TypeOK'
  /\ TaskInv(t)'
  /\ FenceStep(t) /\ \A s \in Stages : WorkerStep(t, s)
  /\ \A u \in Tasks \ {t} : Same(u)

LEMMA SameKeeps ==
  ASSUME BindingInv, NEW u \in Tasks, Same(u)
  PROVE  TaskInv(u)' /\ FenceStep(u) /\ \A s \in Stages : WorkerStep(u, s)
<1>0. TaskInv(u) /\ stage[u] \in Stages
  BY DEF BindingInv, TypeOK
<1>1. /\ worker'[W(u)'] = worker[W(u)] /\ execs'[W(u)'] = execs[W(u)]
      /\ worker'[W(u)] = worker[W(u)] /\ execs'[W(u)] = execs[W(u)]
  BY <1>0 DEF Same, W
<1>2. WorkerInv(u)'
  BY <1>0, <1>1 DEF TaskInv, WorkerInv, Same, Revocable, Stages
<1>3. ExecInv(u)'
  BY <1>0, <1>1 DEF TaskInv, ExecInv, Same, Stages
<1>4. OutcomeInv(u)' /\ RunInv(u)'
  BY <1>0 DEF TaskInv, OutcomeInv, RunInv, Same, CancelSeen, Revocable
<1>5. FenceStep(u) /\ \A s \in Stages : WorkerStep(u, s)
  BY <1>0, <1>1 DEF Same, FenceStep, WorkerStep
<1>. QED
  BY <1>2, <1>3, <1>4, <1>5 DEF TaskInv

(* A step that leaves the record's phase, the stage and the outside alone. *)
LEMMA OutsideKept ==
  ASSUME BindingInv, NEW t \in Tasks, UNCHANGED <<stage, phase, outside>>
  PROVE  /\ WorkerInv(t)' /\ ExecInv(t)'
         /\ \A s \in Stages : WorkerStep(t, s)
         /\ UNCHANGED fenced => FenceStep(t)
<1>0. WorkerInv(t) /\ ExecInv(t)
  BY DEF BindingInv, TaskInv
<1>1. W(t)' = W(t)
  BY DEF W
<1>2. WorkerInv(t)'
  BY <1>0, <1>1 DEF WorkerInv, Revocable, outside
<1>3. ExecInv(t)'
  BY <1>0, <1>1 DEF ExecInv, outside
<1>4. /\ \A s \in Stages : WorkerStep(t, s)
      /\ UNCHANGED fenced => FenceStep(t)
  BY DEF WorkerStep, FenceStep, outside
<1>. QED
  BY <1>2, <1>3, <1>4

-----------------------------------------------------------------------------
(* Steps that change only the task's states and its thread.                *)
LEMMA QuietGood ==
  ASSUME BindingInv, NEW t \in Tasks, NEW s \in States, NEW d \in States,
         NEW r \in RunStates,
         UNCHANGED <<stage, phase, fenced, expired, outside, broker, toRecover, crashes>>,
         state' = [state EXCEPT ![t] = s], disk' = [disk EXCEPT ![t] = d],
         run' = [run EXCEPT ![t] = r],
         handoff' \in [Tasks -> BOOLEAN], canc' \in [Tasks -> BOOLEAN],
         served' \in [Tasks -> BOOLEAN], cancelled' \in [Tasks -> BOOLEAN],
         s \in Terminal \/ d \in Terminal => phase[t] = "stopped",
         stage[t] = 2 => s # "absent" /\ d # "absent",
         r \in {"start", "restage"} => stage[t] = 1,
         r = "start" => s \in {"queued", "cancelling", "cancelled"},
         r = "restage" => s \in {"handoff", "cancelling", "cancelled"},
         r = "stop" => Revocable(t),
         r = "advance" => phase[t] = "stopped"
  PROVE  Good(t)
<1>1. TypeOK'
  <2>1. state' \in [Tasks -> States]
    BY DEF BindingInv, TypeOK
  <2>2. disk' \in [Tasks -> States]
    BY DEF BindingInv, TypeOK
  <2>3. run' \in [Tasks -> RunStates]
    BY DEF BindingInv, TypeOK
  <2>. QED
    BY <2>1, <2>2, <2>3 DEF BindingInv, TypeOK, outside
<1>2. state'[t] = s /\ disk'[t] = d /\ run'[t] = r
  BY DEF BindingInv, TypeOK
<1>3. OutcomeInv(t)'
  BY <1>2 DEF OutcomeInv
<1>4. RunInv(t)'
  BY <1>2 DEF RunInv, CancelSeen, Revocable
<1>5. TaskInv(t)' /\ FenceStep(t) /\ \A n \in Stages : WorkerStep(t, n)
  BY <1>3, <1>4, OutsideKept DEF TaskInv
<1>6. \A u \in Tasks \ {t} : Same(u)
  BY DEF BindingInv, TypeOK, Same, outside
<1>. QED
  BY <1>1, <1>5, <1>6 DEF Good

LEMMA StateTypes ==
  ASSUME BindingInv, NEW t \in Tasks
  PROVE  /\ state[t] \in States /\ disk[t] \in States /\ run[t] \in RunStates
         /\ state = [state EXCEPT ![t] = state[t]]
         /\ disk = [disk EXCEPT ![t] = disk[t]]
         /\ run = [run EXCEPT ![t] = run[t]]
         /\ TaskInv(t)
BY DEF BindingInv, TypeOK

LEMMA CreateGood ==
  ASSUME BindingInv, NEW t \in Tasks, NEW h \in BOOLEAN, Create(t, h)
  PROVE  Good(t)
<1>. USE DEF Create, SetState, Save, Goto, record, boot
<1>1. stage[t] = 1
  BY DEF BindingInv, TypeOK, TaskInv, OutcomeInv, Stages
<1>2. disk' = [disk EXCEPT ![t] = "queued"]
  BY DEF BindingInv, TypeOK
<1>3. handoff' \in [Tasks -> BOOLEAN] /\ served' \in [Tasks -> BOOLEAN]
      /\ canc' \in [Tasks -> BOOLEAN] /\ cancelled' \in [Tasks -> BOOLEAN]
  BY DEF BindingInv, TypeOK
<1>. QED
  BY <1>1, <1>2, <1>3, QuietGood DEF States, Busy, Terminal, RunStates

LEMMA CancelRequestGood ==
  ASSUME BindingInv, NEW t \in Tasks, CancelRequest(t)
  PROVE  Good(t)
<1>. USE DEF CancelRequest, record, boot
<1>1. handoff' \in [Tasks -> BOOLEAN] /\ served' \in [Tasks -> BOOLEAN]
      /\ canc' \in [Tasks -> BOOLEAN] /\ cancelled' \in [Tasks -> BOOLEAN]
  BY DEF BindingInv, TypeOK
<1>2. /\ state' = [state EXCEPT ![t] = state[t]]
      /\ disk' = [disk EXCEPT ![t] = disk[t]]
      /\ run' = [run EXCEPT ![t] = run[t]]
  BY StateTypes
<1>3. /\ run[t] = "start" => state[t] \in {"queued", "cancelling", "cancelled"}
      /\ run[t] = "restage" => state[t] \in {"handoff", "cancelling", "cancelled"}
      /\ run[t] \in {"start", "restage"} => stage[t] = 1
      /\ run[t] = "stop" => Revocable(t)
      /\ run[t] = "advance" => phase[t] = "stopped"
  BY StateTypes DEF TaskInv, RunInv, CancelSeen
<1>4. /\ state[t] \in Terminal \/ disk[t] \in Terminal => phase[t] = "stopped"
      /\ stage[t] = 2 => state[t] # "absent" /\ disk[t] # "absent"
  BY StateTypes DEF TaskInv, OutcomeInv
<1>. HIDE DEF CancelRequest
<1>5. UNCHANGED <<stage, phase, fenced, expired, outside, broker, toRecover, crashes>>
  BY DEF CancelRequest
<1>. QED
  BY <1>1, <1>2, <1>3, <1>4, <1>5, StateTypes, QuietGood

(* A step of run_task that moves its thread, and assigns the state.        *)
LEMMA MoveGood ==
  ASSUME BindingInv, NEW t \in Tasks, NEW s \in States,
         NEW from \in RunStates, NEW to \in RunStates \ {"start", "restage"},
         RunMove(t, from, to), state' = [state EXCEPT ![t] = s],
         s # state[t] /\ s \in Terminal => phase[t] = "stopped",
         s # state[t] => s # "absent",
         to = "stop" => Revocable(t),
         to = "advance" => phase[t] = "stopped"
  PROVE  Good(t)
<1>. USE DEF RunMove, Goto, record, boot
<1>1. handoff' \in [Tasks -> BOOLEAN] /\ served' \in [Tasks -> BOOLEAN]
      /\ canc' \in [Tasks -> BOOLEAN] /\ cancelled' \in [Tasks -> BOOLEAN]
  BY DEF BindingInv, TypeOK
<1>2. disk' = [disk EXCEPT ![t] = disk[t]]
  BY StateTypes
<1>. QED
  BY <1>1, <1>2, StateTypes, QuietGood DEF TaskInv, OutcomeInv

Moves == {"finally", "exit", "except", "drain", "revoke", "interrupt"}

LEMMA MovesGood ==
  ASSUME BindingInv, NEW t \in Tasks,
         RunStream(t) \/ RunExit(t) \/ RunDrain(t) \/ RunFailed(t)
           \/ RunCompleted(t) \/ RunExcept(t) \/ RunInterrupt(t)
  PROVE  Good(t)
<1>0. state[t] \in States /\ state = [state EXCEPT ![t] = state[t]]
  BY StateTypes
<1>1. /\ {"finalizing", "interrupted", "failed", "completed"} \subseteq States
      /\ Moves \subseteq RunStates \ {"start", "restage", "stop", "advance"}
      /\ {"stream", "advance"} \subseteq RunStates
  BY DEF States, Terminal, Busy, RunStates, Moves
<1>2. ASSUME NEW from \in RunStates, NEW to \in Moves, RunMove(t, from, to),
             UNCHANGED state
      PROVE  Good(t)
  BY <1>0, <1>1, <1>2, MoveGood
<1>3. CASE RunStream(t) \/ RunDrain(t) \/ RunExcept(t)
  BY <1>1, <1>2, <1>3 DEF RunStream, RunDrain, RunExcept, Moves, RunStates
<1>4. CASE RunExit(t) \/ RunInterrupt(t)
  BY <1>1, <1>4, MoveGood
  DEF RunExit, RunInterrupt, SetState, Moves, RunStates, Terminal
<1>5. CASE RunFailed(t) \/ RunCompleted(t)
  <2>1. phase[t] = "stopped"
    BY <1>5, StateTypes DEF RunFailed, RunCompleted, RunMove, TaskInv, RunInv
  <2>. QED
    BY <1>1, <1>5, <2>1, MoveGood
    DEF RunFailed, RunCompleted, FailedExit, SetState, Moves
<1>. QED
  BY <1>3, <1>4, <1>5

LEMMA SavesGood ==
  ASSUME BindingInv, NEW t \in Tasks,
         RunStageCancelled(t) \/ RunHandoff(t) \/ RunFinally(t)
  PROVE  Good(t)
<1>. USE DEF RunStageCancelled, RunHandoff, RunFinally, SetState, Save, Goto,
             record, boot
<1>1. handoff' \in [Tasks -> BOOLEAN] /\ served' \in [Tasks -> BOOLEAN]
      /\ canc' \in [Tasks -> BOOLEAN] /\ cancelled' \in [Tasks -> BOOLEAN]
  BY DEF BindingInv, TypeOK
<1>2. CASE RunStageCancelled(t)
  <2>1. /\ state' = [state EXCEPT ![t] = state[t]]
        /\ disk' = [disk EXCEPT ![t] = disk[t]]
    BY <1>2, StateTypes
  <2>. QED
    BY <1>1, <1>2, <2>1, StateTypes, QuietGood DEF TaskInv, OutcomeInv, RunStates
<1>3. CASE RunHandoff(t)
  <2>1. disk' = [disk EXCEPT ![t] = "handoff"] /\ stage[t] = 1
    BY <1>3 DEF BindingInv, TypeOK
  <2>. QED
    BY <1>1, <1>3, <2>1, StateTypes, QuietGood
    DEF States, Busy, Terminal, RunStates
<1>4. CASE RunFinally(t)
  <2>1. /\ state' = [state EXCEPT ![t] = state[t]]
        /\ disk' = [disk EXCEPT ![t] = state[t]]
    BY <1>4, StateTypes
  <2>. QED
    BY <1>1, <1>4, <2>1, StateTypes, QuietGood DEF TaskInv, OutcomeInv, RunStates
<1>. QED
  BY <1>2, <1>3, <1>4

-----------------------------------------------------------------------------
(* What the operations do to the record and to the worker.                 *)
LEMMA WorkerNames ==
  ASSUME BindingInv, NEW t \in Tasks
  PROVE  /\ W(t) = <<t, stage[t]>> /\ W(t) \in Tasks \X Stages
         /\ stage[t] \in Stages
         /\ \A u \in Tasks \ {t} : \A s \in Stages : <<u, s>> # W(t)
BY DEF BindingInv, TypeOK, W

LEMMA StopEffect ==
  ASSUME BindingInv, NEW t \in Tasks, NEW ok \in BOOLEAN, Stop(t, ok),
         Revocable(t) \/ worker[W(t)] = "alive"
  PROVE  /\ phase' \in [Tasks -> Phases] /\ fenced' \in [Tasks -> BOOLEAN]
         /\ worker' \in [Tasks \X Stages -> WorkerStates]
         /\ phase'[t] \in {"stop-reserved", "stopped"} /\ fenced'[t]
         /\ ok \/ phase[t] = "stopped" => phase'[t] = "stopped"
         /\ phase'[t] = "stopped" => worker'[W(t)] = "gone"
         /\ worker'[W(t)] \in {worker[W(t)], "gone"}
         /\ worker[W(t)] \in {"alive", "gone"}
         /\ \A w \in (Tasks \X Stages) \ {W(t)} : worker'[w] = worker[w]
         /\ \A u \in Tasks \ {t} : phase'[u] = phase[u] /\ fenced'[u] = fenced[u]
<1>. USE DEF Stop, SetPhase, SetFence, SetWorker
<1>0. phase \in [Tasks -> Phases] /\ fenced \in [Tasks -> BOOLEAN]
      /\ worker \in [Tasks \X Stages -> WorkerStates]
  BY DEF BindingInv, TypeOK
<1>1. W(t) \in Tasks \X Stages
  BY WorkerNames
<1>2. /\ worker[W(t)] \in {"alive", "gone"}
      /\ phase[t] = "stopped" => worker[W(t)] = "gone"
  BY StateTypes DEF TaskInv, WorkerInv
<1>3. fenced' = [fenced EXCEPT ![t] = TRUE]
  OBVIOUS
<1>4. \E p \in {"stop-reserved", "stopped"} :
        /\ phase' = [phase EXCEPT ![t] = p]
        /\ ok \/ phase[t] = "stopped" => p = "stopped"
  <2>1. CASE phase[t] = "stopped"
    <3>1. phase' = [phase EXCEPT ![t] = "stopped"]
      BY <1>0, <2>1
    <3>. QED
      BY <3>1
  <2>2. CASE phase[t] # "stopped"
    BY <2>2
  <2>. QED
    BY <2>1, <2>2
<1>5. \E s \in {worker[W(t)], "gone"} :
        /\ worker' = [worker EXCEPT ![W(t)] = s]
        /\ ok \/ phase[t] = "stopped" => s = "gone"
  <2>1. CASE phase[t] = "stopped"
    <3>1. worker' = [worker EXCEPT ![W(t)] = "gone"]
      BY <1>0, <1>1, <1>2, <2>1
    <3>. QED
      BY <3>1
  <2>2. CASE phase[t] # "stopped"
    BY <2>2
  <2>. QED
    BY <2>1, <2>2
<1>6. phase'[t] = "stopped" => ok \/ phase[t] = "stopped"
  BY <1>0 DEF Phases
<1>7. "gone" \in WorkerStates /\ {"stop-reserved", "stopped"} \subseteq Phases
  BY DEF WorkerStates, Phases
<1>. HIDE DEF Stop
<1>8. worker' \in [Tasks \X Stages -> WorkerStates]
  BY <1>0, <1>1, <1>5, <1>7
<1>9. phase' \in [Tasks -> Phases]
  BY <1>0, <1>4, <1>7
<1>10. worker'[W(t)] \in {worker[W(t)], "gone"} /\ (phase'[t] = "stopped" => worker'[W(t)] = "gone")
  BY <1>0, <1>1, <1>5, <1>6
<1>11. \A w \in (Tasks \X Stages) \ {W(t)} : worker'[w] = worker[w]
  BY <1>0, <1>5
<1>12. fenced' \in [Tasks -> BOOLEAN] /\ fenced'[t]
       /\ \A u \in Tasks \ {t} : fenced'[u] = fenced[u]
  BY <1>0, <1>3
<1>13. /\ phase'[t] \in {"stop-reserved", "stopped"}
       /\ ok \/ phase[t] = "stopped" => phase'[t] = "stopped"
       /\ \A u \in Tasks \ {t} : phase'[u] = phase[u]
  BY <1>0, <1>4
<1>. QED
  BY <1>2, <1>8, <1>9, <1>10, <1>11, <1>12, <1>13

LEMMA BindEffect ==
  ASSUME BindingInv, NEW t \in Tasks, NEW s \in Stages, NEW ok \in BOOLEAN,
         Bind(t, s, ok), worker[<<t, s>>] = "none"
  PROVE  /\ phase' \in [Tasks -> Phases] /\ fenced' \in [Tasks -> BOOLEAN]
         /\ expired' \in [Tasks -> BOOLEAN]
         /\ worker' \in [Tasks \X Stages -> WorkerStates]
         /\ \/ phase'[t] \in {"bound", "expired"} /\ worker'[<<t, s>>] = "alive"
            \/ /\ phase'[t] = "allocation-reserved"
               /\ worker'[<<t, s>>] \in {"none", "late", "alive"}
            \/ phase'[t] = "none" /\ worker'[<<t, s>>] = "none"
         /\ \A w \in (Tasks \X Stages) \ {<<t, s>>} : worker'[w] = worker[w]
         /\ \A u \in Tasks \ {t} : phase'[u] = phase[u] /\ fenced'[u] = fenced[u]
<1>0. phase \in [Tasks -> Phases] /\ fenced \in [Tasks -> BOOLEAN]
      /\ expired \in [Tasks -> BOOLEAN]
      /\ worker \in [Tasks \X Stages -> WorkerStates] /\ <<t, s>> \in Tasks \X Stages
  BY DEF BindingInv, TypeOK
<1>1. \E p \in {"bound", "expired", "allocation-reserved", "none"},
        w \in {"none", "late", "alive"} :
        /\ phase' = [phase EXCEPT ![t] = p]
        /\ worker' = [worker EXCEPT ![<<t, s>>] = w]
        /\ p \in {"bound", "expired"} => w = "alive"
        /\ p = "none" => w = "none"
  BY <1>0 DEF Bind, SetPhase
<1>2. fenced' \in [Tasks -> BOOLEAN] /\ \A u \in Tasks \ {t} : fenced'[u] = fenced[u]
  BY <1>0 DEF Bind, SetFence
<1>3. expired' \in [Tasks -> BOOLEAN]
  BY <1>0 DEF Bind
<1>4. phase' \in [Tasks -> Phases] /\ \A u \in Tasks \ {t} : phase'[u] = phase[u]
  BY <1>0, <1>1 DEF Phases
<1>5. worker' \in [Tasks \X Stages -> WorkerStates]
      /\ \A w \in (Tasks \X Stages) \ {<<t, s>>} : worker'[w] = worker[w]
  BY <1>0, <1>1 DEF WorkerStates
<1>6. \/ phase'[t] \in {"bound", "expired"} /\ worker'[<<t, s>>] = "alive"
      \/ /\ phase'[t] = "allocation-reserved"
         /\ worker'[<<t, s>>] \in {"none", "late", "alive"}
      \/ phase'[t] = "none" /\ worker'[<<t, s>>] = "none"
  BY <1>0, <1>1
<1>. QED
  BY <1>2, <1>3, <1>4, <1>5, <1>6

LEMMA DispatchEffect ==
  ASSUME BindingInv, NEW t \in Tasks, NEW ok \in BOOLEAN, Dispatch(t, ok)
  PROVE  /\ phase' \in [Tasks -> Phases] /\ execs' \in [Tasks \X Stages -> Nat]
         /\ \/ phase'[t] = phase[t] /\ execs'[W(t)] = execs[W(t)]
            \/ /\ Dispatchable(t) /\ phase'[t] \in {"running", "dispatch-reserved"}
               /\ execs'[W(t)] \in {0, 1}
         /\ \A w \in (Tasks \X Stages) \ {W(t)} : execs'[w] = execs[w]
         /\ \A u \in Tasks \ {t} : phase'[u] = phase[u]
<1>0. phase \in [Tasks -> Phases] /\ execs \in [Tasks \X Stages -> Nat]
  BY DEF BindingInv, TypeOK
<1>1. W(t) \in Tasks \X Stages
  BY WorkerNames
<1>2. Dispatchable(t) => execs[W(t)] = 0
  BY StateTypes DEF TaskInv, ExecInv, Dispatchable, Unexecuted
<1>3. CASE UNCHANGED <<phase, execs>>
  BY <1>0, <1>3
<1>4. CASE ~UNCHANGED <<phase, execs>>
  <2>1. Dispatchable(t)
    BY <1>4 DEF Dispatch
  <2>2. \E p \in {"running", "dispatch-reserved"} : phase' = [phase EXCEPT ![t] = p]
    BY <1>4 DEF Dispatch, SetPhase
  <2>3. \E n \in {0, 1} : execs' = [execs EXCEPT ![W(t)] = n]
    <3>1. CASE Execute(t)
      BY <1>0, <1>1, <1>2, <2>1, <3>1 DEF Execute
    <3>2. CASE UNCHANGED execs
      <4>1. execs' = [execs EXCEPT ![W(t)] = 0]
        BY <1>0, <1>1, <1>2, <2>1, <3>2
      <4>. QED
        BY <4>1
    <3>. QED
      BY <1>4, <3>1, <3>2 DEF Dispatch
  <2>4. phase' \in [Tasks -> Phases] /\ phase'[t] \in {"running", "dispatch-reserved"}
        /\ \A u \in Tasks \ {t} : phase'[u] = phase[u]
    BY <1>0, <2>2 DEF Phases
  <2>5. execs' \in [Tasks \X Stages -> Nat] /\ execs'[W(t)] \in {0, 1}
        /\ \A w \in (Tasks \X Stages) \ {W(t)} : execs'[w] = execs[w]
    BY <1>0, <1>1, <2>3
  <2>. QED
    BY <2>1, <2>4, <2>5
<1>. QED
  BY <1>3, <1>4

-----------------------------------------------------------------------------
(* The steps that allocate.                                                *)
LEMMA BindKeeps ==
  ASSUME BindingInv, NEW t \in Tasks, NEW s \in Stages, NEW ok \in BOOLEAN,
         Bind(t, s, ok), stage'[t] = s, UNCHANGED execs,
         worker[<<t, s>>] = "none", execs[<<t, s>>] = 0,
         s = 1 => stage[t] = 1, s = 2 => worker[<<t, 1>>] = "gone",
         Blocks(t), s = stage[t] => phase[t] = "none"
  PROVE  WorkerInv(t)' /\ ExecInv(t)' /\ FenceStep(t) /\ \A n \in Stages : WorkerStep(t, n)
<1>0. WorkerInv(t) /\ ExecInv(t) /\ stage[t] \in Stages
  BY StateTypes, WorkerNames DEF TaskInv
<1>1. W(t)' = <<t, s>>
  BY DEF W
<1>2. /\ \/ phase'[t] \in {"bound", "expired"} /\ worker'[<<t, s>>] = "alive"
         \/ /\ phase'[t] = "allocation-reserved"
            /\ worker'[<<t, s>>] \in {"none", "late", "alive"}
         \/ phase'[t] = "none" /\ worker'[<<t, s>>] = "none"
      /\ \A n \in Stages \ {s} : worker'[<<t, n>>] = worker[<<t, n>>]
  BY BindEffect
<1>3. WorkerInv(t)'
  BY <1>0, <1>1, <1>2 DEF WorkerInv, Revocable, Stages
<1>4. ExecInv(t)'
  BY <1>0, <1>1 DEF ExecInv, Stages
<1>5. FenceStep(t)
  BY DEF FenceStep, Revocable
<1>6. \A n \in Stages : WorkerStep(t, n)
  BY <1>2 DEF WorkerStep
<1>. QED
  BY <1>3, <1>4, <1>5, <1>6

LEMMA RunStartGood ==
  ASSUME BindingInv, NEW t \in Tasks, RunStart(t)
  PROVE  Good(t)
<1>. USE DEF RunStart, SetState, Save, Goto
<1>0. /\ state' = [state EXCEPT ![t] = "queued"]
      /\ disk' = [disk EXCEPT ![t] = "queued"]
      /\ stage[t] = 1 /\ stage' = stage /\ TaskInv(t)
  BY StateTypes DEF BindingInv, TypeOK, TaskInv, RunInv
<1>1. handoff' \in [Tasks -> BOOLEAN] /\ served' \in [Tasks -> BOOLEAN]
      /\ canc' \in [Tasks -> BOOLEAN] /\ cancelled' \in [Tasks -> BOOLEAN]
  BY DEF BindingInv, TypeOK
<1>2. CASE phase[t] # "none"
  <2>1. run' = [run EXCEPT ![t] = "except"]
        /\ UNCHANGED <<phase, fenced, expired, outside, broker, toRecover, crashes>>
    BY <1>2 DEF record, outside, boot
  <2>. QED
    BY <1>0, <1>1, <2>1, QuietGood DEF States, Busy, Terminal, RunStates
<1>3. CASE phase[t] = "none"
  <2>. PICK ok \in BOOLEAN : Bind(t, 1, ok) /\ Goto(t, IF ok THEN "bound" ELSE "except")
    BY <1>3
  <2>1. /\ state' \in [Tasks -> States] /\ state'[t] = "queued"
        /\ disk' \in [Tasks -> States] /\ disk'[t] = "queued"
        /\ run' \in [Tasks -> RunStates] /\ run'[t] \in {"bound", "except"}
    BY <1>0 DEF BindingInv, TypeOK, States, Busy, RunStates
  <2>2. worker[<<t, 1>>] = "none" /\ execs[<<t, 1>>] = 0 /\ execs' = execs
    BY <1>0, <1>3 DEF TaskInv, WorkerInv, ExecInv, W, Unexecuted
  <2>3. Blocks(t)
    BY <1>0 DEF TaskInv, RunInv, Blocks, Busy
  <2>4. /\ phase' \in [Tasks -> Phases] /\ fenced' \in [Tasks -> BOOLEAN]
        /\ expired' \in [Tasks -> BOOLEAN]
        /\ worker' \in [Tasks \X Stages -> WorkerStates]
        /\ \A u \in Tasks \ {t}, n \in Stages : worker'[<<u, n>>] = worker[<<u, n>>]
        /\ \A u \in Tasks \ {t} : phase'[u] = phase[u] /\ fenced'[u] = fenced[u]
    BY <2>2, BindEffect DEF Stages
  <2>5. WorkerInv(t)' /\ ExecInv(t)' /\ FenceStep(t) /\ \A n \in Stages : WorkerStep(t, n)
    <3>1. stage'[t] = 1 /\ stage[t] = 1 /\ 1 \in Stages /\ 1 # 2 /\ Bind(t, 1, ok)
      BY <1>0 DEF Stages
    <3>. HIDE DEF RunStart
    <3>. QED
      BY <3>1, <1>3, <2>2, <2>3, BindKeeps
  <2>6. OutcomeInv(t)' /\ RunInv(t)'
    BY <1>0, <2>1 DEF OutcomeInv, RunInv, Terminal
  <2>7. TypeOK'
    BY <1>1, <2>1, <2>2, <2>4 DEF BindingInv, TypeOK, boot
  <2>8. \A u \in Tasks \ {t} : Same(u)
    BY <1>0, <2>2, <2>4 DEF BindingInv, TypeOK, Same
  <2>. QED
    BY <2>5, <2>6, <2>7, <2>8 DEF Good, TaskInv
<1>. QED
  BY <1>2, <1>3

LEMMA RunRestageGood ==
  ASSUME BindingInv, NEW t \in Tasks, RunRestage(t)
  PROVE  Good(t)
<1>. USE DEF RunRestage, SetState, Save, Goto
<1>0. /\ state' = [state EXCEPT ![t] = "queued"]
      /\ disk' = [disk EXCEPT ![t] = "queued"]
      /\ stage' = [stage EXCEPT ![t] = 2]
      /\ stage[t] = 1 /\ TaskInv(t) /\ phase[t] = "stopped"
  BY StateTypes DEF BindingInv, TypeOK, TaskInv, RunInv
<1>1. handoff' \in [Tasks -> BOOLEAN] /\ served' \in [Tasks -> BOOLEAN]
      /\ canc' \in [Tasks -> BOOLEAN] /\ cancelled' \in [Tasks -> BOOLEAN]
  BY DEF BindingInv, TypeOK
<1>. PICK ok \in BOOLEAN : Bind(t, 2, ok) /\ Goto(t, IF ok THEN "bound" ELSE "except")
  OBVIOUS
<1>2. /\ state' \in [Tasks -> States] /\ state'[t] = "queued"
      /\ disk' \in [Tasks -> States] /\ disk'[t] = "queued"
      /\ run' \in [Tasks -> RunStates] /\ run'[t] \in {"bound", "except"}
      /\ stage' \in [Tasks -> Stages] /\ stage'[t] = 2
  BY <1>0 DEF BindingInv, TypeOK, States, Busy, RunStates, Stages
<1>3. /\ worker[<<t, 2>>] = "none" /\ execs[<<t, 2>>] = 0 /\ execs' = execs
      /\ worker[<<t, 1>>] = "gone"
  BY <1>0 DEF TaskInv, WorkerInv, ExecInv, W
<1>4. Blocks(t)
  BY <1>0 DEF TaskInv, RunInv, Blocks, Busy
<1>5. /\ phase' \in [Tasks -> Phases] /\ fenced' \in [Tasks -> BOOLEAN]
      /\ expired' \in [Tasks -> BOOLEAN]
      /\ worker' \in [Tasks \X Stages -> WorkerStates]
      /\ \A u \in Tasks \ {t}, n \in Stages : worker'[<<u, n>>] = worker[<<u, n>>]
      /\ \A u \in Tasks \ {t} : phase'[u] = phase[u] /\ fenced'[u] = fenced[u]
  BY <1>3, BindEffect DEF Stages
<1>6. WorkerInv(t)' /\ ExecInv(t)' /\ FenceStep(t) /\ \A n \in Stages : WorkerStep(t, n)
  BY <1>0, <1>2, <1>3, <1>4, BindKeeps DEF Stages
<1>7. OutcomeInv(t)' /\ RunInv(t)'
  BY <1>2 DEF OutcomeInv, RunInv, Terminal
<1>8. TypeOK'
  BY <1>1, <1>2, <1>3, <1>5 DEF BindingInv, TypeOK, boot
<1>9. \A u \in Tasks \ {t} : Same(u)
  BY <1>0, <1>3, <1>5 DEF BindingInv, TypeOK, Same
<1>. QED
  BY <1>6, <1>7, <1>8, <1>9 DEF Good, TaskInv

-----------------------------------------------------------------------------
(* The other steps that change the record.                                 *)
RecordTypes ==
  /\ phase' \in [Tasks -> Phases] /\ fenced' \in [Tasks -> BOOLEAN]
  /\ expired' \in [Tasks -> BOOLEAN]
  /\ worker' \in [Tasks \X Stages -> WorkerStates]
  /\ execs' \in [Tasks \X Stages -> Nat]

RecordSame(t) ==
  \A u \in Tasks \ {t} :
    /\ phase'[u] = phase[u] /\ fenced'[u] = fenced[u]
    /\ \A s \in Stages : /\ worker'[<<u, s>>] = worker[<<u, s>>]
                         /\ execs'[<<u, s>>] = execs[<<u, s>>]

RecordKept(t) ==
  /\ RecordTypes /\ RecordSame(t)
  /\ WorkerInv(t)' /\ ExecInv(t)'
  /\ FenceStep(t) /\ \A s \in Stages : WorkerStep(t, s)

OtherTypes ==
  /\ handoff' \in [Tasks -> BOOLEAN] /\ canc' \in [Tasks -> BOOLEAN]
  /\ served' \in [Tasks -> BOOLEAN] /\ cancelled' \in [Tasks -> BOOLEAN]
  /\ broker' \in {"up", "bare", "boot", "failed"} /\ toRecover' \subseteq Tasks
  /\ crashes' \in 0..MaxCrashes

LEMMA RecordGood ==
  ASSUME BindingInv, NEW t \in Tasks, NEW s \in States, NEW d \in States,
         NEW r \in RunStates, UNCHANGED stage, RecordKept(t), OtherTypes,
         state' = [state EXCEPT ![t] = s], disk' = [disk EXCEPT ![t] = d],
         run' = [run EXCEPT ![t] = r],
         s \in Terminal \/ d \in Terminal => phase'[t] = "stopped",
         stage[t] = 2 => s # "absent" /\ d # "absent",
         r \in {"start", "restage"} => stage[t] = 1,
         r = "start" => s \in {"queued", "cancelling", "cancelled"},
         r = "restage" => s \in {"handoff", "cancelling", "cancelled"},
         r = "stop" => Revocable(t)',
         r = "advance" => phase'[t] = "stopped"
  PROVE  Good(t)
<1>1. TypeOK'
  <2>1. state' \in [Tasks -> States]
    BY DEF BindingInv, TypeOK
  <2>2. disk' \in [Tasks -> States]
    BY DEF BindingInv, TypeOK
  <2>3. run' \in [Tasks -> RunStates]
    BY DEF BindingInv, TypeOK
  <2>4. stage' \in [Tasks -> Stages]
    BY DEF BindingInv, TypeOK
  <2>. QED
    BY <2>1, <2>2, <2>3, <2>4 DEF RecordKept, RecordTypes, OtherTypes, TypeOK
<1>2. state'[t] = s /\ disk'[t] = d /\ run'[t] = r
  BY DEF BindingInv, TypeOK
<1>3. OutcomeInv(t)'
  BY <1>2 DEF OutcomeInv
<1>4. RunInv(t)'
  BY <1>2 DEF RunInv, CancelSeen, Revocable
<1>5. \A u \in Tasks \ {t} : Same(u)
  BY DEF BindingInv, TypeOK, RecordKept, RecordSame, Same
<1>. QED
  BY <1>1, <1>3, <1>4, <1>5 DEF RecordKept, TaskInv, Good

LEMMA StopKeeps ==
  ASSUME BindingInv, NEW t \in Tasks, NEW ok \in BOOLEAN, Stop(t, ok),
         Revocable(t) \/ worker[W(t)] = "alive",
         UNCHANGED <<stage, expired, execs>>
  PROVE  RecordKept(t)
<1>0. WorkerInv(t) /\ ExecInv(t) /\ stage[t] \in Stages
      /\ W(t) = <<t, stage[t]>> /\ W(t)' = W(t)
  BY StateTypes, WorkerNames DEF TaskInv, W
<1>1. /\ phase'[t] \in {"stop-reserved", "stopped"} /\ fenced'[t]
      /\ phase'[t] = "stopped" => worker'[W(t)] = "gone"
      /\ worker'[W(t)] \in {worker[W(t)], "gone"}
      /\ worker[W(t)] \in {"alive", "gone"}
      /\ \A n \in Stages \ {stage[t]} : worker'[<<t, n>>] = worker[<<t, n>>]
  BY <1>0, StopEffect
<1>2. RecordTypes
  BY StopEffect DEF RecordTypes, BindingInv, TypeOK
<1>3. RecordSame(t)
  BY StopEffect, WorkerNames DEF RecordSame
<1>4. WorkerInv(t)'
  BY <1>0, <1>1 DEF WorkerInv, Revocable, Stages
<1>5. ExecInv(t)'
  BY <1>0, <1>1 DEF ExecInv, Unexecuted
<1>6. FenceStep(t)
  BY <1>1 DEF FenceStep
<1>7. \A n \in Stages : WorkerStep(t, n)
  <2>. SUFFICES ASSUME NEW n \in Stages PROVE WorkerStep(t, n)
    OBVIOUS
  <2>1. CASE n = stage[t]
    BY <1>0, <1>1, <2>1 DEF WorkerStep, MayRun
  <2>2. CASE n # stage[t]
    BY <1>1, <2>2 DEF WorkerStep
  <2>. QED
    BY <2>1, <2>2
<1>. QED
  BY <1>2, <1>3, <1>4, <1>5, <1>6, <1>7 DEF RecordKept

LEMMA DispatchKeeps ==
  ASSUME BindingInv, NEW t \in Tasks, NEW ok \in BOOLEAN, Dispatch(t, ok),
         UNCHANGED <<stage, fenced, expired, worker>>
  PROVE  RecordKept(t)
<1>0. WorkerInv(t) /\ ExecInv(t) /\ stage[t] \in Stages
      /\ W(t) = <<t, stage[t]>> /\ W(t)' = W(t)
  BY StateTypes, WorkerNames DEF TaskInv, W
<1>1. /\ \/ phase'[t] = phase[t] /\ execs'[W(t)] = execs[W(t)]
         \/ /\ Dispatchable(t) /\ phase'[t] \in {"running", "dispatch-reserved"}
            /\ execs'[W(t)] \in {0, 1}
      /\ \A n \in Stages \ {stage[t]} : execs'[<<t, n>>] = execs[<<t, n>>]
  BY <1>0, DispatchEffect
<1>2. RecordTypes
  BY DispatchEffect DEF RecordTypes, BindingInv, TypeOK
<1>3. RecordSame(t)
  BY DispatchEffect, WorkerNames DEF RecordSame
<1>4. WorkerInv(t)'
  BY <1>0, <1>1 DEF WorkerInv, Revocable, Dispatchable
<1>5. ExecInv(t)'
  BY <1>0, <1>1 DEF ExecInv, Unexecuted, Stages
<1>6. FenceStep(t)
  BY <1>1 DEF FenceStep, Dispatchable
<1>7. \A n \in Stages : WorkerStep(t, n)
  BY DEF WorkerStep
<1>. QED
  BY <1>2, <1>3, <1>4, <1>5, <1>6, <1>7 DEF RecordKept

LEMMA LookupKeeps ==
  ASSUME BindingInv, NEW t \in Tasks, LookupAccepts(t),
         UNCHANGED <<stage, expired, outside>>
  PROVE  RecordKept(t)
<1>0. WorkerInv(t) /\ ExecInv(t) /\ W(t)' = W(t)
  BY StateTypes DEF TaskInv, W
<1>1. phase'[t] \in {"bound", "expired"}
  BY DEF LookupAccepts, SetPhase, BindingInv, TypeOK
<1>2. RecordTypes
  BY DEF RecordTypes, LookupAccepts, SetPhase, SetFence, BindingInv, TypeOK,
         Phases, outside
<1>3. RecordSame(t)
  BY DEF RecordSame, LookupAccepts, SetPhase, SetFence, BindingInv, TypeOK, outside
<1>4. WorkerInv(t)'
  BY <1>0, <1>1 DEF WorkerInv, Revocable, LookupAccepts, outside
<1>5. ExecInv(t)'
  BY <1>0, <1>1 DEF ExecInv, Unexecuted, LookupAccepts, outside
<1>6. FenceStep(t) /\ \A n \in Stages : WorkerStep(t, n)
  BY DEF FenceStep, WorkerStep, Revocable, LookupAccepts, outside
<1>. QED
  BY <1>2, <1>3, <1>4, <1>5, <1>6 DEF RecordKept

LEMMA FenceKeeps ==
  ASSUME BindingInv, NEW t \in Tasks, NEW f \in BOOLEAN, NEW e \in BOOLEAN,
         fenced' = [fenced EXCEPT ![t] = f], expired' = [expired EXCEPT ![t] = e],
         fenced[t] => f, UNCHANGED <<stage, phase, outside>>
  PROVE  RecordKept(t)
<1>1. RecordTypes
  BY DEF RecordTypes, BindingInv, TypeOK, outside
<1>2. RecordSame(t)
  BY DEF RecordSame, BindingInv, TypeOK, outside
<1>3. FenceStep(t)
  BY DEF FenceStep, BindingInv, TypeOK, outside
<1>. QED
  BY <1>1, <1>2, <1>3, OutsideKept DEF RecordKept

-----------------------------------------------------------------------------
LEMMA OthersKept ==
  ASSUME BindingInv, UNCHANGED <<handoff, canc, served, cancelled, boot>>
  PROVE  OtherTypes
BY DEF OtherTypes, BindingInv, TypeOK, boot

LEMMA RunDispatchGood ==
  ASSUME BindingInv, NEW t \in Tasks, RunDispatch(t)
  PROVE  Good(t)
<1>. USE DEF RunDispatch, SetState, Save, Goto
<1>1. /\ state' = [state EXCEPT ![t] = "running"]
      /\ disk' = [disk EXCEPT ![t] = "running"]
  BY DEF BindingInv, TypeOK
<1>2. \E r \in {"stream", "except"} : run' = [run EXCEPT ![t] = r]
  OBVIOUS
<1>3. RecordKept(t)
  BY DispatchKeeps
<1>4. OtherTypes
  BY OthersKept
<1>5. "running" \in States \ Terminal /\ {"stream", "except"} \subseteq RunStates
      /\ UNCHANGED stage
  BY DEF States, Busy, Terminal, RunStates
<1>. HIDE DEF RunDispatch
<1>. QED
  BY <1>1, <1>2, <1>3, <1>4, <1>5, RecordGood

LEMMA RunRevokeGood ==
  ASSUME BindingInv, NEW t \in Tasks, RunRevoke(t)
  PROVE  Good(t)
<1>. USE DEF RunRevoke, Save, Goto, SetFence
<1>1. /\ state' = [state EXCEPT ![t] = state[t]]
      /\ disk' = [disk EXCEPT ![t] = state[t]]
      /\ run' = [run EXCEPT ![t] = "stop"]
      /\ expired' = [expired EXCEPT ![t] = expired[t]] /\ expired[t] \in BOOLEAN
  BY DEF BindingInv, TypeOK
<1>2. RecordKept(t)
  BY <1>1, FenceKeeps
<1>3. OtherTypes
  BY OthersKept
<1>4. /\ state[t] \in Terminal => phase[t] = "stopped"
      /\ stage[t] = 2 => state[t] # "absent"
      /\ Revocable(t)' /\ UNCHANGED <<stage, phase>> /\ "stop" \in RunStates
  BY StateTypes DEF TaskInv, OutcomeInv, Revocable, RunStates
<1>. HIDE DEF RunRevoke
<1>. QED
  BY <1>1, <1>2, <1>3, <1>4, StateTypes, RecordGood

LEMMA RunStopGood ==
  ASSUME BindingInv, NEW t \in Tasks, RunStop(t)
  PROVE  Good(t)
<1>. USE DEF RunStop, Save, Goto
<1>. PICK ok \in BOOLEAN : Stop(t, ok) /\ Goto(t, IF ok THEN "advance" ELSE "except")
  OBVIOUS
<1>0. Revocable(t)
  BY StateTypes DEF TaskInv, RunInv
<1>1. /\ state' = [state EXCEPT ![t] = state[t]]
      /\ disk' = [disk EXCEPT ![t] = state[t]]
  BY DEF BindingInv, TypeOK
<1>2. \E r \in {"advance", "except"} :
        run' = [run EXCEPT ![t] = r] /\ (r = "advance" => ok)
  OBVIOUS
<1>3. RecordKept(t)
  BY <1>0, StopKeeps
<1>4. OtherTypes
  BY OthersKept
<1>5. ok \/ phase[t] = "stopped" => phase'[t] = "stopped"
  BY <1>0, StopEffect
<1>6. /\ state[t] \in Terminal => phase[t] = "stopped"
      /\ stage[t] = 2 => state[t] # "absent"
      /\ UNCHANGED stage /\ {"advance", "except"} \subseteq RunStates
  BY StateTypes DEF TaskInv, OutcomeInv, RunStates
<1>. HIDE DEF RunStop
<1>. QED
  BY <1>1, <1>2, <1>3, <1>4, <1>5, <1>6, StateTypes, RecordGood

(* What a cancel makes of the task, whatever the run thread is doing.      *)
LEMMA CancelEffect ==
  ASSUME BindingInv, NEW t \in Tasks, CancelTask(t),
         UNCHANGED <<stage, expired, execs>>
  PROVE  /\ RecordKept(t) /\ cancelled' \in [Tasks -> BOOLEAN]
         /\ \E s \in {"cancelling", "cancelled"} :
              /\ state' = [state EXCEPT ![t] = s] /\ disk' = [disk EXCEPT ![t] = s]
              /\ s = "cancelled" => phase'[t] = "stopped"
         /\ phase[t] = "stopped" => phase'[t] = "stopped"
         /\ Revocable(t) => Revocable(t)'
<1>. USE DEF CancelTask, SetState, Save
<1>1. CASE ~Revocable(t)
  <2>1. /\ state' = [state EXCEPT ![t] = "cancelling"]
        /\ disk' = [disk EXCEPT ![t] = "cancelling"]
        /\ UNCHANGED <<phase, fenced, worker, cancelled>>
    BY <1>1 DEF BindingInv, TypeOK
  <2>2. RecordKept(t)
    <3>1. /\ fenced' = [fenced EXCEPT ![t] = fenced[t]] /\ fenced[t] \in BOOLEAN
          /\ expired' = [expired EXCEPT ![t] = expired[t]] /\ expired[t] \in BOOLEAN
      BY <2>1 DEF BindingInv, TypeOK
    <3>. QED
      BY <2>1, <3>1, FenceKeeps DEF outside
  <2>. QED
    BY <1>1, <2>1, <2>2 DEF BindingInv, TypeOK
<1>2. CASE Revocable(t)
  <2>. PICK ok \in BOOLEAN :
         /\ Stop(t, ok)
         /\ SetState(t, IF ok THEN "cancelled" ELSE "cancelling")
         /\ cancelled' = [cancelled EXCEPT ![t] = @ \/ ok]
    BY <1>2
  <2>1. \E s \in {"cancelling", "cancelled"} :
          /\ state' = [state EXCEPT ![t] = s] /\ disk' = [disk EXCEPT ![t] = s]
          /\ s = "cancelled" => ok
    BY DEF BindingInv, TypeOK
  <2>2. /\ phase'[t] \in {"stop-reserved", "stopped"}
        /\ ok \/ phase[t] = "stopped" => phase'[t] = "stopped"
    BY <1>2, StopEffect
  <2>3. RecordKept(t)
    BY <1>2, StopKeeps
  <2>4. cancelled' \in [Tasks -> BOOLEAN]
    BY DEF BindingInv, TypeOK
  <2>. QED
    BY <2>1, <2>2, <2>3, <2>4 DEF Revocable
<1>. QED
  BY <1>1, <1>2

LEMMA CancelLockedGood ==
  ASSUME BindingInv, NEW t \in Tasks, CancelLocked(t)
  PROVE  Good(t)
<1>. USE DEF CancelLocked
<1>. PICK s \in {"cancelling", "cancelled"} :
       /\ state' = [state EXCEPT ![t] = s] /\ disk' = [disk EXCEPT ![t] = s]
       /\ s = "cancelled" => phase'[t] = "stopped"
  BY CancelEffect
<1>1. RecordKept(t) /\ (phase[t] = "stopped" => phase'[t] = "stopped")
      /\ (Revocable(t) => Revocable(t)')
  BY CancelEffect
<1>2. OtherTypes
  BY CancelEffect DEF OtherTypes, BindingInv, TypeOK, boot
<1>3. run' = [run EXCEPT ![t] = run[t]] /\ UNCHANGED stage
  BY StateTypes
<1>4. /\ run[t] \in {"start", "restage"} => stage[t] = 1
      /\ run[t] = "stop" => Revocable(t)
      /\ run[t] = "advance" => phase[t] = "stopped"
  BY StateTypes DEF TaskInv, RunInv
<1>5. s \in States /\ (s \in Terminal => s = "cancelled") /\ s # "absent"
  BY DEF States, Busy, Terminal
<1>. HIDE DEF CancelLocked
<1>. QED
  BY <1>1, <1>2, <1>3, <1>4, <1>5, StateTypes, RecordGood

LEMMA RunBoundCancelledGood ==
  ASSUME BindingInv, NEW t \in Tasks, RunBoundCancelled(t)
  PROVE  Good(t)
<1>. USE DEF RunBoundCancelled, Goto
<1>0. "finally" \in RunStates /\ run' = [run EXCEPT ![t] = "finally"] /\ UNCHANGED stage
  BY DEF RunStates
<1>1. CASE CancelTask(t)
  <2>. PICK s \in {"cancelling", "cancelled"} :
         /\ state' = [state EXCEPT ![t] = s] /\ disk' = [disk EXCEPT ![t] = s]
         /\ s = "cancelled" => phase'[t] = "stopped"
    BY <1>1, CancelEffect
  <2>1. RecordKept(t)
    BY <1>1, CancelEffect
  <2>2. OtherTypes
    BY <1>1, CancelEffect DEF OtherTypes, BindingInv, TypeOK, boot
  <2>3. s \in States /\ (s \in Terminal => s = "cancelled") /\ s # "absent"
    BY DEF States, Busy, Terminal
  <2>. HIDE DEF RunBoundCancelled
  <2>. QED
    BY <1>0, <2>1, <2>2, <2>3, RecordGood
<1>2. CASE ~CancelTask(t)
  <2>1. UNCHANGED <<state, disk, phase, fenced, worker, cancelled, handoff, stage,
                    expired, canc, served, execs, boot>>
    BY <1>2
  <2>2. handoff' \in [Tasks -> BOOLEAN] /\ served' \in [Tasks -> BOOLEAN]
        /\ canc' \in [Tasks -> BOOLEAN] /\ cancelled' \in [Tasks -> BOOLEAN]
    BY <2>1 DEF BindingInv, TypeOK
  <2>3. /\ state' = [state EXCEPT ![t] = state[t]]
        /\ disk' = [disk EXCEPT ![t] = disk[t]]
    BY <2>1, StateTypes
  <2>. HIDE DEF RunBoundCancelled
  <2>. QED
    BY <1>0, <2>1, <2>2, <2>3, StateTypes, QuietGood
    DEF TaskInv, OutcomeInv, outside, boot
<1>. QED
  BY <1>1, <1>2

(* The typed requests: the task's state is saved as it is.                 *)
LEMMA OwnerKeeps ==
  ASSUME BindingInv, NEW t \in Tasks, Operate(t)
  PROVE  /\ RecordKept(t)
         /\ phase[t] = "stopped" => phase'[t] = "stopped"
         /\ Revocable(t) => Revocable(t)'
<1>. USE DEF Operate
<1>0. UNCHANGED stage /\ TaskInv(t)
  BY StateTypes
<1>1. CASE OwnerBind(t)
  <2>. USE DEF OwnerBind
  <2>. PICK ok \in BOOLEAN : Bind(t, stage[t], ok)
    BY <1>1
  <2>0. /\ UNCHANGED execs /\ phase[t] = "none" /\ stage[t] \in Stages
        /\ Blocks(t) /\ stage'[t] = stage[t]
    BY <1>1, WorkerNames DEF Blocks, Busy
  <2>1. worker[<<t, stage[t]>>] = "none" /\ execs[<<t, stage[t]>>] = 0
    BY <1>0, <2>0 DEF TaskInv, WorkerInv, ExecInv, W, Unexecuted
  <2>2. stage[t] = 2 => worker[<<t, 1>>] = "gone"
    BY <1>0 DEF TaskInv, WorkerInv
  <2>3. WorkerInv(t)' /\ ExecInv(t)' /\ FenceStep(t) /\ \A n \in Stages : WorkerStep(t, n)
    <3>. HIDE DEF Operate, OwnerBind
    <3>. QED
      BY <2>0, <2>1, <2>2, BindKeeps
  <2>4. RecordTypes
    BY <2>0, <2>1, BindEffect DEF RecordTypes, BindingInv, TypeOK
  <2>5. RecordSame(t)
    BY <2>0, <2>1, BindEffect DEF RecordSame
  <2>. QED
    BY <2>0, <2>3, <2>4, <2>5 DEF RecordKept, Revocable
<1>2. CASE OwnerResolve(t)
  <2>1. RecordKept(t)
    BY <1>0, <1>2, LookupKeeps DEF OwnerResolve
  <2>. QED
    BY <1>2, <2>1 DEF OwnerResolve, LookupAccepts, Revocable
<1>3. CASE OwnerDispatch(t)
  <2>. PICK ok \in BOOLEAN : Dispatch(t, ok) /\ UNCHANGED <<fenced, expired, worker>>
    BY <1>3 DEF OwnerDispatch
  <2>1. RecordKept(t)
    BY <1>0, DispatchKeeps
  <2>. QED
    BY <2>1, DispatchEffect DEF Revocable, Dispatchable
<1>4. CASE OwnerRevoke(t)
  <2>1. /\ fenced' = [fenced EXCEPT ![t] = TRUE] /\ UNCHANGED <<stage, phase, outside>>
        /\ expired' = [expired EXCEPT ![t] = expired[t]] /\ expired[t] \in BOOLEAN
    BY <1>4 DEF OwnerRevoke, SetFence, BindingInv, TypeOK
  <2>2. RecordKept(t)
    BY <2>1, FenceKeeps
  <2>. QED
    BY <2>1, <2>2 DEF Revocable
<1>5. CASE OwnerStop(t)
  <2>. PICK ok \in BOOLEAN : Stop(t, ok)
    BY <1>5 DEF OwnerStop
  <2>0. Revocable(t) /\ UNCHANGED <<stage, expired, execs>>
    BY <1>5 DEF OwnerStop
  <2>1. RecordKept(t)
    BY <2>0, StopKeeps
  <2>2. /\ phase'[t] \in {"stop-reserved", "stopped"}
        /\ phase[t] = "stopped" => phase'[t] = "stopped"
    BY <2>0, StopEffect
  <2>. QED
    BY <2>1, <2>2 DEF Revocable
<1>. QED
  BY <1>1, <1>2, <1>3, <1>4, <1>5

LEMMA OperateGood ==
  ASSUME BindingInv, NEW t \in Tasks, Operate(t)
  PROVE  Good(t)
<1>. USE DEF Operate, Save
<1>1. /\ state' = [state EXCEPT ![t] = state[t]]
      /\ disk' = [disk EXCEPT ![t] = state[t]]
      /\ run' = [run EXCEPT ![t] = run[t]] /\ UNCHANGED stage
  BY StateTypes
<1>2. OtherTypes
  BY OthersKept
<1>3. /\ state[t] \in Terminal => phase[t] = "stopped"
      /\ stage[t] = 2 => state[t] # "absent"
      /\ run[t] \in {"start", "restage"} => stage[t] = 1
      /\ run[t] = "start" => state[t] \in {"queued", "cancelling", "cancelled"}
      /\ run[t] = "restage" => state[t] \in {"handoff", "cancelling", "cancelled"}
      /\ run[t] = "stop" => Revocable(t)
      /\ run[t] = "advance" => phase[t] = "stopped"
  BY StateTypes DEF TaskInv, OutcomeInv, RunInv, CancelSeen
<1>4. /\ RecordKept(t)
      /\ phase[t] = "stopped" => phase'[t] = "stopped"
      /\ Revocable(t) => Revocable(t)'
  BY OwnerKeeps
<1>. HIDE DEF Operate
<1>. QED
  BY <1>1, <1>2, <1>3, <1>4, StateTypes, RecordGood

LEMMA ExpireGood ==
  ASSUME BindingInv, NEW t \in Tasks, Expire(t)
  PROVE  Good(t)
<1>. USE DEF Expire
<1>1. /\ state' = [state EXCEPT ![t] = state[t]]
      /\ disk' = [disk EXCEPT ![t] = disk[t]]
      /\ run' = [run EXCEPT ![t] = run[t]] /\ UNCHANGED <<stage, phase>>
  BY StateTypes
<1>2. OtherTypes
  BY OthersKept
<1>3. RecordKept(t)
  <2>1. fenced' = [fenced EXCEPT ![t] = fenced[t]] /\ fenced[t] \in BOOLEAN
    BY DEF BindingInv, TypeOK
  <2>. QED
    BY <2>1, FenceKeeps
<1>4. /\ state[t] \in Terminal \/ disk[t] \in Terminal => phase[t] = "stopped"
      /\ stage[t] = 2 => state[t] # "absent" /\ disk[t] # "absent"
      /\ run[t] \in {"start", "restage"} => stage[t] = 1
      /\ run[t] = "start" => state[t] \in {"queued", "cancelling", "cancelled"}
      /\ run[t] = "restage" => state[t] \in {"handoff", "cancelling", "cancelled"}
      /\ run[t] = "stop" => Revocable(t)
      /\ run[t] = "advance" => phase[t] = "stopped"
  BY StateTypes DEF TaskInv, OutcomeInv, RunInv, CancelSeen
<1>5. Revocable(t)' = Revocable(t)
  BY DEF Revocable
<1>. HIDE DEF Expire
<1>. QED
  BY <1>1, <1>2, <1>3, <1>4, <1>5, StateTypes, RecordGood

LEMMA WorkerMovesGood ==
  ASSUME BindingInv, NEW t \in Tasks, NEW s \in Stages, WorkerMoves(t, s)
  PROVE  Good(t)
<1>. USE DEF WorkerMoves, record
<1>0. /\ WorkerInv(t) /\ ExecInv(t) /\ OutcomeInv(t) /\ RunInv(t)
      /\ W(t) = <<t, stage[t]>> /\ W(t)' = W(t)
      /\ worker \in [Tasks \X Stages -> WorkerStates] /\ <<t, s>> \in Tasks \X Stages
  BY StateTypes, WorkerNames DEF TaskInv, W, BindingInv, TypeOK
<1>1. PICK w \in {"alive", "gone"} :
        /\ worker' = [worker EXCEPT ![<<t, s>>] = w]
        /\ \/ worker[<<t, s>>] = "late"
           \/ worker[<<t, s>>] = "alive" /\ w = "gone"
  OBVIOUS
<1>2. worker' \in [Tasks \X Stages -> WorkerStates]
  BY <1>0, <1>1 DEF WorkerStates
<1>3. /\ worker'[<<t, s>>] = w
      /\ \A n \in Stages \ {s} : worker'[<<t, n>>] = worker[<<t, n>>]
      /\ \A u \in Tasks \ {t}, n \in Stages : worker'[<<u, n>>] = worker[<<u, n>>]
  BY <1>0, <1>1
<1>4. WorkerInv(t)'
  BY <1>0, <1>1, <1>3, WorkerNames DEF WorkerInv, Revocable, Stages
<1>5. ExecInv(t)' /\ OutcomeInv(t)' /\ RunInv(t)'
  BY <1>0 DEF ExecInv, OutcomeInv, RunInv, Revocable, CancelSeen
<1>6. FenceStep(t) /\ \A n \in Stages : WorkerStep(t, n)
  BY <1>1, <1>3 DEF FenceStep, WorkerStep, MayRun
<1>7. TypeOK'
  BY <1>2 DEF BindingInv, TypeOK, boot
<1>8. \A u \in Tasks \ {t} : Same(u)
  BY <1>3 DEF Same
<1>. QED
  BY <1>4, <1>5, <1>6, <1>7, <1>8 DEF Good, TaskInv

-----------------------------------------------------------------------------
(* Restart and recovery.                                                   *)
LEMMA Stoppable ==
  ASSUME BindingInv, NEW t \in Tasks, Recovering(t), Found(t)
  PROVE  Revocable(t) \/ worker[W(t)] = "alive"
BY DEF BindingInv, BootInv, Recovering, Found, Revocable

LEMMA RecoverGood ==
  ASSUME BindingInv, NEW t \in Tasks, RecoverStops(t) \/ RecoverRaises(t)
  PROVE  Good(t)
<1>. USE DEF RecoverStops, RecoverRaises
<1>0. run[t] = "none" /\ UNCHANGED <<stage, expired, execs>> /\ Recovering(t)
  BY DEF Recovering, BindingInv, BootInv
<1>1. PICK s \in {"interrupted", "cancelling"} :
        state' = [state EXCEPT ![t] = s] /\ disk' = [disk EXCEPT ![t] = s]
  BY DEF SetState, Save, BindingInv, TypeOK
<1>2. run' = [run EXCEPT ![t] = "none"]
  BY <1>0, StateTypes
<1>3. OtherTypes
  BY DEF OtherTypes, BindingInv, TypeOK
<1>4. RecordKept(t)
  <2>1. ASSUME NEW ok \in BOOLEAN, Stop(t, ok), Found(t) PROVE RecordKept(t)
    BY <1>0, <2>1, Stoppable, StopKeeps
  <2>2. CASE LookupAccepts(t) /\ UNCHANGED worker
    BY <1>0, <2>2, LookupKeeps DEF outside
  <2>3. CASE UNCHANGED <<phase, fenced, worker>>
    <3>1. /\ fenced' = [fenced EXCEPT ![t] = fenced[t]] /\ fenced[t] \in BOOLEAN
          /\ expired' = [expired EXCEPT ![t] = expired[t]] /\ expired[t] \in BOOLEAN
      BY <1>0, <2>3 DEF BindingInv, TypeOK
    <3>. QED
      BY <1>0, <2>3, <3>1, FenceKeeps DEF outside
  <2>. QED
    BY <2>1, <2>2, <2>3
<1>5. /\ s \in States \ Terminal /\ s # "absent" /\ "none" \in RunStates
      /\ "none" \notin {"start", "restage", "stop", "advance"}
  BY DEF States, Busy, Terminal, RunStates
<1>. HIDE DEF RecoverStops, RecoverRaises
<1>. QED
  BY <1>0, <1>1, <1>2, <1>3, <1>4, <1>5, RecordGood

LEMMA CrashKeeps ==
  ASSUME BindingInv, Crash
  PROVE  BindingInv' /\ \A t \in Tasks : FenceStep(t) /\ \A s \in Stages : WorkerStep(t, s)
<1>. USE DEF Crash, Configures
<1>1. /\ disk' \in [Tasks -> States] /\ state' \in [Tasks -> States]
      /\ \A t \in Tasks :
           /\ disk'[t] = state'[t] /\ run'[t] = "none"
           /\ state'[t] = disk[t] \/ state'[t] = "interrupted"
  BY DEF BindingInv, TypeOK, States
<1>2. crashes' \in 0..MaxCrashes
  BY CrashBound DEF BindingInv, TypeOK
<1>3. run' \in [Tasks -> RunStates] /\ canc' \in [Tasks -> BOOLEAN]
      /\ served' \in [Tasks -> BOOLEAN] /\ toRecover' \subseteq Tasks
      /\ broker' \in {"up", "bare", "boot", "failed"}
  BY DEF RunStates
<1>4. TypeOK'
  BY <1>1, <1>2, <1>3 DEF BindingInv, TypeOK, record, outside
<1>5. BootInv'
  BY <1>1 DEF BootInv, record
<1>6. ASSUME NEW t \in Tasks
      PROVE  TaskInv(t)' /\ FenceStep(t) /\ \A s \in Stages : WorkerStep(t, s)
  <2>1. /\ WorkerInv(t)' /\ ExecInv(t)' /\ FenceStep(t)
        /\ \A s \in Stages : WorkerStep(t, s)
    BY OutsideKept DEF record
  <2>2. OutcomeInv(t)' /\ RunInv(t)'
    BY <1>1, StateTypes DEF TaskInv, OutcomeInv, RunInv, Terminal, record
  <2>. QED
    BY <2>1, <2>2 DEF TaskInv
<1>. QED
  BY <1>4, <1>5, <1>6 DEF BindingInv

(* A good step of one task.                                                *)
LEMMA GoodKeeps ==
  ASSUME BindingInv, NEW t \in Tasks, Good(t), BootInv'
  PROVE  BindingInv' /\ \A u \in Tasks : FenceStep(u) /\ \A s \in Stages : WorkerStep(u, s)
<1>1. ASSUME NEW u \in Tasks
      PROVE  TaskInv(u)' /\ FenceStep(u) /\ \A s \in Stages : WorkerStep(u, s)
  <2>1. CASE u = t
    BY <2>1 DEF Good
  <2>2. CASE u # t
    BY <2>2, SameKeeps DEF Good
  <2>. QED
    BY <2>1, <2>2
<1>. QED
  BY <1>1 DEF Good, BindingInv

(* No run thread exists while a broker boots, or has failed to, and what   *)
(* it recovers has a record.                                               *)
LEMMA BootKept ==
  ASSUME BindingInv, NEW t \in Tasks, Good(t), UNCHANGED boot,
         \/ broker \notin {"boot", "failed"}
         \/ run'[t] = run[t] /\ (phase[t] # "none" => phase'[t] # "none")
  PROVE  BootInv'
<1>. SUFFICES ASSUME NEW u \in Tasks
     PROVE  /\ broker' \in {"boot", "failed"} => run'[u] = "none"
            /\ broker' = "boot" /\ u \in toRecover' => phase'[u] # "none"
  BY DEF BootInv
<1>1. CASE u = t
  BY <1>1 DEF BindingInv, BootInv, boot
<1>2. CASE u # t
  BY <1>2 DEF BindingInv, BootInv, boot, Good, Same
<1>. QED
  BY <1>1, <1>2

LEMMA RunStepKeeps ==
  ASSUME BindingInv, NEW t \in Tasks, RunStep(t)
  PROVE  Good(t) /\ BootInv'
<1>1. Good(t)
  BY RunStartGood, RunRestageGood, SavesGood, RunDispatchGood,
     RunBoundCancelledGood, MovesGood, RunRevokeGood, RunStopGood DEF RunStep
<1>2. run[t] # "none" /\ UNCHANGED boot
  BY DEF RunStep, RunStart, RunRestage, RunStageCancelled, RunDispatch,
         RunBoundCancelled, RunStream, RunExit, RunDrain, RunRevoke, RunStop,
         RunFailed, RunHandoff, RunCompleted, RunExcept, RunInterrupt,
         RunFinally, RunMove
<1>3. broker \notin {"boot", "failed"}
  BY <1>2 DEF BindingInv, BootInv
<1>. QED
  BY <1>1, <1>2, <1>3, BootKept

LEMMA StepKeeps ==
  ASSUME BindingInv, [Next]_vars
  PROVE  BindingInv' /\ \A t \in Tasks : FenceStep(t) /\ \A s \in Stages : WorkerStep(t, s)
<1>1. ASSUME NEW t \in Tasks, NEW h \in BOOLEAN, Create(t, h)
      PROVE  Good(t) /\ BootInv'
  BY <1>1, CreateGood, BootKept DEF Create, Up
<1>2. ASSUME NEW t \in Tasks, CancelRequest(t) \/ Operate(t)
      PROVE  Good(t) /\ BootInv'
  BY <1>2, CancelRequestGood, OperateGood, BootKept DEF CancelRequest, Operate, Up
<1>3. ASSUME NEW t \in Tasks, CancelLocked(t)
      PROVE  Good(t) /\ BootInv'
  <2>1. phase[t] # "none" => phase'[t] # "none"
    <3>1. CASE Revocable(t)
      BY <1>3, <3>1, CancelEffect DEF CancelLocked, Revocable
    <3>2. CASE ~Revocable(t)
      BY <1>3, <3>2 DEF CancelLocked, CancelTask
    <3>. QED
      BY <3>1, <3>2
  <2>2. UNCHANGED <<run, boot>>
    BY <1>3 DEF CancelLocked
  <2>. QED
    BY <1>3, <2>1, <2>2, CancelLockedGood, BootKept
<1>4. ASSUME NEW t \in Tasks, Expire(t)
      PROVE  Good(t) /\ BootInv'
  BY <1>4, ExpireGood, BootKept DEF Expire
<1>5. ASSUME NEW t \in Tasks, NEW s \in Stages, WorkerMoves(t, s)
      PROVE  Good(t) /\ BootInv'
  BY <1>5, WorkerMovesGood, BootKept DEF WorkerMoves, record
<1>6. ASSUME NEW t \in Tasks, RecoverStops(t) \/ RecoverRaises(t)
      PROVE  Good(t) /\ BootInv'
  <2>1. Good(t)
    BY <1>6, RecoverGood
  <2>2. /\ broker = "boot" /\ run' = run
        /\ \/ broker' = "boot" /\ toRecover' = toRecover \ {t}
           \/ broker' = "failed"
    BY <1>6 DEF RecoverStops, RecoverRaises, Recovering
  <2>. QED
    BY <2>1, <2>2 DEF Good, Same, BindingInv, BootInv
<1>7. CASE BootDone \/ UNCHANGED vars
  <2>1. UNCHANGED <<state, disk, stage, record, run, outside>>
    BY <1>7 DEF BootDone, vars
  <2>2. TypeOK'
    BY <1>7 DEF BootDone, vars, boot, record, outside, BindingInv, TypeOK
  <2>3. BootInv'
    BY <1>7 DEF BootDone, vars, boot, record, BindingInv, BootInv
  <2>4. \A t \in Tasks : Same(t)
    BY <2>1 DEF Same, record, outside
  <2>. QED
    BY <2>2, <2>3, <2>4, SameKeeps DEF BindingInv
<1>. QED
  BY <1>1, <1>2, <1>3, <1>4, <1>5, <1>6, <1>7, RunStepKeeps, CrashKeeps, GoodKeeps
  DEF Next

LEMMA InitHolds == Init => BindingInv
<1>. SUFFICES ASSUME Init PROVE BindingInv
  OBVIOUS
<1>1. TypeOK
  BY CrashBound DEF Init, TypeOK, States, Phases, RunStates, Stages, WorkerStates
<1>2. BootInv
  BY DEF Init, BootInv
<1>3. ASSUME NEW t \in Tasks PROVE TaskInv(t)
  <2>1. WorkerInv(t) /\ ExecInv(t)
    BY DEF Init, WorkerInv, ExecInv, W, Stages, Revocable
  <2>2. OutcomeInv(t) /\ RunInv(t)
    BY DEF Init, OutcomeInv, RunInv, Terminal
  <2>. QED
    BY <2>1, <2>2 DEF TaskInv
<1>. QED
  BY <1>1, <1>2, <1>3 DEF BindingInv

LEMMA InvariantHolds == Spec => []BindingInv
<1>1. BindingInv /\ [Next]_vars => BindingInv'
  BY StepKeeps
<1>. QED
  BY <1>1, InitHolds, PTL DEF Spec

-----------------------------------------------------------------------------
(* The type of the tasks, their records and their workers.                 *)
THEOREM TypeCorrect == Spec => []TypeOK
<1>1. BindingInv => TypeOK
  BY DEF BindingInv
<1>. QED
  BY <1>1, InvariantHolds, PTL

(* No worker executes twice, whoever asks again for an uncertain dispatch. *)
THEOREM WorkerExecutesOnce == Spec => []ExecutesOnce
<1>1. BindingInv => ExecutesOnce
  <2>. SUFFICES ASSUME BindingInv, NEW t \in Tasks, NEW s \in Stages
                PROVE  execs[<<t, s>>] <= 1
    BY DEF ExecutesOnce
  <2>1. execs[<<t, s>>] \in {0, 1}
    BY StateTypes DEF TaskInv, ExecInv
  <2>. QED
    BY <2>1
<1>. QED
  BY <1>1, InvariantHolds, PTL

(* A task with an outcome has no worker that runs or may still come, and   *)
(* its stages never have one each.                                         *)
THEOREM SettledIsAbsent == Spec => []SettledMeansAbsent
<1>1. BindingInv => SettledMeansAbsent
  <2>. SUFFICES ASSUME BindingInv, NEW t \in Tasks
                PROVE  /\ state[t] \in Terminal =>
                            \A s \in Stages : ~MayRun(<<t, s>>)
                       /\ ~(MayRun(<<t, 1>>) /\ MayRun(<<t, 2>>))
    BY DEF SettledMeansAbsent
  <2>1. WorkerInv(t) /\ OutcomeInv(t) /\ stage[t] \in {1, 2}
        /\ W(t) = <<t, stage[t]>>
    BY StateTypes, WorkerNames DEF TaskInv, Stages
  <2>. QED
    BY <2>1 DEF WorkerInv, OutcomeInv, MayRun, Stages
<1>. QED
  BY <1>1, InvariantHolds, PTL

(* A fence is final until the next stage has a binding of its own.         *)
THEOREM FenceIsFinal == Spec => FenceHolds
<1>1. BindingInv /\ [Next]_vars =>
        [\A t \in Tasks : fenced[t] /\ Revocable(t) /\ stage'[t] = stage[t]
                           => fenced'[t] /\ execs'[W(t)] = execs[W(t)]]_vars
  BY StepKeeps DEF FenceStep
<1>. QED
  BY <1>1, InvariantHolds, PTL DEF Spec, FenceHolds

-----------------------------------------------------------------------------
LEMMA RunningIsClaimed ==
  ASSUME BindingInv, NEW t \in Tasks, NEW s \in Stages, MayRun(<<t, s>>)
  PROVE  Blocks(t)
<1>1. WorkerInv(t) /\ stage[t] \in {1, 2} /\ W(t) = <<t, stage[t]>> /\ s \in {1, 2}
  BY StateTypes, WorkerNames DEF TaskInv, Stages
<1>2. s = stage[t]
  BY <1>1 DEF WorkerInv, MayRun
<1>. QED
  BY <1>1, <1>2 DEF WorkerInv, MayRun, Blocks

LEMMA PromiseInit == Init => Promise!Init
<1>. SUFFICES ASSUME Init PROVE Promise!Init
  OBVIOUS
<1>1. \A w \in Tasks \X Stages : ~Blocks(w[1]) /\ ~MayRun(w) /\ worker[w] = "none"
  BY DEF Init, Blocks, MayRun, Busy
<1>. QED
  BY <1>1 DEF Promise!Init

LEMMA PromiseStep == BindingInv /\ [Next]_vars => [Promise!Next]_Promise!vars
<1>. SUFFICES ASSUME BindingInv, [Next]_vars PROVE Promise!Next
  OBVIOUS
<1>0. BindingInv'
  BY StepKeeps
<1>1. ASSUME NEW w \in Tasks \X Stages
      PROVE  \/ Promise!Idle(w) \/ Promise!Claim(w) \/ Promise!Release(w)
             \/ Promise!Launch(w) \/ Promise!Exit(w)
  <2>. PICK t \in Tasks, s \in Stages : w = <<t, s>>
    OBVIOUS
  <2>0. w[1] = t
    OBVIOUS
  <2>1. MayRun(w) => Blocks(t)
    BY RunningIsClaimed
  <2>2. MayRun(w)' => Blocks(t)'
    <3>1. SUFFICES ASSUME MayRun(w)' PROVE Blocks(t)'
      OBVIOUS
    <3>2. /\ WorkerInv(t)' /\ stage'[t] \in {1, 2} /\ s \in {1, 2}
          /\ W(t)' = <<t, stage'[t]>>
      BY <1>0 DEF BindingInv, TaskInv, TypeOK, Stages, W
    <3>3. s = stage'[t]
      BY <3>1, <3>2 DEF WorkerInv, MayRun
    <3>. QED
      BY <3>1, <3>2, <3>3 DEF WorkerInv, MayRun, Blocks
  <2>3. WorkerStep(t, s)
    BY StepKeeps
  <2>4. CASE worker[w] = "none" /\ worker'[w] \in {"late", "alive"} /\ Blocks(t)
    BY <2>0, <2>2, <2>4 DEF MayRun, Promise!Launch
  <2>5. CASE /\ MayRun(w)' => MayRun(w)
             /\ (worker[w] # "none") <=> (worker'[w] # "none")
    BY <2>0, <2>1, <2>2, <2>5
    DEF Promise!Idle, Promise!Claim, Promise!Release, Promise!Exit, Promise!Same
  <2>. QED
    BY <2>3, <2>4, <2>5 DEF WorkerStep, MayRun
<1>. QED
  BY <1>1 DEF Promise!Next

(* Each stage implements SessionClaim: one allocation, under the task's    *)
(* claim, which outlives everything that may still come of it.             *)
THEOREM StagesKeepPromise == Spec => KeepsPromise
<1>1. Init => Promise!Init
  BY PromiseInit
<1>2. BindingInv /\ [Next]_vars => [Promise!Next]_Promise!vars
  BY PromiseStep
<1>. QED
  BY <1>1, <1>2, InvariantHolds, PTL DEF Spec, KeepsPromise, Promise!Spec
=============================================================================
