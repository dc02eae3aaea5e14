----------------------------- MODULE TaskBroker -----------------------------
(***************************************************************************)
(* The private-runtime task broker, container/dsh-task-broker.py: the      *)
(* Registry that admits one task at a time, the thread that runs a task's  *)
(* client process (and, for a handoff, a second one), the request threads  *)
(* that cancel or approve it, and the restart that recovers task.json.     *)
(*                                                                         *)
(* The broker serves each HTTP request on a thread of its own and Task.run *)
(* holds no lock, so every read of self.state and every write of it is a   *)
(* step of its own here.  An assignment and the save() that follows it     *)
(* directly are one step: a crash between the two leaves what a crash      *)
(* before the assignment leaves, and save() writes the state it finds.     *)
(*                                                                         *)
(* Native SDK tasks (module NativeSession) and OpenShell tasks have        *)
(* threads of their own; here are the runtimes that Task.run executes, and *)
(* the checkpoint records an earlier release left in awaiting_approval.    *)
(***************************************************************************)
EXTENDS Naturals, FiniteSets

CONSTANTS
  Tasks,        \* the task identities that may be used
  Legacy,       \* of these, SDK checkpoint records found on disk at start
  MaxRestarts   \* bound on container restarts

ASSUME LegacyAreTasks == Legacy \subseteq Tasks
ASSUME RestartBound == MaxRestarts \in Nat

VARIABLES
  state,      \* Task.state in the broker's memory
  disk,       \* the state recorded in task.json
  handoff,    \* the request names a handoffRuntime and is no resume
  run,        \* where the thread executing Task.run stands
  tail,       \* an earlier run of the task is still in its finally block
  stage,      \* which of the two clients the run is at
  proc,       \* the client process of that stage
  attached,   \* self.process refers to that process
  verdict,    \* the state the run has decided on and not yet assigned
  canc,       \* where the thread serving a cancel request stands
  appr,       \* where the thread serving an approve request stands
  streamLost, \* the run gave up on the output of a live process
  restarts

vars == <<state, disk, handoff, run, tail, stage, proc, attached,
          verdict, canc, appr, streamLost, restarts>>

runVars == <<run, tail, stage, proc, attached, verdict, streamLost>>

Terminal == {"completed", "failed", "cancelled", "interrupted"}
Busy == {"queued", "running", "handoff", "cancelling"}
States == Terminal \cup Busy \cup {"absent", "awaiting_approval"}
RunStates == {"none", "begin", "spawn", "attach", "read", "conclude",
              "handoff", "restage", "finish", "done", "dead"}

TypeOK ==
  /\ state \in [Tasks -> States]
  /\ disk \in [Tasks -> States]
  /\ handoff \in [Tasks -> BOOLEAN]
  /\ run \in [Tasks -> RunStates]
  /\ tail \in [Tasks -> BOOLEAN]
  /\ stage \in [Tasks -> {1, 2}]
  /\ proc \in [Tasks -> {"none", "alive", "exited"}]
  /\ attached \in [Tasks -> BOOLEAN]
  /\ verdict \in [Tasks -> States]
  /\ canc \in [Tasks -> {"idle", "mark", "grab", "kill", "conclude"}]
  /\ appr \in [Tasks -> {"idle", "start"}]
  /\ streamLost \in [Tasks -> BOOLEAN]
  /\ restarts \in 0..MaxRestarts

(* The record of a checkpoint that waits for approval survives an upgrade  *)
(* of the image; every other task is created by a request.                 *)
Init ==
  /\ state = [t \in Tasks |-> IF t \in Legacy THEN "awaiting_approval"
                                              ELSE "absent"]
  /\ disk = state
  /\ handoff = [t \in Tasks |-> FALSE]
  /\ run = [t \in Tasks |-> "none"]
  /\ tail = [t \in Tasks |-> FALSE]
  /\ stage = [t \in Tasks |-> 1]
  /\ proc = [t \in Tasks |-> "none"]
  /\ attached = [t \in Tasks |-> FALSE]
  /\ verdict = [t \in Tasks |-> "absent"]
  /\ canc = [t \in Tasks |-> "idle"]
  /\ appr = [t \in Tasks |-> "idle"]
  /\ streamLost = [t \in Tasks |-> FALSE]
  /\ restarts = 0

(* self.state = s; self.emit(...); self.save()                             *)
AssignAndSave(t, s) ==
  /\ state' = [state EXCEPT ![t] = s]
  /\ disk' = [disk EXCEPT ![t] = s]

Goto(t, pc) == run' = [run EXCEPT ![t] = pc]

-----------------------------------------------------------------------------
(* Registry.create: under the registry's lock, but reading task states     *)
(* that other threads write without it.                                    *)

Blocks(t) == state[t] \in Busy \cup {"awaiting_approval"}

Create(t, h) ==
  /\ state[t] = "absent"
  /\ \A u \in Tasks : ~Blocks(u)
  /\ AssignAndSave(t, "queued")
  /\ handoff' = [handoff EXCEPT ![t] = h]
  /\ Goto(t, "begin")
  /\ UNCHANGED <<tail, stage, proc, attached, verdict, canc, appr,
                 streamLost, restarts>>

-----------------------------------------------------------------------------
(* Task.run, from its first statement to its finally block.                *)

(* confined_project runs before the try: when the project directory has    *)
(* gone the thread dies and nobody corrects the state it has just saved.   *)
RunBegin(t) ==
  /\ run[t] = "begin"
  /\ AssignAndSave(t, "running")
  /\ \E next \in {"spawn", "dead"} : Goto(t, next)
  /\ UNCHANGED <<handoff, tail, stage, proc, attached, verdict, canc, appr,
                 streamLost, restarts>>

(* Popen: the process exists before self.process refers to it.             *)
RunSpawn(t) ==
  /\ run[t] = "spawn"
  /\ proc' = [proc EXCEPT ![t] = "alive"]
  /\ Goto(t, "attach")
  /\ UNCHANGED <<state, disk, handoff, tail, stage, attached, verdict, canc,
                 appr, streamLost, restarts>>

(* except: an exception leads to failed whatever the state was.            *)
RunExcept(t) ==
  /\ state' = [state EXCEPT ![t] = "failed"]
  /\ Goto(t, "finish")
  /\ UNCHANGED <<disk, handoff, tail, stage, proc, attached, verdict, canc,
                 appr, restarts>>

RunSpawnFails(t) ==
  /\ run[t] = "spawn"
  /\ RunExcept(t)
  /\ UNCHANGED streamLost

RunAttach(t) ==
  /\ run[t] = "attach"
  /\ attached' = [attached EXCEPT ![t] = TRUE]
  /\ Goto(t, "read")
  /\ UNCHANGED <<state, disk, handoff, tail, stage, proc, verdict, canc,
                 appr, streamLost, restarts>>

(* Appending to the event journal may raise while the client still runs    *)
(* (bound: one client at a time is left behind like this).                 *)
RunStreamFails(t) ==
  /\ run[t] = "read"
  /\ \A u \in Tasks : ~streamLost[u]
  /\ streamLost' = [streamLost EXCEPT ![t] = proc[t] = "alive"]
  /\ RunExcept(t)

MutantOutcomes(t) ==
  IF stage[t] = 2 THEN {"completed", "failed", "paused"}
  ELSE {"failed", IF handoff[t] THEN "handoff" ELSE "completed"}

(* What the exit code and the request make of an uncancelled run.  Exit    *)
(* code 75 is a pause of the SDK client, and only a checkpoint record has  *)
(* that runtime here; such a run is always a resume, which hands nothing   *)
(* off.                                                                    *)
Outcomes(t) ==
  IF stage[t] = 2 THEN {"completed", "failed"}
  ELSE {"failed", IF handoff[t] THEN "handoff" ELSE "completed"}
       \cup (IF t \in Legacy THEN {"awaiting_approval"} ELSE {})

CancelSeen(t) == state[t] \in {"cancelling", "cancelled"}

(* stdout has ended, wait() has returned, and the branch on self.state is  *)
(* taken; the assignment it leads to is a later step.                      *)
MutantRunDecide(t) ==
  /\ run[t] = "read"
  /\ \E v \in (IF CancelSeen(t) THEN {"cancelled"} ELSE Outcomes(t)) :
       verdict' = [verdict EXCEPT ![t] = v]
  /\ Goto(t, "conclude")
  /\ UNCHANGED <<state, disk, handoff, tail, stage, proc, attached, canc,
                 appr, streamLost, restarts>>

RunDecide(t) ==
  /\ run[t] = "read"
  /\ proc[t] = "exited"
  /\ \E v \in (IF CancelSeen(t) THEN {"cancelled"} ELSE Outcomes(t)) :
       verdict' = [verdict EXCEPT ![t] = v]
  /\ Goto(t, "conclude")
  /\ UNCHANGED <<state, disk, handoff, tail, stage, proc, attached, canc,
                 appr, streamLost, restarts>>

RunConclude(t) ==
  /\ run[t] = "conclude"
  /\ state' = [state EXCEPT ![t] = verdict[t]]
  /\ verdict' = [verdict EXCEPT ![t] = "absent"]
  /\ Goto(t, IF verdict[t] = "handoff" THEN "handoff" ELSE "finish")
  /\ UNCHANGED <<disk, handoff, tail, stage, proc, attached, canc, appr,
                 streamLost, restarts>>

(* The handoff event is out; a cancel that arrived meanwhile ends the run. *)
RunHandoff(t) ==
  /\ run[t] = "handoff"
  /\ Goto(t, IF state[t] = "handoff" THEN "restage" ELSE "finish")
  /\ UNCHANGED <<state, disk, handoff, tail, stage, proc, attached,
                 verdict, canc, appr, streamLost, restarts>>

RunRestage(t) ==
  /\ run[t] = "restage"
  /\ AssignAndSave(t, "running")
  /\ stage' = [stage EXCEPT ![t] = 2]
  /\ attached' = [attached EXCEPT ![t] = FALSE]   \* it refers to stage 1
  /\ Goto(t, "spawn")
  /\ UNCHANGED <<handoff, tail, proc, verdict, canc, appr, streamLost,
                 restarts>>

(* finally: self.process = None; self.save(); self.finished.set()          *)
MutantFinallySave(t) ==
  /\ attached' = [attached EXCEPT ![t] = FALSE]
  /\ UNCHANGED disk

FinallySave(t) ==
  /\ attached' = [attached EXCEPT ![t] = FALSE]
  /\ disk' = [disk EXCEPT ![t] = state[t]]

(* Afterwards the request is not looked at again and a client that has     *)
(* been waited for is gone.                                                *)
RunFinish(t) ==
  /\ run[t] = "finish"
  /\ FinallySave(t)
  /\ Goto(t, "done")
  /\ stage' = [stage EXCEPT ![t] = 1]
  /\ handoff' = [handoff EXCEPT ![t] = FALSE]
  /\ proc' = [proc EXCEPT ![t] = IF proc[t] = "exited" THEN "none" ELSE proc[t]]
  /\ UNCHANGED <<state, tail, verdict, canc, appr, streamLost, restarts>>

TailFinish(t) ==
  /\ tail[t]
  /\ FinallySave(t)
  /\ tail' = [tail EXCEPT ![t] = FALSE]
  /\ UNCHANGED <<state, handoff, run, stage, proc, verdict, canc, appr,
                 streamLost, restarts>>

(* The client ends by itself, with whatever exit code.                     *)
ProcExit(t) ==
  /\ proc[t] = "alive"
  /\ proc' = [proc EXCEPT ![t] = "exited"]
  /\ UNCHANGED <<state, disk, handoff, run, tail, stage, attached, verdict,
                 canc, appr, streamLost, restarts>>

-----------------------------------------------------------------------------
(* Task.cancel on a request thread (one cancel in flight per task).        *)

Cancellable == {"queued", "running", "handoff", "awaiting_approval"}

CancelRequest(t) ==
  /\ canc[t] = "idle"
  /\ state[t] \in Cancellable
  /\ canc' = [canc EXCEPT ![t] = "mark"]
  /\ UNCHANGED <<state, disk, handoff, runVars, appr, restarts>>

CancelMark(t) ==
  /\ canc[t] = "mark"
  /\ AssignAndSave(t, "cancelling")
  /\ canc' = [canc EXCEPT ![t] = "grab"]
  /\ UNCHANGED <<handoff, runVars, appr, restarts>>

CancelGrab(t) ==
  /\ canc[t] = "grab"
  /\ canc' = [canc EXCEPT ![t] = IF attached[t] /\ proc[t] = "alive"
                                   THEN "kill" ELSE "conclude"]
  /\ UNCHANGED <<state, disk, handoff, runVars, appr, restarts>>

(* SIGTERM to the process group, up to eight seconds, then SIGKILL.        *)
CancelKill(t) ==
  /\ canc[t] = "kill"
  /\ proc' = [proc EXCEPT ![t] = "exited"]
  /\ canc' = [canc EXCEPT ![t] = "conclude"]
  /\ UNCHANGED <<state, disk, handoff, run, tail, stage, attached, verdict,
                 appr, streamLost, restarts>>

MutantCancelConclude(t) ==
  /\ canc[t] = "conclude"
  /\ IF attached[t] THEN AssignAndSave(t, "cancelled") ELSE UNCHANGED <<state, disk>>
  /\ canc' = [canc EXCEPT ![t] = "idle"]
  /\ UNCHANGED <<handoff, runVars, appr, restarts>>

CancelConclude(t) ==
  /\ canc[t] = "conclude"
  /\ AssignAndSave(t, "cancelled")
  /\ canc' = [canc EXCEPT ![t] = "idle"]
  /\ UNCHANGED <<handoff, runVars, appr, restarts>>

-----------------------------------------------------------------------------
(* Task.approve on a request thread (one approve in flight per task).      *)

MutantApprovable(t) == state[t] \in {"awaiting_approval", "interrupted"} /\ t \in Legacy

Approvable(t) == state[t] = "awaiting_approval" /\ t \in Legacy

ApproveRequest(t) ==
  /\ appr[t] = "idle"
  /\ Approvable(t)
  /\ appr' = [appr EXCEPT ![t] = "start"]
  /\ UNCHANGED <<state, disk, handoff, runVars, canc, restarts>>

(* The run that paused may still be in its finally block.                  *)
ApproveStart(t) ==
  /\ appr[t] = "start"
  /\ run[t] \in {"none", "done", "finish"} /\ ~tail[t]
  /\ AssignAndSave(t, "queued")
  /\ tail' = [tail EXCEPT ![t] = run[t] = "finish"]
  /\ Goto(t, "begin")
  /\ appr' = [appr EXCEPT ![t] = "idle"]
  /\ UNCHANGED <<handoff, stage, proc, attached, verdict, canc, streamLost,
                 restarts>>

-----------------------------------------------------------------------------
(* The container restarts: every client dies with it, and Registry reads   *)
(* back the journal.                                                       *)
Restart ==
  /\ restarts < MaxRestarts
  /\ restarts' = restarts + 1
  /\ disk' = [t \in Tasks |-> IF disk[t] \in Busy THEN "interrupted" ELSE disk[t]]
  /\ state' = disk'
  /\ run' = [t \in Tasks |-> "none"]
  /\ tail' = [t \in Tasks |-> FALSE]
  /\ stage' = [t \in Tasks |-> 1]
  /\ proc' = [t \in Tasks |-> "none"]
  /\ attached' = [t \in Tasks |-> FALSE]
  /\ verdict' = [t \in Tasks |-> "absent"]
  /\ canc' = [t \in Tasks |-> "idle"]
  /\ appr' = [t \in Tasks |-> "idle"]
  /\ streamLost' = [t \in Tasks |-> FALSE]
  /\ handoff' = [t \in Tasks |-> FALSE]

RunStep(t) ==
  \/ RunBegin(t) \/ RunSpawn(t) \/ RunAttach(t) \/ RunDecide(t)
  \/ RunConclude(t) \/ RunHandoff(t) \/ RunRestage(t) \/ RunFinish(t)

CancelStep(t) ==
  CancelMark(t) \/ CancelGrab(t) \/ CancelKill(t) \/ CancelConclude(t)

Next ==
  \/ \E t \in Tasks, h \in BOOLEAN : Create(t, h)
  \/ \E t \in Tasks : RunStep(t)
  \/ \E t \in Tasks : RunSpawnFails(t)
  \/ \E t \in Tasks : RunStreamFails(t)
  \/ \E t \in Tasks : TailFinish(t)
  \/ \E t \in Tasks : ProcExit(t)
  \/ \E t \in Tasks : CancelRequest(t)
  \/ \E t \in Tasks : CancelStep(t)
  \/ \E t \in Tasks : ApproveRequest(t)
  \/ \E t \in Tasks : ApproveStart(t)
  \/ Restart

(* The operating system runs every runnable thread.  Nothing is assumed of *)
(* users, of the clients (no timeout bounds a private run) or of restarts. *)
Fairness ==
  \A t \in Tasks :
    /\ WF_vars(RunStep(t))
    /\ WF_vars(TailFinish(t))
    /\ WF_vars(CancelStep(t))
    /\ WF_vars(ApproveStart(t))

Spec == Init /\ [][Next]_vars /\ Fairness

-----------------------------------------------------------------------------
(* Task.run always waits for the client it started: once the thread has    *)
(* left, no client of the task is alive, however cancel, handoff, approve  *)
(* and failure interleave.  The one exception is the run that gave up on   *)
(* the output of a live client when its event journal could not be         *)
(* written.                                                                *)
NoUnwatchedProcess ==
  \A t \in Tasks :
    proc[t] = "alive" /\ run[t] \in {"none", "done", "finish"} => streamLost[t]

(* Nobody is left to change the task: its run, its cancel and its approve  *)
(* have returned.                                                          *)
Quiescent(t) ==
  /\ run[t] \in {"none", "done", "dead"}
  /\ ~tail[t]
  /\ canc[t] = "idle"
  /\ appr[t] = "idle"

(* When every thread of a task has returned, the journal says what the     *)
(* memory says: the unlocked writes of run and cancel never leave          *)
(* task.json behind, so a restart does not change a settled outcome.       *)
JournalSettled == \A t \in Tasks : Quiescent(t) => disk[t] = state[t]

(* A state that blocks admission has a thread that will leave it, except   *)
(* for the run that died in confined_project: no other interleaving leaves *)
(* a task queued, running, handoff or cancelling for ever.                 *)
BusyHasThread ==
  \A t \in Tasks :
    state[t] \in Busy =>
      \/ run[t] \notin {"none", "done"}
      \/ canc[t] \in {"grab", "kill", "conclude"}

(* No replay after an uncertain execution: the state recovery gives to a   *)
(* task that was cut off is never left again, neither by an approve nor by *)
(* a cancel or a thread of the earlier incarnation.                        *)
InterruptedIsFinal ==
  [][\A t \in Tasks : state[t] = "interrupted" => state'[t] = "interrupted"]_vars

(* A cancel that passed its guard gives the admission slot back, whether   *)
(* or not the client obeys SIGTERM and whatever the run thread does, once  *)
(* no restart comes any more to forget the request.                        *)
CancelFreesAdmission ==
  \A t \in Tasks :
    (canc[t] # "idle" /\ restarts = MaxRestarts) ~> ~Blocks(t)

(* The promise of one active task: admission keeps the clients of two      *)
(* tasks from running at the same time.                                    *)
OneActiveProcess ==
  \A t, u \in Tasks :
    proc[t] = "alive" /\ proc[u] = "alive" /\ ~streamLost[t] /\ ~streamLost[u]
      => t = u
=============================================================================
