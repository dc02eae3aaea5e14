---------------------------- MODULE NativeSession ----------------------------
(***************************************************************************)
(* Native SDK tasks of the broker: the session runner that launches one    *)
(* fenced native process (scripts/official_sdk_session.py), the approval   *)
(* bridge whose decisions and single stop are reserved in task.json before *)
(* anything external is called (scripts/official_sdk_approval.py), the     *)
(* cancel and admission paths of container/dsh-task-broker.py, and what a  *)
(* restarted broker reads back and inspects (official_sdk_bootstrap.py).   *)
(*                                                                         *)
(* The journal lock makes one step of everything the code does under it,   *)
(* with the save() it ends in, so memory and task.json are one here; the   *)
(* two assignments of the plain Task.cancel, which takes no lock, are      *)
(* steps of their own.  The protected scope that starts, stops and         *)
(* inspects the process is external: each call is reserved first, takes    *)
(* effect once or never, and its caller may stop waiting at any time.      *)
(***************************************************************************)
EXTENDS Naturals, FiniteSets

CONSTANTS
  Tasks,       \* task identities
  Calls,       \* tool-call identities a native process may ask approval for
  NoCall,      \* no pending approval
  MaxCrashes   \* bound on broker restarts

ASSUME NoCallIsNoCall == NoCall \notin Calls
ASSUME CrashBound == MaxCrashes \in Nat

VARIABLES
  (* task.json *)
  state, phase, pending, used, launched, identity, stopOp, desired, receipt,
  (* the broker process *)
  bridge,     \* task.official_sdk_bridge is set
  finished,   \* task.finished is set
  run,        \* the thread in run_task
  observer,   \* the threads that read requests and notifications
  readerStop, \* run_task told them to leave
  canc,       \* a thread serving DELETE
  dec,        \* a thread serving a decision
  stopOwner,  \* the thread that waits for the one stop call
  startCall, stopCall, respCall,   \* the reserved external calls
  broker,     \* "up", reading back the journal, or failed to start
  sdk,        \* the broker has an SDK service configured
  toRecover,  \* the tasks bootstrap has not inspected yet
  (* the protected scope *)
  proc, fenced,
  (* observation *)
  starts, stops, responses, crashes

journal == <<state, phase, pending, used, launched, identity, stopOp, desired,
             receipt>>
threads == <<run, observer, readerStop, canc, dec, stopOwner>>
calls == <<startCall, stopCall, respCall>>
boot == <<broker, sdk, toRecover, crashes>>
scope == <<proc, fenced>>
counts == <<starts, stops, responses>>
memory == <<bridge, finished>>

vars == <<journal, memory, threads, calls, boot, scope, counts>>

Terminal == {"completed", "failed", "cancelled"}
Busy == {"queued", "running", "finalizing", "cancelling", "awaiting_approval"}
States == Terminal \cup Busy \cup {"absent", "interrupted"}

Live == {"running", "awaiting-approval", "decision-reserved"}
Phases == Live \cup {"none", "launch-reserved", "decision-uncertain",
                     "stop-reserved", "stop-uncertain", "stopped",
                     "observer-cleanup-uncertain", "fenced-after-recovery",
                     "recovery-read-reserved", "recovery-read-uncertain",
                     "recovery-unverified"}
RunStates == {"none", "admit", "prepare", "bind", "reserve", "starting",
              "turn", "settle", "check", "finalize", "except", "stopping",
              "cleanup", "done"}
Actors == {"run", "observer", "cancel"}

TypeOK ==
  /\ state \in [Tasks -> States]
  /\ phase \in [Tasks -> Phases]
  /\ pending \in [Tasks -> Calls \cup {NoCall}]
  /\ used \in [Tasks -> SUBSET Calls]
  /\ launched \in [Tasks -> BOOLEAN]
  /\ identity \in [Tasks -> BOOLEAN]
  /\ stopOp \in [Tasks -> BOOLEAN]
  /\ desired \in [Tasks -> Terminal \cup {"none"}]
  /\ receipt \in [Tasks -> BOOLEAN]
  /\ bridge \in [Tasks -> BOOLEAN]
  /\ finished \in [Tasks -> BOOLEAN]
  /\ run \in [Tasks -> RunStates]
  /\ observer \in [Tasks -> {"none", "reading", "stopping", "leaving", "done"}]
  /\ readerStop \in [Tasks -> BOOLEAN]
  /\ canc \in [Tasks -> {"idle", "mark", "conclude", "stopping"}]
  /\ dec \in [Tasks -> {"idle", "waiting"}]
  /\ stopOwner \in [Tasks -> Actors \cup {"none"}]
  /\ startCall \in [Tasks -> {"idle", "pending", "ok", "bad"}]
  /\ stopCall \in [Tasks -> {"idle", "pending", "verified", "bad"}]
  /\ respCall \in [Tasks -> {"idle", "pending", "ok", "bad"}]
  /\ broker \in {"up", "boot", "failed"}
  /\ sdk \in BOOLEAN
  /\ toRecover \subseteq Tasks
  /\ proc \in [Tasks -> {"none", "alive", "exited"}]
  /\ fenced \in [Tasks -> BOOLEAN]
  /\ starts \in [Tasks -> Nat]
  /\ stops \in [Tasks -> Nat]
  /\ responses \in [Tasks -> [Calls -> Nat]]
  /\ crashes \in 0..MaxCrashes

Init ==
  /\ state = [t \in Tasks |-> "absent"]
  /\ phase = [t \in Tasks |-> "none"]
  /\ pending = [t \in Tasks |-> NoCall]
  /\ used = [t \in Tasks |-> {}]
  /\ launched = [t \in Tasks |-> FALSE]
  /\ identity = [t \in Tasks |-> FALSE]
  /\ stopOp = [t \in Tasks |-> FALSE]
  /\ desired = [t \in Tasks |-> "none"]
  /\ receipt = [t \in Tasks |-> FALSE]
  /\ bridge = [t \in Tasks |-> FALSE]
  /\ finished = [t \in Tasks |-> FALSE]
  /\ run = [t \in Tasks |-> "none"]
  /\ observer = [t \in Tasks |-> "none"]
  /\ readerStop = [t \in Tasks |-> FALSE]
  /\ canc = [t \in Tasks |-> "idle"]
  /\ dec = [t \in Tasks |-> "idle"]
  /\ stopOwner = [t \in Tasks |-> "none"]
  /\ startCall = [t \in Tasks |-> "idle"]
  /\ stopCall = [t \in Tasks |-> "idle"]
  /\ respCall = [t \in Tasks |-> "idle"]
  /\ broker = "up"
  /\ sdk = TRUE
  /\ toRecover = {}
  /\ proc = [t \in Tasks |-> "none"]
  /\ fenced = [t \in Tasks |-> FALSE]
  /\ starts = [t \in Tasks |-> 0]
  /\ stops = [t \in Tasks |-> 0]
  /\ responses = [t \in Tasks |-> [c \in Calls |-> 0]]
  /\ crashes = 0

SetState(t, s) == state' = [state EXCEPT ![t] = s]
SetPhase(t, p) == phase' = [phase EXCEPT ![t] = p]
Goto(t, pc) == run' = [run EXCEPT ![t] = pc]

Up == broker = "up"
-----------------------------------------------------------------------------
(* Registry.create, for an SDK request while the SDK service is qualified. *)

Blocks(t) ==
  \/ state[t] \in Busy
  \/ phase[t] \notin {"none", "stopped"}
  \/ launched[t] /\ ~finished[t]       \* managedSession is set with launched

Create(t) ==
  /\ Up /\ sdk
  /\ state[t] = "absent"
  /\ \A u \in Tasks : ~Blocks(u)
  /\ SetState(t, "queued")
  /\ Goto(t, "admit")
  /\ UNCHANGED <<phase, pending, used, launched, identity, stopOp, desired,
                 receipt, memory, observer, readerStop, canc, dec, stopOwner,
                 calls, boot, scope, counts>>

-----------------------------------------------------------------------------
(* NativeSDKApprovalBridge._retire on behalf of the thread a: the first    *)
(* caller reserves the one stop of this session; a later one can at most   *)
(* turn the outcome into a cancellation.                                   *)

StopIsFree(t) == phase[t] # "stopped" /\ ~stopOp[t]

MutantTerminalIntent(t, terminal) == terminal

TerminalIntent(t, terminal) ==
  IF terminal = "completed" /\ (phase[t] # "running" \/ pending[t] # NoCall)
    THEN "failed" ELSE terminal

ReserveStop(t, a, terminal) ==
  /\ StopIsFree(t)
  /\ stopOp' = [stopOp EXCEPT ![t] = TRUE]
  /\ desired' = [desired EXCEPT ![t] = TerminalIntent(t, terminal)]
  /\ \/ /\ SetPhase(t, "stop-reserved")
        /\ SetState(t, IF terminal = "cancelled" THEN "cancelling" ELSE "finalizing")
        /\ stopCall' = [stopCall EXCEPT ![t] = "pending"]
        /\ stopOwner' = [stopOwner EXCEPT ![t] = a]
     \/ /\ SetPhase(t, "stop-uncertain")    \* the thread could not start
        /\ SetState(t, "interrupted")
        /\ UNCHANGED <<stopCall, stopOwner>>

JoinStop(t, terminal) ==
  /\ ~StopIsFree(t)
  /\ desired' = IF terminal = "cancelled" /\ phase[t] # "stopped"
                  THEN [desired EXCEPT ![t] = "cancelled"] ELSE desired
  /\ UNCHANGED <<state, phase, stopOp, stopCall, stopOwner>>

Retire(t, a, terminal) ==
  /\ ReserveStop(t, a, terminal) \/ JoinStop(t, terminal)
  /\ UNCHANGED <<pending, used, launched, identity, receipt, startCall, respCall>>

(* _accept_stop with the exact exit receipt of the reserved operation.     *)
AcceptStop(t) ==
  /\ SetPhase(t, "stopped")
  /\ receipt' = [receipt EXCEPT ![t] = TRUE]
  /\ SetState(t, desired[t])

DoubtStop(t) ==
  /\ SetPhase(t, "stop-uncertain")
  /\ SetState(t, "interrupted")
  /\ UNCHANGED receipt

(* The waiting thread takes the result, or its five seconds are over.      *)
MutantStopReturns(t, a) ==
  /\ stopOwner[t] = a
  /\ stopOwner' = [stopOwner EXCEPT ![t] = "none"]
  /\ \/ stopCall[t] = "verified" /\ AcceptStop(t)
     \/ stopCall[t] = "bad" /\ DoubtStop(t)
  /\ UNCHANGED <<pending, used, launched, identity, stopOp, desired, calls>>

StopReturns(t, a) ==
  /\ stopOwner[t] = a
  /\ stopOwner' = [stopOwner EXCEPT ![t] = "none"]
  /\ \/ stopCall[t] = "verified" /\ AcceptStop(t)
     \/ stopCall[t] \in {"pending", "bad"} /\ DoubtStop(t)
  /\ UNCHANGED <<pending, used, launched, identity, stopOp, desired, calls>>

(* resolve_stop: read the late result of the same call.                    *)
ResolveStop(t) ==
  /\ bridge[t] /\ phase[t] = "stop-uncertain" /\ stopCall[t] = "verified"
  /\ AcceptStop(t)
  /\ UNCHANGED <<pending, used, launched, identity, stopOp, desired, memory,
                 threads, calls, boot, scope, counts>>

-----------------------------------------------------------------------------
(* OfficialSDKSessionRunner.run_task.                                      *)

RunAdmit(t) ==
  /\ run[t] = "admit"
  /\ \/ SetState(t, "running") /\ Goto(t, "prepare")
     \/ UNCHANGED state /\ Goto(t, "except")    \* revoked meanwhile
  /\ UNCHANGED <<phase, pending, used, launched, identity, stopOp, desired,
                 receipt, memory, observer, readerStop, canc, dec, stopOwner,
                 calls, boot, scope, counts>>

(* Preflight, package pair, project, guard and harness: nothing is saved.  *)
RunPrepare(t) ==
  /\ run[t] = "prepare"
  /\ \E next \in {"bind", "except"} : Goto(t, next)
  /\ UNCHANGED <<journal, memory, observer, readerStop, canc, dec, stopOwner,
                 calls, boot, scope, counts>>

(* The constructor of the bridge publishes it to cancel and decide.        *)
RunBind(t) ==
  /\ run[t] = "bind"
  /\ \/ /\ state[t] = "running"
        /\ SetPhase(t, "running")
        /\ bridge' = [bridge EXCEPT ![t] = TRUE]
        /\ Goto(t, "reserve")
     \/ /\ state[t] # "running"
        /\ Goto(t, "except")
        /\ UNCHANGED <<phase, bridge>>
  /\ UNCHANGED <<state, pending, used, launched, identity, stopOp, desired,
                 receipt, finished, observer, readerStop, canc, dec, stopOwner,
                 calls, boot, scope, counts>>

(* The launch is reserved without a look at what the phase is by now.      *)
RunReserve(t) ==
  /\ run[t] = "reserve"
  /\ SetPhase(t, "launch-reserved")
  /\ launched' = [launched EXCEPT ![t] = TRUE]
  /\ startCall' = [startCall EXCEPT ![t] = "pending"]
  /\ Goto(t, "starting")
  /\ UNCHANGED <<state, pending, used, identity, stopOp, desired, receipt,
                 memory, observer, readerStop, canc, dec, stopOwner, stopCall,
                 respCall, boot, scope, counts>>

MutantStartStillWanted(t) == phase[t] = "launch-reserved"

StartStillWanted(t) == phase[t] = "launch-reserved" /\ state[t] = "running"

RunStarted(t) ==
  /\ run[t] = "starting"
  /\ \/ /\ startCall[t] = "ok" /\ StartStillWanted(t)
        /\ SetPhase(t, "running")
        /\ identity' = [identity EXCEPT ![t] = TRUE]
        /\ observer' = [observer EXCEPT ![t] = "reading"]
        /\ Goto(t, "turn")
     \/ /\ startCall[t] # "ok" \/ ~StartStillWanted(t)   \* late, bad or fenced
        /\ Goto(t, "except")
        /\ UNCHANGED <<phase, identity, observer>>
  /\ UNCHANGED <<state, pending, used, launched, stopOp, desired, receipt,
                 memory, readerStop, canc, dec, stopOwner, calls, boot, scope,
                 counts>>

(* harness.run returns a completed turn, or fails within its 120 seconds.  *)
RunTurn(t) ==
  /\ run[t] = "turn"
  /\ \/ observer[t] = "reading" /\ Goto(t, "settle")
     \/ Goto(t, "except")
  /\ UNCHANGED <<journal, memory, observer, readerStop, canc, dec, stopOwner,
                 calls, boot, scope, counts>>

(* The process may answer before the decision it waited for is journalled. *)
RunSettle(t) ==
  /\ run[t] = "settle"
  /\ Goto(t, IF phase[t] # "decision-reserved" THEN "check" ELSE "except")
  /\ UNCHANGED <<journal, memory, observer, readerStop, canc, dec, stopOwner,
                 calls, boot, scope, counts>>

RunCheck(t) ==
  /\ run[t] = "check"
  /\ Goto(t, IF state[t] = "running" /\ phase[t] = "running"
               THEN "finalize" ELSE "except")
  /\ UNCHANGED <<journal, memory, observer, readerStop, canc, dec, stopOwner,
                 calls, boot, scope, counts>>

AfterRetire(t) == IF stopOwner'[t] = "run" THEN "stopping" ELSE "cleanup"

RunFinalize(t) ==
  /\ run[t] = "finalize"
  /\ Retire(t, "run", "completed")
  /\ Goto(t, AfterRetire(t))
  /\ readerStop' = [readerStop EXCEPT ![t] = TRUE]
  /\ UNCHANGED <<memory, observer, canc, dec, boot, scope, counts>>

RunExcept(t) ==
  /\ run[t] = "except"
  /\ readerStop' = [readerStop EXCEPT ![t] = TRUE]
  /\ \/ /\ bridge[t]
        /\ Retire(t, "run", "failed")
        /\ Goto(t, AfterRetire(t))
     \/ /\ ~bridge[t]
        /\ SetState(t, "failed")
        /\ Goto(t, "cleanup")
        /\ UNCHANGED <<phase, pending, used, launched, identity, stopOp,
                       desired, receipt, calls, stopOwner>>
  /\ UNCHANGED <<memory, observer, canc, dec, boot, scope, counts>>

RunStopping(t) ==
  /\ run[t] = "stopping"
  /\ StopReturns(t, "run")
  /\ Goto(t, "cleanup")
  /\ UNCHANGED <<memory, observer, readerStop, canc, dec, boot, scope, counts>>

(* finally: an observer that does not leave within its second makes even a *)
(* verified stop uncertain again.                                          *)
RunCleanup(t) ==
  /\ run[t] = "cleanup"
  /\ \/ /\ observer[t] \in {"none", "done"}
        /\ UNCHANGED <<phase, state>>
     \/ /\ observer[t] \notin {"none", "done"}
        /\ SetPhase(t, "observer-cleanup-uncertain")
        /\ SetState(t, "interrupted")
  /\ readerStop' = [readerStop EXCEPT ![t] = TRUE]
  /\ finished' = [finished EXCEPT ![t] = TRUE]
  /\ Goto(t, "done")
  /\ UNCHANGED <<pending, used, launched, identity, stopOp, desired, receipt,
                 bridge, observer, canc, dec, stopOwner, calls, boot, scope,
                 counts>>

-----------------------------------------------------------------------------
(* The two observer threads, as one: approval requests and notifications.  *)

(* NativeSDKApprovalBridge.receive; what it refuses retires the session    *)
(* (the limit of 256 calls per session is left out).                       *)
Receivable(t, c) ==
  /\ state[t] = "running" /\ phase[t] = "running"
  /\ pending[t] = NoCall /\ c \notin used[t]

ObserverRetires(t) ==
  /\ Retire(t, "observer", "failed")
  /\ observer' = [observer EXCEPT ![t] = IF stopOwner'[t] = "observer"
                                           THEN "stopping" ELSE "leaving"]

RequestApproval(t, c) ==
  /\ observer[t] = "reading" /\ ~readerStop[t] /\ proc[t] = "alive"
  /\ \/ /\ Receivable(t, c)
        /\ SetPhase(t, "awaiting-approval")
        /\ SetState(t, "awaiting_approval")
        /\ pending' = [pending EXCEPT ![t] = c]
        /\ UNCHANGED <<used, launched, identity, stopOp, desired, receipt,
                       observer, stopOwner, calls>>
     \/ ~Receivable(t, c) /\ ObserverRetires(t)
  /\ UNCHANGED <<memory, run, readerStop, canc, dec, boot, scope, counts>>

ObserverFails(t) ==
  /\ observer[t] = "reading" /\ ~readerStop[t]
  /\ ObserverRetires(t)
  /\ UNCHANGED <<memory, run, readerStop, canc, dec, boot, scope, counts>>

ObserverStopping(t) ==
  /\ observer[t] = "stopping"
  /\ StopReturns(t, "observer")
  /\ observer' = [observer EXCEPT ![t] = "leaving"]
  /\ UNCHANGED <<memory, run, readerStop, canc, dec, boot, scope, counts>>

ObserverLeaves(t) ==
  /\ observer[t] \in {"reading", "leaving"} /\ readerStop[t]
  /\ observer' = [observer EXCEPT ![t] = "done"]
  /\ UNCHANGED <<journal, memory, run, readerStop, canc, dec, stopOwner, calls,
                 boot, scope, counts>>

-----------------------------------------------------------------------------
(* NativeSDKApprovalBridge.decide on a request thread: journal the         *)
(* decision, send the one response, journal what came of it.               *)

Decide(t) ==
  /\ Up /\ bridge[t] /\ dec[t] = "idle"
  /\ phase[t] = "awaiting-approval" /\ state[t] = "awaiting_approval"
  /\ pending[t] # NoCall
  /\ \/ /\ SetPhase(t, "decision-reserved")
        /\ respCall' = [respCall EXCEPT ![t] = "pending"]
        /\ dec' = [dec EXCEPT ![t] = "waiting"]
        /\ UNCHANGED state
     \/ /\ SetPhase(t, "decision-uncertain")    \* the thread could not start
        /\ SetState(t, "interrupted")
        /\ UNCHANGED <<respCall, dec>>
  /\ UNCHANGED <<pending, used, launched, identity, stopOp, desired, receipt,
                 memory, run, observer, readerStop, canc, stopOwner, startCall,
                 stopCall, boot, scope, counts>>

DecisionIsCurrent(t) ==
  phase[t] = "decision-reserved" /\ pending[t] # NoCall

(* The response went out.  If the session was fenced meanwhile the request *)
(* fails and nothing is reopened.                                          *)
DecideAccept(t) ==
  /\ dec[t] = "waiting" /\ respCall[t] = "ok"
  /\ dec' = [dec EXCEPT ![t] = "idle"]
  /\ \/ /\ DecisionIsCurrent(t)
        /\ used' = [used EXCEPT ![t] = @ \cup {pending[t]}]
        /\ pending' = [pending EXCEPT ![t] = NoCall]
        /\ SetPhase(t, "running")
        /\ SetState(t, "running")
     \/ ~DecisionIsCurrent(t) /\ UNCHANGED <<used, pending, phase, state>>
  /\ UNCHANGED <<launched, identity, stopOp, desired, receipt, memory, run,
                 observer, readerStop, canc, stopOwner, calls, boot, scope,
                 counts>>

(* It failed, or is not back within five seconds.                          *)
DecideFail(t) ==
  /\ dec[t] = "waiting" /\ respCall[t] \in {"pending", "bad"}
  /\ dec' = [dec EXCEPT ![t] = "idle"]
  /\ \/ /\ DecisionIsCurrent(t)
        /\ SetPhase(t, "decision-uncertain")
        /\ SetState(t, "interrupted")
     \/ ~DecisionIsCurrent(t) /\ UNCHANGED <<phase, state>>
  /\ UNCHANGED <<pending, used, launched, identity, stopOp, desired, receipt,
                 memory, run, observer, readerStop, canc, stopOwner, calls,
                 boot, scope, counts>>

-----------------------------------------------------------------------------
(* Task.cancel (one at a time): through the bridge when there is one; else *)
(* the plain two assignments, without the journal lock, and there is no    *)
(* self.process to kill.                                                   *)

CancelRequest(t) ==
  /\ Up /\ canc[t] = "idle"
  /\ \/ /\ bridge[t]
        /\ Retire(t, "cancel", "cancelled")
        /\ canc' = [canc EXCEPT ![t] = IF stopOwner'[t] = "cancel"
                                         THEN "stopping" ELSE "idle"]
     \/ /\ ~bridge[t] /\ state[t] \in Busy \ {"cancelling"}
        /\ canc' = [canc EXCEPT ![t] = "mark"]
        /\ UNCHANGED <<journal, stopOwner, calls>>
  /\ UNCHANGED <<memory, run, observer, readerStop, dec, boot, scope, counts>>

CancelStopping(t) ==
  /\ canc[t] = "stopping"
  /\ StopReturns(t, "cancel")
  /\ canc' = [canc EXCEPT ![t] = "idle"]
  /\ UNCHANGED <<memory, run, observer, readerStop, dec, boot, scope, counts>>

CancelAssign(t, from, to, s) ==
  /\ canc[t] = from
  /\ canc' = [canc EXCEPT ![t] = to]
  /\ SetState(t, s)
  /\ UNCHANGED <<phase, pending, used, launched, identity, stopOp, desired,
                 receipt, memory, run, observer, readerStop, dec, stopOwner,
                 calls, boot, scope, counts>>

CancelMark(t) == CancelAssign(t, "mark", "conclude", "cancelling")
CancelConclude(t) == CancelAssign(t, "conclude", "idle", "cancelled")

-----------------------------------------------------------------------------
(* The protected scope: not part of the repository, known by the receipts  *)
(* the broker asks of it.                                                  *)

(* A start that is fenced never takes effect; one that is reserved and not *)
(* fenced may take effect late, even after the broker has gone.            *)
StartExec(t) ==
  /\ startCall[t] = "pending"
  /\ \/ /\ ~fenced[t]
        /\ proc' = [proc EXCEPT ![t] = "alive"]
        /\ starts' = [starts EXCEPT ![t] = @ + 1]
        /\ \E r \in {"ok", "bad"} : startCall' = [startCall EXCEPT ![t] = r]
     \/ /\ startCall' = [startCall EXCEPT ![t] = "bad"]
        /\ UNCHANGED <<proc, starts>>
  /\ UNCHANGED <<journal, memory, threads, stopCall, respCall, boot, fenced,
                 stops, responses>>

Exited(p) == IF p = "alive" THEN "exited" ELSE p

(* verified_stop: it needs the launch operation to name what it stops, and *)
(* journals the process identity of the exact receipt it accepts.          *)
StopExec(t) ==
  /\ stopCall[t] = "pending"
  /\ \/ /\ launched[t]
        /\ fenced' = [fenced EXCEPT ![t] = TRUE]
        /\ proc' = [proc EXCEPT ![t] = Exited(@)]
        /\ identity' = [identity EXCEPT ![t] = proc[t] # "none"]
        /\ stopCall' = [stopCall EXCEPT ![t] = "verified"]
        /\ stops' = [stops EXCEPT ![t] = @ + 1]
     \/ /\ launched[t]
        /\ fenced' \in {fenced, [fenced EXCEPT ![t] = TRUE]}
        /\ proc' \in {proc, [proc EXCEPT ![t] = Exited(@)]}
        /\ stopCall' = [stopCall EXCEPT ![t] = "bad"]
        /\ stops' = [stops EXCEPT ![t] = @ + 1]
        /\ UNCHANGED identity
     \/ /\ ~launched[t]
        /\ stopCall' = [stopCall EXCEPT ![t] = "bad"]
        /\ UNCHANGED <<fenced, proc, identity, stops>>
  /\ UNCHANGED <<state, phase, pending, used, launched, stopOp, desired,
                 receipt, memory, threads, startCall, respCall, boot, starts,
                 responses>>

(* client.respond on the pipe of the native process.                       *)
RespExec(t) ==
  /\ respCall[t] = "pending"
  /\ \/ /\ proc[t] = "alive"
        /\ responses' = [responses EXCEPT ![t][pending[t]] = @ + 1]
        /\ \E r \in {"ok", "bad"} : respCall' = [respCall EXCEPT ![t] = r]
     \/ /\ respCall' = [respCall EXCEPT ![t] = "bad"]
        /\ UNCHANGED responses
  /\ UNCHANGED <<journal, memory, threads, startCall, stopCall, boot, scope,
                 starts, stops>>

ProcExit(t) ==
  /\ proc[t] = "alive"
  /\ proc' = [proc EXCEPT ![t] = "exited"]
  /\ UNCHANGED <<journal, memory, threads, calls, boot, fenced, counts>>

(* The separately qualified exact stop of a session whose broker has gone  *)
(* (also the late effect of a stop the broker did not live to see).        *)
OperatorStop(t) ==
  /\ ~bridge[t] /\ launched[t] /\ ~fenced[t]
  /\ fenced' = [fenced EXCEPT ![t] = TRUE]
  /\ proc' = [proc EXCEPT ![t] = Exited(@)]
  /\ UNCHANGED <<journal, memory, threads, calls, boot, counts>>

-----------------------------------------------------------------------------
(* The broker dies and is started again: Registry.__init__ and             *)
(* Task.recover, then the SDK bootstrap inspects what it found.            *)

ExitOnRecord(t) ==
  state[t] \in Terminal /\ phase[t] = "stopped" /\ receipt[t]

RecoveredState(t) == IF state[t] \in Busy THEN "interrupted" ELSE state[t]

(* configure: without an admission file the SDK stays off, and the records *)
(* of earlier sessions stay as they are; with one that every check accepts *)
(* it is on.  One that is refused ends the process before it serves: the   *)
(* broker is then down until an operator starts it again.                  *)
Configures ==
  \E configured \in BOOLEAN :
    /\ sdk' = configured
    /\ toRecover' = IF configured THEN {t \in Tasks : phase[t] # "none"} ELSE {}

(* The start that was reserved may still reach the scope.                  *)
Crash ==
  /\ crashes < MaxCrashes
  /\ crashes' = crashes + 1
  /\ state' = [t \in Tasks |-> RecoveredState(t)]
  /\ phase' = [t \in Tasks |-> IF phase[t] = "none" \/ ExitOnRecord(t)
                                 THEN phase[t] ELSE "fenced-after-recovery"]
  /\ bridge' = [t \in Tasks |-> FALSE]
  /\ finished' = [t \in Tasks |-> state[t] # "absent"]
  /\ run' = [t \in Tasks |-> "none"]
  /\ observer' = [t \in Tasks |-> "none"]
  /\ readerStop' = [t \in Tasks |-> FALSE]
  /\ canc' = [t \in Tasks |-> "idle"]
  /\ dec' = [t \in Tasks |-> "idle"]
  /\ stopOwner' = [t \in Tasks |-> "none"]
  /\ startCall' = [t \in Tasks |-> IF startCall[t] = "pending" THEN "pending"
                                                                ELSE "idle"]
  /\ stopCall' = [t \in Tasks |-> "idle"]
  /\ respCall' = [t \in Tasks |-> "idle"]
  /\ broker' = "boot"
  /\ Configures
  /\ UNCHANGED <<pending, used, launched, identity, stopOp, desired, receipt,
                 scope, counts>>

Recovering(t) == broker = "boot" /\ t \in toRecover

(* OfficialSDKSessionRunner.recover_task, for one task after the other.    *)
RecoverStopped(t) ==
  /\ Recovering(t) /\ phase[t] = "stopped"
  /\ toRecover' = toRecover \ {t}
  /\ UNCHANGED <<journal, memory, threads, calls, broker, sdk, crashes, scope,
                 counts>>

(* A session that was never launched raises, and nothing catches it.       *)
RecoverRaises(t) ==
  /\ Recovering(t) /\ phase[t] = "fenced-after-recovery" /\ ~launched[t]
  /\ broker' = "failed"
  /\ UNCHANGED <<journal, memory, threads, calls, sdk, toRecover, crashes,
                 scope, counts>>

RecoverReserve(t) ==
  /\ Recovering(t) /\ phase[t] = "fenced-after-recovery" /\ launched[t]
  /\ \A u \in Tasks : phase[u] # "recovery-read-reserved"
  /\ SetPhase(t, "recovery-read-reserved")
  /\ SetState(t, "interrupted")
  /\ UNCHANGED <<pending, used, launched, identity, stopOp, desired, receipt,
                 memory, threads, calls, boot, scope, counts>>

MutantInspectProvesExit(t) == proc[t] = IF identity[t] THEN "exited" ELSE "none"

(* The receipt that recovery accepts: the launch is fenced, and either the *)
(* process with the journalled identity has exited or none was started.    *)
InspectProvesExit(t) ==
  /\ fenced[t]
  /\ proc[t] = IF identity[t] THEN "exited" ELSE "none"

MutantRecoveredTerminal(t) == desired[t]

RecoveredTerminal(t) == IF desired[t] = "none" THEN "failed" ELSE desired[t]

RecoverResult(t) ==
  /\ Recovering(t) /\ phase[t] = "recovery-read-reserved"
  /\ toRecover' = toRecover \ {t}
  /\ \/ /\ InspectProvesExit(t)
        /\ SetPhase(t, "stopped")
        /\ stopOp' = [stopOp EXCEPT ![t] = TRUE]
        /\ receipt' = [receipt EXCEPT ![t] = TRUE]
        /\ SetState(t, RecoveredTerminal(t))
     \/ /\ \E p \in {"recovery-unverified", "recovery-read-uncertain"} :
             SetPhase(t, p)
        /\ UNCHANGED <<stopOp, receipt, state>>
  /\ UNCHANGED <<pending, used, launched, identity, desired, memory, threads,
                 calls, broker, sdk, crashes, scope, counts>>

BootDone ==
  /\ broker = "boot" /\ toRecover = {}
  /\ broker' = "up"
  /\ UNCHANGED <<journal, memory, threads, calls, sdk, toRecover, crashes,
                 scope, counts>>

-----------------------------------------------------------------------------
RunStep(t) ==
  \/ RunAdmit(t) \/ RunPrepare(t) \/ RunBind(t) \/ RunReserve(t)
  \/ RunStarted(t) \/ RunTurn(t) \/ RunSettle(t) \/ RunCheck(t)
  \/ RunFinalize(t) \/ RunExcept(t) \/ RunStopping(t) \/ RunCleanup(t)

CancelStep(t) == CancelStopping(t) \/ CancelMark(t) \/ CancelConclude(t)

DecideReturns(t) == DecideAccept(t) \/ DecideFail(t)

RecoverStep(t) ==
  \/ RecoverStopped(t) \/ RecoverRaises(t) \/ RecoverReserve(t)
  \/ RecoverResult(t)

ScopeStep(t) ==
  \/ StartExec(t) \/ StopExec(t) \/ RespExec(t) \/ ProcExit(t)
  \/ OperatorStop(t)

Next ==
  \/ \E t \in Tasks : Create(t)
  \/ \E t \in Tasks : RunStep(t)
  \/ \E t \in Tasks, c \in Calls : RequestApproval(t, c)
  \/ \E t \in Tasks : ObserverFails(t)
  \/ \E t \in Tasks : ObserverStopping(t)
  \/ \E t \in Tasks : ObserverLeaves(t)
  \/ \E t \in Tasks : Decide(t)
  \/ \E t \in Tasks : DecideReturns(t)
  \/ \E t \in Tasks : CancelRequest(t)
  \/ \E t \in Tasks : CancelStep(t)
  \/ \E t \in Tasks : ResolveStop(t)
  \/ \E t \in Tasks : ScopeStep(t)
  \/ \E t \in Tasks : RecoverStep(t)
  \/ BootDone
  \/ Crash

(* Every wait of a broker thread is bounded by a timeout of the code, so   *)
(* its step comes, with a result or without.  Nothing is assumed of the    *)
(* scope, the native process, the observers' reads or the user.            *)
Fairness ==
  \A t \in Tasks :
    /\ WF_vars(RunStep(t))
    /\ WF_vars(CancelStep(t))
    /\ WF_vars(ObserverStopping(t))
    /\ WF_vars(DecideReturns(t))

Spec == Init /\ [][Next]_vars /\ Fairness

-----------------------------------------------------------------------------
(* The process of a task, as admission has to see it: alive, or submitted  *)
(* to the scope by a start that may yet take effect.                       *)
MayRun(t) == proc[t] = "alive" \/ (startCall[t] = "pending" /\ ~fenced[t])

(* A native process that runs, or that a start already submitted may still *)
(* bring to life, blocks the admission of another task, through timeouts,  *)
(* lost stops, races of cancel and run, crashes and recovery.              *)
LiveProcessBlocksAdmission == \A t \in Tasks : MayRun(t) => Blocks(t)

Promise == INSTANCE SessionClaim WITH
  claimed <- {t \in Tasks : Blocks(t)},
  mayRun <- {t \in Tasks : MayRun(t)},
  launched <- {t \in Tasks : launched[t]}

(* The whole path implements the promise: one launch per session, under    *)
(* the task's claim, which is held until the process cannot run any more.  *)
KeepsPromise == Promise!Spec

(* A task that reports completion has its process exit on record and left  *)
(* no approval open or on its way: a request that slips in between the     *)
(* turn's result and its finalization turns the outcome into a failure.    *)
(* On the way to that or to any other end, no start, stop or approved tool *)
(* call is submitted twice, whatever timed out.                            *)
SettledByOneCallEach ==
  \A t \in Tasks :
    /\ state[t] = "completed" =>
         /\ phase[t] = "stopped" /\ fenced[t] /\ proc[t] # "alive"
         /\ pending[t] = NoCall /\ respCall[t] # "pending"
    /\ starts[t] <= 1 /\ stops[t] <= 1
    /\ \A c \in Calls : responses[t][c] <= 1

(* A session whose stop is reserved never runs again: neither a late start *)
(* nor a late response nor recovery reopens it.                            *)
StopIsNeverReopened ==
  [][\A t \in Tasks :
       stopOp[t] => state'[t] \notin {"running", "awaiting_approval"}
                    /\ phase'[t] \notin Live]_vars

(* No task stays cancelling or finalizing: the thread that waits for the   *)
(* one stop gives up on it, and a plain cancel comes to its end.           *)
NoEndlessStopping ==
  \A t \in Tasks :
    state[t] \in {"cancelling", "finalizing"}
      ~> state[t] \notin {"cancelling", "finalizing"}

(* The promise that a late start cannot override a fence: once the stop of *)
(* a session is reserved, no start is submitted for it.                    *)
NoLaunchAfterStop ==
  [][\A t \in Tasks : stopOp[t] /\ ~launched[t] => ~launched'[t]]_vars

(* The promise that what recovery cannot resolve blocks admission only:    *)
(* the broker itself always starts.                                        *)
BrokerComesBack == broker # "failed"
=============================================================================
