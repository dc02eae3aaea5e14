------------------------ MODULE NativeSession_proofs ------------------------
(***************************************************************************)
(* Proofs about NativeSession, for any tasks, calls and number of crashes: *)
(* type correctness; then that a process that runs or may yet run blocks   *)
(* admission, that the path as a whole implements SessionClaim, that no    *)
(* call is submitted twice on the way to any end, and that a stopped       *)
(* session stays stopped.                                                  *)
(*                                                                         *)
(* The prover does best with one changed variable at a time: the proof of  *)
(* type correctness has a step per action, and under it one per variable.  *)
(*                                                                         *)
(* "The process may run only while its task blocks admission" is not       *)
(* inductive: that a stopped session has no process rests on the fence and *)
(* the exit that a verified stop, an inspection or an operator left in the *)
(* scope, and that a process exists at all on the launch in the journal.   *)
(* LaunchInv says both of one task.                                        *)
(***************************************************************************)
EXTENDS NativeSession, TLAPS

(* A thread that waits for the stop, and the stop itself, know what the    *)
(* task shall be afterwards.                                               *)
StopHasIntent ==
  \A t \in Tasks :
    stopOwner[t] # "none" \/ stopCall[t] # "idle" => desired[t] \in Terminal

TypeInv == TypeOK /\ StopHasIntent

(* The values that actions assign; elsewhere the sets stay folded.         *)
LEMMA StateValues ==
  /\ "running" \in States /\ "awaiting_approval" \in States
  /\ "queued" \in States /\ "cancelling" \in States
  /\ "finalizing" \in States /\ "interrupted" \in States
  /\ "failed" \in States /\ "cancelled" \in States
  /\ Terminal \subseteq States
  BY DEF States, Terminal, Busy

LEMMA TerminalValues ==
  "completed" \in Terminal /\ "failed" \in Terminal /\ "cancelled" \in Terminal
  BY DEF Terminal

LEMMA PhaseValues ==
  /\ "running" \in Phases /\ "awaiting-approval" \in Phases
  /\ "decision-reserved" \in Phases /\ "launch-reserved" \in Phases
  /\ "decision-uncertain" \in Phases /\ "stop-reserved" \in Phases
  /\ "stop-uncertain" \in Phases /\ "stopped" \in Phases
  /\ "observer-cleanup-uncertain" \in Phases
  /\ "fenced-after-recovery" \in Phases
  /\ "recovery-read-reserved" \in Phases
  /\ "recovery-read-uncertain" \in Phases
  /\ "recovery-unverified" \in Phases
  BY DEF Phases, Live

LEMMA RunValues ==
  /\ "none" \in RunStates /\ "admit" \in RunStates /\ "prepare" \in RunStates
  /\ "bind" \in RunStates /\ "reserve" \in RunStates /\ "starting" \in RunStates
  /\ "turn" \in RunStates /\ "settle" \in RunStates /\ "check" \in RunStates
  /\ "finalize" \in RunStates /\ "except" \in RunStates
  /\ "stopping" \in RunStates /\ "cleanup" \in RunStates /\ "done" \in RunStates
  BY DEF RunStates

LEMMA ActorValues ==
  "run" \in Actors /\ "observer" \in Actors /\ "cancel" \in Actors
  BY DEF Actors

-----------------------------------------------------------------------------
(* Whoever retires the session, and for whatever outcome.                  *)
LEMMA RetireType ==
  ASSUME TypeInv, NEW t \in Tasks, NEW a \in Actors, NEW terminal \in Terminal, Retire(t, a, terminal)
  PROVE  /\ state' \in [Tasks -> States]
         /\ phase' \in [Tasks -> Phases]
         /\ stopOp' \in [Tasks -> BOOLEAN]
         /\ desired' \in [Tasks -> Terminal \cup {"none"}]
         /\ stopCall' \in [Tasks -> {"idle", "pending", "verified", "bad"}]
         /\ stopOwner' \in [Tasks -> Actors \cup {"none"}]
         /\ StopHasIntent'
<1>1. state' \in [Tasks -> States]
  <2>1. state \in [Tasks -> States]
    BY DEF TypeInv, TypeOK
  <2> QED
    BY <2>1, StateValues DEF Retire, ReserveStop, JoinStop, SetState
<1>2. phase' \in [Tasks -> Phases]
  <2>1. phase \in [Tasks -> Phases]
    BY DEF TypeInv, TypeOK
  <2> QED
    BY <2>1, PhaseValues DEF Retire, ReserveStop, JoinStop, SetPhase
<1>3. stopOp' \in [Tasks -> BOOLEAN]
  <2>1. stopOp \in [Tasks -> BOOLEAN]
    BY DEF TypeInv, TypeOK
  <2> QED
    BY <2>1 DEF Retire, ReserveStop, JoinStop
<1>4. desired' \in [Tasks -> Terminal \cup {"none"}]
  <2>1. desired \in [Tasks -> Terminal \cup {"none"}]
    BY DEF TypeInv, TypeOK
  <2> QED
    BY <2>1, TerminalValues DEF Retire, ReserveStop, JoinStop, TerminalIntent
<1>5. stopCall' \in [Tasks -> {"idle", "pending", "verified", "bad"}]
  <2>1. stopCall \in [Tasks -> {"idle", "pending", "verified", "bad"}]
    BY DEF TypeInv, TypeOK
  <2> QED
    BY <2>1 DEF Retire, ReserveStop, JoinStop
<1>6. stopOwner' \in [Tasks -> Actors \cup {"none"}]
  <2>1. stopOwner \in [Tasks -> Actors \cup {"none"}]
    BY DEF TypeInv, TypeOK
  <2> QED
    BY <2>1 DEF Retire, ReserveStop, JoinStop
<1>7. StopHasIntent'
  <2>1. /\ desired \in [Tasks -> Terminal \cup {"none"}]
        /\ stopCall \in [Tasks -> {"idle", "pending", "verified", "bad"}]
        /\ stopOwner \in [Tasks -> Actors \cup {"none"}]
        /\ StopHasIntent
    BY DEF TypeInv, TypeOK
  <2> QED
    BY <2>1, TerminalValues DEF Retire, ReserveStop, JoinStop, StopIsFree,
       TerminalIntent, StopHasIntent
<1> QED
  BY <1>1, <1>2, <1>3, <1>4, <1>5, <1>6, <1>7

(* The waiting thread assigns the intended state, a terminal one.          *)
LEMMA StopReturnsType ==
  ASSUME TypeInv, NEW t \in Tasks, NEW a \in Actors, StopReturns(t, a)
  PROVE  /\ state' \in [Tasks -> States]
         /\ phase' \in [Tasks -> Phases]
         /\ receipt' \in [Tasks -> BOOLEAN]
         /\ stopOwner' \in [Tasks -> Actors \cup {"none"}]
         /\ StopHasIntent'
<1>1. state' \in [Tasks -> States]
  <2>1. /\ state \in [Tasks -> States]
        /\ stopOwner[t] # "none" => desired[t] \in Terminal
    BY DEF TypeInv, TypeOK, StopHasIntent
  <2>2. stopOwner[t] # "none"
    BY DEF StopReturns, Actors
  <2> QED
    BY <2>1, <2>2, StateValues DEF StopReturns, AcceptStop, DoubtStop, SetState
<1>2. phase' \in [Tasks -> Phases]
  <2>1. phase \in [Tasks -> Phases]
    BY DEF TypeInv, TypeOK
  <2> QED
    BY <2>1, PhaseValues DEF StopReturns, AcceptStop, DoubtStop, SetPhase
<1>3. receipt' \in [Tasks -> BOOLEAN]
  <2>1. receipt \in [Tasks -> BOOLEAN]
    BY DEF TypeInv, TypeOK
  <2> QED
    BY <2>1 DEF StopReturns, AcceptStop, DoubtStop
<1>4. stopOwner' \in [Tasks -> Actors \cup {"none"}]
  <2>1. stopOwner \in [Tasks -> Actors \cup {"none"}]
    BY DEF TypeInv, TypeOK
  <2> QED
    BY <2>1 DEF StopReturns, AcceptStop, DoubtStop
<1>5. StopHasIntent'
  <2>1. stopOwner \in [Tasks -> Actors \cup {"none"}] /\ StopHasIntent
    BY DEF TypeInv, TypeOK
  <2> QED
    BY <2>1 DEF StopReturns, StopHasIntent, calls
<1> QED
  BY <1>1, <1>2, <1>3, <1>4, <1>5

LEMMA TypeInit == Init => TypeInv
<1> SUFFICES ASSUME Init PROVE TypeInv
  OBVIOUS
<1>1. TypeOK
  BY CrashBound DEF Init, TypeOK, States, Phases, RunStates
<1>2. StopHasIntent
  BY DEF Init, StopHasIntent
<1> QED
  BY <1>1, <1>2 DEF TypeInv

LEMMA TypeStep == TypeInv /\ [Next]_vars => TypeInv'
<1> SUFFICES ASSUME TypeInv, [Next]_vars PROVE TypeInv'
  OBVIOUS
<1> USE DEF journal, memory, threads, calls, boot, scope, counts
<1>state. state \in [Tasks -> States]
  BY DEF TypeInv, TypeOK
<1>phase. phase \in [Tasks -> Phases]
  BY DEF TypeInv, TypeOK
<1>pending. pending \in [Tasks -> Calls \cup {NoCall}]
  BY DEF TypeInv, TypeOK
<1>used. used \in [Tasks -> SUBSET Calls]
  BY DEF TypeInv, TypeOK
<1>launched. launched \in [Tasks -> BOOLEAN]
  BY DEF TypeInv, TypeOK
<1>identity. identity \in [Tasks -> BOOLEAN]
  BY DEF TypeInv, TypeOK
<1>stopOp. stopOp \in [Tasks -> BOOLEAN]
  BY DEF TypeInv, TypeOK
<1>desired. desired \in [Tasks -> Terminal \cup {"none"}]
  BY DEF TypeInv, TypeOK
<1>receipt. receipt \in [Tasks -> BOOLEAN]
  BY DEF TypeInv, TypeOK
<1>bridge. bridge \in [Tasks -> BOOLEAN]
  BY DEF TypeInv, TypeOK
<1>finished. finished \in [Tasks -> BOOLEAN]
  BY DEF TypeInv, TypeOK
<1>run. run \in [Tasks -> RunStates]
  BY DEF TypeInv, TypeOK
<1>observer. observer \in [Tasks -> {"none", "reading", "stopping", "leaving", "done"}]
  BY DEF TypeInv, TypeOK
<1>readerStop. readerStop \in [Tasks -> BOOLEAN]
  BY DEF TypeInv, TypeOK
<1>canc. canc \in [Tasks -> {"idle", "mark", "conclude", "stopping"}]
  BY DEF TypeInv, TypeOK
<1>dec. dec \in [Tasks -> {"idle", "waiting"}]
  BY DEF TypeInv, TypeOK
<1>stopOwner. stopOwner \in [Tasks -> Actors \cup {"none"}]
  BY DEF TypeInv, TypeOK
<1>startCall. startCall \in [Tasks -> {"idle", "pending", "ok", "bad"}]
  BY DEF TypeInv, TypeOK
<1>stopCall. stopCall \in [Tasks -> {"idle", "pending", "verified", "bad"}]
  BY DEF TypeInv, TypeOK
<1>respCall. respCall \in [Tasks -> {"idle", "pending", "ok", "bad"}]
  BY DEF TypeInv, TypeOK
<1>broker. broker \in {"up", "boot", "failed"}
  BY DEF TypeInv, TypeOK
<1>toRecover. toRecover \subseteq Tasks
  BY DEF TypeInv, TypeOK
<1>proc. proc \in [Tasks -> {"none", "alive", "exited"}]
  BY DEF TypeInv, TypeOK
<1>fenced. fenced \in [Tasks -> BOOLEAN]
  BY DEF TypeInv, TypeOK
<1>starts. starts \in [Tasks -> Nat]
  BY DEF TypeInv, TypeOK
<1>stops. stops \in [Tasks -> Nat]
  BY DEF TypeInv, TypeOK
<1>responses. responses \in [Tasks -> [Calls -> Nat]]
  BY DEF TypeInv, TypeOK
<1>crashes. crashes \in 0..MaxCrashes
  BY DEF TypeInv, TypeOK
<1>sdk. sdk \in BOOLEAN
  BY DEF TypeInv, TypeOK
<1>1. ASSUME NEW t \in Tasks, Create(t) PROVE TypeInv'
  <2>1. state' \in [Tasks -> States]
    BY <1>state, <1>1, StateValues DEF Create, SetState
  <2>2. run' \in [Tasks -> RunStates]
    BY <1>run, <1>1, RunValues DEF Create, Goto
  <2>3. StopHasIntent'
    BY <1>1 DEF Create, TypeInv, StopHasIntent
  <2> QED
    BY <1>1, <2>1, <2>2, <2>3 DEF Create, TypeInv, TypeOK
<1>2. ASSUME NEW t \in Tasks, RunAdmit(t) PROVE TypeInv'
  <2>1. state' \in [Tasks -> States]
    BY <1>state, <1>2, StateValues DEF RunAdmit, SetState
  <2>2. run' \in [Tasks -> RunStates]
    BY <1>run, <1>2, RunValues DEF RunAdmit, Goto
  <2>3. StopHasIntent'
    BY <1>2 DEF RunAdmit, TypeInv, StopHasIntent
  <2> QED
    BY <1>2, <2>1, <2>2, <2>3 DEF RunAdmit, TypeInv, TypeOK
<1>3. ASSUME NEW t \in Tasks, RunPrepare(t) PROVE TypeInv'
  <2>1. run' \in [Tasks -> RunStates]
    BY <1>run, <1>3, RunValues DEF RunPrepare, Goto
  <2>2. StopHasIntent'
    BY <1>3 DEF RunPrepare, TypeInv, StopHasIntent
  <2> QED
    BY <1>3, <2>1, <2>2 DEF RunPrepare, TypeInv, TypeOK
<1>4. ASSUME NEW t \in Tasks, RunBind(t) PROVE TypeInv'
  <2>1. phase' \in [Tasks -> Phases]
    BY <1>phase, <1>4, PhaseValues DEF RunBind, SetPhase
  <2>2. bridge' \in [Tasks -> BOOLEAN]
    BY <1>bridge, <1>4 DEF RunBind
  <2>3. run' \in [Tasks -> RunStates]
    BY <1>run, <1>4, RunValues DEF RunBind, Goto
  <2>4. StopHasIntent'
    BY <1>4 DEF RunBind, TypeInv, StopHasIntent
  <2> QED
    BY <1>4, <2>1, <2>2, <2>3, <2>4 DEF RunBind, TypeInv, TypeOK
<1>5. ASSUME NEW t \in Tasks, RunReserve(t) PROVE TypeInv'
  <2>1. phase' \in [Tasks -> Phases]
    BY <1>phase, <1>5, PhaseValues DEF RunReserve, SetPhase
  <2>2. launched' \in [Tasks -> BOOLEAN]
    BY <1>launched, <1>5 DEF RunReserve
  <2>3. startCall' \in [Tasks -> {"idle", "pending", "ok", "bad"}]
    BY <1>startCall, <1>5 DEF RunReserve
  <2>4. run' \in [Tasks -> RunStates]
    BY <1>run, <1>5, RunValues DEF RunReserve, Goto
  <2>5. StopHasIntent'
    BY <1>5 DEF RunReserve, TypeInv, StopHasIntent
  <2> QED
    BY <1>5, <2>1, <2>2, <2>3, <2>4, <2>5 DEF RunReserve, TypeInv, TypeOK
<1>6. ASSUME NEW t \in Tasks, RunStarted(t) PROVE TypeInv'
  <2>1. phase' \in [Tasks -> Phases]
    BY <1>phase, <1>6, PhaseValues DEF RunStarted, SetPhase
  <2>2. identity' \in [Tasks -> BOOLEAN]
    BY <1>identity, <1>6 DEF RunStarted
  <2>3. observer' \in [Tasks -> {"none", "reading", "stopping", "leaving", "done"}]
    BY <1>observer, <1>6 DEF RunStarted
  <2>4. run' \in [Tasks -> RunStates]
    BY <1>run, <1>6, RunValues DEF RunStarted, Goto
  <2>5. StopHasIntent'
    BY <1>6 DEF RunStarted, TypeInv, StopHasIntent
  <2> QED
    BY <1>6, <2>1, <2>2, <2>3, <2>4, <2>5 DEF RunStarted, TypeInv, TypeOK
<1>7. ASSUME NEW t \in Tasks, RunTurn(t) PROVE TypeInv'
  <2>1. run' \in [Tasks -> RunStates]
    BY <1>run, <1>7, RunValues DEF RunTurn, Goto
  <2>2. StopHasIntent'
    BY <1>7 DEF RunTurn, TypeInv, StopHasIntent
  <2> QED
    BY <1>7, <2>1, <2>2 DEF RunTurn, TypeInv, TypeOK
<1>8. ASSUME NEW t \in Tasks, RunSettle(t) PROVE TypeInv'
  <2>1. run' \in [Tasks -> RunStates]
    BY <1>run, <1>8, RunValues DEF RunSettle, Goto
  <2>2. StopHasIntent'
    BY <1>8 DEF RunSettle, TypeInv, StopHasIntent
  <2> QED
    BY <1>8, <2>1, <2>2 DEF RunSettle, TypeInv, TypeOK
<1>9. ASSUME NEW t \in Tasks, RunCheck(t) PROVE TypeInv'
  <2>1. run' \in [Tasks -> RunStates]
    BY <1>run, <1>9, RunValues DEF RunCheck, Goto
  <2>2. StopHasIntent'
    BY <1>9 DEF RunCheck, TypeInv, StopHasIntent
  <2> QED
    BY <1>9, <2>1, <2>2 DEF RunCheck, TypeInv, TypeOK
<1>10. ASSUME NEW t \in Tasks, RunFinalize(t) PROVE TypeInv'
  <2>1. Retire(t, "run", "completed")
    BY <1>10 DEF RunFinalize
  <2>2. /\ state' \in [Tasks -> States]
        /\ phase' \in [Tasks -> Phases]
        /\ stopOp' \in [Tasks -> BOOLEAN]
        /\ desired' \in [Tasks -> Terminal \cup {"none"}]
        /\ stopCall' \in [Tasks -> {"idle", "pending", "verified", "bad"}]
        /\ stopOwner' \in [Tasks -> Actors \cup {"none"}]
        /\ StopHasIntent'
    BY <2>1, RetireType, ActorValues, TerminalValues
  <2>3. run' \in [Tasks -> RunStates]
    BY <1>run, <1>10, RunValues DEF RunFinalize, AfterRetire, Goto
  <2>4. readerStop' \in [Tasks -> BOOLEAN]
    BY <1>readerStop, <1>10 DEF RunFinalize, AfterRetire
  <2> QED
    BY <1>10, <2>1, <2>2, <2>3, <2>4 DEF RunFinalize, TypeInv, TypeOK, Retire
<1>11. ASSUME NEW t \in Tasks, RunExcept(t) PROVE TypeInv'
  <2>1. \/ Retire(t, "run", "failed")
        \/ /\ SetState(t, "failed")
           /\ UNCHANGED <<phase, stopOp, desired, stopCall, stopOwner>>
    BY <1>11 DEF RunExcept
  <2>2. /\ state' \in [Tasks -> States]
        /\ phase' \in [Tasks -> Phases]
        /\ stopOp' \in [Tasks -> BOOLEAN]
        /\ desired' \in [Tasks -> Terminal \cup {"none"}]
        /\ stopCall' \in [Tasks -> {"idle", "pending", "verified", "bad"}]
        /\ stopOwner' \in [Tasks -> Actors \cup {"none"}]
        /\ StopHasIntent'
    <3>1. CASE Retire(t, "run", "failed")
      BY <3>1, RetireType, ActorValues, TerminalValues
    <3>2. CASE /\ SetState(t, "failed")
                /\ UNCHANGED <<phase, stopOp, desired, stopCall, stopOwner>>
      BY <3>2, StateValues, PhaseValues DEF TypeInv, TypeOK,
         StopHasIntent, SetState, SetPhase
    <3> QED
      BY <2>1, <3>1, <3>2
  <2>3. run' \in [Tasks -> RunStates]
    BY <1>run, <1>11, RunValues DEF RunExcept, AfterRetire, Goto
  <2>4. readerStop' \in [Tasks -> BOOLEAN]
    BY <1>readerStop, <1>11 DEF RunExcept, AfterRetire
  <2> QED
    BY <1>11, <2>1, <2>2, <2>3, <2>4 DEF RunExcept, TypeInv, TypeOK, Retire
<1>12. ASSUME NEW t \in Tasks, RunStopping(t) PROVE TypeInv'
  <2>1. StopReturns(t, "run")
    BY <1>12 DEF RunStopping
  <2>2. /\ state' \in [Tasks -> States]
        /\ phase' \in [Tasks -> Phases]
        /\ receipt' \in [Tasks -> BOOLEAN]
        /\ stopOwner' \in [Tasks -> Actors \cup {"none"}]
        /\ StopHasIntent'
    BY <2>1, StopReturnsType, ActorValues
  <2>3. run' \in [Tasks -> RunStates]
    BY <1>run, <1>12, RunValues DEF RunStopping, Goto
  <2> QED
    BY <1>12, <2>1, <2>2, <2>3 DEF RunStopping, TypeInv, TypeOK, StopReturns
<1>13. ASSUME NEW t \in Tasks, RunCleanup(t) PROVE TypeInv'
  <2>1. state' \in [Tasks -> States]
    BY <1>state, <1>13, StateValues DEF RunCleanup, SetState
  <2>2. phase' \in [Tasks -> Phases]
    BY <1>phase, <1>13, PhaseValues DEF RunCleanup, SetPhase
  <2>3. readerStop' \in [Tasks -> BOOLEAN]
    BY <1>readerStop, <1>13 DEF RunCleanup
  <2>4. finished' \in [Tasks -> BOOLEAN]
    BY <1>finished, <1>13 DEF RunCleanup
  <2>5. run' \in [Tasks -> RunStates]
    BY <1>run, <1>13, RunValues DEF RunCleanup, Goto
  <2>6. StopHasIntent'
    BY <1>13 DEF RunCleanup, TypeInv, StopHasIntent
  <2> QED
    BY <1>13, <2>1, <2>2, <2>3, <2>4, <2>5, <2>6 DEF RunCleanup, TypeInv,
       TypeOK
<1>14. ASSUME NEW t \in Tasks, NEW c \in Calls, RequestApproval(t, c) PROVE TypeInv'
  <2>1. \/ Retire(t, "observer", "failed")
        \/ /\ SetState(t, "awaiting_approval")
           /\ SetPhase(t, "awaiting-approval")
           /\ UNCHANGED <<stopOp, desired, stopCall, stopOwner>>
    BY <1>14 DEF RequestApproval, ObserverRetires
  <2>2. /\ state' \in [Tasks -> States]
        /\ phase' \in [Tasks -> Phases]
        /\ stopOp' \in [Tasks -> BOOLEAN]
        /\ desired' \in [Tasks -> Terminal \cup {"none"}]
        /\ stopCall' \in [Tasks -> {"idle", "pending", "verified", "bad"}]
        /\ stopOwner' \in [Tasks -> Actors \cup {"none"}]
        /\ StopHasIntent'
    <3>1. CASE Retire(t, "observer", "failed")
      BY <3>1, RetireType, ActorValues, TerminalValues
    <3>2. CASE /\ SetState(t, "awaiting_approval")
                /\ SetPhase(t, "awaiting-approval")
                /\ UNCHANGED <<stopOp, desired, stopCall, stopOwner>>
      BY <3>2, StateValues, PhaseValues DEF TypeInv, TypeOK,
         StopHasIntent, SetState, SetPhase
    <3> QED
      BY <2>1, <3>1, <3>2
  <2>3. observer' \in [Tasks -> {"none", "reading", "stopping", "leaving", "done"}]
    BY <1>observer, <1>14 DEF RequestApproval, ObserverRetires
  <2>4. pending' \in [Tasks -> Calls \cup {NoCall}]
    BY <1>pending, <1>14 DEF RequestApproval, ObserverRetires, Retire
  <2> QED
    BY <1>14, <2>1, <2>2, <2>3, <2>4 DEF RequestApproval, TypeInv, TypeOK,
       ObserverRetires, Retire
<1>15. ASSUME NEW t \in Tasks, ObserverFails(t) PROVE TypeInv'
  <2>1. Retire(t, "observer", "failed")
    BY <1>15 DEF ObserverFails, ObserverRetires
  <2>2. /\ state' \in [Tasks -> States]
        /\ phase' \in [Tasks -> Phases]
        /\ stopOp' \in [Tasks -> BOOLEAN]
        /\ desired' \in [Tasks -> Terminal \cup {"none"}]
        /\ stopCall' \in [Tasks -> {"idle", "pending", "verified", "bad"}]
        /\ stopOwner' \in [Tasks -> Actors \cup {"none"}]
        /\ StopHasIntent'
    BY <2>1, RetireType, ActorValues, TerminalValues
  <2>3. observer' \in [Tasks -> {"none", "reading", "stopping", "leaving", "done"}]
    BY <1>observer, <1>15 DEF ObserverFails, ObserverRetires
  <2> QED
    BY <1>15, <2>1, <2>2, <2>3 DEF ObserverFails, TypeInv, TypeOK,
       ObserverRetires, Retire
<1>16. ASSUME NEW t \in Tasks, ObserverStopping(t) PROVE TypeInv'
  <2>1. StopReturns(t, "observer")
    BY <1>16 DEF ObserverStopping
  <2>2. /\ state' \in [Tasks -> States]
        /\ phase' \in [Tasks -> Phases]
        /\ receipt' \in [Tasks -> BOOLEAN]
        /\ stopOwner' \in [Tasks -> Actors \cup {"none"}]
        /\ StopHasIntent'
    BY <2>1, StopReturnsType, ActorValues
  <2>3. observer' \in [Tasks -> {"none", "reading", "stopping", "leaving", "done"}]
    BY <1>observer, <1>16 DEF ObserverStopping
  <2> QED
    BY <1>16, <2>1, <2>2, <2>3 DEF ObserverStopping, TypeInv, TypeOK,
       StopReturns
<1>17. ASSUME NEW t \in Tasks, ObserverLeaves(t) PROVE TypeInv'
  <2>1. observer' \in [Tasks -> {"none", "reading", "stopping", "leaving", "done"}]
    BY <1>observer, <1>17 DEF ObserverLeaves
  <2>2. StopHasIntent'
    BY <1>17 DEF ObserverLeaves, TypeInv, StopHasIntent
  <2> QED
    BY <1>17, <2>1, <2>2 DEF ObserverLeaves, TypeInv, TypeOK
<1>18. ASSUME NEW t \in Tasks, Decide(t) PROVE TypeInv'
  <2>1. state' \in [Tasks -> States]
    BY <1>state, <1>18, StateValues DEF Decide, SetState
  <2>2. phase' \in [Tasks -> Phases]
    BY <1>phase, <1>18, PhaseValues DEF Decide, SetPhase
  <2>3. respCall' \in [Tasks -> {"idle", "pending", "ok", "bad"}]
    BY <1>respCall, <1>18 DEF Decide
  <2>4. dec' \in [Tasks -> {"idle", "waiting"}]
    BY <1>dec, <1>18 DEF Decide
  <2>5. StopHasIntent'
    BY <1>18 DEF Decide, TypeInv, StopHasIntent
  <2> QED
    BY <1>18, <2>1, <2>2, <2>3, <2>4, <2>5 DEF Decide, TypeInv, TypeOK
<1>19. ASSUME NEW t \in Tasks, DecideAccept(t) PROVE TypeInv'
  <2>1. dec' \in [Tasks -> {"idle", "waiting"}]
    BY <1>dec, <1>19 DEF DecideAccept
  <2>2. used' \in [Tasks -> SUBSET Calls]
    <3>1. DecisionIsCurrent(t) => pending[t] \in Calls
      BY <1>pending DEF DecisionIsCurrent
    <3> QED
      BY <1>used, <3>1, <1>19 DEF DecideAccept
  <2>3. pending' \in [Tasks -> Calls \cup {NoCall}]
    BY <1>pending, <1>19 DEF DecideAccept
  <2>4. phase' \in [Tasks -> Phases]
    BY <1>phase, <1>19, PhaseValues DEF DecideAccept, SetPhase
  <2>5. state' \in [Tasks -> States]
    BY <1>state, <1>19, StateValues DEF DecideAccept, SetState
  <2>6. StopHasIntent'
    BY <1>19 DEF DecideAccept, TypeInv, StopHasIntent
  <2> QED
    BY <1>19, <2>1, <2>2, <2>3, <2>4, <2>5, <2>6 DEF DecideAccept,
       TypeInv, TypeOK
<1>20. ASSUME NEW t \in Tasks, DecideFail(t) PROVE TypeInv'
  <2>1. dec' \in [Tasks -> {"idle", "waiting"}]
    BY <1>dec, <1>20 DEF DecideFail
  <2>2. phase' \in [Tasks -> Phases]
    BY <1>phase, <1>20, PhaseValues DEF DecideFail, SetPhase
  <2>3. state' \in [Tasks -> States]
    BY <1>state, <1>20, StateValues DEF DecideFail, SetState
  <2>4. StopHasIntent'
    BY <1>20 DEF DecideFail, TypeInv, StopHasIntent
  <2> QED
    BY <1>20, <2>1, <2>2, <2>3, <2>4 DEF DecideFail, TypeInv, TypeOK
<1>21. ASSUME NEW t \in Tasks, CancelRequest(t) PROVE TypeInv'
  <2>1. \/ Retire(t, "cancel", "cancelled")
        \/ UNCHANGED <<state, phase, stopOp, desired, stopCall, stopOwner>>
    BY <1>21 DEF CancelRequest
  <2>2. /\ state' \in [Tasks -> States]
        /\ phase' \in [Tasks -> Phases]
        /\ stopOp' \in [Tasks -> BOOLEAN]
        /\ desired' \in [Tasks -> Terminal \cup {"none"}]
        /\ stopCall' \in [Tasks -> {"idle", "pending", "verified", "bad"}]
        /\ stopOwner' \in [Tasks -> Actors \cup {"none"}]
        /\ StopHasIntent'
    <3>1. CASE Retire(t, "cancel", "cancelled")
      BY <3>1, RetireType, ActorValues, TerminalValues
    <3>2. CASE UNCHANGED <<state, phase, stopOp, desired, stopCall, stopOwner>>
      BY <3>2, StateValues, PhaseValues DEF TypeInv, TypeOK,
         StopHasIntent, SetState, SetPhase
    <3> QED
      BY <2>1, <3>1, <3>2
  <2>3. canc' \in [Tasks -> {"idle", "mark", "conclude", "stopping"}]
    BY <1>canc, <1>21 DEF CancelRequest
  <2> QED
    BY <1>21, <2>1, <2>2, <2>3 DEF CancelRequest, TypeInv, TypeOK, Retire
<1>22. ASSUME NEW t \in Tasks, CancelStopping(t) PROVE TypeInv'
  <2>1. StopReturns(t, "cancel")
    BY <1>22 DEF CancelStopping
  <2>2. /\ state' \in [Tasks -> States]
        /\ phase' \in [Tasks -> Phases]
        /\ receipt' \in [Tasks -> BOOLEAN]
        /\ stopOwner' \in [Tasks -> Actors \cup {"none"}]
        /\ StopHasIntent'
    BY <2>1, StopReturnsType, ActorValues
  <2>3. canc' \in [Tasks -> {"idle", "mark", "conclude", "stopping"}]
    BY <1>canc, <1>22 DEF CancelStopping
  <2> QED
    BY <1>22, <2>1, <2>2, <2>3 DEF CancelStopping, TypeInv, TypeOK, StopReturns
<1>23. ASSUME NEW t \in Tasks, CancelMark(t) PROVE TypeInv'
  <2>1. canc' \in [Tasks -> {"idle", "mark", "conclude", "stopping"}]
    BY <1>canc, <1>23 DEF CancelMark, CancelAssign
  <2>2. state' \in [Tasks -> States]
    BY <1>state, <1>23, StateValues DEF CancelMark, CancelAssign, SetState
  <2>3. StopHasIntent'
    BY <1>23 DEF CancelMark, CancelAssign, SetState, TypeInv, StopHasIntent
  <2> QED
    BY <1>23, <2>1, <2>2, <2>3 DEF CancelMark, TypeInv, TypeOK, CancelAssign
<1>24. ASSUME NEW t \in Tasks, CancelConclude(t) PROVE TypeInv'
  <2>1. canc' \in [Tasks -> {"idle", "mark", "conclude", "stopping"}]
    BY <1>canc, <1>24 DEF CancelConclude, CancelAssign
  <2>2. state' \in [Tasks -> States]
    BY <1>state, <1>24, StateValues DEF CancelConclude, CancelAssign, SetState
  <2>3. StopHasIntent'
    BY <1>24 DEF CancelConclude, CancelAssign, SetState, TypeInv, StopHasIntent
  <2> QED
    BY <1>24, <2>1, <2>2, <2>3 DEF CancelConclude, TypeInv, TypeOK,
       CancelAssign
<1>25. ASSUME NEW t \in Tasks, ResolveStop(t) PROVE TypeInv'
  <2>1. state' \in [Tasks -> States]
    <3>1. desired[t] \in Terminal
      BY <1>25 DEF ResolveStop, TypeInv, StopHasIntent
    <3> QED
      BY <1>state, <3>1, <1>25, StateValues DEF ResolveStop, AcceptStop,
         SetState
  <2>2. phase' \in [Tasks -> Phases]
    BY <1>phase, <1>25, PhaseValues DEF ResolveStop, AcceptStop, SetPhase
  <2>3. receipt' \in [Tasks -> BOOLEAN]
    BY <1>receipt, <1>25 DEF ResolveStop, AcceptStop
  <2>4. StopHasIntent'
    BY <1>25 DEF ResolveStop, TypeInv, StopHasIntent
  <2> QED
    BY <1>25, <2>1, <2>2, <2>3, <2>4 DEF ResolveStop, TypeInv, TypeOK
<1>26. ASSUME NEW t \in Tasks, StartExec(t) PROVE TypeInv'
  <2>1. proc' \in [Tasks -> {"none", "alive", "exited"}]
    BY <1>proc, <1>26 DEF StartExec
  <2>2. starts' \in [Tasks -> Nat]
    BY <1>starts, <1>26 DEF StartExec
  <2>3. startCall' \in [Tasks -> {"idle", "pending", "ok", "bad"}]
    BY <1>startCall, <1>26 DEF StartExec
  <2>4. StopHasIntent'
    BY <1>26 DEF StartExec, TypeInv, StopHasIntent
  <2> QED
    BY <1>26, <2>1, <2>2, <2>3, <2>4 DEF StartExec, TypeInv, TypeOK
<1>27. ASSUME NEW t \in Tasks, StopExec(t) PROVE TypeInv'
  <2>1. fenced' \in [Tasks -> BOOLEAN]
    BY <1>fenced, <1>27 DEF StopExec, Exited
  <2>2. proc' \in [Tasks -> {"none", "alive", "exited"}]
    BY <1>proc, <1>27 DEF StopExec, Exited
  <2>3. identity' \in [Tasks -> BOOLEAN]
    BY <1>identity, <1>27 DEF StopExec, Exited
  <2>4. stopCall' \in [Tasks -> {"idle", "pending", "verified", "bad"}]
    BY <1>stopCall, <1>27 DEF StopExec, Exited
  <2>5. stops' \in [Tasks -> Nat]
    BY <1>stops, <1>27 DEF StopExec, Exited
  <2>6. StopHasIntent'
    BY <1>stopCall, <1>27 DEF StopExec, TypeInv, StopHasIntent
  <2> QED
    BY <1>27, <2>1, <2>2, <2>3, <2>4, <2>5, <2>6 DEF StopExec, TypeInv, TypeOK
<1>28. ASSUME NEW t \in Tasks, RespExec(t) PROVE TypeInv'
  <2>1. responses' \in [Tasks -> [Calls -> Nat]]
    BY <1>responses, <1>28 DEF RespExec
  <2>2. respCall' \in [Tasks -> {"idle", "pending", "ok", "bad"}]
    BY <1>respCall, <1>28 DEF RespExec
  <2>3. StopHasIntent'
    BY <1>28 DEF RespExec, TypeInv, StopHasIntent
  <2> QED
    BY <1>28, <2>1, <2>2, <2>3 DEF RespExec, TypeInv, TypeOK
<1>29. ASSUME NEW t \in Tasks, ProcExit(t) PROVE TypeInv'
  <2>1. proc' \in [Tasks -> {"none", "alive", "exited"}]
    BY <1>proc, <1>29 DEF ProcExit
  <2>2. StopHasIntent'
    BY <1>29 DEF ProcExit, TypeInv, StopHasIntent
  <2> QED
    BY <1>29, <2>1, <2>2 DEF ProcExit, TypeInv, TypeOK
<1>30. ASSUME NEW t \in Tasks, OperatorStop(t) PROVE TypeInv'
  <2>1. fenced' \in [Tasks -> BOOLEAN]
    BY <1>fenced, <1>30 DEF OperatorStop, Exited
  <2>2. proc' \in [Tasks -> {"none", "alive", "exited"}]
    BY <1>proc, <1>30 DEF OperatorStop, Exited
  <2>3. StopHasIntent'
    BY <1>30 DEF OperatorStop, TypeInv, StopHasIntent
  <2> QED
    BY <1>30, <2>1, <2>2, <2>3 DEF OperatorStop, TypeInv, TypeOK
<1>31. ASSUME NEW t \in Tasks, RecoverStopped(t) PROVE TypeInv'
  <2>1. toRecover' \subseteq Tasks
    BY <1>toRecover, <1>31 DEF RecoverStopped
  <2>2. StopHasIntent'
    BY <1>31 DEF RecoverStopped, TypeInv, StopHasIntent
  <2> QED
    BY <1>31, <2>1, <2>2 DEF RecoverStopped, TypeInv, TypeOK
<1>32. ASSUME NEW t \in Tasks, RecoverRaises(t) PROVE TypeInv'
  <2>1. broker' \in {"up", "boot", "failed"}
    BY <1>broker, <1>32 DEF RecoverRaises
  <2>2. StopHasIntent'
    BY <1>32 DEF RecoverRaises, TypeInv, StopHasIntent
  <2> QED
    BY <1>32, <2>1, <2>2 DEF RecoverRaises, TypeInv, TypeOK
<1>33. ASSUME NEW t \in Tasks, RecoverReserve(t) PROVE TypeInv'
  <2>1. phase' \in [Tasks -> Phases]
    BY <1>phase, <1>33, PhaseValues DEF RecoverReserve, SetPhase
  <2>2. state' \in [Tasks -> States]
    BY <1>state, <1>33, StateValues DEF RecoverReserve, SetState
  <2>3. StopHasIntent'
    BY <1>33 DEF RecoverReserve, TypeInv, StopHasIntent
  <2> QED
    BY <1>33, <2>1, <2>2, <2>3 DEF RecoverReserve, TypeInv, TypeOK
<1>34. ASSUME NEW t \in Tasks, RecoverResult(t) PROVE TypeInv'
  <2>1. toRecover' \subseteq Tasks
    BY <1>toRecover, <1>34 DEF RecoverResult, RecoveredTerminal
  <2>2. phase' \in [Tasks -> Phases]
    BY <1>phase, <1>34, PhaseValues DEF RecoverResult, RecoveredTerminal,
       SetPhase
  <2>3. stopOp' \in [Tasks -> BOOLEAN]
    BY <1>stopOp, <1>34 DEF RecoverResult, RecoveredTerminal
  <2>4. receipt' \in [Tasks -> BOOLEAN]
    BY <1>receipt, <1>34 DEF RecoverResult, RecoveredTerminal
  <2>5. state' \in [Tasks -> States]
    <3>1. RecoveredTerminal(t) \in Terminal
      BY <1>desired, TerminalValues DEF RecoveredTerminal
    <3> QED
      BY <1>state, <3>1, <1>34, StateValues DEF RecoverResult, SetState
  <2>6. StopHasIntent'
    BY <1>34 DEF RecoverResult, TypeInv, StopHasIntent
  <2> QED
    BY <1>34, <2>1, <2>2, <2>3, <2>4, <2>5, <2>6 DEF RecoverResult,
       TypeInv, TypeOK
<1>35. ASSUME BootDone PROVE TypeInv'
  <2>1. broker' \in {"up", "boot", "failed"}
    BY <1>broker, <1>35 DEF BootDone
  <2>2. StopHasIntent'
    BY <1>35 DEF BootDone, TypeInv, StopHasIntent
  <2> QED
    BY <1>35, <2>1, <2>2 DEF BootDone, TypeInv, TypeOK
<1>36. ASSUME Crash PROVE TypeInv'
  <2>1. state' \in [Tasks -> States]
    BY <1>state, <1>36, StateValues DEF Crash, RecoveredState, SetState
  <2>2. phase' \in [Tasks -> Phases]
    BY <1>phase, <1>36, PhaseValues DEF Crash, ExitOnRecord, SetPhase
  <2>3. bridge' \in [Tasks -> BOOLEAN]
    BY <1>bridge, <1>36 DEF Crash
  <2>4. finished' \in [Tasks -> BOOLEAN]
    BY <1>finished, <1>36 DEF Crash
  <2>5. run' \in [Tasks -> RunStates]
    BY <1>run, <1>36, RunValues DEF Crash, Goto
  <2>6. observer' \in [Tasks -> {"none", "reading", "stopping", "leaving", "done"}]
    BY <1>observer, <1>36 DEF Crash
  <2>7. readerStop' \in [Tasks -> BOOLEAN]
    BY <1>readerStop, <1>36 DEF Crash
  <2>8. canc' \in [Tasks -> {"idle", "mark", "conclude", "stopping"}]
    BY <1>canc, <1>36 DEF Crash
  <2>9. dec' \in [Tasks -> {"idle", "waiting"}]
    BY <1>dec, <1>36 DEF Crash
  <2>10. stopOwner' \in [Tasks -> Actors \cup {"none"}]
    BY <1>stopOwner, <1>36 DEF Crash
  <2>11. startCall' \in [Tasks -> {"idle", "pending", "ok", "bad"}]
    BY <1>startCall, <1>36 DEF Crash
  <2>12. stopCall' \in [Tasks -> {"idle", "pending", "verified", "bad"}]
    BY <1>stopCall, <1>36 DEF Crash
  <2>13. respCall' \in [Tasks -> {"idle", "pending", "ok", "bad"}]
    BY <1>respCall, <1>36 DEF Crash
  <2>14. broker' \in {"up", "boot", "failed"}
    BY <1>broker, <1>36 DEF Crash
  <2>15. sdk' \in BOOLEAN
    BY <1>sdk, <1>36 DEF Crash, Configures
  <2>16. toRecover' \subseteq Tasks
    BY <1>toRecover, <1>36 DEF Crash, Configures
  <2>17. crashes' \in 0..MaxCrashes
    BY <1>crashes, <1>36, CrashBound DEF Crash
  <2>18. StopHasIntent'
    BY <1>36 DEF Crash, StopHasIntent
  <2> QED
    BY <1>36, <2>1, <2>2, <2>3, <2>4, <2>5, <2>6, <2>7, <2>8, <2>9, <2>10,
       <2>11, <2>12, <2>13, <2>14, <2>15, <2>16, <2>17, <2>18 DEF Crash,
       TypeInv, TypeOK
<1>37. CASE UNCHANGED vars
  BY <1>37 DEF vars, TypeInv, TypeOK, StopHasIntent
<1> QED
  BY <1>1, <1>2, <1>3, <1>4, <1>5, <1>6, <1>7, <1>8, <1>9, <1>10, <1>11,
     <1>12, <1>13, <1>14, <1>15, <1>16, <1>17, <1>18, <1>19, <1>20, <1>21,
     <1>22, <1>23, <1>24, <1>25, <1>26, <1>27, <1>28, <1>29, <1>30, <1>31,
     <1>32, <1>33, <1>34, <1>35, <1>36, <1>37
     DEF Next, RunStep, DecideReturns, CancelStep, ScopeStep, RecoverStep

(* Every state the native path reaches is well typed; in particular the    *)
(* state that a verified stop assigns is always a terminal one.            *)
THEOREM TypeCorrect == Spec => []TypeOK
<1>1. TypeInv => TypeOK
  BY DEF TypeInv
<1> QED
  BY TypeInit, TypeStep, <1>1, PTL DEF Spec

-----------------------------------------------------------------------------

LaunchInv(t) ==
  /\ launched[t] => phase[t] # "none"
  /\ phase[t] # "none" => state[t] # "absent"
  /\ ~launched[t] =>
       /\ startCall[t] = "idle" /\ proc[t] = "none" /\ ~fenced[t]
       /\ phase[t] # "stopped"
  /\ run[t] \in {"admit", "prepare", "bind", "reserve"} => ~launched[t]
  /\ run[t] = "reserve" => phase[t] # "none"
  /\ bridge[t] => phase[t] # "none"
  /\ phase[t] = "stopped" \/ stopCall[t] = "verified" =>
       fenced[t] /\ proc[t] # "alive"

SafeInv == TypeInv /\ \A t \in Tasks : LaunchInv(t)

LEMMA SafeInit == Init => SafeInv
<1> SUFFICES ASSUME Init, NEW t \in Tasks PROVE LaunchInv(t)
  BY TypeInit DEF SafeInv
<1> QED
  BY DEF Init, LaunchInv

-----------------------------------------------------------------------------
(* A step of the thread a preserves what is said of any task u.  What the  *)
(* two handlers shared by several threads do comes first.                  *)
LEMMA RetireSafe ==
  ASSUME TypeInv, NEW t \in Tasks, NEW a, NEW terminal, Retire(t, a, terminal),
         NEW u \in Tasks, LaunchInv(u),
         run'[u] # "reserve" \/ phase[u] # "none",
         bridge' = bridge, proc' = proc, fenced' = fenced,
         run'[u] \in {"admit", "prepare", "bind", "reserve"} => ~launched[u]
  PROVE  LaunchInv(u)'
<1>1. \/ state'[u] = state[u] /\ phase'[u] = phase[u]
      \/ /\ state'[u] \in {"cancelling", "finalizing", "interrupted"}
         /\ phase'[u] \in {"stop-reserved", "stop-uncertain"}
  <2>1. state \in [Tasks -> States] /\ phase \in [Tasks -> Phases]
    BY DEF TypeInv, TypeOK
  <2> QED
    BY <2>1 DEF Retire, ReserveStop, JoinStop, SetState, SetPhase
<1>2. stopCall'[u] = stopCall[u] \/ stopCall'[u] = "pending"
  <2>1. stopCall \in [Tasks -> {"idle", "pending", "verified", "bad"}]
    BY DEF TypeInv, TypeOK
  <2> QED
    BY <2>1 DEF Retire, ReserveStop, JoinStop
<1>3. launched' = launched /\ startCall' = startCall
  BY DEF Retire
<1> QED
  BY <1>1, <1>2, <1>3 DEF LaunchInv

LEMMA StopReturnsSafe ==
  ASSUME TypeInv, NEW t \in Tasks, NEW a \in Actors, StopReturns(t, a),
         NEW u \in Tasks, LaunchInv(u),
         run'[u] # "reserve" \/ phase[u] # "none",
         bridge' = bridge, proc' = proc, fenced' = fenced,
         run'[u] \in {"admit", "prepare", "bind", "reserve"} => ~launched[u]
  PROVE  LaunchInv(u)'
<1>1. \/ phase'[u] = phase[u]
      \/ phase'[u] = "stopped" /\ stopCall[u] = "verified"
      \/ phase'[u] = "stop-uncertain"
  <2>1. phase \in [Tasks -> Phases]
    BY DEF TypeInv, TypeOK
  <2> QED
    BY <2>1 DEF StopReturns, AcceptStop, DoubtStop, SetPhase
<1>2. \/ state'[u] = state[u] /\ phase'[u] = phase[u]
      \/ state'[u] # "absent"
  <2>1. state \in [Tasks -> States] /\ phase \in [Tasks -> Phases]
    BY DEF TypeInv, TypeOK
  <2>2. desired[t] \in Terminal
    BY DEF StopReturns, Actors, TypeInv, StopHasIntent
  <2> QED
    BY <2>1, <2>2 DEF StopReturns, AcceptStop, DoubtStop, SetState, SetPhase,
       Terminal
<1>3. launched' = launched /\ startCall' = startCall /\ stopCall' = stopCall
  BY DEF StopReturns, calls
<1> QED
  BY <1>1, <1>2, <1>3 DEF LaunchInv

LEMMA SafeStep == SafeInv /\ [Next]_vars => SafeInv'
<1> SUFFICES ASSUME SafeInv, [Next]_vars, NEW u \in Tasks PROVE LaunchInv(u)'
  BY TypeStep DEF SafeInv
<1>a. TypeInv /\ LaunchInv(u)
  BY DEF SafeInv
<1> USE DEF journal, memory, threads, calls, boot, scope, counts
<1>state. state \in [Tasks -> States]
  BY <1>a DEF TypeInv, TypeOK
<1>phase. phase \in [Tasks -> Phases]
  BY <1>a DEF TypeInv, TypeOK
<1>launched. launched \in [Tasks -> BOOLEAN]
  BY <1>a DEF TypeInv, TypeOK
<1>startCall. startCall \in [Tasks -> {"idle", "pending", "ok", "bad"}]
  BY <1>a DEF TypeInv, TypeOK
<1>proc. proc \in [Tasks -> {"none", "alive", "exited"}]
  BY <1>a DEF TypeInv, TypeOK
<1>fenced. fenced \in [Tasks -> BOOLEAN]
  BY <1>a DEF TypeInv, TypeOK
<1>run. run \in [Tasks -> RunStates]
  BY <1>a DEF TypeInv, TypeOK
<1>bridge. bridge \in [Tasks -> BOOLEAN]
  BY <1>a DEF TypeInv, TypeOK
<1>stopCall. stopCall \in [Tasks -> {"idle", "pending", "verified", "bad"}]
  BY <1>a DEF TypeInv, TypeOK
<1>1. ASSUME NEW t \in Tasks, Create(t) PROVE LaunchInv(u)'
  BY <1>a, <1>1, <1>state, <1>run DEF Create, Goto, SetState, LaunchInv
<1>2. ASSUME NEW t \in Tasks, RunAdmit(t) PROVE LaunchInv(u)'
  BY <1>a, <1>2, <1>state, <1>run DEF RunAdmit, Goto, SetState, LaunchInv
<1>3. ASSUME NEW t \in Tasks, RunPrepare(t) PROVE LaunchInv(u)'
  BY <1>a, <1>3, <1>run DEF RunPrepare, Goto, LaunchInv
<1>4. ASSUME NEW t \in Tasks, RunBind(t) PROVE LaunchInv(u)'
  BY <1>a, <1>4, <1>phase, <1>bridge, <1>run DEF RunBind, SetPhase, Goto,
     LaunchInv
<1>5. ASSUME NEW t \in Tasks, RunReserve(t) PROVE LaunchInv(u)'
  BY <1>a, <1>5, <1>phase, <1>launched, <1>startCall, <1>run DEF RunReserve,
     SetPhase, Goto, LaunchInv
<1>6. ASSUME NEW t \in Tasks, RunStarted(t) PROVE LaunchInv(u)'
  BY <1>a, <1>6, <1>phase, <1>run DEF RunStarted, SetPhase, Goto, LaunchInv
<1>7. ASSUME NEW t \in Tasks, RunTurn(t) PROVE LaunchInv(u)'
  BY <1>a, <1>7, <1>run DEF RunTurn, Goto, LaunchInv
<1>8. ASSUME NEW t \in Tasks, RunSettle(t) PROVE LaunchInv(u)'
  BY <1>a, <1>8, <1>run DEF RunSettle, Goto, LaunchInv
<1>9. ASSUME NEW t \in Tasks, RunCheck(t) PROVE LaunchInv(u)'
  BY <1>a, <1>9, <1>run DEF RunCheck, Goto, LaunchInv
<1>10. ASSUME NEW t \in Tasks, RunFinalize(t) PROVE LaunchInv(u)'
  <2>1. Retire(t, "run", "completed")
    BY <1>10 DEF RunFinalize
  <2> QED
    BY <1>a, <1>10, <2>1, RetireSafe, <1>run DEF RunFinalize, LaunchInv,
       Goto, AfterRetire
<1>11. ASSUME NEW t \in Tasks, RunExcept(t) PROVE LaunchInv(u)'
  <2>1. CASE Retire(t, "run", "failed")
    BY <1>a, <1>11, <2>1, RetireSafe, <1>run DEF RunExcept, LaunchInv,
       Goto, AfterRetire
  <2>2. CASE ~Retire(t, "run", "failed")
    BY <1>a, <1>11, <2>2, <1>state, <1>run DEF RunExcept, LaunchInv,
       SetState, SetPhase, Goto
  <2> QED
    BY <2>1, <2>2
<1>12. ASSUME NEW t \in Tasks, RunStopping(t) PROVE LaunchInv(u)'
  <2>1. StopReturns(t, "run")
    BY <1>12 DEF RunStopping
  <2> QED
    BY <1>a, <1>12, <2>1, StopReturnsSafe, ActorValues, <1>run DEF
       RunStopping, LaunchInv, Goto
<1>13. ASSUME NEW t \in Tasks, RunCleanup(t) PROVE LaunchInv(u)'
  BY <1>a, <1>13, <1>state, <1>phase, <1>run DEF RunCleanup, SetState,
     SetPhase, Goto, LaunchInv
<1>14. ASSUME NEW t \in Tasks, NEW c \in Calls, RequestApproval(t, c)
       PROVE  LaunchInv(u)'
  <2>1. CASE Retire(t, "observer", "failed")
    BY <1>a, <1>14, <2>1, RetireSafe DEF RequestApproval, LaunchInv
  <2>2. CASE ~Retire(t, "observer", "failed")
    BY <1>a, <1>14, <2>2, <1>state, <1>phase DEF RequestApproval,
       LaunchInv, SetState, SetPhase, Goto, ObserverRetires
  <2> QED
    BY <2>1, <2>2
<1>15. ASSUME NEW t \in Tasks, ObserverFails(t) PROVE LaunchInv(u)'
  <2>1. Retire(t, "observer", "failed")
    BY <1>15 DEF ObserverFails, ObserverRetires
  <2> QED
    BY <1>a, <1>15, <2>1, RetireSafe DEF ObserverFails, LaunchInv
<1>16. ASSUME NEW t \in Tasks, ObserverStopping(t) PROVE LaunchInv(u)'
  <2>1. StopReturns(t, "observer")
    BY <1>16 DEF ObserverStopping
  <2> QED
    BY <1>a, <1>16, <2>1, StopReturnsSafe, ActorValues DEF
       ObserverStopping, LaunchInv
<1>17. ASSUME NEW t \in Tasks, ObserverLeaves(t) PROVE LaunchInv(u)'
  BY <1>a, <1>17 DEF ObserverLeaves, LaunchInv
<1>18. ASSUME NEW t \in Tasks, Decide(t) PROVE LaunchInv(u)'
  BY <1>a, <1>18, <1>state, <1>phase DEF Decide, SetState, SetPhase, LaunchInv
<1>19. ASSUME NEW t \in Tasks, DecideAccept(t) PROVE LaunchInv(u)'
  BY <1>a, <1>19, <1>phase, <1>state DEF DecideAccept, SetState, SetPhase,
     LaunchInv
<1>20. ASSUME NEW t \in Tasks, DecideFail(t) PROVE LaunchInv(u)'
  BY <1>a, <1>20, <1>phase, <1>state DEF DecideFail, SetState, SetPhase,
     LaunchInv
<1>21. ASSUME NEW t \in Tasks, CancelRequest(t) PROVE LaunchInv(u)'
  <2>1. CASE Retire(t, "cancel", "cancelled")
    BY <1>a, <1>21, <2>1, RetireSafe DEF CancelRequest, LaunchInv
  <2>2. CASE ~Retire(t, "cancel", "cancelled")
    BY <1>a, <1>21, <2>2 DEF CancelRequest, LaunchInv, SetState, SetPhase, Goto
  <2> QED
    BY <2>1, <2>2
<1>22. ASSUME NEW t \in Tasks, CancelStopping(t) PROVE LaunchInv(u)'
  <2>1. StopReturns(t, "cancel")
    BY <1>22 DEF CancelStopping
  <2> QED
    BY <1>a, <1>22, <2>1, StopReturnsSafe, ActorValues DEF CancelStopping,
       LaunchInv
<1>23. ASSUME NEW t \in Tasks, CancelMark(t) PROVE LaunchInv(u)'
  BY <1>a, <1>23, <1>state DEF CancelMark, CancelAssign, SetState, LaunchInv
<1>24. ASSUME NEW t \in Tasks, CancelConclude(t) PROVE LaunchInv(u)'
  BY <1>a, <1>24, <1>state DEF CancelConclude, CancelAssign, SetState,
     LaunchInv
<1>25. ASSUME NEW t \in Tasks, ResolveStop(t) PROVE LaunchInv(u)'
  <2>1. desired[t] \in Terminal
    BY <1>a, <1>25 DEF ResolveStop, TypeInv, StopHasIntent
  <2> QED
    BY <1>a, <1>25, <1>state, <1>phase, <2>1 DEF ResolveStop, AcceptStop,
       SetState, SetPhase, LaunchInv, Terminal
<1>26. ASSUME NEW t \in Tasks, StartExec(t) PROVE LaunchInv(u)'
  BY <1>a, <1>26, <1>proc, <1>startCall DEF StartExec, LaunchInv
<1>27. ASSUME NEW t \in Tasks, StopExec(t) PROVE LaunchInv(u)'
  BY <1>a, <1>27, <1>fenced, <1>proc, <1>stopCall DEF StopExec, Exited,
     LaunchInv
<1>28. ASSUME NEW t \in Tasks, RespExec(t) PROVE LaunchInv(u)'
  BY <1>a, <1>28 DEF RespExec, LaunchInv
<1>29. ASSUME NEW t \in Tasks, ProcExit(t) PROVE LaunchInv(u)'
  BY <1>a, <1>29, <1>proc DEF ProcExit, LaunchInv
<1>30. ASSUME NEW t \in Tasks, OperatorStop(t) PROVE LaunchInv(u)'
  BY <1>a, <1>30, <1>fenced, <1>proc DEF OperatorStop, Exited, LaunchInv
<1>31. ASSUME NEW t \in Tasks, RecoverStopped(t) PROVE LaunchInv(u)'
  BY <1>a, <1>31 DEF RecoverStopped, LaunchInv
<1>32. ASSUME NEW t \in Tasks, RecoverRaises(t) PROVE LaunchInv(u)'
  BY <1>a, <1>32 DEF RecoverRaises, LaunchInv
<1>33. ASSUME NEW t \in Tasks, RecoverReserve(t) PROVE LaunchInv(u)'
  BY <1>a, <1>33, <1>phase, <1>state DEF RecoverReserve, SetPhase, SetState,
     LaunchInv
<1>34. ASSUME NEW t \in Tasks, RecoverResult(t) PROVE LaunchInv(u)'
  <2>1. RecoveredTerminal(t) # "absent"
    BY <1>a DEF RecoveredTerminal, Terminal, TypeInv, TypeOK
  <2> QED
    BY <1>a, <1>34, <1>phase, <1>state, <2>1 DEF RecoverResult, SetState,
       SetPhase, InspectProvesExit, LaunchInv
<1>35. ASSUME BootDone PROVE LaunchInv(u)'
  BY <1>a, <1>35 DEF BootDone, LaunchInv
<1>36. ASSUME Crash PROVE LaunchInv(u)'
  BY <1>a, <1>36, <1>startCall DEF Crash, LaunchInv, RecoveredState,
     ExitOnRecord
<1>37. CASE UNCHANGED vars
  BY <1>a, <1>37 DEF vars, LaunchInv
<1> QED
  BY <1>1, <1>2, <1>3, <1>4, <1>5, <1>6, <1>7, <1>8, <1>9, <1>10, <1>11,
     <1>12, <1>13, <1>14, <1>15, <1>16, <1>17, <1>18, <1>19, <1>20, <1>21,
     <1>22, <1>23, <1>24, <1>25, <1>26, <1>27, <1>28, <1>29, <1>30, <1>31,
     <1>32, <1>33, <1>34, <1>35, <1>36, <1>37
     DEF Next, RunStep, DecideReturns, CancelStep, ScopeStep, RecoverStep

LEMMA InvariantHolds == Spec => []SafeInv
  BY SafeInit, SafeStep, PTL DEF Spec

LEMMA RunningIsClaimed ==
  ASSUME NEW t \in Tasks, LaunchInv(t)
  PROVE  /\ MayRun(t) => Blocks(t)
         /\ ~launched[t] => ~MayRun(t)
  BY DEF LaunchInv, MayRun, Blocks

(* A native process that runs, or that a submitted start may yet bring to  *)
(* life, keeps every other task from being admitted.                       *)
THEOREM LiveProcessBlocks == Spec => []LiveProcessBlocksAdmission
<1>1. SafeInv => LiveProcessBlocksAdmission
  BY RunningIsClaimed DEF SafeInv, LiveProcessBlocksAdmission
<1> QED
  BY InvariantHolds, <1>1, PTL
-----------------------------------------------------------------------------
(* The refinement.  Only the actions of the scope, the launch and a crash  *)
(* touch what MayRun depends on; none but the launch can make it true.     *)
RunAsBefore(u) ==
  /\ launched'[u] = launched[u]
  /\ MayRun(u)' => MayRun(u)
  /\ MayRun(u) /\ ~MayRun(u)' => (Blocks(u)' <=> Blocks(u))

Launched(u) == ~launched[u] /\ launched'[u] /\ MayRun(u)' /\ Blocks(u)

LEMMA RetireUnlaunched ==
  ASSUME NEW t, NEW a, NEW terminal, Retire(t, a, terminal)
  PROVE  launched' = launched /\ startCall' = startCall
  BY DEF Retire

LEMMA RunStepEffect ==
  ASSUME SafeInv, [Next]_vars, NEW u \in Tasks
  PROVE  RunAsBefore(u) \/ Launched(u)
<1>a. TypeInv /\ LaunchInv(u)
  BY DEF SafeInv
<1> USE DEF journal, memory, threads, calls, boot, scope, counts
<1>launched. launched \in [Tasks -> BOOLEAN]
  BY <1>a DEF TypeInv, TypeOK
<1>startCall. startCall \in [Tasks -> {"idle", "pending", "ok", "bad"}]
  BY <1>a DEF TypeInv, TypeOK
<1>proc. proc \in [Tasks -> {"none", "alive", "exited"}]
  BY <1>a DEF TypeInv, TypeOK
<1>fenced. fenced \in [Tasks -> BOOLEAN]
  BY <1>a DEF TypeInv, TypeOK
<1>1. CASE UNCHANGED <<launched, startCall, proc, fenced>>
  BY <1>1 DEF RunAsBefore, MayRun
<1>2. ASSUME NEW t \in Tasks, RunReserve(t) PROVE RunAsBefore(u) \/ Launched(u)
  <2>1. CASE u = t
    <3>1. ~launched[u] /\ ~fenced[u] /\ phase[u] \notin {"none", "stopped"}
      BY <1>a, <1>2, <2>1 DEF RunReserve, LaunchInv
    <3>2. launched'[u] /\ startCall'[u] = "pending" /\ fenced' = fenced
      BY <1>2, <2>1, <1>launched, <1>startCall DEF RunReserve
    <3> QED
      BY <3>1, <3>2 DEF Launched, MayRun, Blocks
  <2>2. CASE u # t
    <3>1. /\ launched'[u] = launched[u] /\ startCall'[u] = startCall[u]
          /\ proc' = proc /\ fenced' = fenced
      BY <1>2, <2>2, <1>launched, <1>startCall DEF RunReserve
    <3> QED
      BY <3>1 DEF RunAsBefore, MayRun
  <2> QED
    BY <2>1, <2>2
<1>3. ASSUME NEW t \in Tasks, ScopeStep(t) PROVE RunAsBefore(u)
  <2>1. /\ launched' = launched
        /\ Blocks(u)' <=> Blocks(u)
    BY <1>3 DEF ScopeStep, StartExec, StopExec, RespExec, ProcExit,
       OperatorStop, Blocks
  <2>2. MayRun(u)' => MayRun(u)
    <3>1. CASE StartExec(t)
      BY <3>1, <1>startCall, <1>proc DEF StartExec, MayRun
    <3>2. CASE StopExec(t)
      BY <3>2, <1>fenced, <1>proc DEF StopExec, MayRun, Exited
    <3>3. CASE RespExec(t)
      BY <3>3 DEF RespExec, MayRun
    <3>4. CASE ProcExit(t)
      BY <3>4, <1>proc DEF ProcExit, MayRun
    <3>5. CASE OperatorStop(t)
      BY <3>5, <1>fenced, <1>proc DEF OperatorStop, MayRun, Exited
    <3> QED
      BY <1>3, <3>1, <3>2, <3>3, <3>4, <3>5 DEF ScopeStep
  <2> QED
    BY <2>1, <2>2 DEF RunAsBefore
<1>4. ASSUME Crash PROVE RunAsBefore(u)
  BY <1>4 DEF Crash, RunAsBefore, MayRun
<1>5. ASSUME NEW t \in Tasks, RunStep(t), ~RunReserve(t)
      PROVE  UNCHANGED <<launched, startCall, proc, fenced>>
  BY <1>5, RetireUnlaunched DEF RunStep, RunAdmit, RunPrepare, RunBind,
     RunStarted,
     RunTurn, RunSettle, RunCheck, RunFinalize, RunExcept, RunStopping,
     RunCleanup, StopReturns
<1>6. ASSUME NEW t \in Tasks, CancelRequest(t) \/ CancelStep(t)
      PROVE  UNCHANGED <<launched, startCall, proc, fenced>>
  BY <1>6, RetireUnlaunched DEF CancelRequest, CancelStep, CancelStopping,
     CancelMark,
     CancelConclude, CancelAssign, StopReturns
<1>7. ASSUME NEW t \in Tasks, NEW c \in Calls, RequestApproval(t, c)
      PROVE  UNCHANGED <<launched, startCall, proc, fenced>>
  BY <1>7, RetireUnlaunched DEF RequestApproval, ObserverRetires
<1>8. ASSUME NEW t \in Tasks,
             ObserverFails(t) \/ ObserverStopping(t) \/ ObserverLeaves(t)
      PROVE  UNCHANGED <<launched, startCall, proc, fenced>>
  BY <1>8, RetireUnlaunched DEF ObserverFails, ObserverRetires,
     ObserverStopping,
     ObserverLeaves, StopReturns
<1>9. ASSUME NEW t \in Tasks,
             \/ Create(t) \/ Decide(t) \/ DecideReturns(t) \/ ResolveStop(t)
             \/ RecoverStep(t)
      PROVE  UNCHANGED <<launched, startCall, proc, fenced>>
  BY <1>9 DEF Create, Decide, DecideReturns, DecideAccept, DecideFail,
     ResolveStop, RecoverStep, RecoverStopped, RecoverRaises, RecoverReserve,
     RecoverResult
<1>10. ASSUME BootDone \/ UNCHANGED vars
       PROVE  UNCHANGED <<launched, startCall, proc, fenced>>
  BY <1>10 DEF BootDone, vars
<1> QED
  BY <1>1, <1>2, <1>3, <1>4, <1>5, <1>6, <1>7, <1>8, <1>9, <1>10 DEF Next

LEMMA PromiseInit == Init => Promise!Init
<1> SUFFICES ASSUME Init PROVE Promise!Init
  OBVIOUS
<1>1. \A t \in Tasks : ~Blocks(t) /\ ~MayRun(t) /\ ~launched[t]
  BY DEF Init, Blocks, MayRun, Busy
<1> QED
  BY <1>1 DEF Promise!Init

LEMMA PromiseStep == SafeInv /\ [Next]_vars => [Promise!Next]_Promise!vars
<1> SUFFICES ASSUME SafeInv, [Next]_vars PROVE Promise!Next
  OBVIOUS
<1>1. ASSUME NEW u \in Tasks
      PROVE  \/ Promise!Idle(u) \/ Promise!Claim(u) \/ Promise!Release(u)
             \/ Promise!Launch(u) \/ Promise!Exit(u)
  <2>1. /\ MayRun(u) => Blocks(u)
        /\ ~launched[u] => ~MayRun(u)
    BY RunningIsClaimed DEF SafeInv
  <2>2. MayRun(u)' => Blocks(u)'
    <3>1. LaunchInv(u)'
      BY SafeStep DEF SafeInv
    <3> QED
      BY <3>1 DEF LaunchInv, MayRun, Blocks
  <2>3. CASE Launched(u)
    BY <2>1, <2>2, <2>3 DEF Launched, Promise!Launch
  <2>4. CASE RunAsBefore(u)
    BY <2>1, <2>2, <2>4 DEF RunAsBefore, Promise!Idle, Promise!Claim,
       Promise!Release, Promise!Exit, Promise!Same
  <2> QED
    BY <2>3, <2>4, RunStepEffect
<1> QED
  BY <1>1 DEF Promise!Next

(* The native path implements SessionClaim: each session is launched once  *)
(* at most, under the claim of its task, which is held until its process   *)
(* cannot run any more, through every race, timeout and restart.           *)
THEOREM NativeKeepsPromise == Spec => KeepsPromise
<1>1. Init => Promise!Init
  BY PromiseInit
<1>2. SafeInv /\ [Next]_vars => [Promise!Next]_Promise!vars
  BY PromiseStep
<1> QED
  BY <1>1, <1>2, InvariantHolds, PTL DEF Spec, KeepsPromise, Promise!Spec
-----------------------------------------------------------------------------
(* One stop, one start, one response, and the end of a session.  Neither   *)
(* "a stopped session stays stopped" nor "no call is counted twice" is     *)
(* inductive: that a thread which still means to run, launch or decide is  *)
(* harmless rests on where the run stands, on the call that is on its way  *)
(* and on the approvals used so far.                                       *)
OverInv(t) ==
  /\ stopOp[t] => state[t] \notin {"running", "awaiting_approval"}
  /\ stopOp[t] => phase[t] \notin Live
  /\ run[t] \in {"admit", "prepare", "bind"} \/ state[t] = "absent" =>
       ~stopOp[t] /\ ~bridge[t] /\ observer[t] = "none"

CountInv(t) ==
  /\ starts[t] \in {0, 1} /\ stops[t] \in {0, 1}
  /\ startCall[t] = "pending" \/ ~launched[t] => starts[t] = 0
  /\ stopCall[t] = "pending" \/ ~stopOp[t] => stops[t] = 0
  /\ stopCall[t] = "pending" => stopOp[t]

Answerable(t, c) ==
  IF c = pending[t]
    THEN respCall[t] = "pending" \/ phase[t] = "awaiting-approval"
    ELSE c \notin used[t]

ResponseInv(t) ==
  /\ respCall[t] = "pending" =>
       pending[t] # NoCall /\ phase[t] # "awaiting-approval"
  /\ \A c \in Calls : /\ responses[t][c] \in {0, 1}
                      /\ Answerable(t, c) => responses[t][c] = 0

BeforeTurn == {"admit", "prepare", "bind", "reserve", "starting"}

CompletedInv(t) ==
  /\ desired[t] = "completed" =>
       stopOp[t] /\ pending[t] = NoCall /\ run[t] \notin BeforeTurn
  /\ state[t] = "completed" =>
       desired[t] = "completed" /\ phase[t] = "stopped" /\ receipt[t]

CallInv(t) ==
  OverInv(t) /\ CountInv(t) /\ ResponseInv(t) /\ CompletedInv(t)

SettleInv == SafeInv /\ \A t \in Tasks : CallInv(t)

LEMMA SettleInit == Init => SettleInv
<1> SUFFICES ASSUME Init, NEW t \in Tasks PROVE CallInv(t)
  BY SafeInit DEF SettleInv
<1> QED
  BY DEF Init, CallInv, OverInv, CountInv, ResponseInv, Answerable,
     CompletedInv, Live, BeforeTurn

(* What the handlers shared by several threads do comes first.             *)
LEMMA RetireCalls ==
  ASSUME TypeInv, NEW t \in Tasks, NEW a, NEW terminal, Retire(t, a, terminal),
         NEW u \in Tasks, CallInv(u),
         bridge' = bridge, UNCHANGED counts,
         run'[u] = run[u] \/ run'[u] \notin BeforeTurn,
         observer'[u] = observer[u] \/ observer[u] # "none",
         \/ bridge[t] \/ observer[t] # "none" \/ u # t
         \/ run'[u] \notin {"admit", "prepare", "bind"},
         terminal = "completed" /\ u = t =>
           run'[u] \notin BeforeTurn
  PROVE  CallInv(u)'
<1>state. state \in [Tasks -> States]
  BY DEF TypeInv, TypeOK
<1>phase. phase \in [Tasks -> Phases]
  BY DEF TypeInv, TypeOK
<1>stopOp. stopOp \in [Tasks -> BOOLEAN]
  BY DEF TypeInv, TypeOK
<1>desired. desired \in [Tasks -> Terminal \cup {"none"}]
  BY DEF TypeInv, TypeOK
<1>stopCall. stopCall \in [Tasks -> {"idle", "pending", "verified", "bad"}]
  BY DEF TypeInv, TypeOK
<1>1. CASE ~(u = t /\ ReserveStop(t, a, terminal))
  <2>1. /\ state'[u] = state[u] /\ phase'[u] = phase[u]
        /\ stopOp'[u] = stopOp[u] /\ stopCall'[u] = stopCall[u]
    BY <1>1, <1>state, <1>phase, <1>stopOp, <1>stopCall
       DEF Retire, ReserveStop, JoinStop, SetState, SetPhase
  <2>2. desired'[u] = desired[u]
        \/ (desired'[u] = "cancelled" /\ phase[u] # "stopped")
    BY <1>1, <1>desired DEF Retire, ReserveStop, JoinStop
  <2>3. /\ UNCHANGED <<pending, used, launched, receipt, startCall, respCall>>
        /\ UNCHANGED <<starts, stops, responses>>
    BY DEF Retire, counts
  <2>4. OverInv(u)'
    BY <2>1, <2>3 DEF CallInv, OverInv, BeforeTurn
  <2>5. CountInv(u)'
    BY <2>1, <2>3 DEF CallInv, CountInv
  <2>6. ResponseInv(u)'
    BY <2>1, <2>3 DEF CallInv, ResponseInv, Answerable
  <2>7. CompletedInv(u)'
    BY <2>1, <2>2, <2>3 DEF CallInv, CompletedInv, BeforeTurn
  <2> QED
    BY <2>4, <2>5, <2>6, <2>7 DEF CallInv
<1>2. CASE u = t /\ ReserveStop(t, a, terminal)
  <2>1. /\ state'[u] \in {"cancelling", "finalizing", "interrupted"}
        /\ phase'[u] \in {"stop-reserved", "stop-uncertain"}
        /\ stopOp'[u] /\ ~stopOp[u]
    BY <1>2, <1>state, <1>phase, <1>stopOp
       DEF ReserveStop, StopIsFree, SetState, SetPhase
  <2>2. desired'[u] = "completed" =>
          terminal = "completed" /\ pending[u] = NoCall
    BY <1>2, <1>desired DEF ReserveStop, TerminalIntent
  <2>3. stopCall'[u] = "pending" \/ stopCall'[u] = stopCall[u]
    BY <1>2, <1>stopCall DEF ReserveStop
  <2>4. /\ UNCHANGED <<pending, used, launched, receipt, startCall, respCall>>
        /\ UNCHANGED <<starts, stops, responses>>
    BY DEF Retire, counts
  <2>5. OverInv(u)'
    BY <1>2, <2>1 DEF CallInv, OverInv, Live, BeforeTurn
  <2>6. CountInv(u)'
    BY <2>1, <2>3, <2>4 DEF CallInv, CountInv
  <2>7. ResponseInv(u)'
    BY <2>1, <2>4 DEF CallInv, ResponseInv, Answerable
  <2>8. CompletedInv(u)'
    BY <1>2, <2>1, <2>2, <2>4 DEF CallInv, CompletedInv, BeforeTurn
  <2> QED
    BY <2>5, <2>6, <2>7, <2>8 DEF CallInv
<1> QED
  BY <1>1, <1>2

LEMMA StopReturnsCalls ==
  ASSUME TypeInv, NEW t \in Tasks, NEW a \in Actors, StopReturns(t, a),
         NEW u \in Tasks, CallInv(u),
         bridge' = bridge, UNCHANGED counts,
         run'[u] = run[u] \/ run'[u] \notin BeforeTurn,
         observer'[u] = observer[u] \/ observer[u] # "none"
  PROVE  CallInv(u)'
<1>1. \/ /\ state'[u] = state[u] /\ phase'[u] = phase[u]
         /\ receipt'[u] = receipt[u]
      \/ /\ state'[u] = desired[u] /\ phase'[u] = "stopped" /\ receipt'[u]
         /\ desired[u] \in Terminal
      \/ /\ state'[u] = "interrupted" /\ phase'[u] = "stop-uncertain"
         /\ receipt'[u] = receipt[u]
  <2>1. /\ state \in [Tasks -> States] /\ phase \in [Tasks -> Phases]
        /\ receipt \in [Tasks -> BOOLEAN]
    BY DEF TypeInv, TypeOK
  <2>2. desired[t] \in Terminal
    BY DEF StopReturns, Actors, TypeInv, StopHasIntent
  <2> QED
    BY <2>1, <2>2 DEF StopReturns, AcceptStop, DoubtStop, SetState, SetPhase
<1>2. /\ UNCHANGED <<pending, used, launched, stopOp, desired>>
      /\ UNCHANGED <<startCall, stopCall, respCall, starts, stops, responses>>
  BY DEF StopReturns, calls, counts
<1>3. OverInv(u)'
  BY <1>1, <1>2 DEF CallInv, OverInv, Live, Terminal, BeforeTurn
<1>4. CountInv(u)'
  BY <1>2 DEF CallInv, CountInv
<1>5. ResponseInv(u)'
  BY <1>1, <1>2 DEF CallInv, ResponseInv, Answerable
<1>6. CompletedInv(u)'
  BY <1>1, <1>2 DEF CallInv, CompletedInv, BeforeTurn
<1> QED
  BY <1>3, <1>4, <1>5, <1>6 DEF CallInv

LEMMA SettleStep == SettleInv /\ [Next]_vars => SettleInv'
<1> SUFFICES ASSUME SettleInv, [Next]_vars, NEW u \in Tasks PROVE CallInv(u)'
  BY SafeStep DEF SettleInv
<1>a. TypeInv /\ LaunchInv(u) /\ CallInv(u)
  BY DEF SettleInv, SafeInv
<1> USE DEF journal, memory, threads, calls, boot, scope, counts
<1>state. state \in [Tasks -> States]
  BY <1>a DEF TypeInv, TypeOK
<1>phase. phase \in [Tasks -> Phases]
  BY <1>a DEF TypeInv, TypeOK
<1>pending. pending \in [Tasks -> Calls \cup {NoCall}]
  BY <1>a DEF TypeInv, TypeOK
<1>used. used \in [Tasks -> SUBSET Calls]
  BY <1>a DEF TypeInv, TypeOK
<1>launched. launched \in [Tasks -> BOOLEAN]
  BY <1>a DEF TypeInv, TypeOK
<1>stopOp. stopOp \in [Tasks -> BOOLEAN]
  BY <1>a DEF TypeInv, TypeOK
<1>desired. desired \in [Tasks -> Terminal \cup {"none"}]
  BY <1>a DEF TypeInv, TypeOK
<1>receipt. receipt \in [Tasks -> BOOLEAN]
  BY <1>a DEF TypeInv, TypeOK
<1>bridge. bridge \in [Tasks -> BOOLEAN]
  BY <1>a DEF TypeInv, TypeOK
<1>run. run \in [Tasks -> RunStates]
  BY <1>a DEF TypeInv, TypeOK
<1>observer. observer \in [Tasks -> {"none", "reading", "stopping", "leaving",
                                     "done"}]
  BY <1>a DEF TypeInv, TypeOK
<1>startCall. startCall \in [Tasks -> {"idle", "pending", "ok", "bad"}]
  BY <1>a DEF TypeInv, TypeOK
<1>stopCall. stopCall \in [Tasks -> {"idle", "pending", "verified", "bad"}]
  BY <1>a DEF TypeInv, TypeOK
<1>respCall. respCall \in [Tasks -> {"idle", "pending", "ok", "bad"}]
  BY <1>a DEF TypeInv, TypeOK
<1>starts. starts \in [Tasks -> Nat]
  BY <1>a DEF TypeInv, TypeOK
<1>stops. stops \in [Tasks -> Nat]
  BY <1>a DEF TypeInv, TypeOK
<1>responses. responses \in [Tasks -> [Calls -> Nat]]
  BY <1>a DEF TypeInv, TypeOK
<1>1. ASSUME NEW t \in Tasks, Create(t) PROVE CallInv(u)'
  <2>1. OverInv(u)'
    BY <1>a, <1>1, <1>state, <1>run DEF Create, Goto, SetState, CallInv,
       OverInv, Live
  <2>2. CountInv(u)'
    BY <1>a, <1>1 DEF Create, Goto, SetState, CallInv, OverInv, CountInv
  <2>3. ResponseInv(u)'
    BY <1>a, <1>1 DEF Create, Goto, SetState, CallInv, OverInv, ResponseInv,
       Answerable
  <2>4. CompletedInv(u)'
    BY <1>a, <1>1, <1>state, <1>run DEF Create, Goto, SetState, CallInv,
       OverInv, CompletedInv, BeforeTurn
  <2> QED
    BY <2>1, <2>2, <2>3, <2>4 DEF CallInv
<1>2. ASSUME NEW t \in Tasks, RunAdmit(t) PROVE CallInv(u)'
  <2>1. OverInv(u)'
    BY <1>a, <1>2, <1>state, <1>run DEF RunAdmit, Goto, SetState, CallInv,
       OverInv, Live
  <2>2. CountInv(u)'
    BY <1>a, <1>2 DEF RunAdmit, Goto, SetState, CallInv, CountInv
  <2>3. ResponseInv(u)'
    BY <1>a, <1>2 DEF RunAdmit, Goto, SetState, CallInv, ResponseInv,
       Answerable
  <2>4. CompletedInv(u)'
    BY <1>a, <1>2, <1>state, <1>run DEF RunAdmit, Goto, SetState, CallInv,
       CompletedInv, BeforeTurn
  <2> QED
    BY <2>1, <2>2, <2>3, <2>4 DEF CallInv
<1>3. ASSUME NEW t \in Tasks, RunPrepare(t) PROVE CallInv(u)'
  <2>1. OverInv(u)'
    BY <1>a, <1>3, <1>run DEF RunPrepare, Goto, CallInv, OverInv, Live
  <2>2. CountInv(u)'
    BY <1>a, <1>3 DEF RunPrepare, Goto, CallInv, CountInv
  <2>3. ResponseInv(u)'
    BY <1>a, <1>3 DEF RunPrepare, Goto, CallInv, ResponseInv, Answerable
  <2>4. CompletedInv(u)'
    BY <1>a, <1>3, <1>run DEF RunPrepare, Goto, CallInv, CompletedInv,
       BeforeTurn
  <2> QED
    BY <2>1, <2>2, <2>3, <2>4 DEF CallInv
<1>4. ASSUME NEW t \in Tasks, RunBind(t) PROVE CallInv(u)'
  <2>1. OverInv(u)'
    BY <1>a, <1>4, <1>phase, <1>bridge, <1>run DEF RunBind, SetPhase, Goto,
       CallInv, OverInv, Live
  <2>2. CountInv(u)'
    BY <1>a, <1>4 DEF RunBind, SetPhase, Goto, CallInv, OverInv, CountInv
  <2>3. ResponseInv(u)'
    BY <1>a, <1>4, <1>phase DEF RunBind, SetPhase, Goto, CallInv, OverInv,
       ResponseInv, Answerable
  <2>4. CompletedInv(u)'
    BY <1>a, <1>4, <1>phase, <1>run DEF RunBind, SetPhase, Goto, CallInv,
       OverInv, CompletedInv, BeforeTurn
  <2> QED
    BY <2>1, <2>2, <2>3, <2>4 DEF CallInv
<1>5. ASSUME NEW t \in Tasks, RunReserve(t) PROVE CallInv(u)'
  <2>1. OverInv(u)'
    BY <1>a, <1>5, <1>phase, <1>run DEF RunReserve, SetPhase, Goto, CallInv,
       OverInv, Live, LaunchInv
  <2>2. CountInv(u)'
    BY <1>a, <1>5, <1>launched, <1>startCall DEF RunReserve, SetPhase, Goto,
       CallInv, OverInv, CountInv, LaunchInv
  <2>3. ResponseInv(u)'
    BY <1>a, <1>5, <1>phase DEF RunReserve, SetPhase, Goto, CallInv, OverInv,
       ResponseInv, Answerable, LaunchInv
  <2>4. CompletedInv(u)'
    BY <1>a, <1>5, <1>phase, <1>run DEF RunReserve, SetPhase, Goto, CallInv,
       OverInv, CompletedInv, LaunchInv, BeforeTurn
  <2> QED
    BY <2>1, <2>2, <2>3, <2>4 DEF CallInv
<1>6. ASSUME NEW t \in Tasks, RunStarted(t) PROVE CallInv(u)'
  <2>1. OverInv(u)'
    BY <1>a, <1>6, <1>phase, <1>observer, <1>run DEF RunStarted,
       StartStillWanted, SetPhase, Goto, CallInv, OverInv, Live
  <2>2. CountInv(u)'
    BY <1>a, <1>6 DEF RunStarted, StartStillWanted, SetPhase, Goto, CallInv,
       OverInv, CountInv
  <2>3. ResponseInv(u)'
    BY <1>a, <1>6, <1>phase DEF RunStarted, StartStillWanted, SetPhase, Goto,
       CallInv, OverInv, ResponseInv, Answerable
  <2>4. CompletedInv(u)'
    BY <1>a, <1>6, <1>phase, <1>run DEF RunStarted, StartStillWanted,
       SetPhase, Goto, CallInv, OverInv, CompletedInv, BeforeTurn
  <2> QED
    BY <2>1, <2>2, <2>3, <2>4 DEF CallInv
<1>7. ASSUME NEW t \in Tasks, RunTurn(t) PROVE CallInv(u)'
  <2>1. OverInv(u)'
    BY <1>a, <1>7, <1>run DEF RunTurn, Goto, CallInv, OverInv, Live
  <2>2. CountInv(u)'
    BY <1>a, <1>7 DEF RunTurn, Goto, CallInv, CountInv
  <2>3. ResponseInv(u)'
    BY <1>a, <1>7 DEF RunTurn, Goto, CallInv, ResponseInv, Answerable
  <2>4. CompletedInv(u)'
    BY <1>a, <1>7, <1>run DEF RunTurn, Goto, CallInv, CompletedInv, BeforeTurn
  <2> QED
    BY <2>1, <2>2, <2>3, <2>4 DEF CallInv
<1>8. ASSUME NEW t \in Tasks, RunSettle(t) PROVE CallInv(u)'
  <2>1. OverInv(u)'
    BY <1>a, <1>8, <1>run DEF RunSettle, Goto, CallInv, OverInv, Live
  <2>2. CountInv(u)'
    BY <1>a, <1>8 DEF RunSettle, Goto, CallInv, CountInv
  <2>3. ResponseInv(u)'
    BY <1>a, <1>8 DEF RunSettle, Goto, CallInv, ResponseInv, Answerable
  <2>4. CompletedInv(u)'
    BY <1>a, <1>8, <1>run DEF RunSettle, Goto, CallInv, CompletedInv,
       BeforeTurn
  <2> QED
    BY <2>1, <2>2, <2>3, <2>4 DEF CallInv
<1>9. ASSUME NEW t \in Tasks, RunCheck(t) PROVE CallInv(u)'
  <2>1. OverInv(u)'
    BY <1>a, <1>9, <1>run DEF RunCheck, Goto, CallInv, OverInv, Live
  <2>2. CountInv(u)'
    BY <1>a, <1>9 DEF RunCheck, Goto, CallInv, CountInv
  <2>3. ResponseInv(u)'
    BY <1>a, <1>9 DEF RunCheck, Goto, CallInv, ResponseInv, Answerable
  <2>4. CompletedInv(u)'
    BY <1>a, <1>9, <1>run DEF RunCheck, Goto, CallInv, CompletedInv,
       BeforeTurn
  <2> QED
    BY <2>1, <2>2, <2>3, <2>4 DEF CallInv
<1>10. ASSUME NEW t \in Tasks, RunFinalize(t) PROVE CallInv(u)'
  <2>1. Retire(t, "run", "completed")
    BY <1>10 DEF RunFinalize
  <2> QED
    BY <1>a, <1>10, <2>1, RetireCalls, <1>run, <1>observer DEF RunFinalize,
       Goto, AfterRetire, BeforeTurn
<1>11. ASSUME NEW t \in Tasks, RunExcept(t) PROVE CallInv(u)'
  <2>1. CASE Retire(t, "run", "failed")
    BY <1>a, <1>11, <2>1, RetireCalls, <1>run, <1>observer DEF RunExcept,
       Goto, AfterRetire, BeforeTurn
  <2>2. CASE ~Retire(t, "run", "failed")
    <3>1. OverInv(u)'
      BY <1>a, <1>11, <2>2, <1>state, <1>run DEF RunExcept, SetState, Goto,
         CallInv, OverInv, Live
    <3>2. CountInv(u)'
      BY <1>a, <1>11, <2>2 DEF RunExcept, SetState, Goto, CallInv, OverInv,
         CountInv
    <3>3. ResponseInv(u)'
      BY <1>a, <1>11, <2>2 DEF RunExcept, SetState, Goto, CallInv, OverInv,
         ResponseInv, Answerable
    <3>4. CompletedInv(u)'
      BY <1>a, <1>11, <2>2, <1>state, <1>run DEF RunExcept, SetState, Goto,
         CallInv, OverInv, CompletedInv, BeforeTurn
    <3> QED
      BY <3>1, <3>2, <3>3, <3>4 DEF CallInv
  <2> QED
    BY <2>1, <2>2
<1>12. ASSUME NEW t \in Tasks, RunStopping(t) PROVE CallInv(u)'
  <2>1. StopReturns(t, "run")
    BY <1>12 DEF RunStopping
  <2> QED
    BY <1>a, <1>12, <2>1, StopReturnsCalls, ActorValues, <1>run, <1>observer
       DEF RunStopping, Goto, BeforeTurn
<1>13. ASSUME NEW t \in Tasks, RunCleanup(t) PROVE CallInv(u)'
  <2>1. OverInv(u)'
    BY <1>a, <1>13, <1>state, <1>phase, <1>run DEF RunCleanup, SetState,
       SetPhase, Goto, CallInv, OverInv, Live
  <2>2. CountInv(u)'
    BY <1>a, <1>13 DEF RunCleanup, SetState, SetPhase, Goto, CallInv,
       CountInv
  <2>3. ResponseInv(u)'
    BY <1>a, <1>13, <1>phase DEF RunCleanup, SetState, SetPhase, Goto,
       CallInv, ResponseInv, Answerable
  <2>4. CompletedInv(u)'
    BY <1>a, <1>13, <1>state, <1>phase, <1>run DEF RunCleanup, SetState,
       SetPhase, Goto, CallInv, CompletedInv, BeforeTurn
  <2> QED
    BY <2>1, <2>2, <2>3, <2>4 DEF CallInv
<1>14. ASSUME NEW t \in Tasks, NEW c \in Calls, RequestApproval(t, c)
       PROVE  CallInv(u)'
  <2>1. CASE Retire(t, "observer", "failed")
    BY <1>a, <1>14, <2>1, RetireCalls, <1>run, <1>observer DEF
       RequestApproval, ObserverRetires, Receivable, BeforeTurn
  <2>2. CASE ~Retire(t, "observer", "failed")
    <3>1. OverInv(u)'
      BY <1>a, <1>14, <2>2, <1>state, <1>phase DEF RequestApproval,
         Receivable, ObserverRetires, SetState, SetPhase, CallInv, OverInv,
         Live
    <3>2. CountInv(u)'
      BY <1>a, <1>14, <2>2 DEF RequestApproval, Receivable, ObserverRetires,
         SetState, SetPhase, CallInv, OverInv, CountInv
    <3>3. ResponseInv(u)'
      BY <1>a, <1>14, <2>2, NoCallIsNoCall, <1>phase, <1>pending DEF
         RequestApproval, Receivable, ObserverRetires, SetState, SetPhase,
         CallInv, OverInv, ResponseInv, Answerable
    <3>4. CompletedInv(u)'
      BY <1>a, <1>14, <2>2, <1>state, <1>phase, <1>pending DEF
         RequestApproval, Receivable, ObserverRetires, SetState, SetPhase,
         CallInv, OverInv, CompletedInv, BeforeTurn
    <3> QED
      BY <3>1, <3>2, <3>3, <3>4 DEF CallInv
  <2> QED
    BY <2>1, <2>2
<1>15. ASSUME NEW t \in Tasks, ObserverFails(t) PROVE CallInv(u)'
  <2>1. Retire(t, "observer", "failed")
    BY <1>15 DEF ObserverFails, ObserverRetires
  <2> QED
    BY <1>a, <1>15, <2>1, RetireCalls, <1>run, <1>observer DEF ObserverFails,
       ObserverRetires, BeforeTurn
<1>16. ASSUME NEW t \in Tasks, ObserverStopping(t) PROVE CallInv(u)'
  <2>1. StopReturns(t, "observer")
    BY <1>16 DEF ObserverStopping
  <2> QED
    BY <1>a, <1>16, <2>1, StopReturnsCalls, ActorValues, <1>run, <1>observer
       DEF ObserverStopping, Goto, BeforeTurn
<1>17. ASSUME NEW t \in Tasks, ObserverLeaves(t) PROVE CallInv(u)'
  <2>1. OverInv(u)'
    BY <1>a, <1>17, <1>observer DEF ObserverLeaves, CallInv, OverInv, Live
  <2>2. CountInv(u)'
    BY <1>a, <1>17 DEF ObserverLeaves, CallInv, CountInv
  <2>3. ResponseInv(u)'
    BY <1>a, <1>17 DEF ObserverLeaves, CallInv, ResponseInv, Answerable
  <2>4. CompletedInv(u)'
    BY <1>a, <1>17 DEF ObserverLeaves, CallInv, CompletedInv, BeforeTurn
  <2> QED
    BY <2>1, <2>2, <2>3, <2>4 DEF CallInv
<1>18. ASSUME NEW t \in Tasks, Decide(t) PROVE CallInv(u)'
  <2>1. OverInv(u)'
    BY <1>a, <1>18, <1>state, <1>phase DEF Decide, SetState, SetPhase,
       CallInv, OverInv, Live
  <2>2. CountInv(u)'
    BY <1>a, <1>18 DEF Decide, SetState, SetPhase, CallInv, OverInv, CountInv
  <2>3. ResponseInv(u)'
    BY <1>a, <1>18, <1>phase, <1>respCall DEF Decide, SetState, SetPhase,
       CallInv, OverInv, ResponseInv, Answerable
  <2>4. CompletedInv(u)'
    BY <1>a, <1>18, <1>state, <1>phase DEF Decide, SetState, SetPhase,
       CallInv, OverInv, CompletedInv, BeforeTurn
  <2> QED
    BY <2>1, <2>2, <2>3, <2>4 DEF CallInv
<1>19. ASSUME NEW t \in Tasks, DecideAccept(t) PROVE CallInv(u)'
  <2>1. OverInv(u)'
    BY <1>a, <1>19, <1>state, <1>phase DEF DecideAccept, DecisionIsCurrent,
       SetState, SetPhase, CallInv, OverInv, Live
  <2>2. CountInv(u)'
    BY <1>a, <1>19 DEF DecideAccept, DecisionIsCurrent, SetState, SetPhase,
       CallInv, OverInv, CountInv
  <2>3. ResponseInv(u)'
    BY <1>a, <1>19, <1>phase, <1>used, <1>pending DEF DecideAccept,
       DecisionIsCurrent, SetState, SetPhase, CallInv, OverInv, ResponseInv,
       Answerable
  <2>4. CompletedInv(u)'
    BY <1>a, <1>19, <1>state, <1>phase, <1>pending DEF DecideAccept,
       DecisionIsCurrent, SetState, SetPhase, CallInv, OverInv, CompletedInv,
       BeforeTurn
  <2> QED
    BY <2>1, <2>2, <2>3, <2>4 DEF CallInv
<1>20. ASSUME NEW t \in Tasks, DecideFail(t) PROVE CallInv(u)'
  <2>1. OverInv(u)'
    BY <1>a, <1>20, <1>state, <1>phase DEF DecideFail, DecisionIsCurrent,
       SetState, SetPhase, CallInv, OverInv, Live
  <2>2. CountInv(u)'
    BY <1>a, <1>20 DEF DecideFail, DecisionIsCurrent, SetState, SetPhase,
       CallInv, CountInv
  <2>3. ResponseInv(u)'
    BY <1>a, <1>20, <1>phase DEF DecideFail, DecisionIsCurrent, SetState,
       SetPhase, CallInv, ResponseInv, Answerable
  <2>4. CompletedInv(u)'
    BY <1>a, <1>20, <1>state, <1>phase DEF DecideFail, DecisionIsCurrent,
       SetState, SetPhase, CallInv, CompletedInv, BeforeTurn
  <2> QED
    BY <2>1, <2>2, <2>3, <2>4 DEF CallInv
<1>21. ASSUME NEW t \in Tasks, CancelRequest(t) PROVE CallInv(u)'
  <2>1. CASE bridge[t]
    BY <1>a, <1>21, <2>1, RetireCalls, <1>run, <1>observer DEF CancelRequest,
       BeforeTurn
  <2>2. CASE ~bridge[t]
    <3>1. OverInv(u)'
      BY <1>a, <1>21, <2>2 DEF CancelRequest, CallInv, OverInv, Live
    <3>2. CountInv(u)'
      BY <1>a, <1>21, <2>2 DEF CancelRequest, CallInv, OverInv, CountInv
    <3>3. ResponseInv(u)'
      BY <1>a, <1>21, <2>2 DEF CancelRequest, CallInv, OverInv, ResponseInv,
         Answerable
    <3>4. CompletedInv(u)'
      BY <1>a, <1>21, <2>2 DEF CancelRequest, CallInv, OverInv, CompletedInv,
         BeforeTurn
    <3> QED
      BY <3>1, <3>2, <3>3, <3>4 DEF CallInv
  <2> QED
    BY <2>1, <2>2
<1>22. ASSUME NEW t \in Tasks, CancelStopping(t) PROVE CallInv(u)'
  <2>1. StopReturns(t, "cancel")
    BY <1>22 DEF CancelStopping
  <2> QED
    BY <1>a, <1>22, <2>1, StopReturnsCalls, ActorValues, <1>run, <1>observer
       DEF CancelStopping, Goto, BeforeTurn
<1>23. ASSUME NEW t \in Tasks, CancelMark(t) PROVE CallInv(u)'
  <2>1. OverInv(u)'
    BY <1>a, <1>23, <1>state DEF CancelMark, CancelAssign, SetState, CallInv,
       OverInv, Live
  <2>2. CountInv(u)'
    BY <1>a, <1>23 DEF CancelMark, CancelAssign, SetState, CallInv, CountInv
  <2>3. ResponseInv(u)'
    BY <1>a, <1>23 DEF CancelMark, CancelAssign, SetState, CallInv,
       ResponseInv, Answerable
  <2>4. CompletedInv(u)'
    BY <1>a, <1>23, <1>state DEF CancelMark, CancelAssign, SetState, CallInv,
       CompletedInv, BeforeTurn
  <2> QED
    BY <2>1, <2>2, <2>3, <2>4 DEF CallInv
<1>24. ASSUME NEW t \in Tasks, CancelConclude(t) PROVE CallInv(u)'
  <2>1. OverInv(u)'
    BY <1>a, <1>24, <1>state DEF CancelConclude, CancelAssign, SetState,
       CallInv, OverInv, Live
  <2>2. CountInv(u)'
    BY <1>a, <1>24 DEF CancelConclude, CancelAssign, SetState, CallInv,
       CountInv
  <2>3. ResponseInv(u)'
    BY <1>a, <1>24 DEF CancelConclude, CancelAssign, SetState, CallInv,
       ResponseInv, Answerable
  <2>4. CompletedInv(u)'
    BY <1>a, <1>24, <1>state DEF CancelConclude, CancelAssign, SetState,
       CallInv, CompletedInv, BeforeTurn
  <2> QED
    BY <2>1, <2>2, <2>3, <2>4 DEF CallInv
<1>25. ASSUME NEW t \in Tasks, ResolveStop(t) PROVE CallInv(u)'
  <2>0. desired[t] \in Terminal
    BY <1>a, <1>25 DEF ResolveStop, TypeInv, StopHasIntent
  <2>1. OverInv(u)'
    BY <1>a, <1>25, <2>0, <1>state, <1>phase DEF ResolveStop, AcceptStop,
       SetState, SetPhase, CallInv, OverInv, Live, Terminal
  <2>2. CountInv(u)'
    BY <1>a, <1>25, <2>0 DEF ResolveStop, AcceptStop, SetState, SetPhase,
       CallInv, CountInv
  <2>3. ResponseInv(u)'
    BY <1>a, <1>25, <2>0, <1>phase DEF ResolveStop, AcceptStop, SetState,
       SetPhase, CallInv, ResponseInv, Answerable
  <2>4. CompletedInv(u)'
    BY <1>a, <1>25, <2>0, <1>state, <1>phase, <1>receipt DEF ResolveStop,
       AcceptStop, SetState, SetPhase, CallInv, CompletedInv, BeforeTurn
  <2> QED
    BY <2>1, <2>2, <2>3, <2>4 DEF CallInv
<1>26. ASSUME NEW t \in Tasks, StartExec(t) PROVE CallInv(u)'
  <2>1. OverInv(u)'
    BY <1>a, <1>26 DEF StartExec, CallInv, OverInv, Live, LaunchInv
  <2>2. CountInv(u)'
    BY <1>a, <1>26, <1>startCall, <1>starts DEF StartExec, CallInv, CountInv,
       LaunchInv
  <2>3. ResponseInv(u)'
    BY <1>a, <1>26 DEF StartExec, CallInv, ResponseInv, Answerable, LaunchInv
  <2>4. CompletedInv(u)'
    BY <1>a, <1>26 DEF StartExec, CallInv, CompletedInv, LaunchInv, BeforeTurn
  <2> QED
    BY <2>1, <2>2, <2>3, <2>4 DEF CallInv
<1>27. ASSUME NEW t \in Tasks, StopExec(t) PROVE CallInv(u)'
  <2>1. OverInv(u)'
    BY <1>a, <1>27 DEF StopExec, CallInv, OverInv, Live
  <2>2. CountInv(u)'
    BY <1>a, <1>27, <1>stopCall, <1>stops DEF StopExec, CallInv, CountInv
  <2>3. ResponseInv(u)'
    BY <1>a, <1>27 DEF StopExec, CallInv, ResponseInv, Answerable
  <2>4. CompletedInv(u)'
    BY <1>a, <1>27 DEF StopExec, CallInv, CompletedInv, BeforeTurn
  <2> QED
    BY <2>1, <2>2, <2>3, <2>4 DEF CallInv
<1>28. ASSUME NEW t \in Tasks, RespExec(t) PROVE CallInv(u)'
  <2>1. OverInv(u)'
    BY <1>a, <1>28 DEF RespExec, CallInv, OverInv, Live
  <2>2. CountInv(u)'
    BY <1>a, <1>28 DEF RespExec, CallInv, CountInv
  <2>3. ResponseInv(u)'
    BY <1>a, <1>28, <1>respCall, <1>responses DEF RespExec, CallInv,
       ResponseInv, Answerable
  <2>4. CompletedInv(u)'
    BY <1>a, <1>28 DEF RespExec, CallInv, CompletedInv, BeforeTurn
  <2> QED
    BY <2>1, <2>2, <2>3, <2>4 DEF CallInv
<1>29. ASSUME NEW t \in Tasks, ProcExit(t) PROVE CallInv(u)'
  BY <1>a, <1>29 DEF ProcExit, CallInv, OverInv, CountInv, ResponseInv,
     CompletedInv, Answerable, BeforeTurn
<1>30. ASSUME NEW t \in Tasks, OperatorStop(t) PROVE CallInv(u)'
  BY <1>a, <1>30 DEF OperatorStop, CallInv, OverInv, CountInv, ResponseInv,
     CompletedInv, Answerable, BeforeTurn
<1>31. ASSUME NEW t \in Tasks, RecoverStopped(t) PROVE CallInv(u)'
  BY <1>a, <1>31 DEF RecoverStopped, CallInv, OverInv, CountInv, ResponseInv,
     CompletedInv, Answerable, BeforeTurn
<1>32. ASSUME NEW t \in Tasks, RecoverRaises(t) PROVE CallInv(u)'
  BY <1>a, <1>32 DEF RecoverRaises, CallInv, OverInv, CountInv, ResponseInv,
     CompletedInv, Answerable, BeforeTurn
<1>33. ASSUME NEW t \in Tasks, RecoverReserve(t) PROVE CallInv(u)'
  <2>1. OverInv(u)'
    BY <1>a, <1>33, <1>state, <1>phase DEF RecoverReserve, SetState,
       SetPhase, CallInv, OverInv, Live
  <2>2. CountInv(u)'
    BY <1>a, <1>33 DEF RecoverReserve, SetState, SetPhase, CallInv, CountInv
  <2>3. ResponseInv(u)'
    BY <1>a, <1>33, <1>phase DEF RecoverReserve, SetState, SetPhase, CallInv,
       ResponseInv, Answerable
  <2>4. CompletedInv(u)'
    BY <1>a, <1>33, <1>state, <1>phase DEF RecoverReserve, SetState, SetPhase,
       CallInv, CompletedInv, BeforeTurn
  <2> QED
    BY <2>1, <2>2, <2>3, <2>4 DEF CallInv
<1>34. ASSUME NEW t \in Tasks, RecoverResult(t) PROVE CallInv(u)'
  <2>0. /\ RecoveredTerminal(t) \in Terminal
        /\ RecoveredTerminal(t) = "completed" => desired[t] = "completed"
    BY <1>desired DEF RecoveredTerminal, Terminal
  <2>1. OverInv(u)'
    BY <1>a, <1>34, <2>0, <1>state, <1>phase, <1>stopOp DEF RecoverResult,
       SetState, SetPhase, CallInv, OverInv, Live, Terminal, LaunchInv,
       InspectProvesExit
  <2>2. CountInv(u)'
    BY <1>a, <1>34, <2>0, <1>stopOp DEF RecoverResult, SetState, SetPhase,
       CallInv, CountInv
  <2>3. ResponseInv(u)'
    BY <1>a, <1>34, <2>0, <1>phase DEF RecoverResult, SetState, SetPhase,
       CallInv, ResponseInv, Answerable
  <2>4. CompletedInv(u)'
    BY <1>a, <1>34, <2>0, <1>state, <1>phase, <1>stopOp, <1>receipt DEF
       RecoverResult, SetState, SetPhase, CallInv, CompletedInv, BeforeTurn
  <2> QED
    BY <2>1, <2>2, <2>3, <2>4 DEF CallInv
<1>35. ASSUME BootDone PROVE CallInv(u)'
  BY <1>a, <1>35 DEF BootDone, CallInv, OverInv, CountInv, ResponseInv,
     CompletedInv, Answerable, BeforeTurn
<1>36. ASSUME Crash PROVE CallInv(u)'
  <2>1. OverInv(u)'
    BY <1>a, <1>36 DEF Crash, RecoveredState, ExitOnRecord, CallInv, OverInv,
       Live, Busy
  <2>2. CountInv(u)'
    BY <1>a, <1>36 DEF Crash, RecoveredState, ExitOnRecord, CallInv, CountInv
  <2>3. ResponseInv(u)'
    BY <1>a, <1>36 DEF Crash, RecoveredState, ExitOnRecord, CallInv,
       ResponseInv, Answerable
  <2>4. CompletedInv(u)'
    BY <1>a, <1>36 DEF Crash, RecoveredState, ExitOnRecord, CallInv,
       CompletedInv, Busy, Terminal, BeforeTurn
  <2> QED
    BY <2>1, <2>2, <2>3, <2>4 DEF CallInv
<1>37. CASE UNCHANGED vars
  BY <1>a, <1>37 DEF vars, CallInv, OverInv, CountInv, ResponseInv,
     CompletedInv, Answerable, BeforeTurn
<1> QED
  BY <1>1, <1>2, <1>3, <1>4, <1>5, <1>6, <1>7, <1>8, <1>9, <1>10, <1>11,
     <1>12, <1>13, <1>14, <1>15, <1>16, <1>17, <1>18, <1>19, <1>20, <1>21,
     <1>22, <1>23, <1>24, <1>25, <1>26, <1>27, <1>28, <1>29, <1>30, <1>31,
     <1>32, <1>33, <1>34, <1>35, <1>36, <1>37 DEF Next, RunStep,
     DecideReturns, CancelStep, ScopeStep, RecoverStep

LEMMA SettleHolds == Spec => []SettleInv
  BY SettleInit, SettleStep, PTL DEF Spec

(* A completed task has its exit on record and nothing open, and no start, *)
(* stop or approved call reaches the scope twice, whatever timed out.      *)
THEOREM SettledOnce == Spec => []SettledByOneCallEach
<1>1. ASSUME SettleInv PROVE SettledByOneCallEach
  <2> SUFFICES ASSUME NEW t \in Tasks
               PROVE  /\ state[t] = "completed" =>
                           /\ phase[t] = "stopped" /\ fenced[t]
                           /\ proc[t] # "alive" /\ pending[t] = NoCall
                           /\ respCall[t] # "pending"
                      /\ starts[t] <= 1 /\ stops[t] <= 1
                      /\ \A c \in Calls : responses[t][c] <= 1
    BY DEF SettledByOneCallEach
  <2>1. LaunchInv(t) /\ CallInv(t)
    BY <1>1 DEF SettleInv, SafeInv
  <2>2. state[t] = "completed" =>
          /\ phase[t] = "stopped" /\ fenced[t] /\ proc[t] # "alive"
          /\ pending[t] = NoCall /\ respCall[t] # "pending"
    BY <2>1 DEF LaunchInv, CallInv, CompletedInv, ResponseInv, BeforeTurn
  <2>3. starts[t] <= 1 /\ stops[t] <= 1
    BY <2>1 DEF CallInv, CountInv
  <2>4. \A c \in Calls : responses[t][c] <= 1
    BY <2>1 DEF CallInv, ResponseInv
  <2> QED
    BY <2>2, <2>3, <2>4
<1> QED
  BY SettleHolds, <1>1, PTL

LEMMA StopIsForGood ==
  ASSUME TypeInv, [Next]_vars, NEW t \in Tasks, stopOp[t]
  PROVE  stopOp'[t]
<1> USE DEF journal, memory, threads, calls, boot, scope, counts
<1>1. stopOp \in [Tasks -> BOOLEAN]
  BY DEF TypeInv, TypeOK
<1>2. ASSUME NEW u \in Tasks, NEW a, NEW terminal, Retire(u, a, terminal)
      PROVE  stopOp'[t]
  BY <1>1, <1>2 DEF Retire, ReserveStop, JoinStop
<1>3. ASSUME NEW u \in Tasks, RunStep(u) PROVE stopOp'[t]
  BY <1>2, <1>3 DEF RunStep, RunAdmit, RunPrepare, RunBind, RunReserve,
     RunStarted, RunTurn, RunSettle, RunCheck, RunFinalize, RunExcept,
     RunStopping, RunCleanup, StopReturns
<1>4. ASSUME NEW u \in Tasks, CancelRequest(u) \/ CancelStep(u)
      PROVE  stopOp'[t]
  BY <1>2, <1>4 DEF CancelRequest, CancelStep, CancelStopping, CancelMark,
     CancelConclude, CancelAssign, StopReturns
<1>5. ASSUME NEW u \in Tasks, NEW c \in Calls, RequestApproval(u, c)
      PROVE  stopOp'[t]
  BY <1>2, <1>5 DEF RequestApproval, ObserverRetires
<1>6. ASSUME NEW u \in Tasks,
             ObserverFails(u) \/ ObserverStopping(u) \/ ObserverLeaves(u)
      PROVE  stopOp'[t]
  BY <1>2, <1>6 DEF ObserverFails, ObserverRetires, ObserverStopping,
     ObserverLeaves, StopReturns
<1>7. ASSUME NEW u \in Tasks,
             Create(u) \/ Decide(u) \/ DecideReturns(u) \/ ResolveStop(u)
      PROVE  stopOp'[t]
  BY <1>7 DEF Create, Decide, DecideReturns, DecideAccept, DecideFail,
     ResolveStop
<1>8. ASSUME NEW u \in Tasks, ScopeStep(u) PROVE stopOp'[t]
  BY <1>8 DEF ScopeStep, StartExec, StopExec, RespExec, ProcExit, OperatorStop
<1>9. ASSUME NEW u \in Tasks, RecoverStep(u) PROVE stopOp'[t]
  BY <1>1, <1>9 DEF RecoverStep, RecoverStopped, RecoverRaises,
     RecoverReserve, RecoverResult
<1>10. ASSUME BootDone \/ Crash \/ UNCHANGED vars PROVE stopOp'[t]
  BY <1>10 DEF BootDone, Crash, vars
<1> QED
  BY <1>3, <1>4, <1>5, <1>6, <1>7, <1>8, <1>9, <1>10 DEF Next

(* A session whose stop is reserved never runs or asks again: neither a    *)
(* late start nor a late response nor recovery reopens it.                 *)
THEOREM StopIsFinal == Spec => StopIsNeverReopened
<1>1. ASSUME SettleInv, [Next]_vars
      PROVE  [\A t \in Tasks :
                stopOp[t] => state'[t] \notin {"running", "awaiting_approval"}
                             /\ phase'[t] \notin Live]_vars
  <2> SUFFICES ASSUME NEW t \in Tasks, stopOp[t]
               PROVE  /\ state'[t] \notin {"running", "awaiting_approval"}
                      /\ phase'[t] \notin Live
    OBVIOUS
  <2>1. stopOp'[t]
    BY <1>1, StopIsForGood DEF SettleInv, SafeInv
  <2>2. OverInv(t)'
    BY <1>1, SettleStep DEF SettleInv, CallInv
  <2> QED
    BY <2>1, <2>2 DEF OverInv
<1> QED
  BY SettleHolds, <1>1, PTL DEF Spec, StopIsNeverReopened
=============================================================================
