-------------------------- MODULE TaskBroker_proofs --------------------------
(***************************************************************************)
(* Proofs about TaskBroker, for any tasks, checkpoint records and number   *)
(* of restarts: the type invariant, and one inductive invariant from which *)
(* all its safety properties follow.                                       *)
(***************************************************************************)
EXTENDS TaskBroker, TLAPS

(* The values that actions assign; elsewhere the sets stay folded.         *)
LEMMA StateValues ==
  /\ "queued" \in States /\ "running" \in States /\ "failed" \in States
  /\ "handoff" \in States /\ "cancelling" \in States /\ "cancelled" \in States
  /\ "completed" \in States /\ "awaiting_approval" \in States
  /\ "absent" \in States /\ "interrupted" \in States
  BY DEF States, Terminal, Busy

LEMMA RunValues ==
  /\ "none" \in RunStates /\ "begin" \in RunStates /\ "spawn" \in RunStates
  /\ "attach" \in RunStates /\ "read" \in RunStates
  /\ "conclude" \in RunStates /\ "handoff" \in RunStates
  /\ "restage" \in RunStates /\ "finish" \in RunStates
  /\ "done" \in RunStates /\ "dead" \in RunStates
  BY DEF RunStates

LEMMA TypeInit == Init => TypeOK
  BY RestartBound, StateValues, RunValues DEF Init, TypeOK

LEMMA TypeStep == TypeOK /\ [Next]_vars => TypeOK'
<1> SUFFICES ASSUME TypeOK, [Next]_vars PROVE TypeOK'
  OBVIOUS
<1> USE DEF runVars
<1>state. state \in [Tasks -> States]
  BY DEF TypeOK
<1>disk. disk \in [Tasks -> States]
  BY DEF TypeOK
<1>handoff. handoff \in [Tasks -> BOOLEAN]
  BY DEF TypeOK
<1>run. run \in [Tasks -> RunStates]
  BY DEF TypeOK
<1>tail. tail \in [Tasks -> BOOLEAN]
  BY DEF TypeOK
<1>stage. stage \in [Tasks -> {1, 2}]
  BY DEF TypeOK
<1>proc. proc \in [Tasks -> {"none", "alive", "exited"}]
  BY DEF TypeOK
<1>attached. attached \in [Tasks -> BOOLEAN]
  BY DEF TypeOK
<1>verdict. verdict \in [Tasks -> States]
  BY DEF TypeOK
<1>canc. canc \in [Tasks -> {"idle", "mark", "grab", "kill", "conclude"}]
  BY DEF TypeOK
<1>appr. appr \in [Tasks -> {"idle", "start"}]
  BY DEF TypeOK
<1>streamLost. streamLost \in [Tasks -> BOOLEAN]
  BY DEF TypeOK
<1>restarts. restarts \in 0..MaxRestarts
  BY DEF TypeOK
<1>1. ASSUME NEW t \in Tasks, NEW h \in BOOLEAN, Create(t, h) PROVE TypeOK'
  <2>1. state' \in [Tasks -> States]
    BY <1>state, <1>1, StateValues DEF Create, AssignAndSave
  <2>2. disk' \in [Tasks -> States]
    BY <1>disk, <1>1, StateValues DEF Create, AssignAndSave
  <2>3. handoff' \in [Tasks -> BOOLEAN]
    BY <1>handoff, <1>1 DEF Create
  <2>4. run' \in [Tasks -> RunStates]
    BY <1>run, <1>1, RunValues DEF Create, Goto
  <2> QED
    BY <1>1, <2>1, <2>2, <2>3, <2>4 DEF Create, TypeOK
<1>2. ASSUME NEW t \in Tasks, RunBegin(t) PROVE TypeOK'
  <2>1. state' \in [Tasks -> States]
    BY <1>state, <1>2, StateValues DEF RunBegin, AssignAndSave
  <2>2. disk' \in [Tasks -> States]
    BY <1>disk, <1>2, StateValues DEF RunBegin, AssignAndSave
  <2>3. run' \in [Tasks -> RunStates]
    BY <1>run, <1>2, RunValues DEF RunBegin, Goto
  <2> QED
    BY <1>2, <2>1, <2>2, <2>3 DEF RunBegin, TypeOK
<1>3. ASSUME NEW t \in Tasks, RunSpawn(t) PROVE TypeOK'
  <2>1. proc' \in [Tasks -> {"none", "alive", "exited"}]
    BY <1>proc, <1>3 DEF RunSpawn
  <2>2. run' \in [Tasks -> RunStates]
    BY <1>run, <1>3, RunValues DEF RunSpawn, Goto
  <2> QED
    BY <1>3, <2>1, <2>2 DEF RunSpawn, TypeOK
<1>4. ASSUME NEW t \in Tasks, RunSpawnFails(t) PROVE TypeOK'
  <2>1. state' \in [Tasks -> States]
    BY <1>state, <1>4, StateValues DEF RunSpawnFails, RunExcept
  <2>2. run' \in [Tasks -> RunStates]
    BY <1>run, <1>4, RunValues DEF RunSpawnFails, RunExcept, Goto
  <2> QED
    BY <1>4, <2>1, <2>2 DEF RunSpawnFails, RunExcept, TypeOK
<1>5. ASSUME NEW t \in Tasks, RunAttach(t) PROVE TypeOK'
  <2>1. attached' \in [Tasks -> BOOLEAN]
    BY <1>attached, <1>5 DEF RunAttach
  <2>2. run' \in [Tasks -> RunStates]
    BY <1>run, <1>5, RunValues DEF RunAttach, Goto
  <2> QED
    BY <1>5, <2>1, <2>2 DEF RunAttach, TypeOK
<1>6. ASSUME NEW t \in Tasks, RunStreamFails(t) PROVE TypeOK'
  <2>1. streamLost' \in [Tasks -> BOOLEAN]
    BY <1>streamLost, <1>6 DEF RunStreamFails
  <2>2. state' \in [Tasks -> States]
    BY <1>state, <1>6, StateValues DEF RunStreamFails, RunExcept
  <2>3. run' \in [Tasks -> RunStates]
    BY <1>run, <1>6, RunValues DEF RunStreamFails, RunExcept, Goto
  <2> QED
    BY <1>6, <2>1, <2>2, <2>3 DEF RunStreamFails, RunExcept, TypeOK
<1>7. ASSUME NEW t \in Tasks, RunDecide(t) PROVE TypeOK'
  <2>1. verdict' \in [Tasks -> States]
    BY <1>verdict, <1>7, StateValues DEF RunDecide, Outcomes
  <2>2. run' \in [Tasks -> RunStates]
    BY <1>run, <1>7, RunValues DEF RunDecide, Goto
  <2> QED
    BY <1>7, <2>1, <2>2 DEF RunDecide, TypeOK
<1>8. ASSUME NEW t \in Tasks, RunConclude(t) PROVE TypeOK'
  <2>1. state' \in [Tasks -> States]
    BY <1>state, <1>8, StateValues, <1>verdict DEF RunConclude
  <2>2. verdict' \in [Tasks -> States]
    BY <1>verdict, <1>8, StateValues DEF RunConclude
  <2>3. run' \in [Tasks -> RunStates]
    BY <1>run, <1>8, RunValues DEF RunConclude, Goto
  <2> QED
    BY <1>8, <2>1, <2>2, <2>3 DEF RunConclude, TypeOK
<1>9. ASSUME NEW t \in Tasks, RunHandoff(t) PROVE TypeOK'
  <2>1. run' \in [Tasks -> RunStates]
    BY <1>run, <1>9, RunValues DEF RunHandoff, Goto
  <2> QED
    BY <1>9, <2>1 DEF RunHandoff, TypeOK
<1>10. ASSUME NEW t \in Tasks, RunRestage(t) PROVE TypeOK'
  <2>1. state' \in [Tasks -> States]
    BY <1>state, <1>10, StateValues DEF RunRestage, AssignAndSave
  <2>2. disk' \in [Tasks -> States]
    BY <1>disk, <1>10, StateValues DEF RunRestage, AssignAndSave
  <2>3. stage' \in [Tasks -> {1, 2}]
    BY <1>stage, <1>10 DEF RunRestage
  <2>4. attached' \in [Tasks -> BOOLEAN]
    BY <1>attached, <1>10 DEF RunRestage
  <2>5. run' \in [Tasks -> RunStates]
    BY <1>run, <1>10, RunValues DEF RunRestage, Goto
  <2> QED
    BY <1>10, <2>1, <2>2, <2>3, <2>4, <2>5 DEF RunRestage, TypeOK
<1>11. ASSUME NEW t \in Tasks, RunFinish(t) PROVE TypeOK'
  <2>1. attached' \in [Tasks -> BOOLEAN]
    BY <1>attached, <1>11 DEF RunFinish, FinallySave
  <2>2. disk' \in [Tasks -> States]
    BY <1>disk, <1>11, StateValues, <1>state DEF RunFinish, FinallySave
  <2>3. run' \in [Tasks -> RunStates]
    BY <1>run, <1>11, RunValues DEF RunFinish, Goto
  <2>4. stage' \in [Tasks -> {1, 2}]
    BY <1>stage, <1>11 DEF RunFinish
  <2>5. handoff' \in [Tasks -> BOOLEAN]
    BY <1>handoff, <1>11 DEF RunFinish
  <2>6. proc' \in [Tasks -> {"none", "alive", "exited"}]
    BY <1>proc, <1>11 DEF RunFinish
  <2> QED
    BY <1>11, <2>1, <2>2, <2>3, <2>4, <2>5, <2>6 DEF RunFinish, TypeOK
<1>12. ASSUME NEW t \in Tasks, TailFinish(t) PROVE TypeOK'
  <2>1. attached' \in [Tasks -> BOOLEAN]
    BY <1>attached, <1>12 DEF TailFinish, FinallySave
  <2>2. disk' \in [Tasks -> States]
    BY <1>disk, <1>12, StateValues, <1>state DEF TailFinish, FinallySave
  <2>3. tail' \in [Tasks -> BOOLEAN]
    BY <1>tail, <1>12 DEF TailFinish
  <2> QED
    BY <1>12, <2>1, <2>2, <2>3 DEF TailFinish, TypeOK
<1>13. ASSUME NEW t \in Tasks, ProcExit(t) PROVE TypeOK'
  <2>1. proc' \in [Tasks -> {"none", "alive", "exited"}]
    BY <1>proc, <1>13 DEF ProcExit
  <2> QED
    BY <1>13, <2>1 DEF ProcExit, TypeOK
<1>14. ASSUME NEW t \in Tasks, CancelRequest(t) PROVE TypeOK'
  <2>1. canc' \in [Tasks -> {"idle", "mark", "grab", "kill", "conclude"}]
    BY <1>canc, <1>14 DEF CancelRequest
  <2> QED
    BY <1>14, <2>1 DEF CancelRequest, TypeOK
<1>15. ASSUME NEW t \in Tasks, CancelMark(t) PROVE TypeOK'
  <2>1. state' \in [Tasks -> States]
    BY <1>state, <1>15, StateValues DEF CancelMark, AssignAndSave
  <2>2. disk' \in [Tasks -> States]
    BY <1>disk, <1>15, StateValues DEF CancelMark, AssignAndSave
  <2>3. canc' \in [Tasks -> {"idle", "mark", "grab", "kill", "conclude"}]
    BY <1>canc, <1>15 DEF CancelMark
  <2> QED
    BY <1>15, <2>1, <2>2, <2>3 DEF CancelMark, TypeOK
<1>16. ASSUME NEW t \in Tasks, CancelGrab(t) PROVE TypeOK'
  <2>1. canc' \in [Tasks -> {"idle", "mark", "grab", "kill", "conclude"}]
    BY <1>canc, <1>16 DEF CancelGrab
  <2> QED
    BY <1>16, <2>1 DEF CancelGrab, TypeOK
<1>17. ASSUME NEW t \in Tasks, CancelKill(t) PROVE TypeOK'
  <2>1. proc' \in [Tasks -> {"none", "alive", "exited"}]
    BY <1>proc, <1>17 DEF CancelKill
  <2>2. canc' \in [Tasks -> {"idle", "mark", "grab", "kill", "conclude"}]
    BY <1>canc, <1>17 DEF CancelKill
  <2> QED
    BY <1>17, <2>1, <2>2 DEF CancelKill, TypeOK
<1>18. ASSUME NEW t \in Tasks, CancelConclude(t) PROVE TypeOK'
  <2>1. state' \in [Tasks -> States]
    BY <1>state, <1>18, StateValues DEF CancelConclude, AssignAndSave
  <2>2. disk' \in [Tasks -> States]
    BY <1>disk, <1>18, StateValues DEF CancelConclude, AssignAndSave
  <2>3. canc' \in [Tasks -> {"idle", "mark", "grab", "kill", "conclude"}]
    BY <1>canc, <1>18 DEF CancelConclude
  <2> QED
    BY <1>18, <2>1, <2>2, <2>3 DEF CancelConclude, TypeOK
<1>19. ASSUME NEW t \in Tasks, ApproveRequest(t) PROVE TypeOK'
  <2>1. appr' \in [Tasks -> {"idle", "start"}]
    BY <1>appr, <1>19 DEF ApproveRequest
  <2> QED
    BY <1>19, <2>1 DEF ApproveRequest, TypeOK
<1>20. ASSUME NEW t \in Tasks, ApproveStart(t) PROVE TypeOK'
  <2>1. state' \in [Tasks -> States]
    BY <1>state, <1>20, StateValues DEF ApproveStart, AssignAndSave
  <2>2. disk' \in [Tasks -> States]
    BY <1>disk, <1>20, StateValues DEF ApproveStart, AssignAndSave
  <2>3. tail' \in [Tasks -> BOOLEAN]
    BY <1>tail, <1>20 DEF ApproveStart
  <2>4. run' \in [Tasks -> RunStates]
    BY <1>run, <1>20, RunValues DEF ApproveStart, Goto
  <2>5. appr' \in [Tasks -> {"idle", "start"}]
    BY <1>appr, <1>20 DEF ApproveStart
  <2> QED
    BY <1>20, <2>1, <2>2, <2>3, <2>4, <2>5 DEF ApproveStart, TypeOK
<1>21. ASSUME Restart PROVE TypeOK'
  <2>1. disk' \in [Tasks -> States]
    BY <1>disk, <1>21, StateValues DEF Restart
  <2>2. restarts' \in 0..MaxRestarts
    BY <1>restarts, <1>21, RestartBound DEF Restart
  <2> QED
    BY <1>21, <2>1, <2>2, StateValues, RunValues DEF Restart, TypeOK
<1>22. CASE UNCHANGED vars
  BY <1>22 DEF vars, TypeOK
<1> QED
  BY <1>1, <1>2, <1>3, <1>4, <1>5, <1>6, <1>7, <1>8, <1>9, <1>10, <1>11,
     <1>12, <1>13, <1>14, <1>15, <1>16, <1>17, <1>18, <1>19, <1>20, <1>21,
     <1>22
     DEF Next, RunStep, CancelStep

(* Every state the broker reaches is well typed.                           *)
THEOREM TypeCorrect == Spec => []TypeOK
  BY TypeInit, TypeStep, PTL DEF Spec

-----------------------------------------------------------------------------
(* None of the safety properties is inductive alone.  What a run leaves    *)
(* behind rests on where it stands, on the verdict it has decided on and   *)
(* has not assigned, and on the cancel that is about to conclude.          *)
CancelActive(t) == canc[t] \in {"grab", "kill", "conclude"}

ThreadInv(t) ==
  /\ disk[t] # state[t] => run[t] \in {"handoff", "restage", "finish"}
  /\ proc[t] = "alive" /\ run[t] \notin {"attach", "read"} => streamLost[t]
  /\ state[t] \in Busy /\ run[t] \in {"none", "done", "finish"} => CancelActive(t)
  /\ state[t] \in Busy /\ run[t] = "handoff" =>
       state[t] = "handoff" \/ CancelActive(t)
  /\ run[t] = "conclude" =>
       /\ verdict[t] \notin Busy \ {"handoff"}
       /\ verdict[t] \notin {"interrupted", "absent"}
       /\ proc[t] # "alive" \/ streamLost[t]
  /\ state[t] = "absent" => run[t] = "none"
  /\ state[t] = "interrupted" =>
       /\ run[t] = "none" /\ canc[t] = "idle" /\ appr[t] = "idle" /\ ~tail[t]
       /\ disk[t] = "interrupted"

BrokerInv == TypeOK /\ \A t \in Tasks : ThreadInv(t)

LEMMA BrokerInit == Init => BrokerInv
<1> SUFFICES ASSUME Init, NEW t \in Tasks PROVE ThreadInv(t)
  BY TypeInit DEF BrokerInv
<1> QED
  BY DEF Init, ThreadInv, Busy

LEMMA BrokerStep == BrokerInv /\ [Next]_vars => BrokerInv'
<1> SUFFICES ASSUME BrokerInv, [Next]_vars, NEW u \in Tasks PROVE ThreadInv(u)'
  BY TypeStep DEF BrokerInv
<1>a. TypeOK /\ ThreadInv(u)
  BY DEF BrokerInv
<1> USE DEF runVars
<1>state. state \in [Tasks -> States]
  BY <1>a DEF TypeOK
<1>disk. disk \in [Tasks -> States]
  BY <1>a DEF TypeOK
<1>run. run \in [Tasks -> RunStates]
  BY <1>a DEF TypeOK
<1>proc. proc \in [Tasks -> {"none", "alive", "exited"}]
  BY <1>a DEF TypeOK
<1>verdict. verdict \in [Tasks -> States]
  BY <1>a DEF TypeOK
<1>canc. canc \in [Tasks -> {"idle", "mark", "grab", "kill", "conclude"}]
  BY <1>a DEF TypeOK
<1>appr. appr \in [Tasks -> {"idle", "start"}]
  BY <1>a DEF TypeOK
<1>tail. tail \in [Tasks -> BOOLEAN]
  BY <1>a DEF TypeOK
<1>streamLost. streamLost \in [Tasks -> BOOLEAN]
  BY <1>a DEF TypeOK
<1>1. ASSUME NEW t \in Tasks, NEW h \in BOOLEAN, Create(t, h) PROVE ThreadInv(u)'
  BY <1>a, <1>1, <1>state, <1>disk, <1>run DEF Create, AssignAndSave, Goto,
     ThreadInv, CancelActive, Busy
<1>2. ASSUME NEW t \in Tasks, RunBegin(t) PROVE ThreadInv(u)'
  BY <1>a, <1>2, <1>state, <1>disk, <1>run DEF RunBegin, AssignAndSave,
     Goto, ThreadInv, CancelActive, Busy
<1>3. ASSUME NEW t \in Tasks, RunSpawn(t) PROVE ThreadInv(u)'
  BY <1>a, <1>3, <1>proc, <1>run DEF RunSpawn, Goto, ThreadInv,
     CancelActive, Busy
<1>4. ASSUME NEW t \in Tasks, RunSpawnFails(t) PROVE ThreadInv(u)'
  BY <1>a, <1>4, <1>state, <1>run DEF RunSpawnFails, RunExcept, Goto,
     ThreadInv, CancelActive, Busy
<1>5. ASSUME NEW t \in Tasks, RunAttach(t) PROVE ThreadInv(u)'
  BY <1>a, <1>5, <1>run DEF RunAttach, Goto, ThreadInv, CancelActive, Busy
<1>6. ASSUME NEW t \in Tasks, RunStreamFails(t) PROVE ThreadInv(u)'
  BY <1>a, <1>6, <1>streamLost, <1>state, <1>run DEF RunStreamFails,
     RunExcept, Goto, ThreadInv, CancelActive, Busy
<1>7. ASSUME NEW t \in Tasks, RunDecide(t) PROVE ThreadInv(u)'
  BY <1>a, <1>7, <1>verdict, <1>run DEF RunDecide, Goto, Outcomes,
     ThreadInv, CancelActive, Busy
<1>8. ASSUME NEW t \in Tasks, RunConclude(t) PROVE ThreadInv(u)'
  BY <1>a, <1>8, <1>state, <1>verdict, <1>run DEF RunConclude, Goto,
     ThreadInv, CancelActive, Busy
<1>9. ASSUME NEW t \in Tasks, RunHandoff(t) PROVE ThreadInv(u)'
  BY <1>a, <1>9, <1>run DEF RunHandoff, Goto, ThreadInv, CancelActive, Busy
<1>10. ASSUME NEW t \in Tasks, RunRestage(t) PROVE ThreadInv(u)'
  BY <1>a, <1>10, <1>state, <1>disk, <1>run DEF RunRestage, AssignAndSave,
     Goto, ThreadInv, CancelActive, Busy
<1>11. ASSUME NEW t \in Tasks, RunFinish(t) PROVE ThreadInv(u)'
  BY <1>a, <1>11, <1>disk, <1>run, <1>proc DEF RunFinish, FinallySave, Goto,
     ThreadInv, CancelActive, Busy
<1>12. ASSUME NEW t \in Tasks, TailFinish(t) PROVE ThreadInv(u)'
  BY <1>a, <1>12, <1>disk, <1>tail DEF TailFinish, FinallySave, ThreadInv,
     CancelActive, Busy
<1>13. ASSUME NEW t \in Tasks, ProcExit(t) PROVE ThreadInv(u)'
  BY <1>a, <1>13, <1>proc DEF ProcExit, ThreadInv, CancelActive, Busy
<1>14. ASSUME NEW t \in Tasks, CancelRequest(t) PROVE ThreadInv(u)'
  BY <1>a, <1>14, <1>canc DEF CancelRequest, Cancellable, ThreadInv,
     CancelActive, Busy
<1>15. ASSUME NEW t \in Tasks, CancelMark(t) PROVE ThreadInv(u)'
  BY <1>a, <1>15, <1>state, <1>disk, <1>canc DEF CancelMark, AssignAndSave,
     ThreadInv, CancelActive, Busy
<1>16. ASSUME NEW t \in Tasks, CancelGrab(t) PROVE ThreadInv(u)'
  BY <1>a, <1>16, <1>canc DEF CancelGrab, ThreadInv, CancelActive, Busy
<1>17. ASSUME NEW t \in Tasks, CancelKill(t) PROVE ThreadInv(u)'
  BY <1>a, <1>17, <1>proc, <1>canc DEF CancelKill, ThreadInv, CancelActive,
     Busy
<1>18. ASSUME NEW t \in Tasks, CancelConclude(t) PROVE ThreadInv(u)'
  BY <1>a, <1>18, <1>state, <1>disk, <1>canc DEF CancelConclude,
     AssignAndSave, ThreadInv, CancelActive, Busy
<1>19. ASSUME NEW t \in Tasks, ApproveRequest(t) PROVE ThreadInv(u)'
  BY <1>a, <1>19, <1>appr DEF ApproveRequest, Approvable, ThreadInv,
     CancelActive, Busy
<1>20. ASSUME NEW t \in Tasks, ApproveStart(t) PROVE ThreadInv(u)'
  BY <1>a, <1>20, <1>state, <1>disk, <1>tail, <1>run, <1>appr DEF
     ApproveStart, AssignAndSave, Goto, ThreadInv, CancelActive, Busy
<1>21. ASSUME Restart PROVE ThreadInv(u)'
  BY <1>a, <1>21, <1>disk DEF Restart, ThreadInv, Busy
<1>22. CASE UNCHANGED vars
  BY <1>a, <1>22 DEF vars, ThreadInv, CancelActive
<1> QED
  BY <1>1, <1>2, <1>3, <1>4, <1>5, <1>6, <1>7, <1>8, <1>9, <1>10, <1>11,
     <1>12, <1>13, <1>14, <1>15, <1>16, <1>17, <1>18, <1>19, <1>20, <1>21,
     <1>22
     DEF Next, RunStep, CancelStep

LEMMA InvariantHolds == Spec => []BrokerInv
  BY BrokerInit, BrokerStep, PTL DEF Spec

(* Once the thread of a run has left, no client of the task is alive,      *)
(* unless the run gave up on the output of a live one.                     *)
THEOREM NoUnwatched == Spec => []NoUnwatchedProcess
<1>1. BrokerInv => NoUnwatchedProcess
  BY DEF BrokerInv, ThreadInv, NoUnwatchedProcess
<1> QED
  BY InvariantHolds, <1>1, PTL

(* When every thread of a task has returned, task.json says what the       *)
(* memory says.                                                            *)
THEOREM SettledJournal == Spec => []JournalSettled
<1>1. BrokerInv => JournalSettled
  BY DEF BrokerInv, ThreadInv, JournalSettled, Quiescent
<1> QED
  BY InvariantHolds, <1>1, PTL

(* A state that blocks admission has a thread that will leave it, except   *)
(* for the run that died in confined_project.                              *)
THEOREM BusyIsServed == Spec => []BusyHasThread
<1>1. BrokerInv => BusyHasThread
  BY DEF BrokerInv, ThreadInv, CancelActive, BusyHasThread
<1> QED
  BY InvariantHolds, <1>1, PTL

(* What recovery has marked interrupted is never run, cancelled or         *)
(* approved again.                                                         *)
THEOREM InterruptedStays == Spec => InterruptedIsFinal
<1>1. BrokerInv /\ BrokerInv' /\ [Next]_vars =>
        [\A t \in Tasks : state[t] = "interrupted" => state'[t] = "interrupted"]_vars
  <2> SUFFICES ASSUME BrokerInv, [Next]_vars, NEW t \in Tasks,
                      state[t] = "interrupted"
               PROVE  state'[t] = "interrupted"
    OBVIOUS
  <2>a. TypeOK /\ ThreadInv(t)
    BY DEF BrokerInv
  <2>state. state \in [Tasks -> States]
    BY <2>a DEF TypeOK
  <2> USE DEF runVars
  <2>1. ASSUME NEW u \in Tasks, NEW h \in BOOLEAN, Create(u, h) PROVE state'[t] = "interrupted"
    BY <2>a, <2>state, <2>1 DEF Create, AssignAndSave, ThreadInv
  <2>2. ASSUME NEW u \in Tasks, RunBegin(u) PROVE state'[t] = "interrupted"
    BY <2>a, <2>state, <2>2 DEF RunBegin, AssignAndSave, ThreadInv
  <2>3. ASSUME NEW u \in Tasks, RunSpawnFails(u) PROVE state'[t] = "interrupted"
    BY <2>a, <2>state, <2>3 DEF RunSpawnFails, RunExcept, ThreadInv
  <2>4. ASSUME NEW u \in Tasks, RunStreamFails(u) PROVE state'[t] = "interrupted"
    BY <2>a, <2>state, <2>4 DEF RunStreamFails, RunExcept, ThreadInv
  <2>5. ASSUME NEW u \in Tasks, RunConclude(u) PROVE state'[t] = "interrupted"
    BY <2>a, <2>state, <2>5 DEF RunConclude, ThreadInv
  <2>6. ASSUME NEW u \in Tasks, RunRestage(u) PROVE state'[t] = "interrupted"
    BY <2>a, <2>state, <2>6 DEF RunRestage, AssignAndSave, ThreadInv
  <2>7. ASSUME NEW u \in Tasks, CancelMark(u) PROVE state'[t] = "interrupted"
    BY <2>a, <2>state, <2>7 DEF CancelMark, AssignAndSave, ThreadInv
  <2>8. ASSUME NEW u \in Tasks, CancelConclude(u) PROVE state'[t] = "interrupted"
    BY <2>a, <2>state, <2>8 DEF CancelConclude, AssignAndSave, ThreadInv
  <2>9. ASSUME NEW u \in Tasks, ApproveStart(u) PROVE state'[t] = "interrupted"
    BY <2>a, <2>state, <2>9 DEF ApproveStart, AssignAndSave, ThreadInv
  <2>10. ASSUME NEW u \in Tasks,
             \/ RunSpawn(u) \/ RunAttach(u) \/ RunDecide(u) \/ RunHandoff(u)
             \/ RunFinish(u) \/ TailFinish(u) \/ ProcExit(u) \/ CancelRequest(u)
             \/ CancelGrab(u) \/ CancelKill(u) \/ ApproveRequest(u)
      PROVE  state' = state
    BY <2>10 DEF RunSpawn, RunAttach, RunDecide, RunHandoff, RunFinish,
       TailFinish, ProcExit, CancelRequest, CancelGrab, CancelKill,
       ApproveRequest
  <2>11. ASSUME Restart PROVE state'[t] = "interrupted"
    BY <2>a, <2>11 DEF Restart, ThreadInv, Busy
  <2>12. CASE UNCHANGED vars
    BY <2>12 DEF vars
  <2> QED
    BY <2>1, <2>2, <2>3, <2>4, <2>5, <2>6, <2>7, <2>8, <2>9, <2>10, <2>11,
       <2>12 DEF Next, RunStep, CancelStep
<1> QED
  BY InvariantHolds, <1>1, PTL DEF Spec, InterruptedIsFinal
=============================================================================
