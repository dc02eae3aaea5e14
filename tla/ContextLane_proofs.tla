-------------------------- MODULE ContextLane_proofs --------------------------
(***************************************************************************)
(* Proofs about ContextLane, for any number of long and ordinary requests, *)
(* any queue and any number of warm steps: the engine works on one long    *)
(* request at a time, the lane is handed out in order, and the counter and *)
(* the queue are exact.  Then the two other parts of MCLiveness: what the  *)
(* managed services and the visits to applications keep, for any services, *)
(* visits and sign-in pages, and the three parts in one behaviour.         *)
(***************************************************************************)
EXTENDS MCLiveness, SequenceTheorems, FiniteSetTheorems, TLAPS

(* What is needed of the types.  The queue, the counter and the pauses do  *)
(* not matter for the lane.                                                *)
LaneTypes ==
  /\ at \in [Requests -> Positions]
  /\ prep \in [Requests -> Preparations]
  /\ step \in [Requests -> BOOLEAN]
  /\ upstream \in [Requests -> BOOLEAN]
  /\ ref \in [Requests -> BOOLEAN]
  /\ leases \subseteq Long

OneLease == \A r, s \in leases : r = s

(* A preparation past acquire holds the lane; an outstanding step is known *)
(* to the preparation, which is over before cleanup begins; and a request  *)
(* that has not been served, or is gone, has nothing.                      *)
LaneOf(r) ==
  /\ step[r] \/ upstream[r] \/ ref[r] => r \in leases
  /\ prep[r] \in Preparing \ {"queued"} => r \in leases
  /\ step[r] => prep[r] \in {"step", "draining"}
  /\ at[r] \in {"away", "count"} =>
       prep[r] = "none" /\ ~step[r] /\ ~upstream[r] /\ ~ref[r]
  /\ at[r] \in {"close", "reference", "held"} => prep[r] \notin Preparing
  /\ at[r] \in {"reference", "held"} => ~upstream[r]

LaneInv == LaneTypes /\ OneLease /\ \A r \in Long : LaneOf(r)

LEMMA PositionValues ==
  /\ "away" \in Positions /\ "count" \in Positions /\ "serve" \in Positions
  /\ "drain" \in Positions /\ "close" \in Positions
  /\ "reference" \in Positions /\ "held" \in Positions
  BY DEF Positions

LEMMA PreparationValues ==
  /\ "none" \in Preparations /\ "ready" \in Preparations
  /\ "failed" \in Preparations /\ "queued" \in Preparations
  /\ "open" \in Preparations /\ "turn" \in Preparations
  /\ "step" \in Preparations /\ "draining" \in Preparations
  /\ "dispatch" \in Preparations
  BY DEF Preparations, Preparing

LEMMA LaneInit == Init => LaneInv
  BY PositionValues, PreparationValues
  DEF Init, LaneInv, LaneTypes, OneLease, LaneOf, Preparing, Requests

LEMMA LaneStep == LaneInv /\ [Next]_vars => LaneInv'
<1> SUFFICES ASSUME LaneInv, [Next]_vars PROVE LaneInv'
  OBVIOUS
<1> USE DEF Set
<1>at. at \in [Requests -> Positions]
  BY DEF LaneInv, LaneTypes
<1>prep. prep \in [Requests -> Preparations]
  BY DEF LaneInv, LaneTypes
<1>step. step \in [Requests -> BOOLEAN]
  BY DEF LaneInv, LaneTypes
<1>upstream. upstream \in [Requests -> BOOLEAN]
  BY DEF LaneInv, LaneTypes
<1>ref. ref \in [Requests -> BOOLEAN]
  BY DEF LaneInv, LaneTypes
<1>leases. leases \subseteq Long
  BY DEF LaneInv, LaneTypes
<1>one. OneLease
  BY DEF LaneInv
<1>lane. \A s \in Long : LaneOf(s)
  BY DEF LaneInv
<1>long. Long \subseteq Requests
  BY DEF Requests
<1>1. ASSUME NEW r \in Requests, Arrive(r) PROVE LaneInv'
  <2>1. at' \in [Requests -> Positions]
    BY <1>at, <1>1, PositionValues DEF Arrive
  <2>2. ASSUME NEW s \in Long PROVE LaneOf(s)'
    <3> LaneOf(s) /\ s \in Requests
      BY <1>lane, <1>long
    <3>1. CASE s # r
      BY <3>1, <1>1, <1>at, <1>prep, <1>step, <1>upstream, <1>ref
      DEF Arrive, LaneOf
    <3>2. CASE s = r
      BY <3>2, <1>1, <1>at, <1>prep, <1>step, <1>upstream, <1>ref
      DEF Arrive, LaneOf, Preparing
    <3> QED
      BY <3>1, <3>2
  <2> QED
    BY <1>1, <1>prep, <1>step, <1>upstream, <1>ref, <1>leases, <1>one, <2>1, <2>2
    DEF Arrive, LaneInv, LaneTypes, OneLease
<1>2. ASSUME NEW r \in Requests, Refuse(r) PROVE LaneInv'
  <2>1. at' \in [Requests -> Positions]
    BY <1>at, <1>2, PositionValues DEF Refuse
  <2>2. ASSUME NEW s \in Long PROVE LaneOf(s)'
    <3> LaneOf(s) /\ s \in Requests
      BY <1>lane, <1>long
    <3>1. CASE s # r
      BY <3>1, <1>2, <1>at, <1>prep, <1>step, <1>upstream, <1>ref
      DEF Refuse, LaneOf
    <3>2. CASE s = r
      BY <3>2, <1>2, <1>at, <1>prep, <1>step, <1>upstream, <1>ref
      DEF Refuse, LaneOf, Preparing
    <3> QED
      BY <3>1, <3>2
  <2> QED
    BY <1>2, <1>prep, <1>step, <1>upstream, <1>ref, <1>leases, <1>one, <2>1, <2>2
    DEF Refuse, LaneInv, LaneTypes, OneLease
<1>3. ASSUME NEW r \in Requests, Serve(r) PROVE LaneInv'
  <2>1. at' \in [Requests -> Positions]
    BY <1>at, <1>3, PositionValues DEF Serve
  <2>2. prep' \in [Requests -> Preparations]
    BY <1>prep, <1>3, PreparationValues DEF Serve
  <2>3. upstream' \in [Requests -> BOOLEAN]
    BY <1>upstream, <1>3 DEF Serve
  <2>4. ASSUME NEW s \in Long PROVE LaneOf(s)'
    <3> LaneOf(s) /\ s \in Requests
      BY <1>lane, <1>long
    <3>1. CASE s # r
      BY <3>1, <1>3, <1>at, <1>prep, <1>step, <1>upstream, <1>ref
      DEF Serve, LaneOf
    <3>2. CASE s = r
      BY <3>2, <1>3, <1>at, <1>prep, <1>step, <1>upstream, <1>ref
      DEF Serve, LaneOf, Preparing
    <3> QED
      BY <3>1, <3>2
  <2> QED
    BY <1>3, <1>step, <1>ref, <1>leases, <1>one, <2>1, <2>2, <2>3, <2>4
    DEF Serve, LaneInv, LaneTypes, OneLease
<1>4. ASSUME NEW r \in Requests, Drained(r) PROVE LaneInv'
  <2>1. at' \in [Requests -> Positions]
    BY <1>at, <1>4, PositionValues DEF Drained, BeginCleanup
  <2>2. ASSUME NEW s \in Long PROVE LaneOf(s)'
    <3> LaneOf(s) /\ s \in Requests
      BY <1>lane, <1>long
    <3>1. CASE s # r
      BY <3>1, <1>4, <1>at, <1>prep, <1>step, <1>upstream, <1>ref
      DEF Drained, BeginCleanup, LaneOf
    <3>2. CASE s = r
      BY <3>2, <1>4, <1>at, <1>prep, <1>step, <1>upstream, <1>ref
      DEF Drained, BeginCleanup, LaneOf, Preparing
    <3> QED
      BY <3>1, <3>2
  <2> QED
    BY <1>4, <1>prep, <1>step, <1>upstream, <1>ref, <1>leases, <1>one, <2>1, <2>2
    DEF Drained, BeginCleanup, LaneInv, LaneTypes, OneLease
<1>5. ASSUME NEW r \in Requests, PreparationFailed(r) PROVE LaneInv'
  <2>1. at' \in [Requests -> Positions]
    BY <1>at, <1>5, PositionValues DEF PreparationFailed, BeginCleanup
  <2>2. ASSUME NEW s \in Long PROVE LaneOf(s)'
    <3> LaneOf(s) /\ s \in Requests
      BY <1>lane, <1>long
    <3>1. CASE s # r
      BY <3>1, <1>5, <1>at, <1>prep, <1>step, <1>upstream, <1>ref
      DEF PreparationFailed, BeginCleanup, LaneOf
    <3>2. CASE s = r
      BY <3>2, <1>5, <1>at, <1>prep, <1>step, <1>upstream, <1>ref
      DEF PreparationFailed, BeginCleanup, LaneOf, Preparing
    <3> QED
      BY <3>1, <3>2
  <2> QED
    BY <1>5, <1>prep, <1>step, <1>upstream, <1>ref, <1>leases, <1>one, <2>1, <2>2
    DEF PreparationFailed, BeginCleanup, LaneInv, LaneTypes, OneLease
<1>6. ASSUME NEW r \in Requests, CloseUpstream(r) PROVE LaneInv'
  <2>1. at' \in [Requests -> Positions]
    BY <1>at, <1>6, PositionValues DEF CloseUpstream, Release, Leaves
  <2>2. prep' \in [Requests -> Preparations]
    BY <1>prep, <1>6, PreparationValues DEF CloseUpstream, Release, Leaves
  <2>3. upstream' \in [Requests -> BOOLEAN]
    BY <1>upstream, <1>6 DEF CloseUpstream, Release, Leaves
  <2>4. leases' \subseteq Long /\ OneLease'
    BY <1>leases, <1>one, <1>6 DEF CloseUpstream, Release, Leaves, OneLease
  <2>5. ASSUME NEW s \in Long PROVE LaneOf(s)'
    <3> LaneOf(s) /\ s \in Requests
      BY <1>lane, <1>long
    <3>1. CASE s # r
      BY <3>1, <1>6, <1>at, <1>prep, <1>step, <1>upstream, <1>ref
      DEF CloseUpstream, Release, Leaves, LaneOf
    <3>2. CASE s = r
      BY <3>2, <1>6, <1>at, <1>prep, <1>step, <1>upstream, <1>ref
      DEF CloseUpstream, Release, Leaves, LaneOf, Preparing
    <3> QED
      BY <3>1, <3>2
  <2> QED
    BY <1>6, <1>step, <1>ref, <2>1, <2>2, <2>3, <2>4, <2>5
    DEF CloseUpstream, Release, Leaves, LaneInv, LaneTypes, OneLease
<1>7. ASSUME NEW r \in Requests, CloseReference(r) PROVE LaneInv'
  <2>1. at' \in [Requests -> Positions]
    BY <1>at, <1>7, PositionValues DEF CloseReference, Release, Leaves
  <2>2. prep' \in [Requests -> Preparations]
    BY <1>prep, <1>7, PreparationValues DEF CloseReference, Release, Leaves
  <2>3. ref' \in [Requests -> BOOLEAN]
    BY <1>ref, <1>7 DEF CloseReference, Release, Leaves
  <2>4. leases' \subseteq Long /\ OneLease'
    BY <1>leases, <1>one, <1>7 DEF CloseReference, Release, Leaves, OneLease
  <2>5. ASSUME NEW s \in Long PROVE LaneOf(s)'
    <3> LaneOf(s) /\ s \in Requests
      BY <1>lane, <1>long
    <3>1. CASE s # r
      BY <3>1, <1>7, <1>at, <1>prep, <1>step, <1>upstream, <1>ref
      DEF CloseReference, Release, Leaves, LaneOf
    <3>2. CASE s = r
      BY <3>2, <1>7, <1>at, <1>prep, <1>step, <1>upstream, <1>ref
      DEF CloseReference, Release, Leaves, LaneOf, Preparing
    <3> QED
      BY <3>1, <3>2
  <2> QED
    BY <1>7, <1>step, <1>upstream, <2>1, <2>2, <2>3, <2>4, <2>5
    DEF CloseReference, Release, Leaves, LaneInv, LaneTypes, OneLease
<1>8. ASSUME NEW r \in Long, Acquire(r) PROVE LaneInv'
  <2>1. prep' \in [Requests -> Preparations]
    BY <1>prep, <1>8, PreparationValues DEF Acquire, TakesLane
  <2>2. ref' \in [Requests -> BOOLEAN]
    BY <1>ref, <1>8 DEF Acquire, TakesLane
  <2>3. leases' \subseteq Long /\ OneLease'
    BY <1>leases, <1>one, <1>8 DEF Acquire, TakesLane, OneLease
  <2>4. ASSUME NEW s \in Long PROVE LaneOf(s)'
    <3> LaneOf(s) /\ s \in Requests
      BY <1>lane, <1>long
    <3>1. CASE s # r
      BY <3>1, <1>8, <1>at, <1>prep, <1>step, <1>upstream, <1>ref
      DEF Acquire, TakesLane, LaneOf
    <3>2. CASE s = r
      BY <3>2, <1>8, <1>at, <1>prep, <1>step, <1>upstream, <1>ref
      DEF Acquire, TakesLane, LaneOf, Preparing
    <3> QED
      BY <3>1, <3>2
  <2> QED
    BY <1>8, <1>at, <1>step, <1>upstream, <2>1, <2>2, <2>3, <2>4
    DEF Acquire, TakesLane, LaneInv, LaneTypes, OneLease
<1>9. ASSUME NEW r \in Long, AcquirePoll(r) PROVE LaneInv'
  <2>1. prep' \in [Requests -> Preparations]
    BY <1>prep, <1>9, PreparationValues DEF AcquirePoll, TakesLane
  <2>2. ref' \in [Requests -> BOOLEAN]
    BY <1>ref, <1>9 DEF AcquirePoll, TakesLane
  <2>3. leases' \subseteq Long /\ OneLease'
    BY <1>leases, <1>one, <1>9 DEF AcquirePoll, TakesLane, OneLease
  <2>4. ASSUME NEW s \in Long PROVE LaneOf(s)'
    <3> LaneOf(s) /\ s \in Requests
      BY <1>lane, <1>long
    <3>1. CASE s # r
      BY <3>1, <1>9, <1>at, <1>prep, <1>step, <1>upstream, <1>ref
      DEF AcquirePoll, TakesLane, LaneOf
    <3>2. CASE s = r
      BY <3>2, <1>9, <1>at, <1>prep, <1>step, <1>upstream, <1>ref
      DEF AcquirePoll, TakesLane, LaneOf, Preparing
    <3> QED
      BY <3>1, <3>2
  <2> QED
    BY <1>9, <1>at, <1>step, <1>upstream, <2>1, <2>2, <2>3, <2>4
    DEF AcquirePoll, TakesLane, LaneInv, LaneTypes, OneLease
<1>10. ASSUME NEW r \in Requests, Opened(r) PROVE LaneInv'
  <2>1. prep' \in [Requests -> Preparations]
    BY <1>prep, <1>10, PreparationValues DEF Opened
  <2>2. ASSUME NEW s \in Long PROVE LaneOf(s)'
    <3> LaneOf(s) /\ s \in Requests
      BY <1>lane, <1>long
    <3>1. CASE s # r
      BY <3>1, <1>10, <1>at, <1>prep, <1>step, <1>upstream, <1>ref
      DEF Opened, LaneOf
    <3>2. CASE s = r
      BY <3>2, <1>10, <1>at, <1>prep, <1>step, <1>upstream, <1>ref
      DEF Opened, LaneOf, Preparing
    <3> QED
      BY <3>1, <3>2
  <2> QED
    BY <1>10, <1>at, <1>step, <1>upstream, <1>ref, <1>leases, <1>one, <2>1, <2>2
    DEF Opened, LaneInv, LaneTypes, OneLease
<1>11. ASSUME NEW r \in Requests, PauseEnds(r) PROVE LaneInv'
  <2>1. ASSUME NEW s \in Long PROVE LaneOf(s)'
    <3> LaneOf(s) /\ s \in Requests
      BY <1>lane, <1>long
    <3>1. CASE s # r
      BY <3>1, <1>11, <1>at, <1>prep, <1>step, <1>upstream, <1>ref
      DEF PauseEnds, LaneOf
    <3>2. CASE s = r
      BY <3>2, <1>11, <1>at, <1>prep, <1>step, <1>upstream, <1>ref
      DEF PauseEnds, LaneOf, Preparing
    <3> QED
      BY <3>1, <3>2
  <2> QED
    BY <1>11, <1>at, <1>prep, <1>step, <1>upstream, <1>ref, <1>leases, <1>one, <2>1
    DEF PauseEnds, LaneInv, LaneTypes, OneLease
<1>12. ASSUME NEW r \in Requests, WarmStep(r) PROVE LaneInv'
  <2>1. prep' \in [Requests -> Preparations]
    BY <1>prep, <1>12, PreparationValues DEF WarmStep
  <2>2. step' \in [Requests -> BOOLEAN]
    BY <1>step, <1>12 DEF WarmStep
  <2>3. ASSUME NEW s \in Long PROVE LaneOf(s)'
    <3> LaneOf(s) /\ s \in Requests
      BY <1>lane, <1>long
    <3>1. CASE s # r
      BY <3>1, <1>12, <1>at, <1>prep, <1>step, <1>upstream, <1>ref
      DEF WarmStep, LaneOf
    <3>2. CASE s = r
      BY <3>2, <1>12, <1>at, <1>prep, <1>step, <1>upstream, <1>ref
      DEF WarmStep, LaneOf, Preparing
    <3> QED
      BY <3>1, <3>2
  <2> QED
    BY <1>12, <1>at, <1>upstream, <1>ref, <1>leases, <1>one, <2>1, <2>2, <2>3
    DEF WarmStep, LaneInv, LaneTypes, OneLease
<1>13. ASSUME NEW r \in Requests, WarmStepEnds(r) PROVE LaneInv'
  <2>1. prep' \in [Requests -> Preparations]
    BY <1>prep, <1>13, PreparationValues DEF WarmStepEnds
  <2>2. step' \in [Requests -> BOOLEAN]
    BY <1>step, <1>13 DEF WarmStepEnds
  <2>3. upstream' \in [Requests -> BOOLEAN]
    BY <1>upstream, <1>13 DEF WarmStepEnds
  <2>4. ASSUME NEW s \in Long PROVE LaneOf(s)'
    <3> LaneOf(s) /\ s \in Requests
      BY <1>lane, <1>long
    <3>1. CASE s # r
      BY <3>1, <1>13, <1>at, <1>prep, <1>step, <1>upstream, <1>ref
      DEF WarmStepEnds, LaneOf
    <3>2. CASE s = r
      BY <3>2, <1>13, <1>at, <1>prep, <1>step, <1>upstream, <1>ref
      DEF WarmStepEnds, LaneOf, Preparing
    <3> QED
      BY <3>1, <3>2
  <2> QED
    BY <1>13, <1>at, <1>ref, <1>leases, <1>one, <2>1, <2>2, <2>3, <2>4
    DEF WarmStepEnds, LaneInv, LaneTypes, OneLease
<1>14. ASSUME NEW r \in Requests, Dispatched(r) PROVE LaneInv'
  <2>1. prep' \in [Requests -> Preparations]
    BY <1>prep, <1>14, PreparationValues DEF Dispatched
  <2>2. ASSUME NEW s \in Long PROVE LaneOf(s)'
    <3> LaneOf(s) /\ s \in Requests
      BY <1>lane, <1>long
    <3>1. CASE s # r
      BY <3>1, <1>14, <1>at, <1>prep, <1>step, <1>upstream, <1>ref
      DEF Dispatched, LaneOf
    <3>2. CASE s = r
      BY <3>2, <1>14, <1>at, <1>prep, <1>step, <1>upstream, <1>ref
      DEF Dispatched, LaneOf, Preparing
    <3> QED
      BY <3>1, <3>2
  <2> QED
    BY <1>14, <1>at, <1>step, <1>upstream, <1>ref, <1>leases, <1>one, <2>1, <2>2
    DEF Dispatched, LaneInv, LaneTypes, OneLease
<1>15. ASSUME NEW r \in Requests, StepDrained(r) PROVE LaneInv'
  <2>1. prep' \in [Requests -> Preparations]
    BY <1>prep, <1>15, PreparationValues DEF StepDrained
  <2>2. step' \in [Requests -> BOOLEAN]
    BY <1>step, <1>15 DEF StepDrained
  <2>3. ASSUME NEW s \in Long PROVE LaneOf(s)'
    <3> LaneOf(s) /\ s \in Requests
      BY <1>lane, <1>long
    <3>1. CASE s # r
      BY <3>1, <1>15, <1>at, <1>prep, <1>step, <1>upstream, <1>ref
      DEF StepDrained, LaneOf
    <3>2. CASE s = r
      BY <3>2, <1>15, <1>at, <1>prep, <1>step, <1>upstream, <1>ref
      DEF StepDrained, LaneOf, Preparing
    <3> QED
      BY <3>1, <3>2
  <2> QED
    BY <1>15, <1>at, <1>upstream, <1>ref, <1>leases, <1>one, <2>1, <2>2, <2>3
    DEF StepDrained, LaneInv, LaneTypes, OneLease
<1>16. ASSUME NEW r \in Requests, AcquireTimeout(r) PROVE LaneInv'
  <2>1. prep' \in [Requests -> Preparations]
    BY <1>prep, <1>16, PreparationValues DEF AcquireTimeout
  <2>2. ASSUME NEW s \in Long PROVE LaneOf(s)'
    <3> LaneOf(s) /\ s \in Requests
      BY <1>lane, <1>long
    <3>1. CASE s # r
      BY <3>1, <1>16, <1>at, <1>prep, <1>step, <1>upstream, <1>ref
      DEF AcquireTimeout, LaneOf
    <3>2. CASE s = r
      BY <3>2, <1>16, <1>at, <1>prep, <1>step, <1>upstream, <1>ref
      DEF AcquireTimeout, LaneOf, Preparing
    <3> QED
      BY <3>1, <3>2
  <2> QED
    BY <1>16, <1>at, <1>step, <1>upstream, <1>ref, <1>leases, <1>one, <2>1, <2>2
    DEF AcquireTimeout, LaneInv, LaneTypes, OneLease
<1>17. ASSUME NEW r \in Requests, PrepareFails(r) PROVE LaneInv'
  <2>1. prep' \in [Requests -> Preparations]
    BY <1>prep, <1>17, PreparationValues DEF PrepareFails, Abandon
  <2>2. ASSUME NEW s \in Long PROVE LaneOf(s)'
    <3> LaneOf(s) /\ s \in Requests
      BY <1>lane, <1>long
    <3>1. CASE s # r
      BY <3>1, <1>17, <1>at, <1>prep, <1>step, <1>upstream, <1>ref
      DEF PrepareFails, Abandon, LaneOf
    <3>2. CASE s = r
      BY <3>2, <1>17, <1>at, <1>prep, <1>step, <1>upstream, <1>ref
      DEF PrepareFails, Abandon, LaneOf, Preparing
    <3> QED
      BY <3>1, <3>2
  <2> QED
    BY <1>17, <1>at, <1>step, <1>upstream, <1>ref, <1>leases, <1>one, <2>1, <2>2
    DEF PrepareFails, Abandon, LaneInv, LaneTypes, OneLease
<1>18. ASSUME NEW r \in Requests, Cancel(r) PROVE LaneInv'
  <2>1. at' \in [Requests -> Positions]
    BY <1>at, <1>18, PositionValues DEF Cancel, Abandon
  <2>2. prep' \in [Requests -> Preparations]
    BY <1>prep, <1>18, PreparationValues DEF Cancel, Abandon
  <2>3. ASSUME NEW s \in Long PROVE LaneOf(s)'
    <3> LaneOf(s) /\ s \in Requests
      BY <1>lane, <1>long
    <3>1. CASE s # r
      BY <3>1, <1>18, <1>at, <1>prep, <1>step, <1>upstream, <1>ref
      DEF Cancel, Abandon, LaneOf
    <3>2. CASE s = r
      BY <3>2, <1>18, <1>at, <1>prep, <1>step, <1>upstream, <1>ref
      DEF Cancel, Abandon, LaneOf, Preparing
    <3> QED
      BY <3>1, <3>2
  <2> QED
    BY <1>18, <1>step, <1>upstream, <1>ref, <1>leases, <1>one, <2>1, <2>2, <2>3
    DEF Cancel, Abandon, LaneInv, LaneTypes, OneLease
<1>19. ASSUME NEW r \in Requests, StreamEnds(r) PROVE LaneInv'
  <2>1. at' \in [Requests -> Positions]
    BY <1>at, <1>19, PositionValues DEF StreamEnds, BeginCleanup
  <2>2. ASSUME NEW s \in Long PROVE LaneOf(s)'
    <3> LaneOf(s) /\ s \in Requests
      BY <1>lane, <1>long
    <3>1. CASE s # r
      BY <3>1, <1>19, <1>at, <1>prep, <1>step, <1>upstream, <1>ref
      DEF StreamEnds, BeginCleanup, LaneOf
    <3>2. CASE s = r
      BY <3>2, <1>19, <1>at, <1>prep, <1>step, <1>upstream, <1>ref
      DEF StreamEnds, BeginCleanup, LaneOf, Preparing
    <3> QED
      BY <3>1, <3>2
  <2> QED
    BY <1>19, <1>prep, <1>step, <1>upstream, <1>ref, <1>leases, <1>one, <2>1, <2>2
    DEF StreamEnds, BeginCleanup, LaneInv, LaneTypes, OneLease
<1>20. CASE UNCHANGED vars
  BY <1>20 DEF vars, LaneInv, LaneTypes, OneLease, LaneOf
<1> QED
  BY <1>1, <1>2, <1>3, <1>4, <1>5, <1>6, <1>7, <1>8, <1>9, <1>10,
     <1>11, <1>12, <1>13, <1>14, <1>15, <1>16, <1>17, <1>18, <1>19, <1>20
  DEF Next, HandlerStep, PrepareStep, Requests

LEMMA LaneAlways == Spec => []LaneInv
  BY LaneInit, LaneStep, PTL DEF Spec

(* The engine works on at most one long request, which holds the lane,     *)
(* whatever is cancelled, fails or times out (perform_cleanup releases     *)
(* last, and only when the preparation has been drained).                  *)
THEOREM OneLongRequest == Spec => []WorkUnderLane
<1>1. LaneInv => WorkUnderLane
  BY DEF LaneInv, LaneOf, OneLease, WorkUnderLane
<1> QED
  BY <1>1, LaneAlways, PTL

(* The lane goes to the head of the queue (acquire).                       *)
THEOREM InOrder == Spec => NoOvertaking
<1> DEFINE Order == waiters # <<>> => leases' \subseteq leases \cup {Head(waiters)}
<1>1. [Next]_vars => Order
  <2> SUFFICES ASSUME [Next]_vars PROVE Order
    OBVIOUS
  <2>1. ASSUME NEW r \in Requests, Acquire(r) PROVE Order
    BY <2>1 DEF Acquire, TakesLane
  <2>2. ASSUME NEW r \in Requests, AcquirePoll(r) PROVE Order
    BY <2>2 DEF AcquirePoll, TakesLane
  <2>3. ASSUME NEW r \in Requests, CloseUpstream(r) PROVE Order
    BY <2>3 DEF CloseUpstream, Release
  <2>4. ASSUME NEW r \in Requests, CloseReference(r) PROVE Order
    BY <2>4 DEF CloseReference, Release
  <2>5. ASSUME leases' = leases PROVE Order
    BY <2>5
  <2> QED
    BY <2>1, <2>2, <2>3, <2>4, <2>5
    DEF Next, HandlerStep, PrepareStep, Requests, vars, Arrive, Refuse, Serve, Drained,
        PreparationFailed, Opened, PauseEnds, WarmStep, WarmStepEnds, Dispatched,
        StepDrained, AcquireTimeout, PrepareFails, Cancel, StreamEnds
<1> QED
  BY <1>1, PTL DEF Spec, NoOvertaking
-----------------------------------------------------------------------------
(* The queue and the counter.  The queue holds the waiting preparations,   *)
(* each once; a request counts while it is tokenized or ordinary_owned,    *)
(* and only one that is served is owned.                                   *)
InQueue(q, r) == \E i \in 1..Len(q) : q[i] = r

Distinct(q) == \A i, j \in 1..Len(q) : q[i] = q[j] => i = j

QueueInv ==
  /\ waiters \in Seq(Long) /\ Len(waiters) <= MaxWaiters
  /\ Distinct(waiters)
  /\ \A r \in Requests : prep[r] = "queued" <=> InQueue(waiters, r)

Counted == {r \in Requests : at[r] = "count" \/ ordinary[r]}

CountInv ==
  /\ ordinary \in [Requests -> BOOLEAN]
  /\ \A r \in Requests : ordinary[r] => at[r] \in {"serve", "drain"}
  /\ IsFiniteSet(Counted) /\ active = Cardinality(Counted)

StepsInv ==
  /\ left \in [Requests -> 0..MaxSteps]
  /\ paused \in [Requests -> BOOLEAN]
  /\ \A r \in Requests : prep[r] \in {"turn", "step"} => left[r] > 0

ExactInv == LaneInv /\ QueueInv /\ CountInv /\ StepsInv

LEMMA ExactInit == Init => ExactInv
<1> SUFFICES ASSUME Init PROVE ExactInv
  OBVIOUS
<1>1. QueueInv
  BY LaneConstants DEF Init, QueueInv, InQueue, Distinct
<1>2. CountInv
  <2>1. Counted = {}
    BY DEF Init, Counted
  <2> QED
    BY <2>1, FS_EmptySet DEF Init, CountInv
<1>3. StepsInv
  BY LaneConstants DEF Init, StepsInv
<1> QED
  BY LaneInit, <1>1, <1>2, <1>3 DEF ExactInv

(* Leaving the queue: deque order is kept, and nobody else is touched.     *)
LEMMA RemoveSplits ==
  ASSUME NEW q \in Seq(Long), Distinct(q), NEW p \in 1..Len(q)
  PROVE  RemoveFirst(q, q[p]) = SubSeq(q, 1, p - 1) \o SubSeq(q, p + 1, Len(q))
<1> DEFINE I == {i \in 1..Len(q) : q[i] = q[p]}
<1>1. I = {p}
  BY DEF Distinct
<1>2. SelectInSeq(q, LAMBDA v : v = q[p]) = p
  BY <1>1 DEF SelectInSeq, Min
<1> QED
  BY <1>2 DEF RemoveFirst, RemoveAt

LEMMA RemoveOnlyOne ==
  ASSUME NEW q \in Seq(Long), Distinct(q), NEW r
  PROVE  /\ RemoveFirst(q, r) \in Seq(Long)
         /\ Len(RemoveFirst(q, r)) <= Len(q)
         /\ Distinct(RemoveFirst(q, r))
         /\ \A s : InQueue(RemoveFirst(q, r), s) <=> InQueue(q, s) /\ s # r
<1>1. CASE ~InQueue(q, r)
  <2>1. RemoveFirst(q, r) = q
    BY <1>1 DEF InQueue, RemoveFirst
  <2> QED
    BY <1>1, <2>1 DEF InQueue
<1>2. CASE InQueue(q, r)
  <2>1. PICK p \in 1..Len(q) : q[p] = r
    BY <1>2 DEF InQueue
  <2> DEFINE rest == RemoveFirst(q, r)
             before == SubSeq(q, 1, p - 1)
             after == SubSeq(q, p + 1, Len(q))
  <2>2. rest = before \o after
    BY <2>1, RemoveSplits
  <2>3. /\ before \in Seq(Long) /\ Len(before) = p - 1
        /\ \A i \in 1..(p - 1) : before[i] = q[i]
    BY <2>1, SubSeqProperties
  <2>4. /\ after \in Seq(Long) /\ Len(after) = Len(q) - p
        /\ \A i \in 1..(Len(q) - p) : after[i] = q[p + i]
    BY <2>1, SubSeqProperties
  <2> HIDE DEF rest, before, after
  <2>5. /\ rest \in Seq(Long) /\ Len(rest) = Len(q) - 1
        /\ \A i \in 1..Len(rest) : rest[i] = q[IF i < p THEN i ELSE i + 1]
    <3>1. /\ before \o after \in Seq(Long)
          /\ Len(before \o after) = Len(before) + Len(after)
          /\ \A i \in 1..(Len(before) + Len(after)) : (before \o after)[i] =
               IF i <= Len(before) THEN before[i] ELSE after[i - Len(before)]
      BY <2>3, <2>4, ConcatProperties
    <3>2. rest \in Seq(Long) /\ Len(rest) = Len(q) - 1
      BY <2>1, <2>2, <2>3, <2>4, <3>1
    <3>3. ASSUME NEW i \in 1..Len(rest), i < p PROVE rest[i] = q[i]
      BY <2>1, <2>2, <2>3, <2>4, <3>1, <3>2, <3>3
    <3>4. ASSUME NEW i \in 1..Len(rest), i >= p PROVE rest[i] = q[i + 1]
      <4>1. i - (p - 1) \in 1..(Len(q) - p)
        BY <2>1, <3>2, <3>4
      <4>2. rest[i] = after[i - (p - 1)]
        BY <2>1, <2>2, <2>3, <2>4, <3>1, <3>2, <3>4
      <4>3. after[i - (p - 1)] = q[p + (i - (p - 1))]
        BY <2>4, <4>1
      <4>4. p + (i - (p - 1)) = i + 1
        BY <2>1, <3>2
      <4> QED
        BY <4>2, <4>3, <4>4
    <3> QED
      BY <2>1, <3>2, <3>3, <3>4
  <2>6. Distinct(rest)
    BY <2>1, <2>5 DEF Distinct
  <2>7. ASSUME NEW s PROVE InQueue(rest, s) <=> InQueue(q, s) /\ s # r
    <3>1. ASSUME InQueue(rest, s) PROVE InQueue(q, s) /\ s # r
      BY <2>1, <2>5, <3>1 DEF InQueue, Distinct
    <3>2. ASSUME InQueue(q, s), s # r PROVE InQueue(rest, s)
      <4>1. PICK i \in 1..Len(q) : q[i] = s
        BY <3>2 DEF InQueue
      <4>2. i # p
        BY <2>1, <3>2, <4>1
      <4>3. CASE i < p
        BY <2>1, <2>5, <4>1, <4>3 DEF InQueue
      <4>4. CASE i > p
        <5>1. i - 1 \in 1..Len(rest) /\ rest[i - 1] = q[i]
          BY <2>1, <2>5, <4>1, <4>4
        <5> QED
          BY <4>1, <5>1 DEF InQueue
      <4> QED
        BY <4>2, <4>3, <4>4
    <3> QED
      BY <3>1, <3>2
  <2> QED
    BY <2>5, <2>6, <2>7 DEF rest
<1> QED
  BY <1>1, <1>2

(* The four things a step can do to the queue.                             *)
LEMMA QueueUntouched ==
  ASSUME QueueInv, waiters' = waiters,
         \A r \in Requests : prep'[r] = "queued" <=> prep[r] = "queued"
  PROVE  QueueInv'
  BY DEF QueueInv

LEMMA QueueLeft ==
  ASSUME LaneInv, QueueInv, NEW r \in Requests, NEW x, x # "queued",
         prep' = Set(prep, r, x), waiters' = RemoveFirst(waiters, r)
  PROVE  QueueInv'
<1>1. prep \in [Requests -> Preparations]
  BY DEF LaneInv, LaneTypes
<1>2. /\ waiters' \in Seq(Long) /\ Len(waiters') <= Len(waiters)
      /\ Distinct(waiters')
      /\ \A s : InQueue(waiters', s) <=> InQueue(waiters, s) /\ s # r
  BY RemoveOnlyOne DEF QueueInv
<1>3. Len(waiters') <= MaxWaiters
  BY <1>2, LaneConstants DEF QueueInv
<1> QED
  BY <1>1, <1>2, <1>3 DEF QueueInv, Set

LEMMA QueueJoined ==
  ASSUME LaneInv, QueueInv, NEW r \in Long, prep[r] # "queued", QueueIsOpen,
         prep' = Set(prep, r, "queued"), waiters' = Append(waiters, r)
  PROVE  QueueInv'
<1>1. prep \in [Requests -> Preparations] /\ r \in Requests
  BY DEF LaneInv, LaneTypes, Requests
<1>2. /\ waiters' \in Seq(Long) /\ Len(waiters') = Len(waiters) + 1
      /\ \A i \in 1..Len(waiters) : waiters'[i] = waiters[i]
      /\ waiters'[Len(waiters) + 1] = r
  BY AppendProperties DEF QueueInv
<1>3. ~InQueue(waiters, r)
  BY <1>1 DEF QueueInv
<1>4. Distinct(waiters')
  BY <1>2, <1>3 DEF Distinct, QueueInv, InQueue
<1>5. ASSUME NEW s PROVE InQueue(waiters', s) <=> InQueue(waiters, s) \/ s = r
  BY <1>2 DEF InQueue, QueueInv
<1>6. Len(waiters') <= MaxWaiters
  BY <1>2, LaneConstants DEF QueueIsOpen, QueueInv
<1> QED
  BY <1>1, <1>2, <1>4, <1>5, <1>6 DEF QueueInv, Set

LEMMA QueueServed ==
  ASSUME LaneInv, QueueInv, NEW r \in Long, prep[r] = "queued",
         Head(waiters) = r, prep' = Set(prep, r, "open"),
         waiters' = Tail(waiters)
  PROVE  QueueInv'
<1>1. prep \in [Requests -> Preparations] /\ r \in Requests
  BY DEF LaneInv, LaneTypes, Requests
<1>2. waiters \in Seq(Long) /\ waiters # <<>> /\ waiters[1] = r
  BY <1>1 DEF QueueInv, InQueue
<1>3. /\ waiters' \in Seq(Long) /\ Len(waiters') = Len(waiters) - 1
      /\ \A i \in 1..Len(waiters') : waiters'[i] = waiters[i + 1]
  BY <1>2, HeadTailProperties
<1>4. Distinct(waiters')
  BY <1>2, <1>3 DEF Distinct, QueueInv
<1>5. ASSUME NEW s PROVE InQueue(waiters', s) <=> InQueue(waiters, s) /\ s # r
  <2>1. ASSUME InQueue(waiters', s) PROVE InQueue(waiters, s) /\ s # r
    BY <1>2, <1>3, <2>1 DEF InQueue, Distinct, QueueInv
  <2>2. ASSUME InQueue(waiters, s), s # r PROVE InQueue(waiters', s)
    <3>1. PICK i \in 1..Len(waiters) : waiters[i] = s
      BY <2>2 DEF InQueue
    <3>2. i - 1 \in 1..Len(waiters') /\ waiters'[i - 1] = waiters[i]
      BY <1>2, <1>3, <2>2, <3>1
    <3> QED
      BY <3>1, <3>2 DEF InQueue
  <2> QED
    BY <2>1, <2>2
<1>6. Len(waiters') <= MaxWaiters
  BY <1>2, <1>3, LaneConstants DEF QueueInv
<1> QED
  BY <1>1, <1>3, <1>4, <1>5, <1>6 DEF QueueInv, Set

LEMMA QueueStep == ExactInv /\ [Next]_vars => QueueInv'
<1> SUFFICES ASSUME ExactInv, [Next]_vars PROVE QueueInv'
  OBVIOUS
<1>a. LaneInv /\ QueueInv
  BY DEF ExactInv
<1>prep. prep \in [Requests -> Preparations]
  BY <1>a DEF LaneInv, LaneTypes
<1>long. Long \subseteq Requests
  BY DEF Requests
<1>none. \A s \in Long : at[s] \in {"away", "count"} => prep[s] = "none"
  BY <1>a DEF LaneInv, LaneOf
<1>wait. \A s \in Requests : prep[s] = "queued" => s \in Long
  BY <1>a DEF QueueInv, InQueue
<1>1. ASSUME NEW r \in Requests, Arrive(r) \/ Refuse(r) \/ StreamEnds(r)
      PROVE  QueueInv'
  BY <1>a, <1>1, QueueUntouched DEF Arrive, Refuse, StreamEnds
<1>2. ASSUME NEW r \in Requests, HandlerStep(r) PROVE QueueInv'
  <2>1. waiters' = waiters
    BY <1>2 DEF HandlerStep, Serve, Drained, PreparationFailed, CloseUpstream,
       CloseReference
  <2>2. \A s \in Requests : prep'[s] = "queued" <=> prep[s] = "queued"
    <3>1. CASE Serve(r)
      BY <1>prep, <1>wait, <3>1, LaneConstants DEF Serve, Set, Requests
    <3>2. CASE Drained(r) \/ PreparationFailed(r)
      BY <3>2 DEF Drained, PreparationFailed
    <3>3. CASE CloseUpstream(r) \/ CloseReference(r)
      <4>1. prep[r] # "queued"
        BY <1>a, <1>wait, <3>3 DEF LaneInv, LaneOf, Preparing, CloseUpstream,
           CloseReference
      <4> QED
        BY <1>prep, <3>3, <4>1 DEF CloseUpstream, CloseReference, Leaves, Set
    <3> QED
      BY <1>2, <3>1, <3>2, <3>3 DEF HandlerStep
  <2> QED
    BY <1>a, <2>1, <2>2, QueueUntouched
<1>3. ASSUME NEW r \in Long, Acquire(r) PROVE QueueInv'
  <2>1. prep[r] = "none" /\ r \in Requests
    BY <1>3, <1>long DEF Acquire
  <2>2. CASE waiters' = Append(waiters, r) /\ prep' = Set(prep, r, "queued")
             /\ QueueIsOpen
    BY <1>a, <2>1, <2>2, QueueJoined
  <2>3. CASE /\ waiters' = waiters
             /\ prep' \in {Set(prep, r, "open"), Set(prep, r, "failed")}
    <3>1. \A s \in Requests : prep'[s] = "queued" <=> prep[s] = "queued"
      BY <1>prep, <2>1, <2>3 DEF Set
    <3> QED
      BY <1>a, <2>3, <3>1, QueueUntouched
  <2> QED
    BY <1>3, <2>2, <2>3 DEF Acquire, TakesLane
<1>4. ASSUME NEW r \in Long, AcquirePoll(r) PROVE QueueInv'
  BY <1>a, <1>4, QueueServed DEF AcquirePoll, TakesLane
<1>5. ASSUME NEW r \in Requests,
             \/ Opened(r) \/ PauseEnds(r) \/ WarmStep(r) \/ WarmStepEnds(r)
             \/ Dispatched(r) \/ StepDrained(r)
      PROVE  QueueInv'
  <2>1. waiters' = waiters
    BY <1>5 DEF Opened, PauseEnds, WarmStep, WarmStepEnds, Dispatched,
       StepDrained
  <2>2. \A s \in Requests : prep'[s] = "queued" <=> prep[s] = "queued"
    BY <1>5, <1>prep DEF Opened, PauseEnds, WarmStep, WarmStepEnds,
       Dispatched, StepDrained, Set
  <2> QED
    BY <1>a, <2>1, <2>2, QueueUntouched
<1>6. ASSUME NEW r \in Requests, AcquireTimeout(r) PROVE QueueInv'
  BY <1>a, <1>6, QueueLeft DEF AcquireTimeout
<1>7. ASSUME NEW r \in Requests, Abandon(r) PROVE QueueInv'
  BY <1>a, <1>7, QueueLeft DEF Abandon
<1>8. ASSUME NEW r \in Requests, PrepareFails(r) PROVE QueueInv'
  BY <1>7, <1>8 DEF PrepareFails
<1>9. ASSUME NEW r \in Requests, Cancel(r) PROVE QueueInv'
  BY <1>a, <1>7, <1>9, QueueUntouched DEF Cancel
<1>10. CASE UNCHANGED vars
  BY <1>a, <1>10, QueueUntouched DEF vars
<1> QED
  BY <1>1, <1>2, <1>3, <1>4, <1>5, <1>6, <1>8, <1>9, <1>10, <1>long
  DEF Next, PrepareStep, Requests

(* The counter: a step leaves the counted requests alone, adds the one     *)
(* that comes or subtracts the one that goes.                              *)
LEMMA CountedCame ==
  ASSUME CountInv, NEW r, r \notin Counted, Counted' = Counted \cup {r},
         active' = active + 1
  PROVE  IsFiniteSet(Counted') /\ active' = Cardinality(Counted')
  BY FS_AddElement DEF CountInv

LEMMA CountedWent ==
  ASSUME CountInv, NEW r \in Counted, Counted' = Counted \ {r},
         active' = active - 1
  PROVE  IsFiniteSet(Counted') /\ active' = Cardinality(Counted')
  BY FS_RemoveElement DEF CountInv

LEMMA CleanupCounts ==
  ASSUME LaneInv, CountInv, NEW r \in Requests, at[r] # "count",
         BeginCleanup(r)
  PROVE  CountInv'
<1>1. at \in [Requests -> Positions] /\ ordinary \in [Requests -> BOOLEAN]
  BY DEF LaneInv, LaneTypes, CountInv
<1>2. CASE ordinary[r]
  <2>1. Counted' = Counted \ {r} /\ r \in Counted
    BY <1>1, <1>2 DEF BeginCleanup, Counted, Set
  <2>2. active' = active - 1
    BY <1>2 DEF BeginCleanup
  <2>3. IsFiniteSet(Counted') /\ active' = Cardinality(Counted')
    BY <2>1, <2>2, CountedWent
  <2> QED
    BY <1>1, <1>2, <2>3 DEF BeginCleanup, CountInv, Set
<1>3. CASE ~ordinary[r]
  <2>1. Counted' = Counted
    BY <1>1, <1>3 DEF BeginCleanup, Counted, Set
  <2> QED
    BY <1>1, <1>3, <2>1 DEF BeginCleanup, CountInv, Set
<1> QED
  BY <1>2, <1>3

LEMMA CountStep == ExactInv /\ [Next]_vars => CountInv'
<1> SUFFICES ASSUME ExactInv, [Next]_vars PROVE CountInv'
  OBVIOUS
<1>a. LaneInv /\ CountInv
  BY DEF ExactInv
<1>at. at \in [Requests -> Positions]
  BY <1>a DEF LaneInv, LaneTypes
<1>ord. ordinary \in [Requests -> BOOLEAN]
  BY <1>a DEF CountInv
<1>1. ASSUME NEW r \in Requests, Arrive(r) PROVE CountInv'
  <2>1. Counted' = Counted \cup {r} /\ r \notin Counted
    BY <1>a, <1>1, <1>at DEF Arrive, Counted, CountInv, Set
  <2>2. IsFiniteSet(Counted') /\ active' = Cardinality(Counted')
    BY <1>a, <1>1, <2>1, CountedCame DEF Arrive
  <2> QED
    BY <1>a, <1>1, <1>at, <2>2 DEF Arrive, CountInv, Set
<1>2. ASSUME NEW r \in Requests, Refuse(r) \/ (Serve(r) /\ r \in Long)
      PROVE  CountInv'
  <2>1. Counted' = Counted \ {r} /\ r \in Counted
    BY <1>a, <1>2, <1>at DEF Refuse, Serve, Counted, CountInv, Set
  <2>2. active' = active - 1
    BY <1>2 DEF Refuse, Serve
  <2>3. IsFiniteSet(Counted') /\ active' = Cardinality(Counted')
    BY <1>a, <2>1, <2>2, CountedWent
  <2> QED
    BY <1>a, <1>2, <1>at, <2>3 DEF Refuse, Serve, CountInv, Set
<1>3. ASSUME NEW r \in Requests, Serve(r), r \notin Long PROVE CountInv'
  <2>1. Counted' = Counted
    BY <1>3, <1>at, <1>ord DEF Serve, Counted, Set
  <2> QED
    BY <1>a, <1>3, <1>at, <1>ord, <2>1 DEF Serve, CountInv, Set
<1>4. ASSUME NEW r \in Requests,
             Drained(r) \/ PreparationFailed(r) \/ StreamEnds(r)
      PROVE  CountInv'
  BY <1>a, <1>4, CleanupCounts DEF Drained, PreparationFailed, StreamEnds
<1>5. ASSUME NEW r \in Requests,
             Cancel(r) \/ CloseUpstream(r) \/ CloseReference(r)
      PROVE  CountInv'
  <2>1. Counted' = Counted
    BY <1>a, <1>5, <1>at DEF Cancel, CloseUpstream, CloseReference, Leaves,
       Counted, CountInv, Set
  <2> QED
    BY <1>a, <1>5, <1>at, <2>1 DEF Cancel, CloseUpstream, CloseReference,
       Leaves, CountInv, Set
<1>6. ASSUME UNCHANGED <<at, ordinary, active>> PROVE CountInv'
  BY <1>a, <1>6 DEF CountInv, Counted
<1>7. ASSUME NEW r \in Requests,
             PrepareStep(r) \/ AcquireTimeout(r) \/ PrepareFails(r)
      PROVE  UNCHANGED <<at, ordinary, active>>
  BY <1>7 DEF PrepareStep, Acquire, AcquirePoll, Opened, PauseEnds, WarmStep,
     WarmStepEnds, Dispatched, StepDrained, AcquireTimeout, PrepareFails
<1>8. ASSUME NEW r \in Requests, Dispatched(r)
      PROVE  UNCHANGED <<at, ordinary, active>>
  BY <1>8 DEF Dispatched
<1> QED
  BY <1>1, <1>2, <1>3, <1>4, <1>5, <1>6, <1>7, <1>8
  DEF Next, HandlerStep, vars, Requests

LEMMA StepsStep == ExactInv /\ [Next]_vars => StepsInv'
<1> SUFFICES ASSUME ExactInv, [Next]_vars PROVE StepsInv'
  OBVIOUS
<1>prep. prep \in [Requests -> Preparations]
  BY DEF ExactInv, LaneInv, LaneTypes
<1>left. left \in [Requests -> 0..MaxSteps]
  BY DEF ExactInv, StepsInv
<1>paused. paused \in [Requests -> BOOLEAN]
  BY DEF ExactInv, StepsInv
<1>more. \A r \in Requests : prep[r] \in {"turn", "step"} => left[r] > 0
  BY DEF ExactInv, StepsInv
<1> USE LaneConstants
<1>1. ASSUME NEW r \in Requests, PrepareStep(r) \/ Dispatched(r)
      PROVE  StepsInv'
  <2>1. CASE Acquire(r) \/ AcquirePoll(r) \/ Dispatched(r) \/ StepDrained(r)
    BY <2>1, <1>prep, <1>left, <1>paused, <1>more
    DEF Acquire, TakesLane, AcquirePoll, Dispatched, StepDrained, StepsInv, Set
  <2>2. CASE Opened(r)
    BY <2>2, <1>prep, <1>left, <1>paused, <1>more DEF Opened, StepsInv, Set
  <2>3. CASE PauseEnds(r)
    BY <2>3, <1>prep, <1>left, <1>paused, <1>more DEF PauseEnds, StepsInv, Set
  <2>4. CASE WarmStep(r)
    BY <2>4, <1>prep, <1>left, <1>paused, <1>more DEF WarmStep, StepsInv, Set
  <2>5. CASE WarmStepEnds(r)
    BY <2>5, <1>prep, <1>left, <1>paused, <1>more
    DEF WarmStepEnds, StepsInv, Set
  <2> QED
    BY <1>1, <2>1, <2>2, <2>3, <2>4, <2>5 DEF PrepareStep
<1>2. ASSUME NEW r \in Requests,
             AcquireTimeout(r) \/ PrepareFails(r) \/ Cancel(r)
      PROVE  StepsInv'
  BY <1>2, <1>prep, <1>left, <1>paused, <1>more
  DEF AcquireTimeout, PrepareFails, Cancel, Abandon, StepsInv, Set
<1>3. ASSUME NEW r \in Requests,
             Arrive(r) \/ Refuse(r) \/ HandlerStep(r) \/ StreamEnds(r)
      PROVE  StepsInv'
  BY <1>3, <1>prep, <1>left, <1>paused, <1>more
  DEF Arrive, Refuse, HandlerStep, Serve, Drained, PreparationFailed,
      CloseUpstream, CloseReference, Leaves, StreamEnds, StepsInv, Set
<1>4. CASE UNCHANGED vars
  BY <1>4, <1>left, <1>paused, <1>more DEF vars, StepsInv
<1> QED
  BY <1>1, <1>2, <1>3, <1>4 DEF Next, Requests

LEMMA ExactAlways == Spec => []ExactInv
<1>1. ExactInv /\ [Next]_vars => ExactInv'
  BY LaneStep, QueueStep, CountStep, StepsStep DEF ExactInv
<1> QED
  BY ExactInit, <1>1, PTL DEF Spec

(* The state of the route keeps its types; in particular the queue never   *)
(* outgrows its limit and the foreground never counts below zero.          *)
THEOREM TypeCorrect == Spec => []TypeOK
<1>1. ASSUME ExactInv PROVE TypeOK
  <2>1. active \in Nat
    BY <1>1, FS_CardinalityType DEF ExactInv, CountInv
  <2> QED
    BY <1>1, <2>1 DEF ExactInv, LaneInv, LaneTypes, QueueInv, CountInv,
       StepsInv, TypeOK
<1> QED
  BY ExactAlways, <1>1, PTL

(* The foreground counts exactly the requests that are tokenized and the   *)
(* ordinary ones that are served, and the queue holds the preparations     *)
(* that wait, each once, however requests end.                             *)
THEOREM CountsCorrect == Spec => []CountsAreExact
<1>1. ASSUME ExactInv PROVE CountsAreExact
  BY <1>1 DEF ExactInv, QueueInv, CountInv, Counted, CountsAreExact, InQueue,
     Distinct, Requests
<1> QED
  BY ExactAlways, <1>1, PTL

---------------------------------------------------------------------------
(* Managed services *)
LEMMA ServicesInitHolds == ServicesInit => ServicesTypeOK
<1> SUFFICES ASSUME ServicesInit PROVE ServicesTypeOK
  OBVIOUS
<1>1. Nothing \in Config /\ config \in Config
  BY DEF ServicesInit, Nothing, Config
<1> QED BY <1>1 DEF ServicesInit, ServicesTypeOK

LEMMA ServicesStepHolds ==
  ServicesTypeOK /\ [ServicesNext]_serviceVars => ServicesTypeOK'
<1> SUFFICES ASSUME ServicesTypeOK, [ServicesNext]_serviceVars PROVE ServicesTypeOK'
  OBVIOUS
<1> USE DEF ServicesTypeOK
<1>n. Nothing \in Config
  BY DEF Nothing, Config
<1>c. /\ config.allowed \in BOOLEAN
      /\ config.services \in [Names -> {NoService} \cup Definition]
      /\ read.services \in [Names -> {NoService} \cup Definition]
  BY DEF Config
<1>1. CASE AccessChanges
  BY <1>1 DEF AccessChanges
<1>2. ASSUME NEW n \in Names, FolderChanges(n) PROVE ServicesTypeOK'
  BY <1>2 DEF FolderChanges
<1>3. ASSUME NEW n \in Names,
             NEW action \in {"save", "start", "restart", "stop", "delete"},
             ServiceChange(n, action)
      PROVE  ServicesTypeOK'
  <2> DEFINE old == config.services[n]
  <2>1. PICK d : Writes(n, d) /\
          \/ d \in {NoService, old}
          \/ /\ old.generation < MaxGeneration
             /\ \E e \in BOOLEAN : d = [generation |-> old.generation + 1, enabled |-> e]
    <3>1. CASE action = "save"
      <4>1. (Defined(config, n) /\ old.enabled) \in BOOLEAN
        <5>1. CASE old = NoService
          BY <5>1 DEF Defined
        <5>2. CASE old \in Definition
          BY <5>2 DEF Definition, Defined
        <5> QED BY <1>c, <5>1, <5>2
      <4> QED BY <1>3, <3>1, <4>1 DEF ServiceChange
    <3>2. CASE action = "delete"
      BY <1>3, <3>2 DEF ServiceChange
    <3>3. CASE action = "start" /\ old.enabled
      BY <1>3, <3>3 DEF ServiceChange
    <3>4. CASE action \in {"start", "restart", "stop"} /\ ~(action = "start" /\ old.enabled)
      <4>1. (action # "stop") \in BOOLEAN
        OBVIOUS
      <4> QED BY <1>3, <3>4, <4>1 DEF ServiceChange
    <3> QED BY <3>1, <3>2, <3>3, <3>4
  <2>2. old \in {NoService} \cup Definition
    BY <1>c
  <2>3. old.generation \in 0..MaxGeneration
    BY <2>2, ServicesConstants DEF NoService, Definition
  <2>4. d \in {NoService} \cup Definition
    BY <2>1, <2>2, <2>3, ServicesConstants DEF Definition
  <2>5. config' = [allowed |-> access, services |-> [config.services EXCEPT ![n] = d]]
    BY <2>1 DEF Writes
  <2>6. [config.services EXCEPT ![n] = d] \in [Names -> {NoService} \cup Definition]
    BY <1>c, <2>4
  <2>7. config' \in Config
    BY <2>5, <2>6 DEF Config
  <2>8. UNCHANGED <<access, usable, round, read, child>>
    BY <1>3 DEF ServiceChange
  <2> QED BY <2>7, <2>8
<1>4. CASE Reconcile
  <2>1. config' \in Config
    BY <1>4 DEF Reconcile, Config
  <2> QED BY <1>4, <2>1 DEF Reconcile
<1>5. CASE ReadControl
  BY <1>5, <1>n DEF ReadControl
<1>6. CASE StopChildren
  BY <1>6 DEF StopChildren
<1>7. ASSUME NEW S \in SUBSET Names, StartChildren(S) PROVE ServicesTypeOK'
  <2>1. ASSUME NEW n \in S
        PROVE  [generation |-> read.services[n].generation, alive |-> TRUE] \in Child
    <3>1. read.services[n] \in Definition
      BY <1>7, <1>c DEF StartChildren, Due, Wanted, Defined
    <3> QED BY <3>1 DEF Definition, Child
  <2>2. Reaped \in [Names -> {NoChild} \cup Child]
    BY DEF Reaped
  <2>3. child' \in [Names -> {NoChild} \cup Child]
    BY <1>7, <2>1, <2>2 DEF StartChildren
  <2> QED BY <1>7, <2>3 DEF StartChildren
<1>8. ASSUME NEW n \in Names, Dies(n) PROVE ServicesTypeOK'
  <2>1. child[n] \in Child
    BY <1>8 DEF Dies
  <2>2. [child[n] EXCEPT !.alive = FALSE] \in Child
    BY <2>1 DEF Child
  <2>3. child' = [child EXCEPT ![n] = [child[n] EXCEPT !.alive = FALSE]]
    BY <1>8 DEF Dies
  <2> QED BY <1>8, <2>2, <2>3 DEF Dies
<1>9. CASE SupervisorStart
  BY <1>9 DEF SupervisorStart
<1>10. CASE UNCHANGED serviceVars
  BY <1>10 DEF serviceVars
<1> QED BY <1>1, <1>2, <1>3, <1>4, <1>5, <1>6, <1>7, <1>8, <1>9, <1>10
     DEF ServicesNext

(* Applications *)

(* A mapping that was made has a number.                                   *)
AppsInv == AppsTypeOK /\ (mapping.audience # "none" => mapping.stamp # 0)

LEMMA AppsInitHolds == AppsInit => AppsInv
<1> SUFFICES ASSUME AppsInit PROVE AppsInv
  OBVIOUS
<1>1. mapping \in Mapping
  BY AppsConstants DEF AppsInit, Mapping
<1> QED BY <1>1 DEF AppsInit, AppsInv, AppsTypeOK

LEMMA DestroyedIsVisit ==
  \A w \in {NoVisit} \cup Visit : Destroyed(w) \in {NoVisit} \cup Visit
<1> SUFFICES ASSUME NEW w \in Visit PROVE Destroyed(w) \in {NoVisit} \cup Visit
  BY DEF Destroyed
<1>1. CASE w = NoVisit
  BY <1>1 DEF Destroyed
<1>2. CASE w # NoVisit
  <2>1. (IF w.upstream = "open" THEN "closed" ELSE w.upstream)
          \in {"lookup", "open", "closed"}
    BY DEF Visit
  <2>2. Destroyed(w) = [w EXCEPT !.browser = FALSE,
          !.upstream = IF w.upstream = "open" THEN "closed" ELSE w.upstream]
    BY <1>2 DEF Destroyed
  <2> QED BY <2>1, <2>2 DEF Visit
<1> QED BY <1>1, <1>2

LEMMA AppsStepHolds == AppsInv /\ [AppsNext]_appVars => AppsInv'
<1> SUFFICES ASSUME AppsInv, [AppsNext]_appVars PROVE AppsInv'
  OBVIOUS
<1> USE DEF AppsInv, AppsTypeOK
<1>c. CloseAppConnections \/ Misses => visit' \in [Visits -> {NoVisit} \cup Visit]
  <2>1. CASE CloseAppConnections
    BY <2>1, DestroyedIsVisit DEF CloseAppConnections
  <2>2. CASE Misses
    <3>1. \A v \in Visits : visit[v] # NoVisit => [visit[v] EXCEPT !.missed = TRUE] \in Visit
      BY DEF Visit
    <3> QED BY <2>2, <3>1 DEF Misses
  <2> QED BY <2>1, <2>2
<1>g. GatewayGone => visit' \in [Visits -> {NoVisit} \cup Visit]
                     /\ page' \in [Pages -> {NoPage} \cup Page]
  BY DEF GatewayGone
<1>m. \A new \in Mapping : Changes(new) => new.stamp # 0
  BY DEF Changes, Mapping
<1>s. mapping.audience # "none" => mapping.stamp \in 1..MaxStamp
  BY DEF Mapping
<1>1. ASSUME NEW new \in Mapping, SaveAppLinks(new) PROVE AppsInv'
  BY <1>1, <1>c, <1>m DEF SaveAppLinks
<1>2. ASSUME NEW new \in Mapping, CrashInSave(new) PROVE AppsInv'
  BY <1>2, <1>g, <1>m DEF CrashInSave
<1>3. CASE GatewayRestart
  BY <1>3, <1>g DEF GatewayRestart
<1>4. CASE AccountChanges
  BY <1>4, <1>c DEF AccountChanges
<1>5. CASE HostnameChanges
  BY <1>5 DEF HostnameChanges
<1>6. ASSUME NEW closes \in BOOLEAN, VisitorLeaves(closes) PROVE AppsInv'
  <2>1. visit' \in [Visits -> {NoVisit} \cup Visit]
    BY <1>6, DestroyedIsVisit DEF VisitorLeaves
  <2> QED BY <1>6, <2>1 DEF VisitorLeaves
<1>7. ASSUME NEW v \in Visits, NEW kind \in Audiences, Arrives(v, kind)
      PROVE  AppsInv'
  <2>1. mapping.audience # "none"
    BY <1>7 DEF Arrives, Admits, Available, Resolves
  <2>2. [kind |-> kind, stamp |-> mapping.stamp, browser |-> TRUE,
         upstream |-> "lookup", missed |-> FALSE] \in Visit
    BY <1>s, <2>1 DEF Visit
  <2> QED BY <1>7, <2>2 DEF Arrives
<1>8. ASSUME NEW v \in Visits, Connects(v) PROVE AppsInv'
  <2>1. visit[v] \in Visit
    BY <1>8 DEF Connects, NoVisit
  <2>2. /\ [visit[v] EXCEPT !.browser = FALSE, !.upstream = "closed"] \in Visit
        /\ [visit[v] EXCEPT !.upstream = "open"] \in Visit
    BY <2>1 DEF Visit
  <2>3. visit' \in [Visits -> {NoVisit} \cup Visit]
    BY <1>8, <2>2 DEF Connects
  <2> QED BY <1>8, <2>3 DEF Connects
<1>9. ASSUME NEW v \in Visits, Ends(v) PROVE AppsInv'
  BY <1>9 DEF Ends
<1>10. ASSUME NEW v \in Visits, Monitor(v) PROVE AppsInv'
  BY <1>10, DestroyedIsVisit DEF Monitor
<1>11. ASSUME NEW p \in Pages, BeginSignIn(p) PROVE AppsInv'
  <2>1. [at |-> "shown", stamp |-> mapping.stamp] \in Page
    BY <1>11, <1>s DEF BeginSignIn, SignInMapping, Page
  <2> QED BY <1>11, <2>1 DEF BeginSignIn
<1>12. ASSUME NEW p \in Pages, Consume(p) PROVE AppsInv'
  <2>1. page[p] \in Page
    BY <1>12 DEF Consume, NoPage
  <2>2. PICK to \in {"checking", "used"} : page' = [page EXCEPT ![p].at = to]
    BY <1>12 DEF Consume
  <2>3. [page[p] EXCEPT !.at = to] \in Page
    BY <2>1 DEF Page
  <2>4. page' \in [Pages -> {NoPage} \cup Page]
    BY <2>2, <2>3
  <2> QED BY <1>12, <2>4 DEF Consume
<1>13. ASSUME NEW p \in Pages, SignsIn(p) PROVE AppsInv'
  <2>1. page[p] \in Page
    BY <1>13 DEF SignsIn, NoPage
  <2>2. [page[p] EXCEPT !.at = "used"] \in Page
    BY <2>1 DEF Page
  <2>3. page' \in [Pages -> {NoPage} \cup Page]
    BY <1>13, <2>2 DEF SignsIn
  <2> QED BY <1>13, <2>3 DEF SignsIn
<1>14. CASE UNCHANGED appVars
  BY <1>14 DEF appVars
<1> QED BY <1>1, <1>2, <1>3, <1>4, <1>5, <1>6, <1>7, <1>8, <1>9, <1>10, <1>11,
           <1>12, <1>13, <1>14 DEF AppsNext

LEMMA OwnersInit == AppsInit => \A v \in Visits : OwnersVisitIsCurrent(v)
BY DEF AppsInit, OwnersVisitIsCurrent, NoVisit

LEMMA OwnersStep ==
  AppsInv /\ (\A v \in Visits : OwnersVisitIsCurrent(v)) /\ [AppsNext]_appVars
    => (\A v \in Visits : OwnersVisitIsCurrent(v))'
<1> SUFFICES ASSUME AppsInv, \A v \in Visits : OwnersVisitIsCurrent(v),
                    [AppsNext]_appVars, NEW v \in Visits
             PROVE  OwnersVisitIsCurrent(v)'
  OBVIOUS
<1>0. OwnersVisitIsCurrent(v)
  OBVIOUS
<1> DEFINE w == visit[v]
<1>t. visit \in [Visits -> {NoVisit} \cup Visit]
  BY DEF AppsInv, AppsTypeOK
<1>n. NoVisit.kind # "owner"
  BY DEF NoVisit
<1>d. /\ w # NoVisit => Destroyed(w).browser = FALSE
      /\ w = NoVisit => Destroyed(w).kind # "owner"
  BY <1>t, <1>n DEF Destroyed, Visit
<1>m. w # NoVisit => [w EXCEPT !.missed = TRUE].missed = TRUE
  BY <1>t DEF Visit
<1>c. ASSUME CloseAppConnections \/ Misses PROVE OwnersVisitIsCurrent(v)'
  BY <1>c, <1>d, <1>m, <1>n DEF CloseAppConnections, Misses, OwnersVisitIsCurrent
<1>1. ASSUME NEW new \in Mapping, SaveAppLinks(new) PROVE OwnersVisitIsCurrent(v)'
  BY <1>1, <1>c DEF SaveAppLinks
<1>2. ASSUME GatewayGone PROVE OwnersVisitIsCurrent(v)'
  BY <1>2, <1>n DEF GatewayGone, OwnersVisitIsCurrent
<1>3. CASE AccountChanges
  BY <1>3, <1>0, <1>c DEF AccountChanges, OwnersVisitIsCurrent
<1>4. ASSUME visit'[v] = w, UNCHANGED <<mapping, account>>
      PROVE  OwnersVisitIsCurrent(v)'
  BY <1>0, <1>4 DEF OwnersVisitIsCurrent
<1>5. ASSUME NEW closes \in BOOLEAN, VisitorLeaves(closes)
      PROVE  OwnersVisitIsCurrent(v)'
  <2>1. visit'[v] = w \/ visit'[v] = Destroyed(w)
    BY <1>5 DEF VisitorLeaves
  <2> QED BY <1>5, <2>1, <1>0, <1>d DEF VisitorLeaves, OwnersVisitIsCurrent
<1>6. ASSUME NEW u \in Visits, NEW kind \in Audiences, Arrives(u, kind)
      PROVE  OwnersVisitIsCurrent(v)'
  <2>1. CASE u = v
    BY <1>6, <1>t, <2>1 DEF Arrives, Admits, Available, OwnersVisitIsCurrent
  <2>2. CASE u # v
    BY <1>4, <1>6, <1>t, <2>2 DEF Arrives
  <2> QED BY <2>1, <2>2
<1>7. ASSUME NEW u \in Visits, Connects(u) PROVE OwnersVisitIsCurrent(v)'
  <2>1. CASE u = v
    <3>1. w \in Visit
      BY <1>7, <1>t, <2>1 DEF Connects, NoVisit
    <3>2. \/ visit'[v] = [w EXCEPT !.browser = FALSE, !.upstream = "closed"]
          \/ visit'[v] = [w EXCEPT !.upstream = "open"]
      BY <1>7, <1>t, <2>1 DEF Connects
    <3> QED BY <1>0, <1>7, <3>1, <3>2 DEF Connects, OwnersVisitIsCurrent, Visit
  <2>2. CASE u # v
    BY <1>4, <1>7, <1>t, <2>2 DEF Connects
  <2> QED BY <2>1, <2>2
<1>8. ASSUME NEW u \in Visits, Ends(u) PROVE OwnersVisitIsCurrent(v)'
  BY <1>0, <1>4, <1>8, <1>n, <1>t DEF Ends, OwnersVisitIsCurrent
<1>9. ASSUME NEW u \in Visits, Monitor(u) PROVE OwnersVisitIsCurrent(v)'
  <2>1. visit'[v] = w \/ visit'[v] = Destroyed(w)
    BY <1>9, <1>t DEF Monitor
  <2> QED BY <1>9, <2>1, <1>0, <1>d DEF Monitor, OwnersVisitIsCurrent
<1>10. ASSUME NEW p \in Pages, BeginSignIn(p) \/ Consume(p) \/ SignsIn(p)
       PROVE  OwnersVisitIsCurrent(v)'
  BY <1>4, <1>10 DEF BeginSignIn, Consume, SignsIn
<1>11. CASE HostnameChanges \/ UNCHANGED appVars
  BY <1>4, <1>11 DEF HostnameChanges, appVars
<1> QED BY <1>1, <1>2, <1>3, <1>5, <1>6, <1>7, <1>8, <1>9, <1>10, <1>11
     DEF AppsNext, CrashInSave, GatewayRestart

---------------------------------------------------------------------------
(* The parts together *)

LEMMA LivenessSteps ==
  [PartsNext]_<<laneVars, serviceVars, appVars, part>>
    => [Next]_vars /\ [ServicesNext]_serviceVars /\ [AppsNext]_appVars
BY DEF PartsNext, laneVars

(* The instance that TLC checks is a behaviour of each of its parts, so    *)
(* that what holds of a part holds of the instance.                        *)
THEOREM LivenessPartsAreSpecs == PartsSpec => Spec /\ ServicesSpec /\ AppsSpec
<1>1. PartsInit => Init /\ ServicesInit /\ AppsInit
  BY DEF PartsInit
<1> QED BY <1>1, LivenessSteps, PTL DEF PartsSpec, Spec, ServicesSpec, AppsSpec

LEMMA ServicesAlways == ServicesSpec => []ServicesTypeOK
BY ServicesInitHolds, ServicesStepHolds, PTL DEF ServicesSpec

LEMMA AppsAlways == AppsSpec => []AppsInv
BY AppsInitHolds, AppsStepHolds, PTL DEF AppsSpec

(* The state of the services and of the visits stays in its types.         *)
THEOREM GatewayTypeCorrect == PartsSpec => []GatewayTypeOK
<1>1. ServicesTypeOK /\ AppsInv => GatewayTypeOK
  BY DEF AppsInv, GatewayTypeOK
<1> QED BY <1>1, LivenessPartsAreSpecs, ServicesAlways, AppsAlways, PTL

(* The owner's own open connection is one that would be let in for the     *)
(* account and the mapping as they are, unless a change counted as failed. *)
THEOREM OwnersVisitsAreCurrent ==
  AppsSpec => [](\A v \in Visits : OwnersVisitIsCurrent(v))
BY OwnersInit, OwnersStep, AppsAlways, PTL DEF AppsSpec
=============================================================================
