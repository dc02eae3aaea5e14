------------------------ MODULE WorkspaceDemand_proofs ------------------------
(***************************************************************************)
(* Proofs about WorkspaceDemand, for any set of runtimes and any limits:   *)
(* its types, that a round stops only what is idle, that the queue is      *)
(* served in order, and that every spare the controller counts can be had. *)
(***************************************************************************)
EXTENDS WorkspaceDemand, FiniteSetTheorems, SequenceTheorems, TLAPS

LEMMA LimitsAreNat == Idle \in Nat /\ Stale \in Nat /\ Stale < Idle
  BY DemandConstants

LEMMA EntriesFields ==
  ASSUME NEW d \in Entries
  PROVE  /\ d.asked \subseteq Runtimes
         /\ d.older \in [Runtimes -> SUBSET Runtimes]
         /\ d.age \in [Runtimes -> Ages]
  BY DEF Entries

LEMMA NobodyType == Nobody \in Entries
  BY LimitsAreNat DEF Nobody, Entries, Ages

LEMMA NoReportType == NoReport \in Reports /\ NoReport.at > Stale
  BY LimitsAreNat, NobodyType DEF NoReport, Reports

LEMMA TouchedType ==
  ASSUME NEW d \in Entries, NEW S \in SUBSET Runtimes
  PROVE  Touched(d, S) \in Entries
<1> d.asked \subseteq Runtimes /\ d.older \in [Runtimes -> SUBSET Runtimes]
    /\ d.age \in [Runtimes -> Ages]
  BY EntriesFields
<1>1. [n \in Runtimes |-> IF n \in S \ d.asked THEN d.asked ELSE d.older[n]]
        \in [Runtimes -> SUBSET Runtimes]
  OBVIOUS
<1>2. [n \in Runtimes |-> IF n \in S THEN 0 ELSE d.age[n]]
        \in [Runtimes -> Ages]
  BY LimitsAreNat DEF Ages
<1> QED
  BY <1>1, <1>2 DEF Touched, Entries

LEMMA WithoutType ==
  ASSUME NEW d \in Entries, NEW S \in SUBSET Runtimes
  PROVE  Without(d, S) \in Entries
<1> d.asked \subseteq Runtimes /\ d.older \in [Runtimes -> SUBSET Runtimes]
    /\ d.age \in [Runtimes -> Ages]
  BY EntriesFields
<1>1. [n \in Runtimes |-> IF n \in S THEN {} ELSE d.older[n] \ S]
        \in [Runtimes -> SUBSET Runtimes]
  OBVIOUS
<1>2. [n \in Runtimes |-> IF n \in S THEN Idle + 1 ELSE d.age[n]]
        \in [Runtimes -> Ages]
  BY LimitsAreNat DEF Ages
<1> QED
  BY <1>1, <1>2 DEF Without, Entries

LEMMA LaterType ==
  ASSUME NEW limit \in Nat, NEW a \in 0..limit + 1
  PROVE  Later(a, limit) \in 0..limit + 1
  BY DEF Later

(* Growing older, spelled out field by field.                              *)
LEMMA AgedFields ==
  ASSUME NEW d \in Entries
  PROVE  /\ Aged(d) \in Entries
         /\ Aged(d).asked = d.asked /\ Aged(d).older = d.older
         /\ \A n \in Runtimes : Aged(d).age[n] = Later(d.age[n], Idle)
<1>1. d.age \in [Runtimes -> Ages]
  BY EntriesFields
<1>2. [n \in Runtimes |-> Later(d.age[n], Idle)] \in [Runtimes -> Ages]
  BY <1>1, LimitsAreNat, LaterType DEF Ages
<1> QED
  BY <1>2 DEF Aged, Entries

LEMMA OlderFields ==
  ASSUME NEW r \in Reports
  PROVE  /\ OlderReport(r) \in Reports
         /\ OlderReport(r).at = Later(r.at, Stale)
         /\ OlderReport(r).entries = Aged(r.entries)
<1>1. r.entries \in Entries /\ r.at \in 0..Stale + 1
  BY DEF Reports
<1>2. Aged(r.entries) \in Entries /\ Later(r.at, Stale) \in 0..Stale + 1
  BY <1>1, AgedFields, LaterType, LimitsAreNat
<1> QED
  BY <1>2 DEF OlderReport, Reports

LEMMA FlushedType ==
  ASSUME TypeOK
  PROVE  Flushed \in Entries /\ Seeds \subseteq Runtimes
<1>1. Seeds \subseteq Runtimes
  BY DEF Seeds
<1>2. Touched(demand, Seeds) \in Entries
  BY <1>1, TouchedType DEF TypeOK
<1>3. Expired(Touched(demand, Seeds)) \subseteq Runtimes
  BY <1>2, EntriesFields DEF Expired
<1> QED
  BY <1>1, <1>2, <1>3, WithoutType DEF Flushed

(* The slots of a pool are runtimes, and one more slot is added to them.   *)
LEMMA PoolSlots ==
  ASSUME NEW s \in Seq(Runtimes)
  PROVE  ToSet(s) \subseteq Runtimes
<1>1. s \in [1..Len(s) -> Runtimes] /\ DOMAIN s = 1..Len(s)
  OBVIOUS
<1> QED
  BY <1>1 DEF ToSet

LEMMA PoolGrows ==
  ASSUME NEW s \in Seq(Runtimes), NEW n \in Runtimes
  PROVE  /\ Append(s, n) \in Seq(Runtimes)
         /\ ToSet(Append(s, n)) = ToSet(s) \cup {n}
<1> DEFINE t == Append(s, n)
<1>1. /\ t \in Seq(Runtimes) /\ Len(t) = Len(s) + 1
      /\ \A i \in 1..Len(s) : t[i] = s[i]
      /\ t[Len(s) + 1] = n
  BY AppendProperties
<1>2. /\ Len(s) \in Nat /\ DOMAIN s = 1..Len(s)
      /\ DOMAIN t = 1..Len(s) + 1
  BY <1>1
<1>3. ToSet(s) \cup {n} \subseteq ToSet(t)
  BY <1>1, <1>2 DEF ToSet
<1>4. ToSet(t) \subseteq ToSet(s) \cup {n}
  <2> HIDE DEF t
  <2>1. \A i \in 1..Len(s) + 1 : i \in 1..Len(s) \/ i = Len(s) + 1
    BY <1>2
  <2> QED
    BY <1>1, <1>2, <2>1 DEF ToSet
<1> QED
  BY <1>1, <1>3, <1>4

LEMMA TypeInit == Init => TypeOK
<1> SUFFICES ASSUME Init PROVE TypeOK
  OBVIOUS
<1>1. Members \subseteq Runtimes
  BY DemandConstants, PoolSlots
<1>2. inv \in [Runtimes -> {"none", "preparing", "ready"}]
  BY DEF Init
<1>3. used \in [Runtimes -> Ages]
  BY LimitsAreNat DEF Init, Ages
<1>4. demand \in Entries /\ file \in Reports /\ seen \in Reports
  BY NobodyType, NoReportType DEF Init
<1>5. pool \in Seq(Runtimes)
  BY DemandConstants DEF Init
<1> QED
  BY <1>1, <1>2, <1>3, <1>4, <1>5 DEF Init, TypeOK

LEMMA TypeStep == TypeOK /\ [Next]_vars => TypeOK'
<1> SUFFICES ASSUME TypeOK, [Next]_vars PROVE TypeOK'
  OBVIOUS
<1> USE DEF gateway, controller, slots
<1> MaxSessions \in Nat \ {0} /\ MaxUnits \in Nat
  BY DemandConstants
<1>a. Idle + 1 \in Ages /\ 0 \in Ages
  BY LimitsAreNat DEF Ages
<1>1. ASSUME NEW n \in Runtimes, Use(n) PROVE TypeOK'
  <2>1. Touched(demand, {n}) \in Entries
    BY TouchedType DEF TypeOK
  <2> QED
    BY <1>1, <1>a, <2>1 DEF Use, TypeOK
<1>2. ASSUME NEW n \in Runtimes, SignIn(n) PROVE TypeOK'
  BY <1>2 DEF SignIn, TypeOK
<1>3. ASSUME NEW n \in Runtimes, SignOut(n) PROVE TypeOK'
  <2>1. Without(demand, Released(n)) \in Entries
    BY WithoutType DEF TypeOK, Released
  <2>2. used' \in [Runtimes -> Ages]
    BY <1>3, <1>a DEF SignOut, TypeOK
  <2> QED
    BY <1>3, <2>1, <2>2 DEF SignOut, TypeOK
<1>4. ASSUME NEW n \in Runtimes, SessionEnds(n) PROVE TypeOK'
  BY <1>4 DEF SessionEnds, TypeOK
<1>5. ASSUME NEW n \in Runtimes, SignUp(n) PROVE TypeOK'
  <2>1. assigned' \subseteq Runtimes /\ promised' \subseteq Runtimes
    BY <1>5 DEF SignUp, TypeOK
  <2>2. sess' \in [Runtimes -> 0..MaxSessions]
    BY <1>5 DEF SignUp, TypeOK
  <2> QED
    BY <1>5, <2>1, <2>2 DEF SignUp, TypeOK
<1>6. CASE Flush
  <2>1. Flushed \in Entries
    BY FlushedType
  <2>2. [there |-> TRUE, at |-> 0, entries |-> Flushed] \in Reports
    BY <2>1, LimitsAreNat DEF Reports
  <2>3. used' \in [Runtimes -> Ages]
    BY <1>6, <1>a DEF Flush, TypeOK
  <2> QED
    BY <1>6, <2>1, <2>2, <2>3 DEF Flush, TypeOK
<1>7. CASE GatewayRestart
  <2>1. file.entries \in Entries /\ file.there \in BOOLEAN
    BY DEF TypeOK, Reports
  <2>2. file.entries.age \in [Runtimes -> Ages]
    BY <2>1, EntriesFields
  <2> QED
    BY <1>7, <2>1, <2>2 DEF GatewayRestart, Reloaded, TypeOK
<1>8. CASE Project
  BY <1>8 DEF Project, TypeOK
<1>9. CASE Tick
  <2>1. Aged(demand) \in Entries
    BY AgedFields DEF TypeOK
  <2>2. OlderReport(file) \in Reports /\ OlderReport(seen) \in Reports
    BY OlderFields DEF TypeOK
  <2>3. used' \in [Runtimes -> Ages]
    BY <1>9, LaterType, LimitsAreNat DEF Tick, TypeOK, Ages
  <2> QED
    BY <1>9, <2>1, <2>2, <2>3 DEF Tick, TypeOK
<1>10. CASE ReadDemand
  BY <1>10 DEF ReadDemand, TypeOK
<1>11. CASE ListRuntimes
  BY <1>11 DEF ListRuntimes, TypeOK
<1>12. CASE Plan
  BY <1>12 DEF Plan, ToStop, TypeOK
<1>13. CASE RoundEnds
  BY <1>13, NoReportType DEF RoundEnds, TypeOK
<1>14. CASE RoundFails
  BY <1>14, NoReportType DEF RoundFails, TypeOK
<1>15. CASE Recovered
  BY <1>15 DEF Recovered, TypeOK
<1>16. CASE ReconcileWaits \/ Resume \/ PrepareFails
  BY <1>16 DEF ReconcileWaits, Resume, PrepareFails, TypeOK
<1>17. CASE ControllerRestart
  BY <1>17, NoReportType DEF ControllerRestart, TypeOK
<1>18. ASSUME NEW n \in Runtimes, StopOne(n) \/ StartOne(n) PROVE TypeOK'
  BY <1>18 DEF StopOne, StartOne, TypeOK
<1>19. ASSUME NEW n \in Runtimes, Recover(n) \/ Publish(n) PROVE TypeOK'
  <2>1. pool' \in Seq(Runtimes)
    BY <1>19, PoolGrows DEF Recover, Publish, TypeOK
  <2> QED
    BY <1>19, <2>1 DEF Recover, Publish, TypeOK
<1>20. ASSUME NEW n \in Runtimes, Provision(n) \/ Qualify(n) PROVE TypeOK'
  <2>1. inv' \in [Runtimes -> {"none", "preparing", "ready"}]
    BY <1>20 DEF Provision, Qualify, TypeOK
  <2> QED
    BY <1>20, <2>1 DEF Provision, Qualify, TypeOK
<1>21. ASSUME NEW n \in Runtimes, Create(n) PROVE TypeOK'
  BY <1>21 DEF Create, TypeOK
<1>22. CASE UNCHANGED vars
  BY <1>22 DEF vars, TypeOK
<1> QED
  BY <1>1, <1>2, <1>3, <1>4, <1>5, <1>6, <1>7, <1>8, <1>9, <1>10, <1>11,
     <1>12, <1>13, <1>14, <1>15, <1>16, <1>17, <1>18, <1>19, <1>20, <1>21,
     <1>22
  DEF Next, GatewayStep, ControllerStep

(* The controller, the gateway and their files never leave their types.    *)
THEOREM TypeCorrect == Spec => []TypeOK
  BY TypeInit, TypeStep, PTL DEF Spec
-----------------------------------------------------------------------------
(* What is counted can be had: nothing but a receipt makes a slot known,   *)
(* and no round looks for spares before all receipts are published.        *)

LEMMA CountedInit == Init => CountedIsPublished
  BY DEF Init, CountedIsPublished

LEMMA CountedStep ==
  TypeOK /\ CountedIsPublished /\ [Next]_vars => CountedIsPublished'
<1> SUFFICES ASSUME TypeOK, CountedIsPublished, [Next]_vars
             PROVE  CountedIsPublished'
  OBVIOUS
<1> USE DEF gateway, controller, slots, CountedIsPublished
<1>1. CASE UNCHANGED slots /\ pc' \in {pc, "idle", "list", "plan", "scale", "recover"}
  BY <1>1 DEF Known
<1>2. CASE UNCHANGED slots /\ Recovered
  BY <1>2 DEF Recovered, Known, Unpublished
<1>3. CASE Resume
  BY <1>3 DEF Resume, Known
<1>4. ASSUME NEW n \in Runtimes, Provision(n) PROVE CountedIsPublished'
  <2>1. Known' = Known
    BY <1>4 DEF Provision, Known, TypeOK
  <2> QED
    BY <1>4, <2>1 DEF Provision
<1>5. ASSUME NEW n \in Runtimes, Recover(n) \/ Qualify(n) \/ Publish(n)
      PROVE  CountedIsPublished'
  BY <1>5 DEF Recover, Qualify, Publish
<1>6. CASE GatewayStep
  <2>1. UNCHANGED <<slots, pc>>
    BY <1>6 DEF GatewayStep, Use, SignIn, SignOut, SessionEnds, SignUp,
                Flush, GatewayRestart, Project
  <2> QED
    BY <1>1, <2>1
<1>7. CASE Tick \/ UNCHANGED vars
  <2>1. UNCHANGED <<slots, pc>>
    BY <1>7 DEF Tick, vars
  <2> QED
    BY <1>1, <2>1
<1>8. CASE \/ ReadDemand \/ ListRuntimes \/ Plan \/ RoundEnds \/ RoundFails
           \/ ReconcileWaits \/ PrepareFails \/ ControllerRestart
           \/ \E n \in Runtimes : StopOne(n) \/ StartOne(n) \/ Create(n)
  <2>1. UNCHANGED slots /\ pc' \in {pc, "idle", "list", "plan", "scale", "recover"}
    BY <1>8 DEF ReadDemand, ListRuntimes, Plan, RoundEnds, RoundFails,
                ReconcileWaits, PrepareFails, ControllerRestart, StopOne,
                StartOne, Create
  <2> QED
    BY <1>1, <2>1
<1>9. CASE Recovered
  BY <1>2, <1>9 DEF Recovered
<1> QED
  BY <1>3, <1>4, <1>5, <1>6, <1>7, <1>8, <1>9 DEF Next, ControllerStep

(* Whatever crashes between a receipt and its publication, the controller  *)
(* counts as spare only what a new account can get.                        *)
THEOREM CountedCorrect == Spec => []CountedIsPublished
  BY CountedInit, CountedStep, TypeInit, TypeStep, PTL DEF Spec
-----------------------------------------------------------------------------
(* What a report knows.  A runtime whose activity is older than the report *)
(* stands in it, no older than it was.                                     *)
Knows(r, act) ==
  r.at <= Stale =>
    \A n \in Runtimes :
      r.at < act[n] /\ act[n] <= Idle =>
        n \in r.entries.asked /\ r.entries.age[n] <= act[n]

(* A runtime nobody asked for has no activity.                             *)
Neat(d) == \A n \in Runtimes : n \notin d.asked => d.age[n] > Idle

(* The gateway has every activity it was not told to forget.               *)
InMemory ==
  \A n \in Runtimes :
    used[n] <= Idle => n \in demand.asked /\ demand.age[n] <= used[n]

Told ==
  /\ Neat(demand) /\ Neat(file.entries) /\ InMemory
  /\ Knows(file, used) /\ Knows(file, demand.age)
  /\ Knows(seen, used) /\ Knows(seen, demand.age)
  /\ Knows(seen, file.entries.age)

(* Activity that is only renewed or forgotten.                             *)
Fades(old, new) ==
  \A n \in Runtimes : new[n] = 0 \/ new[n] = old[n] \/ new[n] > Idle

LEMMA KnowsFading ==
  ASSUME NEW r \in Reports, NEW old, NEW new \in [Runtimes -> Ages],
         Knows(r, old), Fades(old, new)
  PROVE  Knows(r, new)
<1>1. r.at \in 0..Stale + 1
  BY DEF Reports
<1>2. \A n \in Runtimes :
        r.at < new[n] /\ new[n] <= Idle /\ r.at <= Stale => new[n] = old[n]
  <2> SUFFICES ASSUME NEW n \in Runtimes,
                      r.at < new[n], new[n] <= Idle, r.at <= Stale
               PROVE  new[n] = old[n]
    OBVIOUS
  <2>1. new[n] \in 0..Idle + 1 /\ ~(new[n] = 0)
    BY <1>1, LimitsAreNat DEF Ages
  <2>2. new[n] = old[n] \/ new[n] > Idle
    BY <2>1 DEF Fades
  <2> QED
    BY <2>1, <2>2, LimitsAreNat
<1> QED
  BY <1>2 DEF Knows

LEMMA LaterKeeps ==
  ASSUME NEW limit \in Nat, NEW a \in 0..limit + 1, NEW b \in 0..limit + 1
  PROVE  /\ Later(a, limit) >= a
         /\ Later(a, limit) <= limit => a < limit /\ Later(a, limit) = a + 1
         /\ a <= b => Later(a, limit) <= Later(b, limit)
  BY DEF Later

(* A report that ages with the activity goes on knowing it.                *)
LEMMA KnowsAging ==
  ASSUME NEW r \in Reports, NEW act \in [Runtimes -> Ages],
         NEW new \in [Runtimes -> Ages], Knows(r, act),
         \A n \in Runtimes : new[n] = Later(act[n], Idle)
  PROVE  Knows(OlderReport(r), new)
<1> DEFINE o == OlderReport(r)
<1>1. r.at \in 0..Stale + 1 /\ r.entries \in Entries
  BY DEF Reports
<1>2. r.entries.age \in [Runtimes -> Ages]
  BY <1>1, EntriesFields
<1>3. /\ o.at = Later(r.at, Stale) /\ o.entries.asked = r.entries.asked
      /\ \A n \in Runtimes : o.entries.age[n] = Later(r.entries.age[n], Idle)
  BY <1>1, OlderFields, AgedFields
<1> SUFFICES ASSUME NEW n \in Runtimes,
                    o.at <= Stale, o.at < new[n], new[n] <= Idle
             PROVE  n \in o.entries.asked /\ o.entries.age[n] <= new[n]
  BY DEF Knows
<1> HIDE DEF o
<1>4. act[n] \in 0..Idle + 1 /\ r.entries.age[n] \in 0..Idle + 1
  BY <1>2 DEF Ages
<1>5. r.at < Stale /\ o.at = r.at + 1
  BY <1>1, <1>3, LaterKeeps, LimitsAreNat
<1>6. act[n] < Idle /\ new[n] = act[n] + 1
  BY <1>4, LaterKeeps, LimitsAreNat
<1>7. n \in r.entries.asked /\ r.entries.age[n] <= act[n]
  BY <1>1, <1>4, <1>5, <1>6, LimitsAreNat DEF Knows
<1>8. Later(r.entries.age[n], Idle) <= Later(act[n], Idle)
  BY <1>4, <1>7, LaterKeeps, LimitsAreNat
<1> QED
  BY <1>3, <1>7, <1>8

LEMMA NeatKept ==
  ASSUME NEW d \in Entries, NEW S \in SUBSET Runtimes, Neat(d)
  PROVE  Neat(Touched(d, S)) /\ Neat(Without(d, S)) /\ Neat(Aged(d))
<1>1. d.asked \subseteq Runtimes /\ d.age \in [Runtimes -> Ages]
  BY EntriesFields
<1>2. Neat(Touched(d, S))
  BY DEF Neat, Touched
<1>3. Neat(Without(d, S))
  <2>1. Idle + 1 > Idle
    BY LimitsAreNat
  <2> QED
    BY <2>1 DEF Neat, Without
<1>4. Neat(Aged(d))
  <2> SUFFICES ASSUME NEW n \in Runtimes, n \notin d.asked
               PROVE  Aged(d).age[n] > Idle
    BY AgedFields DEF Neat
  <2>1. d.age[n] > Idle
    BY DEF Neat
  <2>2. Aged(d).age[n] = Later(d.age[n], Idle)
    BY AgedFields
  <2> QED
    BY <2>1, <2>2 DEF Later
<1> QED
  BY <1>2, <1>3, <1>4

LEMMA ToldInit == Init => Told
<1> SUFFICES ASSUME Init PROVE Told
  OBVIOUS
<1>1. Neat(Nobody) /\ NoReport.entries = Nobody
  BY LimitsAreNat DEF Neat, Nobody, NoReport
<1>2. ~(NoReport.at <= Stale)
  BY NoReportType, LimitsAreNat DEF Reports
<1>3. InMemory
  BY LimitsAreNat DEF Init, InMemory
<1> QED
  BY <1>1, <1>2, <1>3 DEF Init, Told, Knows

(* What only the gateway's map and the history do to what is known.        *)
LEMMA ToldFading ==
  ASSUME TypeOK, TypeOK', Told, Neat(demand'), InMemory',
         Fades(used, used'), Fades(demand.age, demand'.age),
         file' = file, seen' = seen
  PROVE  Told'
<1>1. used' \in [Runtimes -> Ages] /\ demand'.age \in [Runtimes -> Ages]
  BY EntriesFields DEF TypeOK
<1>2. Knows(file, used') /\ Knows(file, demand'.age)
  BY <1>1, KnowsFading DEF Told, TypeOK
<1>3. Knows(seen, used') /\ Knows(seen, demand'.age)
  BY <1>1, KnowsFading DEF Told, TypeOK
<1> QED
  BY <1>2, <1>3 DEF Told

(* The timer leaves in memory all that it does not itself call idle.       *)
LEMMA FlushKeeps ==
  ASSUME TypeOK, Told, Flush
  PROVE  /\ Neat(demand') /\ InMemory'
         /\ Fades(used, used') /\ Fades(demand.age, demand'.age)
<1> DEFINE d == Touched(demand, Seeds)
<1>1. Seeds \subseteq Runtimes /\ demand \in Entries
  BY FlushedType DEF TypeOK
<1>2. d \in Entries /\ Neat(d)
  BY <1>1, TouchedType, NeatKept DEF Told
<1>3. Expired(d) \subseteq Runtimes
  BY <1>2, EntriesFields DEF Expired
<1>4. demand' = Without(d, Expired(d)) /\ Neat(demand')
  BY <1>2, <1>3, NeatKept DEF Flush, Flushed
<1>5. \A n \in Runtimes : used'[n] = IF n \in Seeds THEN 0 ELSE used[n]
  BY DEF Flush
<1>6. /\ d.asked = demand.asked \cup Seeds
      /\ \A n \in Runtimes : d.age[n] = IF n \in Seeds THEN 0 ELSE demand.age[n]
  BY DEF Touched
<1> HIDE DEF d
<1>7. /\ demand'.asked = d.asked \ Expired(d)
      /\ \A n \in Runtimes :
           demand'.age[n] = IF n \in Expired(d) THEN Idle + 1 ELSE d.age[n]
  BY <1>4 DEF Without
<1>8. demand.age \in [Runtimes -> Ages] /\ used \in [Runtimes -> Ages]
  BY <1>1, EntriesFields DEF TypeOK
<1>9. InMemory'
  <2> SUFFICES ASSUME NEW n \in Runtimes, used'[n] <= Idle
               PROVE  n \in demand'.asked /\ demand'.age[n] <= used'[n]
    BY DEF InMemory
  <2>1. n \in d.asked /\ d.age[n] <= used'[n]
    <3>1. CASE n \in Seeds
      BY <3>1, <1>5, <1>6
    <3>2. CASE n \notin Seeds
      BY <3>2, <1>5, <1>6 DEF Told, InMemory
    <3> QED
      BY <3>1, <3>2
  <2>2. d.age[n] \in 0..Idle + 1 /\ used'[n] \in 0..Idle + 1
    BY <1>5, <1>6, <1>8, LimitsAreNat DEF Ages
  <2>3. n \notin Expired(d)
    BY <2>1, <2>2, LimitsAreNat DEF Expired
  <2> QED
    BY <2>1, <2>3, <1>7
<1>10. Fades(used, used')
  BY <1>5 DEF Fades
<1>11. Fades(demand.age, demand'.age)
  BY <1>6, <1>7, LimitsAreNat DEF Fades
<1> QED
  BY <1>4, <1>9, <1>10, <1>11

LEMMA ToldStep == TypeOK /\ Told /\ [Next]_vars => Told'
<1> SUFFICES ASSUME TypeOK, Told, [Next]_vars PROVE Told'
  OBVIOUS
<1> TypeOK'
  BY TypeStep
<1>a. Idle + 1 > Idle /\ 0 <= Idle /\ demand \in Entries
  BY LimitsAreNat DEF TypeOK
<1>b. used \in [Runtimes -> Ages] /\ demand.age \in [Runtimes -> Ages]
  BY EntriesFields DEF TypeOK
<1>c. ~(NoReport.at <= Stale)
  BY NoReportType, LimitsAreNat DEF Reports
<1>1. ASSUME NEW n \in Runtimes, Use(n) PROVE Told'
  <2>1. demand' = Touched(demand, {n}) /\ used' = [used EXCEPT ![n] = 0]
    BY <1>1 DEF Use
  <2>2. Neat(demand')
    BY <2>1, NeatKept, <1>a DEF Told
  <2>3. \A m \in Runtimes : /\ used'[m] = IF m = n THEN 0 ELSE used[m]
                            /\ demand'.age[m] = IF m = n THEN 0 ELSE demand.age[m]
    BY <2>1, <1>b DEF Touched
  <2>4. demand'.asked = demand.asked \cup {n}
    BY <2>1 DEF Touched
  <2>5. InMemory'
    BY <2>3, <2>4 DEF InMemory, Told
  <2>6. Fades(used, used') /\ Fades(demand.age, demand'.age)
    BY <2>3 DEF Fades
  <2> QED
    BY <1>1, <2>2, <2>5, <2>6, ToldFading DEF Use, controller
<1>2. ASSUME NEW n \in Runtimes, SignOut(n) PROVE Told'
  <2>1. /\ demand' = Without(demand, Released(n))
        /\ used' = [used EXCEPT ![n] = IF sess[n] = 1 THEN Idle + 1 ELSE @]
        /\ Released(n) = IF sess[n] = 1 THEN {n} ELSE {}
    BY <1>2 DEF SignOut, Released
  <2>2. Neat(demand')
    BY <2>1, NeatKept, <1>a DEF Told
  <2>3. \A m \in Runtimes :
          /\ used'[m] = IF m \in Released(n) THEN Idle + 1 ELSE used[m]
          /\ demand'.age[m] = IF m \in Released(n) THEN Idle + 1 ELSE demand.age[m]
    BY <2>1, <1>b DEF Without
  <2>4. demand'.asked = demand.asked \ Released(n)
    BY <2>1 DEF Without
  <2>5. InMemory'
    <3> SUFFICES ASSUME NEW m \in Runtimes, used'[m] <= Idle
                 PROVE  m \in demand'.asked /\ demand'.age[m] <= used'[m]
      BY DEF InMemory
    <3>1. m \notin Released(n)
      BY <2>3, LimitsAreNat
    <3> QED
      BY <2>3, <2>4, <3>1 DEF InMemory, Told
  <2>6. Fades(used, used') /\ Fades(demand.age, demand'.age)
    BY <2>3, <1>a DEF Fades
  <2> QED
    BY <1>2, <2>2, <2>5, <2>6, ToldFading DEF SignOut, controller
<1>3. CASE Flush
  <2>1. CASE file' = file
    BY <1>3, <2>1, FlushKeeps, ToldFading DEF Flush, controller
  <2>2. CASE file' = [there |-> TRUE, at |-> 0, entries |-> Flushed]
    <3>1. /\ Neat(demand') /\ InMemory' /\ file'.entries = demand' /\ file'.at = 0
          /\ Fades(used, used') /\ Fades(demand.age, demand'.age)
          /\ seen' = seen
      BY <1>3, <2>2, FlushKeeps DEF Flush, controller
    <3>2. used' \in [Runtimes -> Ages] /\ demand'.age \in [Runtimes -> Ages]
      BY EntriesFields DEF TypeOK
    <3>3. Knows(file', used')
      BY <3>1 DEF Knows, InMemory
    <3>4. Knows(file', demand'.age)
      <4>1. \A n \in Runtimes : demand'.age[n] \in 0..Idle + 1
        BY <3>2 DEF Ages
      <4> QED
        BY <3>1, <4>1, LimitsAreNat DEF Knows, Neat
    <3>5. Knows(seen, used') /\ Knows(seen, demand'.age)
      BY <3>1, <3>2, KnowsFading DEF Told, TypeOK
    <3> QED
      BY <3>1, <3>3, <3>4, <3>5 DEF Told
  <2> QED
    BY <1>3, <2>1, <2>2 DEF Flush
<1>4. CASE GatewayRestart
  <2>1. demand' = file.entries /\ used' = file.entries.age
        /\ file' = file /\ seen' = seen
    BY <1>4 DEF GatewayRestart, Reloaded, controller
  <2>2. \A n \in Runtimes : file.entries.age[n] \in 0..Idle + 1
    BY EntriesFields DEF TypeOK, Reports, Ages
  <2>3. \A n \in Runtimes : file.entries.age[n] <= Idle => n \in file.entries.asked
    BY <2>2, LimitsAreNat DEF Told, Neat
  <2>4. InMemory'
    BY <2>1, <2>2, <2>3 DEF InMemory
  <2>5. Knows(file, file.entries.age)
    BY <2>2, <2>3 DEF Knows
  <2> QED
    BY <2>1, <2>4, <2>5 DEF Told
<1>5. CASE Tick
  <2>1. /\ demand' = Aged(demand) /\ file' = OlderReport(file)
        /\ seen' = OlderReport(seen)
        /\ used' = [n \in Runtimes |-> Later(used[n], Idle)]
    BY <1>5 DEF Tick
  <2>2. /\ file.entries \in Entries /\ file.entries.age \in [Runtimes -> Ages]
        /\ file \in Reports /\ seen \in Reports
    BY EntriesFields DEF TypeOK, Reports
  <2>3. /\ demand'.asked = demand.asked
        /\ \A n \in Runtimes : demand'.age[n] = Later(demand.age[n], Idle)
        /\ file'.entries = Aged(file.entries)
        /\ \A n \in Runtimes :
             file'.entries.age[n] = Later(file.entries.age[n], Idle)
    BY <2>1, <2>2, <1>a, AgedFields, OlderFields
  <2>4. \A n \in Runtimes : used'[n] = Later(used[n], Idle)
    BY <2>1
  <2>5. /\ used' \in [Runtimes -> Ages] /\ demand'.age \in [Runtimes -> Ages]
        /\ file'.entries.age \in [Runtimes -> Ages]
    BY EntriesFields DEF TypeOK, Reports
  <2>6. Neat(demand') /\ Neat(file'.entries)
    BY <2>1, <2>2, <2>3, <1>a, NeatKept DEF Told
  <2>7. InMemory'
    <3> SUFFICES ASSUME NEW n \in Runtimes, used'[n] <= Idle
                 PROVE  n \in demand'.asked /\ demand'.age[n] <= used'[n]
      BY DEF InMemory
    <3>1. used[n] \in 0..Idle + 1 /\ demand.age[n] \in 0..Idle + 1
      BY <1>b DEF Ages
    <3>2. used[n] <= Idle
      BY <2>4, <3>1, LaterKeeps, LimitsAreNat
    <3> QED
      BY <2>3, <2>4, <3>1, <3>2, LaterKeeps, LimitsAreNat DEF InMemory, Told
  <2>8. Knows(file', used') /\ Knows(file', demand'.age)
    BY <2>1, <2>2, <2>3, <2>4, <2>5, <1>b, KnowsAging DEF Told
  <2>9. Knows(seen', used') /\ Knows(seen', demand'.age)
    BY <2>1, <2>2, <2>3, <2>4, <2>5, <1>b, KnowsAging DEF Told
  <2>10. Knows(seen', file'.entries.age)
    BY <2>1, <2>2, <2>3, <2>5, KnowsAging DEF Told
  <2> QED
    BY <2>6, <2>7, <2>8, <2>9, <2>10 DEF Told
<1>6. CASE ReadDemand
  <2>1. \A n \in Runtimes : file.entries.age[n] \in 0..Idle + 1
    BY EntriesFields DEF TypeOK, Reports, Ages
  <2>2. Knows(file, file.entries.age)
    BY <2>1, LimitsAreNat DEF Told, Neat, Knows
  <2> QED
    BY <1>6, <2>2 DEF ReadDemand, gateway, Told, InMemory
<1>7. ASSUME UNCHANGED <<demand, file, used>>, seen' \in {seen, NoReport}
      PROVE  Told'
  <2>1. CASE seen' = seen
    BY <1>7, <2>1 DEF Told, InMemory
  <2>2. CASE seen' = NoReport
    BY <1>7, <2>2, <1>c DEF Told, InMemory, Knows
  <2> QED
    BY <1>7, <2>1, <2>2
<1>8. ASSUME NEW n \in Runtimes, SignIn(n) \/ SessionEnds(n) \/ SignUp(n)
      PROVE  Told'
  BY <1>7, <1>8 DEF SignIn, SessionEnds, SignUp, controller
<1>9. CASE Project \/ UNCHANGED vars
  BY <1>7, <1>9 DEF Project, vars, gateway, controller
<1>10. CASE \/ ListRuntimes \/ Plan \/ RoundEnds \/ RoundFails \/ Recovered
            \/ ReconcileWaits \/ Resume \/ PrepareFails \/ ControllerRestart
  BY <1>7, <1>10 DEF ListRuntimes, Plan, RoundEnds, RoundFails, Recovered,
                     ReconcileWaits, Resume, PrepareFails, ControllerRestart,
                     gateway
<1>11. ASSUME NEW n \in Runtimes,
              \/ StopOne(n) \/ StartOne(n) \/ Recover(n) \/ Provision(n)
              \/ Create(n) \/ Qualify(n) \/ Publish(n)
       PROVE  Told'
  BY <1>7, <1>11 DEF StopOne, StartOne, Recover, Provision, Create, Qualify,
                     Publish, gateway, controller
<1> QED
  BY <1>1, <1>2, <1>3, <1>4, <1>5, <1>6, <1>8, <1>9, <1>10, <1>11
  DEF Next, GatewayStep, ControllerStep
-----------------------------------------------------------------------------
(* The round: what it has listed, and what is left for it to do.           *)
Round ==
  /\ pc # "scale" => stops = {} /\ starts = {}
  /\ pc = "plan" => snap = up \cap Known
  /\ pc = "scale" =>
       /\ stops \cap Wanted(seen) = {} /\ starts \cap up = {}
       /\ \A n \in starts : \A m \in Wanted(seen) :
            m \in seen.entries.older[n] => m \in up \cup starts

LEMMA RoundInit == Init => Round
  BY DEF Init, Round

(* A runtime is started only if all that were asked for before it run or   *)
(* are started too.  A spare is started only if nobody is left to wait.    *)
LEMMA PlanServesInOrder ==
  ASSUME TypeOK, NEW S \in SUBSET Runtimes, NEW units \in 0..MaxUnits,
         MayStart(S, units), NEW n \in S, NEW m \in Wanted(seen),
         m \in seen.entries.older[n], m \notin snap
  PROVE  m \in S
<1> DEFINE queue == Wanted(seen) \ snap
           spares == KeepWarm \ snap
           budget == Least(units, MaxStarts)
<1>1. /\ IsFront(S \cap queue, queue, budget)
      /\ Cardinality(S \cap spares) =
           Least(budget - Cardinality(S \cap queue), Cardinality(spares))
      /\ S \subseteq queue \cup spares
  BY DEF MayStart
<1>2. m \in queue
  OBVIOUS
<1>3. queue \subseteq Runtimes /\ spares \subseteq Runtimes
  BY DEF Wanted, Known, KeepWarm
<1>4. budget \in Nat
  BY DemandConstants DEF Least
<1> HIDE DEF queue, spares, budget
<1>5. CASE n \in queue
  BY <1>1, <1>2, <1>5 DEF IsFront
<1>6. CASE n \in spares
  <2>1. IsFiniteSet(queue) /\ IsFiniteSet(S \cap queue) /\ IsFiniteSet(S \cap spares)
        /\ IsFiniteSet(spares)
    BY <1>3, FS_Subset, DemandConstants
  <2>2. /\ Cardinality(queue) \in Nat /\ Cardinality(S \cap queue) \in Nat
        /\ Cardinality(S \cap spares) \in Nat /\ Cardinality(spares) \in Nat
    BY <2>1, FS_CardinalityType
  <2>3. Cardinality(S \cap spares) # 0
    BY <1>6, <2>1, FS_EmptySet
  <2>4. Cardinality(S \cap queue) < budget
    BY <1>1, <1>4, <2>2, <2>3 DEF Least
  <2>5. Cardinality(S \cap queue) = Cardinality(queue)
    BY <1>1, <1>4, <2>2, <2>4 DEF IsFront, Least
  <2>6. S \cap queue = queue
    BY <2>1, <2>5, FS_Subset
  <2> QED
    BY <1>2, <2>6
<1> QED
  BY <1>1, <1>5, <1>6

LEMMA RoundStep == TypeOK /\ Round /\ [Next]_vars => Round'
<1> SUFFICES ASSUME TypeOK, Round, [Next]_vars PROVE Round'
  OBVIOUS
<1>1. CASE Plan
  <2>1. PICK S \in SUBSET Runtimes, units \in 0..MaxUnits :
          /\ MayStart(S, units) \/ (~Fresh(seen) /\ S = {})
          /\ starts' = S
    BY <1>1 DEF Plan
  <2>2. /\ pc' = "scale" /\ stops' = ToStop /\ up' = up /\ seen' = seen
        /\ inv' = inv /\ snap = up \cap Known
    BY <1>1 DEF Plan, Round, slots
  <2>3. Known' = Known /\ Wanted(seen)' = Wanted(seen) /\ Wanted(seen) \subseteq Known
    BY <2>2 DEF Known, Wanted
  <2>4. stops' \cap Wanted(seen) = {}
    BY <2>2 DEF ToStop
  <2>5. S \cap up = {}
    <3>1. S \subseteq (Wanted(seen) \ snap) \cup (KeepWarm \ snap)
      BY <2>1 DEF MayStart
    <3>2. KeepWarm \subseteq Known
      BY DEF KeepWarm
    <3> QED
      BY <2>2, <2>3, <3>1, <3>2
  <2>6. ASSUME NEW n \in S, NEW m \in Wanted(seen), m \in seen.entries.older[n]
        PROVE  m \in up \cup S
    BY <2>1, <2>2, <2>6, PlanServesInOrder
  <2> QED
    BY <2>1, <2>2, <2>3, <2>4, <2>5, <2>6 DEF Round
<1>2. ASSUME NEW n \in Runtimes, StopOne(n) PROVE Round'
  <2>1. /\ pc = "scale" /\ pc' = pc /\ n \in stops /\ stops' = stops \ {n}
        /\ up' = up \ {n} /\ seen' = seen /\ starts' = starts /\ inv' = inv
    BY <1>2 DEF StopOne, slots
  <2>2. Wanted(seen)' = Wanted(seen)
    BY <2>1 DEF Wanted, Known
  <2> QED
    BY <2>1, <2>2 DEF Round
<1>3. ASSUME NEW n \in Runtimes, StartOne(n) PROVE Round'
  <2>1. /\ pc = "scale" /\ pc' = pc /\ n \in starts /\ stops' = stops
        /\ up' = up \cup {n} /\ seen' = seen /\ starts' = starts \ {n}
        /\ inv' = inv
    BY <1>3 DEF StartOne, slots
  <2>2. Wanted(seen)' = Wanted(seen)
    BY <2>1 DEF Wanted, Known
  <2> QED
    BY <2>1, <2>2 DEF Round
<1>4. CASE Tick
  <2>1. seen \in Reports /\ seen.entries \in Entries /\ seen' = OlderReport(seen)
    BY <1>4 DEF Tick, TypeOK, Reports
  <2>2. /\ seen'.entries.asked = seen.entries.asked
        /\ seen'.entries.older = seen.entries.older
        /\ \A n \in Runtimes :
             seen'.entries.age[n] = Later(seen.entries.age[n], Idle)
    BY <2>1, OlderFields, AgedFields
  <2>3. \A n \in Runtimes : seen.entries.age[n] \in 0..Idle + 1
    BY <2>1, EntriesFields DEF Ages
  <2>4. UNCHANGED <<pc, stops, starts, up, snap, inv>>
    BY <1>4 DEF Tick, slots
  <2>5. Known' = Known
    BY <2>4 DEF Known
  <2>6. Wanted(seen)' \subseteq Wanted(seen)
    <3> SUFFICES ASSUME NEW n \in Wanted(seen)' PROVE n \in Wanted(seen)
      OBVIOUS
    <3>1. n \in Known /\ n \in seen.entries.asked /\ seen'.entries.age[n] <= Idle
      BY <2>2, <2>5 DEF Wanted
    <3>2. n \in Runtimes
      BY <3>1 DEF Known
    <3>3. seen.entries.age[n] <= Idle
      BY <2>2, <2>3, <3>1, <3>2, LaterKeeps, LimitsAreNat
    <3> QED
      BY <3>1, <3>3 DEF Wanted
  <2> QED
    BY <2>2, <2>4, <2>5, <2>6 DEF Round
<1>5. ASSUME pc' # "scale", pc' # "plan", stops' = {}, starts' = {}
      PROVE  Round'
  BY <1>5 DEF Round
<1>6. CASE RoundEnds \/ RoundFails \/ ControllerRestart
  BY <1>5, <1>6 DEF RoundEnds, RoundFails, ControllerRestart
<1>7. CASE ReadDemand \/ Recovered \/ ReconcileWaits \/ Resume \/ PrepareFails
  BY <1>5, <1>7 DEF ReadDemand, Recovered, ReconcileWaits, Resume,
                    PrepareFails, Round
<1>8. CASE ListRuntimes
  <2>1. Known' = Known
    BY <1>8 DEF ListRuntimes, slots, Known
  <2> QED
    BY <1>8, <2>1 DEF ListRuntimes, Round
<1>9. ASSUME NEW n \in Runtimes,
             Recover(n) \/ Provision(n) \/ Create(n) \/ Qualify(n) \/ Publish(n)
      PROVE  Round'
  BY <1>5, <1>9 DEF Recover, Provision, Create, Qualify, Publish, Round,
                    controller
<1>10. CASE UNCHANGED <<controller, inv, up>>
  <2>1. UNCHANGED <<pc, seen, snap, stops, starts>> /\ UNCHANGED <<inv, up>>
    BY <1>10 DEF controller
  <2>2. Known' = Known
    BY <2>1 DEF Known
  <2>3. Wanted(seen)' = Wanted(seen)
    BY <2>1, <2>2 DEF Wanted
  <2> QED
    BY <2>1, <2>2, <2>3 DEF Round
<1>11. CASE GatewayStep \/ UNCHANGED vars
  BY <1>10, <1>11 DEF GatewayStep, Use, SignIn, SignOut, SessionEnds, SignUp,
                      Flush, GatewayRestart, Project, vars, slots
<1> QED
  BY <1>1, <1>2, <1>3, <1>4, <1>6, <1>7, <1>8, <1>9, <1>11
  DEF Next, ControllerStep

LEMMA InvariantsHold == Spec => [](TypeOK /\ Told /\ Round)
<1>1. Init => TypeOK /\ Told /\ Round
  BY TypeInit, ToldInit, RoundInit
<1>2. TypeOK /\ Told /\ Round /\ [Next]_vars => (TypeOK /\ Told /\ Round)'
  BY TypeStep, ToldStep, RoundStep
<1> QED
  BY <1>1, <1>2, PTL DEF Spec

(* A round stops nothing whose use the gateway has not given up, or that   *)
(* was used again only after the report it reads.                          *)
THEOREM StopsCorrect == Spec => StopsOnlyIdle
<1>1. TypeOK /\ Told /\ Round /\ [Next]_vars
        => [\A n \in stops' \ stops : MayStop(n)]_vars
  <2> SUFFICES ASSUME TypeOK, Told, Round, [Next]_vars, NEW n \in stops' \ stops
               PROVE  MayStop(n)
    OBVIOUS
  <2>1. Plan
    <3>1. ~(stops' \subseteq stops)
      OBVIOUS
    <3>2. ASSUME stops' = stops \/ stops' = {} \/ \E m \in Runtimes : stops' = stops \ {m}
          PROVE  FALSE
      BY <3>1, <3>2
    <3>3. ~UNCHANGED vars /\ ~GatewayStep /\ ~Tick
      BY <3>2 DEF vars, controller, GatewayStep, Use, SignIn, SignOut,
                  SessionEnds, SignUp, Flush, GatewayRestart, Project, Tick
    <3>4. ~ReadDemand /\ ~ListRuntimes /\ ~RoundEnds /\ ~RoundFails /\ ~Recovered
          /\ ~ReconcileWaits /\ ~Resume /\ ~PrepareFails /\ ~ControllerRestart
      BY <3>2 DEF ReadDemand, ListRuntimes, RoundEnds, RoundFails, Recovered,
                  ReconcileWaits, Resume, PrepareFails, ControllerRestart
    <3>5. ASSUME NEW m \in Runtimes
          PROVE  /\ ~StopOne(m) /\ ~StartOne(m) /\ ~Recover(m) /\ ~Provision(m)
                 /\ ~Create(m) /\ ~Qualify(m) /\ ~Publish(m)
      BY <3>2 DEF StopOne, StartOne, Recover, Provision, Create, Qualify,
                  Publish, controller
    <3> QED
      BY <3>3, <3>4, <3>5 DEF Next, ControllerStep
  <2>2. n \in ToStop /\ snap = up \cap Known
    BY <2>1 DEF Plan, Round
  <2>3. /\ seen.at <= Stale /\ n \in Known /\ n \in Runtimes
        /\ n \notin Wanted(seen)
    BY <2>2 DEF ToStop, Fresh, Known
  <2>4. inv[n] # "preparing"
    BY <2>3 DEF Known
  <2>5. seen.at \in 0..Stale + 1 /\ used[n] \in 0..Idle + 1
        /\ seen.entries.age[n] \in 0..Idle + 1
    BY <2>3, EntriesFields DEF TypeOK, Reports, Ages
  <2>6. ~(n \in seen.entries.asked /\ seen.entries.age[n] <= Idle)
    BY <2>3 DEF Wanted
  <2>7. ~(seen.at < used[n] /\ used[n] <= Idle)
    <3> SUFFICES ASSUME seen.at < used[n], used[n] <= Idle PROVE FALSE
      OBVIOUS
    <3>1. n \in seen.entries.asked /\ seen.entries.age[n] <= used[n]
      BY <2>3 DEF Told, Knows
    <3> QED
      BY <2>5, <2>6, <3>1, LimitsAreNat
  <2> QED
    BY <2>3, <2>4, <2>5, <2>7, LimitsAreNat DEF MayStop
<1> QED
  BY <1>1, InvariantsHold, PTL DEF Spec, StopsOnlyIdle

(* Nobody's workspace is started while that of one who asked before him,   *)
(* as both the report and the gateway have it, is left standing.           *)
THEOREM QueueCorrect == Spec => FirstComeFirstServed
<1>1. TypeOK /\ Round /\ [Next]_vars
        => [\A n \in starts \ starts' : n \in up' => \A m \in Runtimes : ~Overtaken(m, n)]_vars
  <2> SUFFICES ASSUME TypeOK, Round, [Next]_vars,
                      NEW n \in starts, n \notin starts', n \in up',
                      NEW m \in Runtimes, Overtaken(m, n)
               PROVE  FALSE
    OBVIOUS
  <2>1. pc = "scale" /\ n \notin up
    BY DEF Round
  <2>2. m \in starts
    BY <2>1 DEF Overtaken, Round
  <2>3. ~StartOne(n)
    BY <2>2 DEF StartOne, GoesFirst, Overtaken
  <2>4. \A k \in Runtimes : k # n => ~StartOne(k)
    BY DEF StartOne
  <2>5. ~(up' \subseteq up)
    BY <2>1
  <2>6. ~UNCHANGED vars /\ ~GatewayStep /\ ~Tick
    BY <2>5 DEF vars, GatewayStep, Use, SignIn, SignOut,
                SessionEnds, SignUp, Flush, GatewayRestart, Project, Tick
  <2>7. ~ReadDemand /\ ~ListRuntimes /\ ~Plan /\ ~RoundEnds /\ ~RoundFails
        /\ ~Recovered /\ ~ReconcileWaits /\ ~Resume /\ ~PrepareFails
        /\ ~ControllerRestart
    BY <2>5 DEF ReadDemand, ListRuntimes, Plan, RoundEnds, RoundFails,
                Recovered, ReconcileWaits, Resume, PrepareFails,
                ControllerRestart
  <2>8. \A k \in Runtimes :
          /\ ~StopOne(k) /\ ~Recover(k) /\ ~Provision(k) /\ ~Create(k)
          /\ ~Qualify(k) /\ ~Publish(k)
    BY <2>1, <2>5 DEF StopOne, Recover, Provision, Create, Qualify, Publish
  <2> QED
    BY <2>3, <2>4, <2>6, <2>7, <2>8 DEF Next, ControllerStep
<1> QED
  BY <1>1, InvariantsHold, PTL DEF Spec, FirstComeFirstServed
=============================================================================
