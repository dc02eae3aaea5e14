--------------------------- MODULE WorkspaceDemand ---------------------------
(***************************************************************************)
(* Private workspaces on demand.  The gateway                              *)
(* (scripts/session_demand.js, auth_proxy.js, capacity_policy.js) reports  *)
(* in demand.json which runtimes are in use and in assignments.json which  *)
(* slots have an owner.  The controller (scripts/capacity_controller.py,   *)
(* capacity_session.py, capacity_planner.py) starts and stops runtimes and *)
(* prepares spare ones, from files and cluster lists it reads one after    *)
(* another while users go on.                                              *)
(*                                                                         *)
(* A runtime stands for a slot, its owner and the environment he uses.     *)
(* Time is the age of a report or of an activity, in ticks, counted only   *)
(* until it is past the limit that matters.                                *)
(***************************************************************************)
EXTENDS Integers, Sequences, FiniteSets, SequencesExt

CONSTANTS
  Runtimes,
  InitialPool,   \* the slots the gateway is installed with, in order
  Members,       \* those with an owner at the start
  MaxSessions,   \* bound on the browser sessions of one user
  Idle,          \* idle timeout, the same at the gateway and the controller
  Stale,         \* DEMAND_STALE_SECONDS
  MaxUnits,      \* bound on the starts the cluster has room for
  MaxStarts,     \* MAX_STARTS_PER_ROUND
  WarmRunning,   \* warmRunningSpares
  WarmSlots      \* warmSpareSlots of the policy

ASSUME DemandConstants ==
  /\ IsFiniteSet(Runtimes)
  /\ InitialPool \in Seq(Runtimes)
  /\ Members \subseteq ToSet(InitialPool)
  /\ MaxSessions \in Nat \ {0}
  /\ Idle \in Nat /\ Stale \in Nat /\ Stale < Idle
  /\ MaxUnits \in Nat /\ MaxStarts \in Nat
  /\ WarmRunning \in Nat /\ WarmSlots \in Nat

VARIABLES
  demand,    \* the gateway's map: who asked, before whom, how long ago active
  seeded,    \* sessionDemandSeeded, or a file was loaded
  file,      \* demand.json
  sess,      \* browser sessions of the owner
  assigned,  \* slots that accounts hold (the user store)
  listed,    \* assignments.json
  inv,       \* inventory.json: state of each slot
  pool,      \* pool.json: published slots, in order
  up,        \* deployments scaled to 1
  pc,        \* where the controller's loop is
  seen,      \* demand.json as read in this round
  snap,      \* runtimes that were up when listed in this round
  stops,     \* scaleDown still to do
  starts,    \* scaleUp still to do
  used,      \* history: age of the last activity not given up by signing out
  promised   \* history: accounts just created on a running spare

gateway == <<demand, seeded, file, sess, assigned, listed>>
controller == <<pc, seen, snap, stops, starts>>
slots == <<inv, pool>>
vars == <<gateway, controller, slots, up, used, promised>>

Ages == 0..Idle + 1
Entries == [asked : SUBSET Runtimes,
            older : [Runtimes -> SUBSET Runtimes],
            age : [Runtimes -> Ages]]
Reports == [there : BOOLEAN, at : 0..Stale + 1, entries : Entries]

TypeOK ==
  /\ demand \in Entries
  /\ seeded \in BOOLEAN
  /\ file \in Reports
  /\ sess \in [Runtimes -> 0..MaxSessions]
  /\ assigned \subseteq Runtimes
  /\ listed \subseteq Runtimes
  /\ inv \in [Runtimes -> {"none", "preparing", "ready"}]
  /\ pool \in Seq(Runtimes)
  /\ up \subseteq Runtimes
  /\ pc \in {"idle", "list", "plan", "scale", "recover", "spares",
             "prepare", "publish"}
  /\ seen \in Reports
  /\ snap \subseteq Runtimes
  /\ stops \subseteq Runtimes
  /\ starts \subseteq Runtimes
  /\ used \in [Runtimes -> Ages]
  /\ promised \subseteq Runtimes

Nobody == [asked |-> {}, older |-> [n \in Runtimes |-> {}],
           age |-> [n \in Runtimes |-> Idle + 1]]
NoReport == [there |-> FALSE, at |-> Stale + 1, entries |-> Nobody]

(* The first rollout: users are signed in already, nothing is reported.    *)
Init ==
  /\ demand = Nobody
  /\ seeded = FALSE
  /\ file = NoReport
  /\ sess \in [Runtimes -> 0..MaxSessions]
  /\ \A n \in Runtimes \ Members : sess[n] = 0
  /\ assigned = Members
  /\ listed = Members
  /\ inv = [n \in Runtimes |-> IF n \in ToSet(InitialPool) THEN "ready" ELSE "none"]
  /\ pool = InitialPool
  /\ up = Members
  /\ pc = "idle"
  /\ seen = NoReport
  /\ snap = {} /\ stops = {} /\ starts = {}
  /\ used = [n \in Runtimes |-> Idle + 1]
  /\ promised = {}
-----------------------------------------------------------------------------
(* The gateway's map of demand (createSessionDemand).                      *)

(* touch(): a first request takes its place behind those that asked.       *)
Touched(d, S) ==
  [asked |-> d.asked \cup S,
   older |-> [n \in Runtimes |-> IF n \in S \ d.asked THEN d.asked
                                                      ELSE d.older[n]],
   age |-> [n \in Runtimes |-> IF n \in S THEN 0 ELSE d.age[n]]]

(* release(), and the idle entries that flush() drops.                     *)
Without(d, S) ==
  [asked |-> d.asked \ S,
   older |-> [n \in Runtimes |-> IF n \in S THEN {} ELSE d.older[n] \ S],
   age |-> [n \in Runtimes |-> IF n \in S THEN Idle + 1 ELSE d.age[n]]]

Expired(d) == {n \in d.asked : d.age[n] > Idle}

(* A request, or bytes on a browser's socket, of the owner or of a visitor *)
(* of one of his applications.                                             *)
Use(n) ==
  /\ n \in assigned
  /\ demand' = Touched(demand, {n})
  /\ used' = [used EXCEPT ![n] = 0]
  /\ promised' = promised \ {n}
  /\ UNCHANGED <<seeded, file, sess, assigned, listed, controller, slots, up>>

SignIn(n) ==
  /\ n \in assigned /\ sess[n] < MaxSessions
  /\ sess' = [sess EXCEPT ![n] = @ + 1]
  /\ UNCHANGED <<demand, seeded, file, assigned, listed, controller, slots,
                 up, used, promised>>

(* Mutant: a second logout of the same browser is counted.                  *)
MutantSignOut(n) ==
  /\ sess' = [sess EXCEPT ![n] = @ - 1]
  /\ UNCHANGED <<demand, seeded, file, assigned, listed, controller, slots,
                 up, used, promised>>

(* Logout releases the workspace unless another session of the user is     *)
(* left.                                                                   *)
Released(n) == IF sess[n] = 1 THEN {n} ELSE {}

SignOut(n) ==
  /\ sess[n] > 0
  /\ sess' = [sess EXCEPT ![n] = @ - 1]
  /\ demand' = Without(demand, Released(n))
  /\ used' = [used EXCEPT ![n] = IF sess[n] = 1 THEN Idle + 1 ELSE @]
  /\ UNCHANGED <<seeded, file, assigned, listed, controller, slots, up,
                 promised>>

(* A session that runs out or is revoked releases nothing.                 *)
SessionEnds(n) ==
  /\ sess[n] > 0
  /\ sess' = [sess EXCEPT ![n] = @ - 1]
  /\ UNCHANGED <<demand, seeded, file, assigned, listed, controller, slots,
                 up, used, promised>>

(* The timer.  Those signed in when no file was there yet count as active, *)
(* idle entries go, the rest is written unless the volume refuses it.      *)
Seeds == IF seeded THEN {} ELSE {n \in Runtimes : sess[n] > 0}

Flushed == LET d == Touched(demand, Seeds) IN Without(d, Expired(d))

Flush ==
  /\ demand' = Flushed
  /\ seeded' = TRUE
  /\ file' \in {file, [there |-> TRUE, at |-> 0, entries |-> Flushed]}
  /\ used' = [n \in Runtimes |-> IF n \in Seeds THEN 0 ELSE used[n]]
  /\ UNCHANGED <<sess, assigned, listed, controller, slots, up, promised>>

(* Mutant: a restarted gateway begins with an empty map.                    *)
MutantReloaded == Nobody

(* The map is gone but for what the file says.  What had not been written  *)
(* yet is lost, and no longer counts in the history.                       *)
Reloaded == file.entries

GatewayRestart ==
  /\ demand' = Reloaded
  /\ seeded' = file.there
  /\ used' = file.entries.age
  /\ UNCHANGED <<file, sess, assigned, listed, controller, slots, up, promised>>

(* A new account gets the first published slot nobody holds.  A directory  *)
(* account is signed in with the same request, another signs in later.     *)
Free(taken) == SelectSeq(pool, LAMBDA n : n \notin taken)

SignUp(n) ==
  /\ Free(assigned) # <<>> /\ n = Head(Free(assigned))
  /\ assigned' = assigned \cup {n}
  /\ sess' \in {sess, [sess EXCEPT ![n] = 1]}
  /\ promised' = promised \cup ({n} \cap up)
  /\ UNCHANGED <<demand, seeded, file, listed, controller, slots, up, used>>

(* The other timer.                                                        *)
Project ==
  /\ listed' = assigned
  /\ UNCHANGED <<demand, seeded, file, sess, assigned, controller, slots, up,
                 used, promised>>

Later(a, limit) == IF a > limit THEN a ELSE a + 1

Aged(d) == [d EXCEPT !.age = [n \in Runtimes |-> Later(d.age[n], Idle)]]

OlderReport(r) == [r EXCEPT !.at = Later(r.at, Stale), !.entries = Aged(@)]

(* Time passes.  What is promised to a new account is meant for its owner  *)
(* who signs in at once.                                                   *)
Tick ==
  /\ demand' = Aged(demand)
  /\ file' = OlderReport(file)
  /\ seen' = OlderReport(seen)
  /\ used' = [n \in Runtimes |-> Later(used[n], Idle)]
  /\ promised' = {}
  /\ UNCHANGED <<seeded, sess, assigned, listed, pc, snap, stops, starts,
                 slots, up>>
-----------------------------------------------------------------------------
(* sessions(): one round over the runtimes.  Every read is a step.         *)
ReadDemand ==
  /\ pc = "idle"
  /\ pc' = "list"
  /\ seen' = file
  /\ UNCHANGED <<gateway, slots, snap, stops, starts, up, used, promised>>

(* Pairs that are being prepared are not of its concern.                   *)
Known == {n \in Runtimes : inv[n] = "ready"}

ListRuntimes ==
  /\ pc = "list"
  /\ pc' = "plan"
  /\ snap' = up \cap Known
  /\ UNCHANGED <<gateway, slots, seen, stops, starts, up, used, promised>>

(* warm_spares(): the next slots nobody holds, in the gateway's own order. *)
WarmSpares ==
  LET free == Free(listed)
  IN {n \in Runtimes : \E i \in 1..Len(free) : i <= WarmRunning /\ n = free[i]}

Fresh(report) == report.at <= Stale

Wanted(report) ==
  {n \in report.entries.asked \cap Known : report.entries.age[n] <= Idle}

Least(a, b) == IF a < b THEN a ELSE b

(* Mutant: the queue is not sorted by the time of the request.              *)
MutantIsFront(S, queue, k) == Cardinality(S) = Least(k, Cardinality(queue))

(* The first k of a queue in the order of the requests.                    *)
IsFront(S, queue, k) ==
  /\ Cardinality(S) = Least(k, Cardinality(queue))
  /\ \A n \in S : seen.entries.older[n] \cap queue \subseteq S

KeepWarm == (WarmSpares \cap Known) \ Wanted(seen)

ToStop == IF Fresh(seen) THEN snap \ (Wanted(seen) \cup KeepWarm) ELSE {}

(* session_plan(): those who asked first, then the spares, as far as the   *)
(* room in the cluster and the bound of a round go.                        *)
MayStart(S, units) ==
  LET queue == Wanted(seen) \ snap
      spares == KeepWarm \ snap
      budget == Least(units, MaxStarts)
  IN /\ Fresh(seen)
     /\ IsFront(S \cap queue, queue, budget)
     /\ Cardinality(S \cap spares) =
          Least(budget - Cardinality(S \cap queue), Cardinality(spares))
     /\ S \subseteq queue \cup spares

Plan ==
  /\ pc = "plan"
  /\ pc' = "scale"
  /\ snap' = {}
  /\ stops' = ToStop
  /\ \E units \in 0..MaxUnits, S \in SUBSET Runtimes :
       /\ MayStart(S, units) \/ (~Fresh(seen) /\ S = {})
       /\ starts' = S
  /\ UNCHANGED <<gateway, slots, seen, up, used, promised>>

StopOne(n) ==
  /\ pc = "scale" /\ n \in stops
  /\ stops' = stops \ {n}
  /\ up' = up \ {n}
  /\ UNCHANGED <<gateway, slots, pc, seen, snap, starts, used, promised>>

(* m stands before n in the list of starts.                                *)
GoesFirst(m, n) ==
  \/ m \in seen.entries.older[n]
  \/ m \in seen.entries.asked /\ n \notin seen.entries.asked

StartOne(n) ==
  /\ pc = "scale" /\ stops = {} /\ n \in starts
  /\ \A m \in starts : ~GoesFirst(m, n)
  /\ starts' = starts \ {n}
  /\ up' = up \cup {n}
  /\ UNCHANGED <<gateway, slots, pc, seen, snap, stops, used, promised>>

RoundEnds ==
  /\ pc = "scale" /\ stops = {} /\ starts = {}
  /\ pc' = "recover"
  /\ seen' = NoReport
  /\ UNCHANGED <<gateway, slots, snap, stops, starts, up, used, promised>>

(* A call to the cluster fails: the rest of the round is not done.         *)
RoundFails ==
  /\ pc \in {"list", "plan", "scale"}
  /\ pc' = "recover"
  /\ seen' = NoReport
  /\ snap' = {} /\ stops' = {} /\ starts' = {}
  /\ UNCHANGED <<gateway, slots, up, used, promised>>
-----------------------------------------------------------------------------
(* reconcile(): spare slots, one at a time.                                *)

(* A crash came between the receipt of a slot and its publication.         *)
Unpublished(n) == inv[n] = "ready" /\ n \notin ToSet(pool)

Recover(n) ==
  /\ pc = "recover" /\ Unpublished(n)
  /\ pool' = Append(pool, n)
  /\ UNCHANGED <<gateway, controller, inv, up, used, promised>>

(* Mutant: no look for unpublished receipts.                                *)
MutantRecovered ==
  /\ pc = "recover"
  /\ pc' = "spares"
  /\ UNCHANGED <<gateway, slots, seen, snap, stops, starts, up, used, promised>>

Recovered ==
  /\ pc = "recover" /\ \A n \in Runtimes : ~Unpublished(n)
  /\ pc' = "spares"
  /\ UNCHANGED <<gateway, slots, seen, snap, stops, starts, up, used, promised>>

(* plan(): disabled, stale assignments, no room, or enough spares.         *)
ReconcileWaits ==
  /\ pc = "spares"
  /\ pc' = "idle"
  /\ UNCHANGED <<gateway, slots, seen, snap, stops, starts, up, used, promised>>

Pending == {n \in Runtimes : inv[n] = "preparing"}

Resume ==
  /\ pc = "spares" /\ Pending # {}
  /\ pc' = "prepare"
  /\ UNCHANGED <<gateway, slots, seen, snap, stops, starts, up, used, promised>>

Provision(n) ==
  /\ pc = "spares" /\ Pending = {}
  /\ Cardinality(Known \ listed) < WarmSlots
  /\ inv[n] = "none"
  /\ inv' = [inv EXCEPT ![n] = "preparing"]
  /\ pc' = "prepare"
  /\ UNCHANGED <<gateway, pool, seen, snap, stops, starts, up, used, promised>>

(* Worker.prepare_and_qualify(): the pair runs until its receipt.          *)
Create(n) ==
  /\ pc = "prepare" /\ n \in Pending \ up
  /\ up' = up \cup {n}
  /\ UNCHANGED <<gateway, slots, controller, used, promised>>

Qualify(n) ==
  /\ pc = "prepare" /\ n \in Pending \cap up
  /\ inv' = [inv EXCEPT ![n] = "ready"]
  /\ pc' = "publish"
  /\ UNCHANGED <<gateway, pool, seen, snap, stops, starts, up, used, promised>>

PrepareFails ==
  /\ pc = "prepare"
  /\ pc' = "idle"
  /\ UNCHANGED <<gateway, slots, seen, snap, stops, starts, up, used, promised>>

Publish(n) ==
  /\ pc = "publish" /\ Unpublished(n)
  /\ pool' = Append(pool, n)
  /\ pc' = "idle"
  /\ UNCHANGED <<gateway, inv, seen, snap, stops, starts, up, used, promised>>

ControllerRestart ==
  /\ pc # "idle"
  /\ pc' = "idle"
  /\ seen' = NoReport
  /\ snap' = {} /\ stops' = {} /\ starts' = {}
  /\ UNCHANGED <<gateway, slots, up, used, promised>>
-----------------------------------------------------------------------------
GatewayStep ==
  \/ \E n \in Runtimes : \/ Use(n) \/ SignIn(n) \/ SignOut(n)
                         \/ SessionEnds(n) \/ SignUp(n)
  \/ Flush \/ GatewayRestart \/ Project

ControllerStep ==
  \/ ReadDemand \/ ListRuntimes \/ Plan \/ RoundEnds \/ RoundFails
  \/ Recovered \/ ReconcileWaits \/ Resume \/ PrepareFails
  \/ ControllerRestart
  \/ \E n \in Runtimes : \/ StopOne(n) \/ StartOne(n) \/ Recover(n)
                         \/ Provision(n) \/ Create(n) \/ Qualify(n)
                         \/ Publish(n)

Next == GatewayStep \/ ControllerStep \/ Tick

Spec == Init /\ [][Next]_vars

-----------------------------------------------------------------------------
(* A round stops a runtime only if nobody has used it for the idle time,   *)
(* its owner has signed out, or he has come back after the report was      *)
(* written that the round relies on, which is not stale (session_plan,     *)
(* "never stops a user's runtime").  It never stops a pair that is being   *)
(* prepared.                                                               *)
MayStop(n) ==
  /\ inv[n] # "preparing"
  /\ used[n] > Idle \/ (used[n] <= seen.at /\ seen.at <= Stale)

StopsOnlyIdle == [][\A n \in stops' \ stops : MayStop(n)]_vars

(* First come, first served: a runtime is started for its user only when   *)
(* none is left standing whose user has asked before him, as the report    *)
(* said and as the gateway still has it.                                   *)
Overtaken(m, n) ==
  /\ m \in Wanted(seen) /\ m \notin up
  /\ m \in seen.entries.older[n]
  /\ n \in demand.asked /\ m \in demand.older[n]

FirstComeFirstServed ==
  [][\A n \in starts \ starts' : n \in up' => \A m \in Runtimes : ~Overtaken(m, n)]_vars

(* When the controller decides whether there are spares enough, every slot *)
(* it counts is one that a new account can get: a crash between the        *)
(* receipt of a slot and its publication is made up for first.             *)
CountedIsPublished ==
  pc \in {"spares", "prepare"} => Known \subseteq ToSet(pool)

(* "a new sign-in never waits for a pod start": the spare that ran when an *)
(* account was created on it still runs when its owner comes at once.      *)
NewSignInNeverWaits ==
  [][\A n \in promised : used'[n] = 0 /\ used[n] # 0 => n \in up]_vars
=============================================================================
