----------------------------- MODULE ContextLane -----------------------------
(***************************************************************************)
(* The forwarder in front of the inference engine                          *)
(* (scripts/context_forwarder.py, scripts/long_context_callbacks.py).      *)
(* A long request takes the one long-context lane, or waits for it in a    *)
(* bounded queue, opens a cache reference of its own, prepares its prefix  *)
(* in bounded warm steps that yield to ordinary requests, and is then      *)
(* dispatched.  An ordinary request counts in the interactive lane for as  *)
(* long as its stream is open.  A client may leave, and the application    *)
(* may stop a request, at any await.                                       *)
(*                                                                         *)
(* One task of the event loop runs at a time, so what the code does        *)
(* between two awaits is one step.  A slot is used again for another       *)
(* request when the one before has been cleaned up.                        *)
(***************************************************************************)
EXTENDS Integers, Sequences, FiniteSets, SequencesExt

CONSTANTS
  Long,         \* slots for long requests
  Ordinary,     \* slots for ordinary ones
  MaxWaiters,   \* max_waiters of the final route
  MaxSteps      \* bound on the warm steps of one preparation

ASSUME LaneConstants ==
  /\ Long \cap Ordinary = {}
  /\ MaxWaiters \in Nat
  /\ MaxSteps \in Nat \ {0}

Requests == Long \cup Ordinary

VARIABLES
  at,        \* the handler: where it, or the response it handed off, stands
  prep,      \* the preparation it awaits (prepare() and dispatch())
  left,      \* warm steps the preparation may still need
  step,      \* a warm step is outstanding in its thread
  upstream,  \* the engine may be working on the dispatched request
  ref,       \* the cache reference is owned and its close is not confirmed
  ordinary,   \* ordinary_owned: the request counts in the interactive lane
  leases,    \* LongContextGuard.leases: each holds the lock file
  waiters,   \* LongContextGuard.waiters
  active,    \* InteractiveLane.active
  paused     \* the request has yielded to the foreground for the full 8 s

vars == <<at, prep, left, step, upstream, ref, ordinary, leases, waiters,
          active, paused>>

Positions == {"away", "count", "serve", "drain", "close", "reference", "held"}
Preparing == {"queued", "open", "turn", "step", "draining", "dispatch"}
Preparations == {"none", "ready", "failed"} \cup Preparing

TypeOK ==
  /\ at \in [Requests -> Positions]
  /\ prep \in [Requests -> Preparations]
  /\ left \in [Requests -> 0..MaxSteps]
  /\ step \in [Requests -> BOOLEAN]
  /\ upstream \in [Requests -> BOOLEAN]
  /\ ref \in [Requests -> BOOLEAN]
  /\ ordinary \in [Requests -> BOOLEAN]
  /\ leases \subseteq Long
  /\ waiters \in Seq(Long) /\ Len(waiters) <= MaxWaiters
  /\ active \in Nat
  /\ paused \in [Requests -> BOOLEAN]

Init ==
  /\ at = [r \in Requests |-> "away"]
  /\ prep = [r \in Requests |-> "none"]
  /\ left = [r \in Requests |-> 0]
  /\ step = [r \in Requests |-> FALSE]
  /\ upstream = [r \in Requests |-> FALSE]
  /\ ref = [r \in Requests |-> FALSE]
  /\ ordinary = [r \in Requests |-> FALSE]
  /\ leases = {}
  /\ waiters = <<>>
  /\ active = 0
  /\ paused = [r \in Requests |-> FALSE]

Set(v, r, x) == [v EXCEPT ![r] = x]
-----------------------------------------------------------------------------
(* completion(), up to the try: the request is tokenized in the            *)
(* foreground, and refused or served.                                      *)
Arrive(r) ==
  /\ at[r] = "away"
  /\ at' = Set(at, r, "count")
  /\ active' = active + 1                               \* interactive.enter()
  /\ UNCHANGED <<prep, left, step, upstream, ref, ordinary, leases, waiters,
                 paused>>

Refuse(r) ==
  /\ at[r] = "count"
  /\ at' = Set(at, r, "away")
  /\ active' = active - 1
  /\ UNCHANGED <<prep, left, step, upstream, ref, ordinary, leases, waiters,
                 paused>>

Serve(r) ==
  /\ at[r] = "count"
  /\ at' = Set(at, r, "serve")
  /\ IF r \in Long
     THEN active' = active - 1 /\ UNCHANGED <<prep, upstream, ordinary>>
     ELSE /\ ordinary' = Set(ordinary, r, TRUE)
          /\ prep' = Set(prep, r, "dispatch")
          /\ upstream' = Set(upstream, r, TRUE)
          /\ UNCHANGED active                           \* leaves, enters again
  /\ UNCHANGED <<left, step, ref, leases, waiters, paused>>

-----------------------------------------------------------------------------
(* LongContextGuard.acquire.                                               *)
TakesLane(r) ==
  /\ leases = {}                    \* the lock file is exclusive
  /\ leases' = leases \cup {r}
  /\ prep' = Set(prep, r, "open")
  /\ ref' = Set(ref, r, TRUE)       \* the reference is owned before its open

MutantQueueIsOpen == Len(waiters) <= MaxWaiters

QueueIsOpen == Len(waiters) < MaxWaiters

MutantAcquire(r) ==
  /\ at[r] = "serve" /\ prep[r] = "none" /\ r \in Long
  /\ \/ TakesLane(r) /\ UNCHANGED waiters
     \/ /\ leases # {}
        /\ IF QueueIsOpen
           THEN waiters' = Append(waiters, r) /\ prep' = Set(prep, r, "queued")
           ELSE prep' = Set(prep, r, "failed") /\ UNCHANGED waiters
        /\ UNCHANGED <<leases, ref>>
  /\ UNCHANGED <<at, left, step, upstream, ordinary, active, paused>>

Acquire(r) ==
  /\ at[r] = "serve" /\ prep[r] = "none" /\ r \in Long
  /\ \/ waiters = <<>> /\ TakesLane(r) /\ UNCHANGED waiters
     \/ /\ waiters # <<>> \/ leases # {}
        /\ IF QueueIsOpen
           THEN waiters' = Append(waiters, r) /\ prep' = Set(prep, r, "queued")
           ELSE prep' = Set(prep, r, "failed") /\ UNCHANGED waiters
        /\ UNCHANGED <<leases, ref>>
  /\ UNCHANGED <<at, left, step, upstream, ordinary, active, paused>>

AcquirePoll(r) ==
  /\ prep[r] = "queued" /\ Head(waiters) = r
  /\ TakesLane(r)
  /\ waiters' = Tail(waiters)
  /\ UNCHANGED <<at, left, step, upstream, ordinary, active, paused>>

AcquireTimeout(r) ==
  /\ prep[r] = "queued"
  /\ prep' = Set(prep, r, "failed")
  /\ waiters' = RemoveFirst(waiters, r)
  /\ UNCHANGED <<at, left, step, upstream, ref, ordinary, leases, active, paused>>

-----------------------------------------------------------------------------
(* prepare() and dispatch().                                               *)
Opened(r) ==
  /\ prep[r] = "open"
  /\ prep' = Set(prep, r, "turn")
  /\ left' = Set(left, r, MaxSteps)
  /\ UNCHANGED <<at, step, upstream, ref, ordinary, leases, waiters, active, paused>>

(* wait_turn: the foreground drains first, for at most 8 s.                *)
PauseEnds(r) ==
  /\ prep[r] = "turn" /\ active > 0 /\ ~paused[r]
  /\ paused' = Set(paused, r, TRUE)
  /\ UNCHANGED <<at, prep, left, step, upstream, ref, ordinary, leases, waiters,
                 active>>

MutantHasTurn(r) == active = 0

HasTurn(r) == active = 0 \/ paused[r]

WarmStep(r) ==
  /\ prep[r] = "turn" /\ HasTurn(r)
  /\ prep' = Set(prep, r, "step")
  /\ step' = Set(step, r, TRUE)
  /\ paused' = Set(paused, r, FALSE)
  /\ UNCHANGED <<at, left, upstream, ref, ordinary, leases, waiters, active>>

(* The step answers: more steps are needed, or the prefix is cached.       *)
WarmStepEnds(r) ==
  /\ prep[r] = "step"
  /\ step' = Set(step, r, FALSE)
  /\ left' = Set(left, r, left[r] - 1)
  /\ \/ left[r] > 1 /\ prep' = Set(prep, r, "turn") /\ UNCHANGED upstream
     \/ /\ prep' = Set(prep, r, "dispatch")
        /\ upstream' = Set(upstream, r, TRUE)
     \/ prep' = Set(prep, r, "failed") /\ UNCHANGED upstream
  /\ UNCHANGED <<at, ref, ordinary, leases, waiters, active, paused>>

Dispatched(r) ==
  /\ prep[r] = "dispatch"
  /\ prep' = Set(prep, r, "ready")
  /\ UNCHANGED <<at, left, step, upstream, ref, ordinary, leases, waiters, active,
                 paused>>

(* What a cancelled preparation leaves at once: a queued one its place in  *)
(* the queue, and one with a step outstanding nothing before the step has  *)
(* ended (async_warm_prefix).                                              *)
MutantAbandon(r) ==
  /\ prep' = Set(prep, r, "failed")
  /\ waiters' = RemoveFirst(waiters, r)

Abandon(r) ==
  /\ prep' = Set(prep, r, IF step[r] THEN "draining" ELSE "failed")
  /\ waiters' = RemoveFirst(waiters, r)

(* A failed call, and the 3300 s budget of the reference.                  *)
PrepareFails(r) ==
  /\ prep[r] \in {"open", "turn", "step", "dispatch"}
  /\ Abandon(r)
  /\ paused' = Set(paused, r, FALSE)
  /\ UNCHANGED <<at, left, step, upstream, ref, ordinary, leases, active>>

StepDrained(r) ==
  /\ prep[r] = "draining"
  /\ step' = Set(step, r, FALSE)
  /\ prep' = Set(prep, r, "failed")
  /\ UNCHANGED <<at, left, upstream, ref, ordinary, leases, waiters, active, paused>>

-----------------------------------------------------------------------------
(* The end of a request.                                                   *)

(* perform_cleanup, up to its first await.                                 *)
MutantBeginCleanup(r) ==
  /\ at' = Set(at, r, "close")
  /\ UNCHANGED <<active, ordinary>>

BeginCleanup(r) ==
  /\ at' = Set(at, r, "close")
  /\ IF ordinary[r]
     THEN active' = active - 1 /\ ordinary' = Set(ordinary, r, FALSE)
     ELSE UNCHANGED <<active, ordinary>>

(* The client leaves, or the application stops the request: the generator  *)
(* or watch_client cancels the preparation and awaits its end.             *)
Cancel(r) ==
  /\ at[r] = "serve"
  /\ at' = Set(at, r, "drain")
  /\ IF prep[r] \in Preparing
     THEN Abandon(r)
     ELSE UNCHANGED <<prep, waiters>>
  /\ paused' = Set(paused, r, FALSE)
  /\ UNCHANGED <<left, step, upstream, ref, ordinary, leases, active>>

Drained(r) ==
  /\ at[r] = "drain" /\ prep[r] \notin Preparing
  /\ BeginCleanup(r)
  /\ UNCHANGED <<prep, left, step, upstream, ref, leases, waiters, paused>>

PreparationFailed(r) ==
  /\ at[r] = "serve" /\ prep[r] = "failed"
  /\ BeginCleanup(r)
  /\ UNCHANGED <<prep, left, step, upstream, ref, leases, waiters, paused>>

StreamEnds(r) ==
  /\ at[r] = "serve" /\ prep[r] = "ready"
  /\ BeginCleanup(r)
  /\ UNCHANGED <<prep, left, step, upstream, ref, leases, waiters, paused>>

Release(r) == leases' = leases \ {r}

Leaves(r) == at' = Set(at, r, "away") /\ prep' = Set(prep, r, "none")

(* The stream and its client are closed and the request is aborted.        *)
CloseUpstream(r) ==
  /\ at[r] = "close"
  /\ upstream' = Set(upstream, r, FALSE)
  /\ IF ref[r]
     THEN at' = Set(at, r, "reference") /\ UNCHANGED <<prep, leases>>
     ELSE Leaves(r) /\ Release(r)
  /\ UNCHANGED <<left, step, ref, ordinary, waiters, active, paused>>

MutantCloseReference(r) ==
  /\ at[r] = "reference"
  /\ \/ Leaves(r) /\ ref' = Set(ref, r, FALSE)
     \/ at' = Set(at, r, "held") /\ UNCHANGED <<prep, ref>>
  /\ UNCHANGED <<left, step, upstream, ordinary, leases, waiters, active, paused>>

(* Two attempts to close the reference; the lane stays held if both fail.  *)
CloseReference(r) ==
  /\ at[r] = "reference"
  /\ \/ Leaves(r) /\ Release(r) /\ ref' = Set(ref, r, FALSE)
     \/ at' = Set(at, r, "held") /\ UNCHANGED <<prep, leases, ref>>
  /\ UNCHANGED <<left, step, upstream, ordinary, waiters, active, paused>>

-----------------------------------------------------------------------------
PrepareStep(r) ==
  \/ Acquire(r) \/ AcquirePoll(r) \/ Opened(r) \/ PauseEnds(r) \/ WarmStep(r)
  \/ WarmStepEnds(r) \/ Dispatched(r) \/ StepDrained(r)

HandlerStep(r) ==
  \/ Serve(r) \/ Drained(r) \/ PreparationFailed(r)
  \/ CloseUpstream(r) \/ CloseReference(r)

Next ==
  \/ \E r \in Requests : Arrive(r)
  \/ \E r \in Requests : Refuse(r)
  \/ \E r \in Requests : HandlerStep(r)
  \/ \E r \in Long : PrepareStep(r)
  \/ \E r \in Ordinary : Dispatched(r)
  \/ \E r \in Requests : AcquireTimeout(r)
  \/ \E r \in Requests : PrepareFails(r)
  \/ \E r \in Requests : Cancel(r)
  \/ \E r \in Requests : StreamEnds(r)

(* Tasks of the event loop run, and each of their HTTP calls has a         *)
(* timeout.  The stream of a long request ends with the budget of its      *)
(* reference; an ordinary stream may go on for ever, and so may a client   *)
(* that comes back.                                                        *)
Fairness ==
  /\ \A r \in Requests : WF_vars(HandlerStep(r) \/ Refuse(r))
  /\ \A r \in Long : WF_vars(PrepareStep(r)) /\ WF_vars(StreamEnds(r))

Spec == Init /\ [][Next]_vars /\ Fairness
-----------------------------------------------------------------------------
(* Owned work and the lane: a warm step that has not answered, a           *)
(* dispatched request and an open reference belong to the one request that *)
(* holds the lane, however often it was cancelled.  So the engine never    *)
(* works on two long requests, but for a step whose call has failed while  *)
(* the engine still works on it.                                           *)
WorkUnderLane ==
  \A r, s \in Long :
    /\ step[r] \/ upstream[r] \/ ref[r] => r \in leases
    /\ {r, s} \subseteq leases => r = s

(* InteractiveLane.active counts exactly the requests that are tokenized   *)
(* and the ordinary ones that are served, and the queue holds just the     *)
(* preparations that wait, each once: no way a request can end leaves it   *)
(* counted or queued, or is subtracted twice.                              *)
CountsAreExact ==
  /\ active = Cardinality({r \in Requests : at[r] = "count" \/ ordinary[r]})
  /\ \A r \in Long : prep[r] = "queued" <=> \E i \in 1..Len(waiters) : waiters[i] = r
  /\ \A i, j \in 1..Len(waiters) : waiters[i] = waiters[j] => i = j

(* First come, first served: the lane goes to the head of the queue, and   *)
(* to a newcomer only when nobody waits.                                   *)
NoOvertaking ==
  [][waiters # <<>> => leases' \subseteq leases \cup {Head(waiters)}]_vars

(* The lane is given back however the request ends, unless its reference   *)
(* could not be closed.                                                    *)
LaneReturns ==
  \A r \in Long : r \in leases ~> r \notin leases \/ at[r] = "held"

(* Foreground traffic that never ends does not starve a preparation.       *)
WarmingProceeds == \A r \in Long : prep[r] = "turn" ~> prep[r] # "turn"
=============================================================================
