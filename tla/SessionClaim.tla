---------------------------- MODULE SessionClaim ----------------------------
(***************************************************************************)
(* What the native SDK path promises to the admission of tasks, whatever   *)
(* fails: a session's process is launched at most once, only while its     *)
(* task claims the admission slot, and the claim is given up only when the *)
(* process can no longer run.  A claim may come back without a process     *)
(* (a doubt about a stopped session), and a restart of the broker may move *)
(* the claims of several tasks at once.                                    *)
(***************************************************************************)
CONSTANT Tasks

VARIABLES
  claimed,    \* the tasks that keep others from being admitted
  mayRun,     \* those whose process runs, or may yet be run by a start
  launched    \* those whose one launch has been submitted

vars == <<claimed, mayRun, launched>>

Init == claimed = {} /\ mayRun = {} /\ launched = {}

Same(S, t) == t \in S' <=> t \in S

Idle(t) == Same(claimed, t) /\ Same(mayRun, t) /\ Same(launched, t)

Claim(t) ==
  /\ t \notin claimed /\ t \in claimed'
  /\ t \notin mayRun /\ t \notin mayRun'
  /\ Same(launched, t)

Release(t) ==
  /\ t \in claimed /\ t \notin claimed'
  /\ t \notin mayRun /\ t \notin mayRun'
  /\ Same(launched, t)

Launch(t) ==
  /\ t \in claimed /\ t \in claimed'
  /\ t \notin launched /\ t \in launched'
  /\ t \notin mayRun /\ t \in mayRun'

Exit(t) ==
  /\ t \in mayRun /\ t \notin mayRun'
  /\ t \in claimed' => t \in claimed
  /\ Same(launched, t)

Next ==
  /\ claimed' \subseteq Tasks /\ mayRun' \subseteq Tasks /\ launched' \subseteq Tasks
  /\ \A t \in Tasks : Idle(t) \/ Claim(t) \/ Release(t) \/ Launch(t) \/ Exit(t)

Spec == Init /\ [][Next]_vars
=============================================================================
