------------------------------ MODULE Rollout ------------------------------
(***************************************************************************)
(* Five operator tools change one object, the gateway's Deployment, with   *)
(* no lock between them:                                                   *)
(*   "sources"    src/scripts/rollout_dsh_sources.py                       *)
(*   "credential" src/scripts/rollout_credential_gateway.py                *)
(*   "packages"   src/scripts/deploy_self_service_packages.py              *)
(*   "services"   src/scripts/deploy_app_supervision.py                    *)
(*   "capacity"   src/scripts/deploy_capacity_controller.py                *)
(* Each reads the Deployment, prepares for minutes, patches it, waits for  *)
(* the new pod and, if that fails, may undo its patch.  A patch with a     *)
(* `test` operation is refused by the API server when the object is no     *)
(* longer what the tool read; "sources" and "services" have no such test.  *)
(*                                                                         *)
(* A Deployment is the set of tools whose files its source holds and the   *)
(* set of tools whose volumes and variables it mounts.  Two sources are    *)
(* equal when these sets are, as ConfigMap names are digests of the data.  *)
(***************************************************************************)
EXTENDS Naturals, FiniteSets

CONSTANTS
  Tools,   \* the tools an operator may run
  AtOnce   \* how many run at one time: a bound of the model

Kinds    == {"sources", "credential", "packages", "services", "capacity"}
Additive == Kinds \ {"sources"}

ASSUME RolloutConstants == Tools \subseteq Kinds /\ AtOnce \in Nat

VARIABLES
  spec,     \* the live Deployment
  step,     \* where each tool is
  seen,     \* the Deployment it read first
  observed  \* the Deployment it read before undoing

rolloutVars == <<spec, step, seen, observed>>

Deployment == [source: SUBSET Kinds, mounts: SUBSET Kinds]

RolloutTypeOK ==
  /\ spec \in Deployment
  /\ step \in [Tools -> {"idle", "read", "ready", "patched", "undoing", "restoring"}]
  /\ seen \in [Tools -> Deployment]
  /\ observed \in [Tools -> Deployment]

Bare == [source |-> {}, mounts |-> {}]

RolloutInit ==
  /\ spec = Bare
  /\ step = [t \in Tools |-> "idle"]
  /\ seen = [t \in Tools |-> Bare]
  /\ observed = seen

Moves(t, to) == /\ step' = [step EXCEPT ![t] = to]
                /\ UNCHANGED <<seen, observed>>

\* The tool exits and forgets what it read; an operator may run it again.
Exits(t) == /\ step' = [step EXCEPT ![t] = "idle"]
            /\ seen' = [seen EXCEPT ![t] = Bare]
            /\ observed' = [observed EXCEPT ![t] = Bare]

\* The bundle: "credential" and "packages" overlay the live files, "capacity"
\* and "sources" bring the repository's.
Bundled(t, read) == CASE t \in {"credential", "packages"} -> read.source \cup {t}
                      [] t \in {"capacity", "sources"}    -> {t}
                      [] t = "services"                   -> read.source

\* Volumes and variables are added to those that were read.
Mounted(t, read) == IF t \in Additive THEN read.mounts \cup {t} ELSE read.mounts

\* What the tool puts in place of what it read.
Wanted(t, read) == [source |-> Bundled(t, read), mounts |-> Mounted(t, read)]

\* A tool that finds itself installed stops before it changes anything;
\* "services" adds again what it needs.
Installed(t, d) == CASE t = "services" -> FALSE
                     [] t = "sources"  -> d.source = {t}
                     [] OTHER          -> t \in d.mounts

Reads(t) ==
  /\ step[t] = "idle"
  /\ Cardinality({u \in Tools : step[u] # "idle"}) < AtOnce
  /\ ~Installed(t, spec)
  /\ seen' = [seen EXCEPT ![t] = spec]
  /\ step' = [step EXCEPT ![t] = "read"]
  /\ UNCHANGED <<spec, observed>>

\* A dry run ends before the patch, and so does a tool that does not find
\* what it needs; "packages" reads the Deployment once more.
Prepares(t) ==
  /\ step[t] = "read"
  /\ \/ Exits(t)
     \/ (t = "packages" => spec = seen[t]) /\ Moves(t, "ready")
  /\ UNCHANGED spec

\* Mutant: the patch has no test.
MutantTest(value) == TRUE

\* The `test` operation at the head of a JSON patch.
Test(value) == spec = value

\* A strategic merge of one volume, whatever the others are by now.
SwitchSource(source) == spec' = [spec EXCEPT !.source = source]

PatchRefused(t) == IF t = "packages" THEN Moves(t, "undoing") ELSE Exits(t)

\* The patch.  kubectl may be cut off after the server applied it, and the
\* tool then takes it for refused: "packages" looks again, the rest end.
Patches(t) ==
  /\ step[t] = "ready"
  /\ \/ /\ CASE t = "sources"  -> SwitchSource({t})
             [] t = "services" -> spec' = Wanted(t, seen[t])
             [] OTHER          -> Test(seen[t]) /\ spec' = Wanted(t, seen[t])
        /\ Moves(t, "patched") \/ PatchRefused(t)
     \/ PatchRefused(t) /\ UNCHANGED spec

\* The new pod is ready and answers; or it does not, or the tool is cut off.
Accepted(t) ==
  /\ step[t] = "patched" /\ Exits(t)
  /\ UNCHANGED spec

Rejected(t) ==
  /\ step[t] = "patched"
  /\ t \in {"sources", "credential", "packages"}
  /\ Moves(t, "undoing")
  /\ UNCHANGED spec

\* "sources" switches back to what it had read, again without a test.
SwitchesBack(t) ==
  /\ t = "sources" /\ step[t] = "undoing"
  /\ SwitchSource(seen[t].source)
  /\ Exits(t)

\* The others look first: "credential" withholds the undo unless the source
\* is its own, "packages" unless the whole spec is.
Observes(t) ==
  /\ t \in {"credential", "packages"} /\ step[t] = "undoing"
  /\ LET mine == Wanted(t, seen[t])
     IN  IF (IF t = "credential" THEN spec.source = mine.source ELSE spec = mine)
         THEN /\ observed' = [observed EXCEPT ![t] = spec]
              /\ step' = [step EXCEPT ![t] = "restoring"]
              /\ UNCHANGED seen
         ELSE Exits(t)
  /\ UNCHANGED spec

Restores(t) ==
  /\ step[t] = "restoring" /\ Exits(t)
  /\ \/ /\ Test(observed[t])
        /\ spec' = IF t = "packages" THEN seen[t]
                   ELSE [source |-> seen[t].source,
                         mounts |-> observed[t].mounts \ {t}]
     \/ UNCHANGED spec

RolloutNext == \E t \in Tools :
  \/ Reads(t) \/ Prepares(t) \/ Patches(t) \/ Accepted(t) \/ Rejected(t)
  \/ SwitchesBack(t) \/ Observes(t) \/ Restores(t)

RolloutSpec == RolloutInit /\ [][RolloutNext]_rolloutVars

Holds(d) == d.source \cup d.mounts

\* However the tools interleave, and whatever they took for refused, one that
\* tests what it patches never takes away the work of another tool that it
\* had not read before, and its undo never brings back what another removed.
TestedPatchKeepsOthers ==
  [][\A t \in Tools \ {"sources", "services"} : step'[t] # step[t] =>
       /\ Holds(spec) \ Holds(spec') \subseteq Holds(seen[t]) \cup {t}
       /\ Holds(spec') \ Holds(spec) \subseteq {t}]_rolloutVars
=============================================================================
