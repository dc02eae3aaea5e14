------------------------------- MODULE Copies -------------------------------
(***************************************************************************)
(* The two tools that copy into places others read.                        *)
(*   - container/promote_packages.py makes reviewed artifacts visible in   *)
(*     the approved tree, from an incoming tree that anybody may write.    *)
(*   - scripts/reconcile_workspace.py puts a stopped local workspace back  *)
(*     into the central mount, where users may write meanwhile, and keeps  *)
(*     what it overwrites.                                                 *)
(***************************************************************************)
EXTENDS FiniteSets

CONSTANTS
  Jobs,        \* promotions, each with a manifest of its own
  Artifacts,
  Files,
  Contents,    \* what a file may hold
  NoCopy       \* no file

ASSUME NoCopyAssumption == NoCopy \notin Contents

VARIABLES
  manifest,    \* each promotion's approval: a digest for each artifact
  promotion,   \* where the promotion is
  verified,    \* artifacts it has copied and verified
  approved,    \* the approved tree
  first,       \* what was visible first, for each artifact
  local,       \* the local workspace
  central,     \* the mounted workspace
  place,       \* the file the reconciliation is at and the step, or idle
  old,         \* what it read of the central file
  finished,    \* files it is through with
  recovery,    \* contents preserved in its recovery directories
  lost,        \* central contents it replaced that it could have seen
  unseen       \* contents written since it looked for the last time

copyVars == <<manifest, promotion, verified, approved, first, local, central,
              place, old, finished, recovery, lost, unseen>>
promotionVars == <<manifest, promotion, verified, approved, first>>
reconcileVars == <<local, central, place, old, finished, recovery, lost,
                   unseen>>

Maybe == Contents \cup {NoCopy}
NoFile == <<"idle">>
Steps == {"copy", "compare", "look", "replace", "verify"}

CopiesTypeOK ==
  /\ manifest \in [Jobs -> [Artifacts -> Contents]]
  /\ promotion \in [Jobs -> {"staging", "linking", "done", "failed"}]
  /\ verified \in [Jobs -> SUBSET Artifacts]
  /\ approved \in [Artifacts -> Maybe] /\ first \in [Artifacts -> Maybe]
  /\ local \in [Files -> Contents] /\ central \in [Files -> Maybe]
  /\ place \in {NoFile} \cup (Steps \X Files)
  /\ old \in Maybe /\ finished \subseteq Files
  /\ recovery \in [Files -> SUBSET Contents]
  /\ lost \in [Files -> SUBSET Contents] /\ unseen \in [Files -> SUBSET Contents]

PromotionInit ==
  /\ manifest \in [Jobs -> [Artifacts -> Contents]]
  /\ promotion = [j \in Jobs |-> "staging"] /\ verified = [j \in Jobs |-> {}]
  /\ approved = [a \in Artifacts |-> NoCopy] /\ first = approved

ReconcileInit ==
  /\ local \in [Files -> Contents] /\ central \in [Files -> Maybe]
  /\ place = NoFile /\ old = NoCopy /\ finished = {}
  /\ recovery = [f \in Files |-> {}] /\ lost = recovery /\ unseen = recovery

CopiesInit == PromotionInit /\ ReconcileInit

(* A row is copied out of the incoming tree, whatever is there by now, and *)
(* the copy must have the approved digest.  All rows are staged first.     *)
Stage(j, a) ==
  /\ promotion[j] = "staging" /\ a \notin verified[j]
  /\ \/ /\ verified' = [verified EXCEPT ![j] = @ \cup {a}]
        /\ promotion' = IF verified'[j] = Artifacts
                         THEN [promotion EXCEPT ![j] = "linking"] ELSE promotion
     \/ promotion' = [promotion EXCEPT ![j] = "failed"] /\ UNCHANGED verified
  /\ UNCHANGED <<manifest, approved, first, reconcileVars>>

Shows(a, content) ==
  /\ approved' = [approved EXCEPT ![a] = content]
  /\ first' = IF first[a] = NoCopy THEN [first EXCEPT ![a] = content] ELSE first

Linked(j, a) ==
  /\ verified' = [verified EXCEPT ![j] = @ \ {a}]
  /\ promotion' = IF verified'[j] = {} THEN [promotion EXCEPT ![j] = "done"] ELSE promotion

(* Mutant: the new file is renamed into place.                             *)
MutantLink(j, a) ==
  /\ promotion[j] = "linking" /\ a \in verified[j]
  /\ Shows(a, manifest[j][a]) /\ Linked(j, a)
  /\ UNCHANGED <<manifest, reconcileVars>>

(* Linked under a name that must not exist; where it does it must be the   *)
(* same file, or the job stops with the rows before it visible.            *)
Link(j, a) ==
  /\ promotion[j] = "linking" /\ a \in verified[j]
  /\ \/ approved[a] = NoCopy /\ Shows(a, manifest[j][a]) /\ Linked(j, a)
     \/ approved[a] = manifest[j][a] /\ Linked(j, a) /\ UNCHANGED <<approved, first>>
     \/ /\ approved[a] \notin {NoCopy, manifest[j][a]}
        /\ promotion' = [promotion EXCEPT ![j] = "failed"]
        /\ UNCHANGED <<verified, approved, first>>
  /\ UNCHANGED <<manifest, reconcileVars>>

(* The job dies and is run again from its first row.                       *)
PromotionRestart(j) ==
  /\ promotion[j] # "done"
  /\ promotion' = [promotion EXCEPT ![j] = "staging"]
  /\ verified' = [verified EXCEPT ![j] = {}]
  /\ UNCHANGED <<manifest, approved, first, reconcileVars>>

-----------------------------------------------------------------------------
UserWrites(f, content) ==
  /\ central[f] # content /\ central' = [central EXCEPT ![f] = content]
  /\ unseen' = IF place = <<"replace", f>>
               THEN [unseen EXCEPT ![f] = @ \cup {content}] ELSE unseen
  /\ UNCHANGED <<promotionVars, local, place, old, finished, recovery, lost>>

(* Both digests; the same content needs no copy.                           *)
Compare(f) ==
  /\ place = NoFile /\ f \notin finished
  /\ old' = central[f]
  /\ place' = CASE central[f] = local[f] -> <<"verify", f>>
             [] central[f] = NoCopy -> <<"look", f>>
             [] OTHER -> <<"copy", f>>
  /\ unseen' = [unseen EXCEPT ![f] = {}]
  /\ UNCHANGED <<promotionVars, local, central, finished, recovery, lost>>

Stops == place' = NoFile /\ old' = NoCopy /\ finished' = {}

Preserve(f) ==
  /\ place = <<"copy", f>> /\ central[f] # NoCopy
  /\ recovery' = [recovery EXCEPT ![f] = @ \cup {central[f]}]
  /\ \/ central[f] = old /\ place' = <<"compare", f>> /\ UNCHANGED <<old, finished>>
     \/ central[f] # old /\ Stops
  /\ UNCHANGED <<promotionVars, local, central, lost, unseen>>

StillOld(f, step, next) ==
  /\ place = <<step, f>>
  /\ \/ central[f] = old /\ place' = <<next, f>> /\ UNCHANGED <<old, finished>>
     \/ central[f] # old /\ Stops
  /\ UNCHANGED <<promotionVars, local, central, recovery, lost, unseen>>

ComparePreserved(f) == StillOld(f, "compare", "look")

Look(f) == StillOld(f, "look", "replace")

(* The verified copy replaces whatever is there now.                       *)
Replace(f) ==
  /\ place = <<"replace", f>> /\ place' = <<"verify", f>>
  /\ central' = [central EXCEPT ![f] = local[f]]
  /\ lost' = [lost EXCEPT ![f] =
                @ \cup ({central[f]} \ ({NoCopy, local[f]} \cup unseen[f]))]
  /\ UNCHANGED <<promotionVars, local, old, finished, recovery, unseen>>

VerifyCopy(f) ==
  /\ place = <<"verify", f>>
  /\ \/ /\ central[f] = local[f]
        /\ place' = NoFile /\ old' = NoCopy /\ finished' = finished \cup {f}
     \/ central[f] # local[f] /\ Stops
  /\ UNCHANGED <<promotionVars, local, central, recovery, lost, unseen>>

(* It dies, and is run again with a recovery directory of its own.         *)
ReconcileRestart ==
  /\ Stops
  /\ UNCHANGED <<promotionVars, local, central, recovery, lost, unseen>>

PromotionNext ==
  \E j \in Jobs : PromotionRestart(j) \/ \E a \in Artifacts : Stage(j, a) \/ Link(j, a)

ReconcileNext ==
  \/ \E f \in Files :
       \/ Compare(f) \/ Preserve(f) \/ ComparePreserved(f) \/ Look(f) \/ Replace(f)
       \/ VerifyCopy(f) \/ \E content \in Contents : UserWrites(f, content)
  \/ ReconcileRestart

CopiesNext == PromotionNext \/ ReconcileNext

CopiesSpec == CopiesInit /\ [][CopiesNext]_copyVars

-----------------------------------------------------------------------------
(* An approved artifact is one that a manifest approves and never changes  *)
(* once it is visible, though jobs die half way, overlap and disagree; and *)
(* whatever the reconciliation replaced is in a recovery directory, unless *)
(* it was written after the last look.                                     *)
NothingOverwritten ==
  /\ approved = first
  /\ \A a \in Artifacts : approved[a] # NoCopy =>
       \E j \in Jobs : approved[a] = manifest[j][a]
  /\ \A f \in Files : lost[f] \subseteq recovery[f]
=============================================================================
