---------------------------- MODULE ClientLayer ----------------------------
(***************************************************************************)
(* Launchers for the clients of a workspace that is not to be restarted,   *)
(* installed inside it (src/scripts/install_live_client_layer.py): a       *)
(* release, the link `current` that leads to it, and a block in the shell  *)
(* profile of the workspace's owner.  At a start of DSH the boot package   *)
(* (container/reactivate-live-clients.py) puts the block back.             *)
(*                                                                         *)
(* Nothing locks the profile.  The owner edits it at any time, in place or *)
(* by putting a new file there; operators run the tool at once; it may be  *)
(* killed anywhere, and a new pod kills every run of it.                   *)
(*                                                                         *)
(* The profile is the sequence of its lines: the owner's, the block that   *)
(* the tool appends, and the piece that a short write leaves of one.  What *)
(* is too short to be recognised is as a line of the owner's.              *)
(***************************************************************************)
EXTENDS Naturals, FiniteSets, SequencesExt

CONSTANTS
  Lines,       \* what an owner writes
  Releases,    \* bundles of launchers
  BootRelease, \* the one that the boot package carries
  NoRelease,
  Processes,   \* runs of the tool at one time, a bound of the model
  MaxRecords,  \* installations that are completed, a bound of the model
  MaxEdits     \* the owner's edits, likewise

Block == "block"
Piece == "piece"
Added == {Block, Piece}

ASSUME ClientConstants ==
  /\ Lines \cap Added = {}
  /\ BootRelease \in Releases /\ NoRelease \notin Releases
  /\ MaxRecords \in Nat /\ MaxEdits \in Nat

VARIABLES
  bashrc,    \* the profile
  edits,     \* how often the owner has edited it
  unpacked,  \* releases that are complete under releases/
  pointer,   \* the link `current`
  records,   \* what each completed.json under recovery/ says
  doing,     \* where each run of the tool is
  holds,     \* what it has in its hands, and will record
  sameFile   \* the file it read first is still the one of that name

clientVars ==
  <<bashrc, edits, unpacked, pointer, records, doing, holds, sameFile>>

Texts == Seq(Lines \cup Added)
Pointers == Releases \cup {NoRelease}
Installation == [release : Releases, before : Texts, after : Texts,
                 previous : Pointers]

NoInstallation == [release |-> BootRelease, before |-> << >>, after |-> << >>,
                   previous |-> NoRelease]

ClientTypeOK ==
  /\ bashrc \in Texts /\ edits \in 0..MaxEdits
  /\ unpacked \subseteq Releases /\ pointer \in Pointers
  /\ records \subseteq Installation
  /\ doing \in [Processes -> {"idle", "checked", "read", "saved", "opened",
                           "written", "linking", "undoing", "relinking"}]
  /\ holds \in [Processes -> Installation]
  /\ sameFile \in [Processes -> BOOLEAN]

ClientInit ==
  /\ bashrc = << >> /\ edits = 0
  /\ unpacked = {} /\ pointer = NoRelease /\ records = {}
  /\ doing = [p \in Processes |-> "idle"]
  /\ holds = [p \in Processes |-> NoInstallation]
  /\ sameFile = [p \in Processes |-> FALSE]

StepsTo(p, to) == doing' = [doing EXCEPT ![p] = to]

(* A refusal, an error, or the process killed: what it did stays.  A read  *)
(* during which the file changes is refused, and so is one of a file that  *)
(* is not the owner's own, regular and small.                              *)
Ends(p) ==
  /\ StepsTo(p, "idle")
  /\ holds' = [holds EXCEPT ![p] = NoInstallation]
  /\ sameFile' = [sameFile EXCEPT ![p] = FALSE]

Fails(p) == /\ doing[p] # "idle" /\ Ends(p)
            /\ UNCHANGED <<bashrc, edits, unpacked, pointer, records>>

(* Another block than the release's own is refused.                        *)
Begins(p, release) ==
  /\ Contains(bashrc, Piece) => Contains(bashrc, Block)
  /\ StepsTo(p, "read")
  /\ holds' = [holds EXCEPT ![p] = [NoInstallation EXCEPT !.release = release,
                                                          !.before = bashrc]]
  /\ sameFile' = [sameFile EXCEPT ![p] = TRUE]
  /\ UNCHANGED <<bashrc, edits, unpacked, pointer, records>>

Installs(p, release) ==
  doing[p] = "idle" /\ Cardinality(records) < MaxRecords /\ Begins(p, release)

(* At a start of DSH: a block that is there is left alone, and so is a     *)
(* layer that points elsewhere or lacks a file.                            *)
Reactivates(p) ==
  /\ doing[p] = "idle" /\ Cardinality(records) < MaxRecords
  /\ pointer = BootRelease /\ BootRelease \in unpacked
  /\ ~Contains(bashrc, Block)
  /\ StepsTo(p, "checked")
  /\ holds' = [holds EXCEPT ![p].before = bashrc]
  /\ UNCHANGED <<bashrc, edits, unpacked, pointer, records, sameFile>>

(* It then installs into the profile that it has seen, whatever has become *)
(* of `current`.                                                           *)
PutsBlockBack(p) ==
  doing[p] = "checked" /\ bashrc = holds[p].before /\ Begins(p, BootRelease)

(* Files under a name of their own, renamed once they are complete; a      *)
(* release that is there must be the same.                                 *)
Unpacks(p) ==
  /\ doing[p] = "read" /\ StepsTo(p, "saved")
  /\ unpacked' = unpacked \cup {holds[p].release}
  /\ holds' = [holds EXCEPT ![p].previous = pointer]
  /\ UNCHANGED <<bashrc, edits, pointer, records, sameFile>>

(* The copy of what was read is saved; then the file is read again, and    *)
(* opened to append.  One that takes its name in between is refused.       *)
Compares(p) ==
  /\ doing[p] = "saved"
  /\ bashrc = holds[p].before /\ sameFile[p]
  /\ StepsTo(p, IF Contains(holds[p].before, Block) THEN "written"
                ELSE "opened")
  /\ UNCHANGED <<bashrc, edits, unpacked, pointer, records, holds, sameFile>>

Appended(p, line) == IF sameFile[p] THEN Append(bashrc, line) ELSE bashrc

(* Whatever the owner put there meanwhile, the block comes after it; in a  *)
(* file that was replaced since, nobody sees it.                           *)
AppendsBlock(p) ==
  /\ doing[p] = "opened"
  /\ \/ /\ bashrc' = Appended(p, Block) /\ StepsTo(p, "written")
        /\ UNCHANGED <<holds, sameFile>>
     \/ bashrc' = Appended(p, Piece) /\ Ends(p)
  /\ UNCHANGED <<edits, unpacked, pointer, records>>

(* Mutant: the profile is not looked at after the block was written.       *)
MutantReadsBack(p) ==
  /\ doing[p] = "written" /\ StepsTo(p, "linking")
  /\ holds' = [holds EXCEPT ![p].after = bashrc]
  /\ UNCHANGED <<bashrc, edits, unpacked, pointer, records, sameFile>>

(* It need only begin with what was read: lines that the owner wrote       *)
(* before the block go into `after`.                                       *)
ReadsBack(p) ==
  /\ doing[p] = "written" /\ StepsTo(p, "linking")
  /\ IsPrefix(holds[p].before, bashrc) /\ Contains(bashrc, Block)
  /\ holds' = [holds EXCEPT ![p].after = bashrc]
  /\ UNCHANGED <<bashrc, edits, unpacked, pointer, records, sameFile>>

(* completed.json comes last: a tool killed before that leaves no record.  *)
Links(p) ==
  /\ doing[p] = "linking" /\ Ends(p)
  /\ pointer' = holds[p].release
  /\ records' \in {records, records \cup {holds[p]}}
  /\ UNCHANGED <<bashrc, edits, unpacked>>

-----------------------------------------------------------------------------
(* Nobody has edited the file since, and `current` is still this release's;*)
(* the saved copy is written beside the file, which is read once more.     *)
Undoes(p, record) ==
  /\ doing[p] = "idle" /\ StepsTo(p, "undoing")
  /\ bashrc = record.after /\ pointer = record.release
  /\ holds' = [holds EXCEPT ![p] = record]
  /\ UNCHANGED <<bashrc, edits, unpacked, pointer, records, sameFile>>

(* Another file has taken the name.                                        *)
NoneFresh == [p \in Processes |-> FALSE]

Replaces(p) ==
  /\ doing[p] = "undoing" /\ StepsTo(p, "relinking")
  /\ bashrc' = holds[p].before /\ sameFile' = NoneFresh
  /\ UNCHANGED <<edits, unpacked, pointer, records, holds>>

Relinks(p) ==
  /\ doing[p] = "relinking" /\ Ends(p)
  /\ pointer' = holds[p].previous
  /\ UNCHANGED <<bashrc, edits, unpacked, records>>

-----------------------------------------------------------------------------
(* The owner adds a line or begins anew, in place or with an editor that   *)
(* puts a new file there.                                                  *)
OwnerEdits ==
  /\ edits < MaxEdits /\ edits' = edits + 1
  /\ \E line \in Lines : bashrc' \in {Append(bashrc, line), <<line>>}
  /\ sameFile' \in {sameFile, NoneFresh}
  /\ UNCHANGED <<unpacked, pointer, records, doing, holds>>

(* A container comes up again, with its profile or with the image's.       *)
PodReplaced ==
  /\ bashrc' \in {<< >>, bashrc}
  /\ doing' = [p \in Processes |-> "idle"]
  /\ holds' = [p \in Processes |-> NoInstallation]
  /\ sameFile' = NoneFresh
  /\ UNCHANGED <<edits, unpacked, pointer, records>>

ClientNext ==
  \/ \E p \in Processes :
       \/ \E release \in Releases : Installs(p, release)
       \/ Reactivates(p) \/ PutsBlockBack(p) \/ Unpacks(p) \/ Compares(p)
       \/ AppendsBlock(p) \/ ReadsBack(p) \/ Links(p) \/ Fails(p)
       \/ \E record \in records : Undoes(p, record)
       \/ Replaces(p) \/ Relinks(p)
  \/ OwnerEdits \/ PodReplaced

ClientSpec == ClientInit /\ [][ClientNext]_clientVars

-----------------------------------------------------------------------------
(* However the tools, the owner and new pods interleave, `current` leads   *)
(* to a release that has all of its files or nowhere, and so does what any *)
(* undo will put back; and what an undo restores is what the profile began *)
(* with when the block came into it, so that nothing which stood there     *)
(* before the installation is lost.                                        *)
LayerIsRecoverable ==
  /\ pointer \in unpacked \cup {NoRelease}
  /\ \A r \in records : /\ r.release \in unpacked
                        /\ r.previous \in unpacked \cup {NoRelease}
                        /\ IsPrefix(r.before, r.after)
                        /\ Contains(r.after, Block)
=============================================================================
