----------------------------- MODULE ClientBoot -----------------------------
(***************************************************************************)
(* Registering the boot package in the web profile of a workspace          *)
(* (src/scripts/install_live_client_autostart.py), and taking the          *)
(* registration back.  As in ClientLayer nothing locks the profile, which  *)
(* the owner edits and DSH itself rewrites; here a new pod keeps it.  What *)
(* is too short to be recognised of a registration is a comment, and as an *)
(* entry of the owner's.                                                   *)
(***************************************************************************)
EXTENDS Naturals, FiniteSets, SequencesExt

CONSTANTS
  Entries,       \* what an owner writes into the profile
  Registrars,    \* runs of the tool at one time, a bound of the model
  MaxReceipts,   \* registrations that are completed, a bound of the model
  MaxRewrites    \* edits of the profile, likewise

Registration == "registration"
Rest == "rest"   \* what a short write leaves of one
Inserted == {Registration, Rest}

ASSUME BootConstants ==
  /\ Entries \cap Inserted = {}
  /\ MaxReceipts \in Nat /\ MaxRewrites \in Nat

VARIABLES
  profile,    \* the profile, entry by entry
  rewrites,   \* how often it was edited
  receipts,   \* what each completed.json under boot-recovery/ says
  does,       \* where each run of the tool is
  hands,      \* what it read, and what it will write
  same        \* the file it read first is still the one of that name

bootVars == <<profile, rewrites, receipts, does, hands, same>>

Profiles == Seq(Entries \cup Inserted)
Receipt == [before : Profiles, after : Profiles]
Nothing == [before |-> << >>, after |-> << >>]

BootTypeOK ==
  /\ profile \in Profiles /\ rewrites \in 0..MaxRewrites
  /\ receipts \subseteq Receipt
  /\ does \in [Registrars -> {"idle", "validated", "opened", "written",
                              "confirmed", "undoing"}]
  /\ hands \in [Registrars -> Receipt]
  /\ same \in [Registrars -> BOOLEAN]

BootInit ==
  /\ profile = << >> /\ rewrites = 0 /\ receipts = {}
  /\ does = [p \in Registrars |-> "idle"]
  /\ hands = [p \in Registrars |-> Nothing]
  /\ same = [p \in Registrars |-> FALSE]

ProceedsTo(p, to) == does' = [does EXCEPT ![p] = to]

(* A refusal, an error, or the process killed: what it did stays.          *)
EndsRun(p) ==
  /\ ProceedsTo(p, "idle")
  /\ hands' = [hands EXCEPT ![p] = Nothing]
  /\ same' = [same EXCEPT ![p] = FALSE]

RunFails(p) == /\ does[p] # "idle" /\ EndsRun(p)
              /\ UNCHANGED <<profile, rewrites, receipts>>

(* A registration that is there is left alone, another one is refused, and *)
(* so is a profile that is no list with the new entry at its end.          *)
Validates(p) ==
  /\ does[p] = "idle" /\ Cardinality(receipts) < MaxReceipts
  /\ ~Contains(profile, Registration) /\ ~Contains(profile, Rest)
  /\ ProceedsTo(p, "validated")
  /\ hands' = [hands EXCEPT ![p] =
                 [before |-> profile, after |-> Append(profile, Registration)]]
  /\ same' = [same EXCEPT ![p] = TRUE]
  /\ UNCHANGED <<profile, rewrites, receipts>>

(* What was read is saved, compared with the file as it is by now, and the *)
(* file opened to append.  One that takes its name meanwhile is refused.   *)
Opens(p) ==
  /\ does[p] = "validated"
  /\ profile = hands[p].before /\ same[p]
  /\ ProceedsTo(p, "opened")
  /\ UNCHANGED <<profile, rewrites, receipts, hands, same>>

WithEntry(p, entry) == IF same[p] THEN Append(profile, entry) ELSE profile

(* Whatever is in the file by now, the entry comes after it; in a file     *)
(* that was replaced since, nobody sees it.                                *)
Adds(p) ==
  /\ does[p] = "opened"
  /\ \/ /\ profile' = WithEntry(p, Registration) /\ ProceedsTo(p, "written")
        /\ UNCHANGED <<hands, same>>
     \/ profile' = WithEntry(p, Rest) /\ EndsRun(p)
  /\ UNCHANGED <<rewrites, receipts>>

(* Mutant: it need only begin with what was read, as a shell profile.      *)
MutantConfirms(p) ==
  /\ does[p] = "written" /\ ProceedsTo(p, "confirmed")
  /\ IsPrefix(hands[p].before, profile) /\ Contains(profile, Registration)
  /\ hands' = [hands EXCEPT ![p].after = profile]
  /\ UNCHANGED <<profile, rewrites, receipts, same>>

(* The profile must read back as what was meant, to the byte.              *)
Confirms(p) ==
  /\ does[p] = "written" /\ ProceedsTo(p, "confirmed")
  /\ profile = hands[p].after
  /\ UNCHANGED <<profile, rewrites, receipts, hands, same>>

Records(p) ==
  /\ does[p] = "confirmed" /\ EndsRun(p)
  /\ receipts' = receipts \cup {hands[p]}
  /\ UNCHANGED <<profile, rewrites>>

(* Not in a profile that anybody changed since.  The saved one is written  *)
(* beside it, and it is read once more.                                    *)
TakesBack(p, receipt) ==
  /\ does[p] = "idle" /\ ProceedsTo(p, "undoing")
  /\ profile = receipt.after
  /\ hands' = [hands EXCEPT ![p] = receipt]
  /\ UNCHANGED <<profile, rewrites, receipts, same>>

(* Another file has taken the name.                                        *)
NoneSame == [p \in Registrars |-> FALSE]

PutsBack(p) ==
  /\ does[p] = "undoing" /\ ProceedsTo(p, "idle")
  /\ profile' = hands[p].before /\ same' = NoneSame
  /\ hands' = [hands EXCEPT ![p] = Nothing]
  /\ UNCHANGED <<rewrites, receipts>>

(* An entry is added, or everything written anew, in place or by a program *)
(* that puts a new file there.                                             *)
Rewritten ==
  /\ rewrites < MaxRewrites /\ rewrites' = rewrites + 1
  /\ \E entry \in Entries : profile' \in {Append(profile, entry), <<entry>>}
  /\ same' \in {same, NoneSame}
  /\ UNCHANGED <<receipts, does, hands>>

BootNext ==
  \/ \E p \in Registrars :
       \/ Validates(p) \/ Opens(p) \/ Adds(p) \/ Confirms(p) \/ Records(p)
       \/ RunFails(p) \/ PutsBack(p)
       \/ \E receipt \in receipts : TakesBack(p, receipt)
  \/ Rewritten

BootSpec == BootInit /\ [][BootNext]_bootVars

(* However the tool, the owner and DSH interleave, taking the registration *)
(* back takes that entry away and nothing else, not even what was written  *)
(* while the tool was at work, provided the profile is still the one that  *)
(* the tool has just read.                                                 *)
OnlyTheRegistrationGoes ==
  [][\A p \in Registrars :
       does[p] = "undoing" /\ profile' # profile /\ does'[p] = "idle"
         /\ profile = hands[p].after
       => profile = Append(profile', Registration)]_bootVars
=============================================================================
