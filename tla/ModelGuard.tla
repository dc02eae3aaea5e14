----------------------------- MODULE ModelGuard -----------------------------
(***************************************************************************)
(* The guard in front of the model for one unattended task                 *)
(* (scripts/unattended_model_guard.py, container/dsh-unattended.py).       *)
(*                                                                         *)
(* Each launcher runs one client and a loopback server whose handlers, one *)
(* thread per connection, reserve a call in the task's ledger before they  *)
(* make it.  Launchers that resume the task use the same ledger, perhaps   *)
(* at the same time.  Reserve and complete hold the ledger's two locks     *)
(* throughout, so each is one step.                                        *)
(*                                                                         *)
(* A mark is the fingerprint of a path and a body: it stands for all       *)
(* bodies that differ only in key order, in dsh_ keys and in               *)
(* chat_template_kwargs, which are removed before it is taken.             *)
(***************************************************************************)
EXTENDS Naturals, FiniteSets, SequencesExt

CONSTANTS
  Launchers,    \* launcher processes of the task, the first and its resumes
  Connections,  \* requests a client makes
  Marks,        \* fingerprints
  GuardCap      \* --max-model-starts of each launcher

(* The launcher allows 1 to 64, the ledger 1 to 32.                        *)
ASSUME GuardConstants ==
  /\ IsFiniteSet(Launchers) /\ Launchers # {} /\ IsFiniteSet(Connections)
  /\ GuardCap \in [Launchers -> 1..32]

VARIABLES
  taskDir,   \* /state/unattended/<task> exists
  launcher,  \* state of each launcher
  ledger,    \* rows of model-starts.jsonl
  torn,      \* an append to it was cut short
  call,      \* the handler of each connection
  upstream   \* history: calls made with each mark

guardVars == <<taskDir, launcher, ledger, torn, call, upstream>>

(* "odd" bodies have metadata that is not an object.                       *)
Bodies == {"plain", "odd"}
Stages == {"none", "received", "admitted", "sent", "answered",
           "finished", "refused", "raised", "killed"}
Over == {"finished", "refused", "raised", "killed"}
NoCall == [at |-> "none"]
Rows == [event : {"reserved", "finished"}, mark : Marks, sequence : Nat \ {0}]

GuardTypeOK ==
  /\ taskDir \in BOOLEAN
  /\ launcher \in [Launchers -> {"new", "up", "gone"}]
  /\ ledger \in Seq(Rows)
  /\ torn \in BOOLEAN
  /\ call \in [Connections -> {NoCall} \cup
       [at : Stages, by : Launchers, mark : Marks, body : Bodies, sequence : Nat]]
  /\ upstream \in [Marks -> Nat]

GuardInit ==
  /\ taskDir = FALSE
  /\ launcher = [l \in Launchers |-> "new"]
  /\ ledger = <<>>
  /\ torn = FALSE
  /\ call = [c \in Connections |-> NoCall]
  /\ upstream = [m \in Marks |-> 0]

Reserved == {ledger[i] : i \in {j \in DOMAIN ledger : ledger[j].event = "reserved"}}
Goes(c, stage) == call' = [call EXCEPT ![c].at = stage]

(* The first launcher makes the directory, which must not be there; the    *)
(* others resume, and it must.                                             *)
Launch(l, resume) ==
  /\ launcher[l] = "new" /\ resume = taskDir
  /\ launcher' = [launcher EXCEPT ![l] = "up"]
  /\ taskDir' = TRUE
  /\ UNCHANGED <<ledger, torn, call, upstream>>

(* The client ends, is stopped by a signal the launcher passes on, or the  *)
(* launcher dies: its handlers are daemon threads and die with it.         *)
Exit(l) ==
  /\ launcher[l] = "up"
  /\ launcher' = [launcher EXCEPT ![l] = "gone"]
  /\ call' = [c \in Connections |->
       IF call[c].at \notin Over \cup {"none"} /\ call[c].by = l
       THEN [call[c] EXCEPT !.at = "killed"] ELSE call[c]]
  /\ UNCHANGED <<taskDir, ledger, torn, upstream>>

(* A path, size, encoding, identity or safeguard that is not allowed, or a *)
(* missing token, is refused here.                                         *)
Receive(c, l, m, body) ==
  /\ call[c].at = "none" /\ launcher[l] = "up"
  /\ \E at \in {"received", "refused"} :
       call' = [call EXCEPT ![c] =
         [at |-> at, by |-> l, mark |-> m, body |-> body, sequence |-> 0]]
  /\ UNCHANGED <<taskDir, launcher, ledger, torn, upstream>>

(* Mutant: only a call that is still running counts as a duplicate.        *)
MutantIsRepeat(m) ==
  \E r \in Reserved : /\ r.mark = m
                      /\ [r EXCEPT !.event = "finished"] \notin ToSet(ledger)

(* A reservation is never given back, whatever became of the call.         *)
IsRepeat(m) == \E r \in Reserved : r.mark = m

(* Mutant: the first sequence number is 0.                                 *)
MutantNextSequence == Cardinality(Reserved)

NextSequence == Cardinality(Reserved) + 1

(* A torn row makes the ledger unreadable, and every later request         *)
(* invalid.  An append may be cut short by a full disk.                    *)
Reserve(c) ==
  /\ call[c].at = "received"
  /\ LET n == NextSequence
         refused == torn \/ IsRepeat(call[c].mark) \/ n > GuardCap[call[c].by]
     IN \/ refused /\ Goes(c, "refused") /\ UNCHANGED <<ledger, torn>>
        \/ /\ ~refused
           /\ ledger' = Append(ledger, [event |-> "reserved",
                                        mark |-> call[c].mark, sequence |-> n])
           /\ call' = [call EXCEPT ![c].at = "admitted", ![c].sequence = n]
           /\ UNCHANGED torn
        \/ ~refused /\ torn' = TRUE /\ Goes(c, "raised") /\ UNCHANGED ledger
  /\ UNCHANGED <<taskDir, launcher, upstream>>

(* The operation id is put into the metadata before the try block: odd     *)
(* metadata raises and leaves the reservation as it is.  The connection    *)
(* may fail before anything is sent.                                       *)
Send(c) ==
  /\ call[c].at = "admitted"
  /\ \/ call[c].body = "odd" /\ Goes(c, "raised") /\ UNCHANGED upstream
     \/ /\ call[c].body = "plain" /\ Goes(c, "sent")
        /\ upstream' = [upstream EXCEPT ![call[c].mark] = @ + 1]
     \/ call[c].body = "plain" /\ Goes(c, "answered") /\ UNCHANGED upstream
  /\ UNCHANGED <<taskDir, launcher, ledger, torn>>

(* Complete, cancelled by the caller, failed, or given up after an hour;   *)
(* never repeated.                                                         *)
Answer(c) ==
  /\ call[c].at = "sent"
  /\ Goes(c, "answered")
  /\ UNCHANGED <<taskDir, launcher, ledger, torn, upstream>>

Complete(c) ==
  /\ call[c].at = "answered"
  /\ \/ /\ ledger' = Append(ledger, [event |-> "finished", mark |-> call[c].mark,
                                     sequence |-> call[c].sequence])
        /\ Goes(c, "finished") /\ UNCHANGED torn
     \/ torn' = TRUE /\ Goes(c, "raised") /\ UNCHANGED ledger
  /\ UNCHANGED <<taskDir, launcher, upstream>>

GuardStep(c) == Reserve(c) \/ Send(c) \/ Answer(c) \/ Complete(c)

GuardNext ==
  \/ \E l \in Launchers : Exit(l) \/ \E resume \in BOOLEAN : Launch(l, resume)
  \/ \E c \in Connections, l \in Launchers, m \in Marks, body \in Bodies :
       Receive(c, l, m, body)
  \/ \E c \in Connections : GuardStep(c)

GuardSpec == GuardInit /\ [][GuardNext]_guardVars

-----------------------------------------------------------------------------
(* A request is sent to the model at most once, and no more requests are   *)
(* sent than the largest cap allows, over all launchers, concurrent        *)
(* handlers and crashes between the reservation and its completion.        *)
SentOnceWithinCap ==
  /\ \A m \in Marks : upstream[m] <= 1
  /\ \E l \in Launchers :
       Cardinality({m \in Marks : upstream[m] > 0}) <= GuardCap[l]
=============================================================================
