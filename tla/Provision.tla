----------------------------- MODULE Provision -----------------------------
(***************************************************************************)
(* Preparing one fresh runtime pair (scripts/capacity_worker.py, called by *)
(* the capacity controller, of which there is one): empty folders, secrets *)
(* with credentials issued for them, two deployments.  The controller may  *)
(* be killed anywhere and begins again with what it finds; a request it    *)
(* gave up on may still be carried out later.                              *)
(***************************************************************************)
EXTENDS Naturals, FiniteSets

CONSTANTS
  KeyCount,    \* credentials of a pair: three
  MaxTokens    \* bound on the tokens made up for one credential

ASSUME ProvisionConstants == KeyCount \in Nat \ {0} /\ MaxTokens \in Nat

VARIABLES
  at,        \* where prepare_and_qualify is, "away" outside it
  done,      \* credentials through with in this attempt
  held,      \* the token in its hands
  tokens,    \* tokens made up for each credential
  begun,     \* the ledger of the slot says initialized
  folder,    \* the private folders
  filled,    \* folders somebody else had filled before
  secret,    \* the token in each Secret, 0 where there is none
  issued,    \* the keys the issuer made for each credential
  policy,    \* the service definitions of each side
  stopped,   \* sides of which the administrator changed them
  runtime,   \* the two deployments
  export,    \* the qualification each runtime last published, if any
  inFlight   \* requests given up on, still on their way

provisionVars == <<at, done, held, tokens, begun, folder, filled, secret,
                   issued, policy, stopped, runtime, export, inFlight>>
clusterSide == <<secret, issued, runtime, inFlight>>

Sides == {"secure", "internet"}
Keys == 1..KeyCount
Request == [what : {"secret", "key"}, of : Keys, token : 1..MaxTokens]
             \cup [what : {"runtime"}, of : Sides]

ProvisionTypeOK ==
  /\ at \in {"away", "storage", "read", "store", "lookup", "generate", "verify",
             "create", "check", "passed"}
  /\ done \in 0..KeyCount /\ held \in 0..MaxTokens
  /\ tokens \in [Keys -> 0..MaxTokens]
  /\ begun \in BOOLEAN
  /\ folder \in [Sides -> {"absent", "empty", "used"}] /\ filled \subseteq Sides
  /\ secret \in [Keys -> 0..MaxTokens] /\ issued \in [Keys -> SUBSET (1..MaxTokens)]
  /\ policy \in [Sides -> {"none", "default", "changed"}] /\ stopped \subseteq Sides
  /\ runtime \in [Sides -> {"none", "made", "ready", "altered"}]
  /\ export \in [Sides -> {"passed", "failed"}]
  /\ inFlight \subseteq Request

ProvisionInit ==
  /\ at = "away" /\ done = 0 /\ held = 0 /\ tokens = [k \in Keys |-> 0]
  /\ begun = FALSE /\ filled \in SUBSET Sides
  /\ folder = [s \in Sides |-> IF s \in filled THEN "used" ELSE "absent"]
  /\ secret = [k \in Keys |-> 0] /\ issued = [k \in Keys |-> {}]
  /\ policy = [s \in Sides |-> "none"] /\ stopped = {}
  /\ runtime = [s \in Sides |-> "none"] /\ export = [s \in Sides |-> "failed"]
  /\ inFlight = {}

(* resources: a report that misses anything counts as no room, and the     *)
(* round ends; with room for a pair above the reserve it goes on.          *)
RoomFound ==
  /\ at = "away" /\ at' = "storage"
  /\ UNCHANGED <<done, held, tokens, begun, folder, filled, policy, stopped,
                 export, clusterSide>>

(* Killed, a request refused or timed out, or something found that is not  *)
(* ours.                                                                   *)
LeavesOff ==
  /\ at' = "away" /\ done' = 0 /\ held' = 0
  /\ UNCHANGED <<tokens, begun, filled, policy, stopped, export>>

(* New identities only: folders that hold anything are refused, unless the *)
(* ledger says that they are ours.  The folders come before the ledger.    *)
PrivateStorage ==
  /\ at = "storage"
  /\ \/ begun /\ at' = "read" /\ UNCHANGED <<begun, folder>>
     \/ /\ ~begun /\ \A s \in Sides : folder[s] # "used"
        /\ folder' = [s \in Sides |-> "empty"] /\ begun' = TRUE /\ at' = "read"
  /\ UNCHANGED <<done, held, tokens, filled, policy, stopped, export,
                 clusterSide>>

StorageInterrupted ==
  /\ at = "storage" /\ ~begun /\ LeavesOff
  /\ \E made \in SUBSET {s \in Sides : folder[s] = "absent"} :
       folder' = [s \in Sides |-> IF s \in made THEN "empty" ELSE folder[s]]
  /\ UNCHANGED clusterSide

Key == done + 1

(* Mutant: a fresh token is looked up and issued before it is stored.      *)
MutantReadSecret ==
  /\ at = "read"
  /\ \/ secret[Key] # 0 /\ held' = secret[Key] /\ at' = "lookup" /\ UNCHANGED tokens
     \/ /\ secret[Key] = 0 /\ tokens[Key] < MaxTokens
        /\ tokens' = [tokens EXCEPT ![Key] = @ + 1]
        /\ held' = tokens'[Key] /\ at' = "lookup"
  /\ UNCHANGED <<done, begun, folder, filled, policy, stopped, export,
                 clusterSide>>

(* The token of an existing Secret, or a fresh one.                        *)
ReadSecret ==
  /\ at = "read"
  /\ \/ secret[Key] # 0 /\ held' = secret[Key] /\ at' = "lookup" /\ UNCHANGED tokens
     \/ /\ secret[Key] = 0 /\ tokens[Key] < MaxTokens
        /\ tokens' = [tokens EXCEPT ![Key] = @ + 1]
        /\ held' = tokens'[Key] /\ at' = "store"
  /\ UNCHANGED <<done, begun, folder, filled, policy, stopped, export,
                 clusterSide>>

(* ensure_new for the Secret.  One that is there by now holds another      *)
(* token and is refused.                                                   *)
StoreSecret ==
  /\ at = "store" /\ secret[Key] = 0
  /\ secret' = [secret EXCEPT ![Key] = held] /\ at' = "lookup"
  /\ UNCHANGED <<done, held, tokens, begun, folder, filled, policy, stopped,
                 export, issued, runtime, inFlight>>

LookUp ==
  /\ at = "lookup"
  /\ at' = IF held \in issued[Key] THEN "verify" ELSE "generate"
  /\ UNCHANGED <<done, held, tokens, begun, folder, filled, policy, stopped,
                 export, clusterSide>>

(* The issuer refuses a key that it has.                                   *)
Generate ==
  /\ at = "generate" /\ held \notin issued[Key]
  /\ issued' = [issued EXCEPT ![Key] = @ \cup {held}] /\ at' = "verify"
  /\ UNCHANGED <<done, held, tokens, begun, folder, filled, policy, stopped,
                 export, secret, runtime, inFlight>>

(* Neither administration nor another model, and an inference.             *)
Verify ==
  /\ at = "verify" /\ held \in issued[Key]
  /\ done' = Key /\ held' = 0
  /\ at' = IF Key = KeyCount THEN "create" ELSE "read"
  /\ UNCHANGED <<tokens, begun, folder, filled, policy, stopped, export,
                 clusterSide>>

(* initialize_services: linked into place, unless something is there.      *)
Default(s) == [policy EXCEPT ![s] = IF @ = "none" THEN "default" ELSE @]

CreateRuntime(s) ==
  /\ at = "create" /\ (s = "internet" => runtime["secure"] # "none")
  /\ policy' = Default(s)
  /\ runtime' = IF runtime[s] = "none" THEN [runtime EXCEPT ![s] = "made"] ELSE runtime
  /\ at' = IF s = "internet" THEN "check" ELSE at
  /\ UNCHANGED <<done, held, tokens, begun, folder, filled, stopped, export,
                 secret, issued, inFlight>>

(* Killed between the definitions and the deployment.                      *)
CreationInterrupted(s) ==
  /\ at = "create" /\ at' = "away" /\ done' = 0 /\ held' = 0
  /\ policy' = Default(s)
  /\ UNCHANGED <<tokens, begun, folder, filled, stopped, export, clusterSide>>

(* A POST that timed out, or the controller killed while it waits.         *)
Pending ==
  CASE at = "store" -> {[what |-> "secret", of |-> Key, token |-> held]}
    [] at = "generate" -> {[what |-> "key", of |-> Key, token |-> held]}
    [] at = "create" -> 
         {[what |-> "runtime", of |-> s] : s \in {t \in Sides : policy[t] # "none"}}
    [] OTHER -> {}

AnswerLost ==
  /\ \E request \in Pending : inFlight' = inFlight \cup {request}
  /\ LeavesOff
  /\ UNCHANGED <<folder, secret, issued, runtime>>

Abandoned == at \notin {"away", "passed"} /\ LeavesOff /\ UNCHANGED <<folder, clusterSide>>

(* The other side carries a late request out, or refuses it as there is    *)
(* such an object.                                                         *)
Arrives(request) ==
  /\ request \in inFlight /\ inFlight' = inFlight \ {request}
  /\ CASE request.what = "secret" ->
            /\ secret' = IF secret[request.of] = 0
                         THEN [secret EXCEPT ![request.of] = request.token] ELSE secret
            /\ UNCHANGED <<issued, runtime>>
       [] request.what = "key" ->
            /\ issued' = [issued EXCEPT ![request.of] = @ \cup {request.token}]
            /\ UNCHANGED <<secret, runtime>>
       [] request.what = "runtime" ->
            /\ runtime' = IF runtime[request.of] = "none"
                          THEN [runtime EXCEPT ![request.of] = "made"] ELSE runtime
            /\ UNCHANGED <<secret, issued>>
  /\ UNCHANGED <<at, done, held, tokens, begun, folder, filled, policy,
                 stopped, export>>

-----------------------------------------------------------------------------
(* The runtime's Pod comes up and writes into its folders; its spec may be *)
(* another one than the deployment's.                                      *)
RuntimeStarts(s) ==
  /\ runtime[s] = "made"
  /\ \E state \in {"ready", "altered"} : runtime' = [runtime EXCEPT ![s] = state]
  /\ folder' = [folder EXCEPT ![s] = "used"]
  /\ UNCHANGED <<at, done, held, tokens, begun, filled, secret, issued, policy,
                 stopped, export, inFlight>>

(* capacity-token-exporter.py: the token, and what the network tests of    *)
(* the last minute found.                                                  *)
Exports(s) ==
  /\ runtime[s] \in {"ready", "altered"}
  /\ \E result \in {"passed", "failed"} :
       export[s] # result /\ export' = [export EXCEPT ![s] = result]
  /\ UNCHANGED <<at, done, held, tokens, begun, folder, filled, policy,
                 stopped, clusterSide>>

AdminChanges(s) ==
  /\ policy[s] = "default"
  /\ policy' = [policy EXCEPT ![s] = "changed"] /\ stopped' = stopped \cup {s}
  /\ UNCHANGED <<at, done, held, tokens, begun, folder, filled, export,
                 clusterSide>>

(* validate_runtime, the published qualification, and an empty history.    *)
Qualified(s) == runtime[s] = "ready" /\ export[s] = "passed" /\ s \notin filled

Check ==
  /\ at = "check" /\ \A s \in Sides : Qualified(s)
  /\ at' = "passed"
  /\ UNCHANGED <<done, held, tokens, begun, folder, filled, policy, stopped,
                 export, clusterSide>>

ProvisionNext ==
  \/ RoomFound \/ PrivateStorage \/ StorageInterrupted \/ ReadSecret \/ StoreSecret
  \/ LookUp \/ Generate \/ Verify \/ AnswerLost \/ Abandoned \/ Check
  \/ \E s \in Sides :
       \/ CreateRuntime(s) \/ CreationInterrupted(s)
       \/ RuntimeStarts(s) \/ Exports(s) \/ AdminChanges(s)
  \/ \E request \in inFlight : Arrives(request)

ProvisionSpec == ProvisionInit /\ [][ProvisionNext]_provisionVars

-----------------------------------------------------------------------------
(* However often the controller is killed and its requests are late: every *)
(* key issued is the one its Secret keeps, so that none is left behind     *)
(* untraceable and none rotated; a runtime exists only where all of its    *)
(* credentials do, on folders nobody had filled; and what an administrator *)
(* changed about its services stays.                                       *)
FreshPair ==
  /\ \A k \in Keys : issued[k] \subseteq {secret[k]}
  /\ \A s \in Sides : runtime[s] # "none" =>
       filled = {} /\ \A k \in Keys : issued[k] = {secret[k]}
  /\ \A s \in stopped : policy[s] = "changed"
=============================================================================
