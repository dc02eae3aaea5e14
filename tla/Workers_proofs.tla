--------------------------- MODULE Workers_proofs ---------------------------
(***************************************************************************)
(* The preparation of a runtime pair and the native worker of a binding,   *)
(* for any number of keys, resources and executors, and the three parts of *)
(* MCWorkers in one behaviour.                                             *)
(*                                                                         *)
(* FreshPair needs where the attempt is (PlaceInv), what a late request    *)
(* may still do (TokenInv) and what precedes a runtime (RuntimeInv).       *)
(* ActsOnce needs that what a durable reservation allows is done by its    *)
(* owner alone (EntryInv), that a DELETE is in the journal's file before   *)
(* it is sent (DeleteInv), and that an identity is never used again        *)
(* (UidInv).                                                               *)
(***************************************************************************)
EXTENDS MCWorkers, OpenShellBinding_proofs, FiniteSetTheorems

(* The runtime pair *)

HasKeys == \A k \in Keys : issued[k] # {}

(* Where the attempt is, and the token it goes on with.                    *)
PlaceInv ==
  /\ at \in {"away", "storage"} => done = 0
  /\ at \in {"read", "store", "lookup", "generate", "verify"} => done < KeyCount
  /\ at \in {"create", "check", "passed"} => done = KeyCount
  /\ at \notin {"away", "storage"} => begun
  /\ at = "store" => held # 0
  /\ at \in {"lookup", "generate", "verify"} => held # 0 /\ held = secret[Key]

(* A key, also one that a late request will make, is the one the Secret    *)
(* keeps; what the attempt is through with has been issued.                *)
TokenInv ==
  /\ \A k \in Keys : issued[k] \subseteq {secret[k]} \ {0}
  /\ \A k \in 1..done : issued[k] # {}
  /\ \A q \in inFlight :
       /\ q.what = "key" => q.token = secret[q.of]
       /\ q.what = "runtime" => begun /\ HasKeys

(* What can be asked for a runtime comes after its keys and its folders.   *)
RuntimeInv ==
  /\ \A s \in filled : folder[s] = "used"
  /\ begun => filled = {}
  /\ \A s \in Sides : policy[s] # "none" \/ runtime[s] # "none" => begun /\ HasKeys
  /\ \A s \in stopped : policy[s] = "changed"

ProvisionInv == ProvisionTypeOK /\ PlaceInv /\ TokenInv /\ RuntimeInv

LEMMA ProvisionInitHolds == ProvisionInit => ProvisionInv
<1> SUFFICES ASSUME ProvisionInit PROVE ProvisionInv
  OBVIOUS
<1>1. ProvisionTypeOK
  <2>1. /\ folder \in [Sides -> {"absent", "empty", "used"}] /\ filled \subseteq Sides
        /\ secret \in [Keys -> 0..MaxTokens] /\ tokens \in [Keys -> 0..MaxTokens]
        /\ done \in 0..KeyCount /\ held \in 0..MaxTokens
    BY ProvisionConstants DEF ProvisionInit
  <2> QED
    BY <2>1 DEF ProvisionInit, ProvisionTypeOK
<1>2. PlaceInv /\ TokenInv /\ RuntimeInv
  BY DEF ProvisionInit, PlaceInv, TokenInv, RuntimeInv
<1> QED
  BY <1>1, <1>2 DEF ProvisionInv

LEMMA KeyInKeys ==
  ASSUME ProvisionTypeOK, PlaceInv,
         at \in {"read", "store", "lookup", "generate", "verify"}
  PROVE  Key \in Keys /\ done \in Nat
  BY ProvisionConstants DEF ProvisionTypeOK, PlaceInv, Key, Keys

LEMMA KindsOfRequests ==
  ASSUME NEW q \in Request
  PROVE  /\ q.what \in {"secret", "key", "runtime"}
         /\ q.what \in {"secret", "key"} => q.of \in Keys /\ q.token \in 1..MaxTokens
         /\ q.what = "runtime" => q.of \in Sides
  BY DEF Request

(* The attempt ends; what it has done stays.                               *)
LEMMA LeavingHolds ==
  ASSUME ProvisionInv, LeavesOff, UNCHANGED <<secret, issued, runtime>>,
         folder' \in [Sides -> {"absent", "empty", "used"}],
         \A s \in filled : folder'[s] = "used",
         inFlight' \subseteq Request,
         \A q \in inFlight' \ inFlight :
           /\ q.what = "key" => q.token = secret[q.of]
           /\ q.what = "runtime" => begun /\ HasKeys
  PROVE  ProvisionInv'
<1>1. ProvisionTypeOK'
  BY ProvisionConstants DEF ProvisionInv, ProvisionTypeOK, LeavesOff
<1>2. PlaceInv' /\ TokenInv' /\ RuntimeInv'
  BY DEF ProvisionInv, PlaceInv, TokenInv, RuntimeInv, LeavesOff, HasKeys
<1> QED
  BY <1>1, <1>2 DEF ProvisionInv

LEMMA ProvisionStepHolds == ProvisionInv /\ [ProvisionNext]_provisionVars => ProvisionInv'
<1> SUFFICES ASSUME ProvisionInv, [ProvisionNext]_provisionVars PROVE ProvisionInv'
  OBVIOUS
<1>a. ProvisionTypeOK /\ PlaceInv /\ TokenInv /\ RuntimeInv
  BY DEF ProvisionInv
<1>1. CASE RoomFound
  BY <1>1, <1>a DEF RoomFound, clusterSide, ProvisionInv, ProvisionTypeOK, PlaceInv,
    TokenInv, RuntimeInv, HasKeys
<1>2. CASE PrivateStorage
  <2>1. ProvisionTypeOK'
    BY <1>2, <1>a DEF PrivateStorage, clusterSide, ProvisionTypeOK
  <2>2. begun' /\ (~begun => filled = {}) /\ (begun => UNCHANGED folder)
    BY <1>2, <1>a DEF PrivateStorage, RuntimeInv, ProvisionTypeOK
  <2>3. PlaceInv'
    <3>1. at' = "read" /\ done' = 0
      BY <1>2, <1>a DEF PrivateStorage, PlaceInv
    <3> QED
      BY <2>2, <3>1, ProvisionConstants DEF PlaceInv
  <2>4. TokenInv'
    BY <1>2, <1>a, <2>2 DEF PrivateStorage, TokenInv, HasKeys, clusterSide
  <2>5. RuntimeInv'
    BY <1>2, <1>a, <2>2 DEF PrivateStorage, RuntimeInv, HasKeys, clusterSide
  <2> QED
    BY <2>1, <2>3, <2>4, <2>5 DEF ProvisionInv
<1>3. CASE StorageInterrupted
  <2>1. /\ folder' \in [Sides -> {"absent", "empty", "used"}]
        /\ \A s \in filled : folder'[s] = "used"
    BY <1>3, <1>a DEF StorageInterrupted, ProvisionTypeOK, RuntimeInv
  <2> QED
    BY <1>3, <1>a, <2>1, LeavingHolds DEF StorageInterrupted, clusterSide, ProvisionTypeOK
<1>4. CASE ReadSecret
  <2>1. Key \in Keys
    BY <1>4, <1>a, KeyInKeys DEF ReadSecret
  <2>2. /\ held' \in 1..MaxTokens /\ tokens' \in [Keys -> 0..MaxTokens]
        /\ at' = "lookup" => held' = secret[Key]
        /\ at' \in {"lookup", "store"}
    BY <1>4, <1>a, <2>1, ProvisionConstants DEF ReadSecret, ProvisionTypeOK
  <2>3. ProvisionTypeOK'
    BY <1>4, <1>a, <2>2 DEF ReadSecret, clusterSide, ProvisionTypeOK
  <2>4. PlaceInv' /\ TokenInv' /\ RuntimeInv'
    BY <1>4, <1>a, <2>2 DEF ReadSecret, clusterSide, PlaceInv, TokenInv, RuntimeInv, HasKeys, Key
  <2> QED
    BY <2>3, <2>4 DEF ProvisionInv
<1>5. CASE StoreSecret
  <2>1. Key \in Keys /\ secret[Key] = 0 /\ issued[Key] = {}
    BY <1>5, <1>a, KeyInKeys DEF StoreSecret, TokenInv
  <2>2. ProvisionTypeOK'
    BY <1>5, <1>a DEF StoreSecret, ProvisionTypeOK
  <2>3. PlaceInv'
    BY <1>5, <1>a, <2>1 DEF StoreSecret, PlaceInv, Key, ProvisionTypeOK
  <2>4. TokenInv'
    <3>1. \A q \in inFlight : q.what = "key" => q.of # Key
      BY <1>a, <2>1, KindsOfRequests DEF ProvisionTypeOK, TokenInv
    <3>2. \A k \in Keys \ {Key} : secret'[k] = secret[k]
      BY <1>5, <1>a DEF StoreSecret, ProvisionTypeOK
    <3> QED
      BY <1>5, <1>a, <2>1, <3>1, <3>2, KindsOfRequests
      DEF StoreSecret, TokenInv, HasKeys, ProvisionTypeOK
  <2>5. RuntimeInv'
    BY <1>5, <1>a DEF StoreSecret, RuntimeInv, HasKeys
  <2> QED
    BY <2>2, <2>3, <2>4, <2>5 DEF ProvisionInv
<1>6. CASE LookUp
  <2>1. ProvisionTypeOK'
    BY <1>6, <1>a DEF LookUp, clusterSide, ProvisionTypeOK
  <2>2. PlaceInv' /\ TokenInv' /\ RuntimeInv'
    BY <1>6, <1>a DEF LookUp, clusterSide, PlaceInv, TokenInv, RuntimeInv, HasKeys, Key
  <2> QED
    BY <2>1, <2>2 DEF ProvisionInv
<1>7. CASE Generate
  <2>1. Key \in Keys /\ held = secret[Key] /\ held # 0
    BY <1>7, <1>a, KeyInKeys DEF Generate, PlaceInv
  <2>2. /\ issued' \in [Keys -> SUBSET (1..MaxTokens)]
        /\ \A k \in Keys : issued'[k] = IF k = Key THEN issued[k] \cup {held} ELSE issued[k]
    <3>1. held \in 1..MaxTokens /\ issued \in [Keys -> SUBSET (1..MaxTokens)]
      BY <1>a, <2>1, ProvisionConstants DEF ProvisionTypeOK
    <3>2. issued' = [issued EXCEPT ![Key] = @ \cup {held}]
      BY <1>7 DEF Generate
    <3> QED
      BY <2>1, <3>1, <3>2
  <2>3. ProvisionTypeOK'
    BY <1>7, <1>a, <2>2 DEF Generate, ProvisionTypeOK
  <2>4. PlaceInv'
    BY <1>7, <1>a DEF Generate, PlaceInv, Key
  <2>5. TokenInv' /\ RuntimeInv'
    <3>1. HasKeys => HasKeys'
      BY <2>2 DEF HasKeys
    <3>2. \A k \in 1..done : k \in Keys
      BY <1>a, ProvisionConstants DEF ProvisionTypeOK, Keys
    <3> QED
      BY <1>7, <1>a, <2>1, <2>2, <3>1, <3>2 DEF Generate, TokenInv, RuntimeInv
  <2> QED
    BY <2>3, <2>4, <2>5 DEF ProvisionInv
<1>8. CASE Verify
  <2>1. Key \in Keys /\ done \in Nat /\ issued[Key] # {} /\ done < KeyCount
    BY <1>8, <1>a, KeyInKeys DEF Verify, PlaceInv
  <2>2. ProvisionTypeOK' /\ PlaceInv'
    BY <1>8, <1>a, <2>1, ProvisionConstants DEF Verify, clusterSide, ProvisionTypeOK, PlaceInv, Key, Keys
  <2>3. TokenInv'
    BY <1>8, <1>a, <2>1 DEF Verify, clusterSide, TokenInv, HasKeys, Key
  <2>4. RuntimeInv'
    BY <1>8, <1>a DEF Verify, clusterSide, RuntimeInv, HasKeys
  <2> QED
    BY <2>2, <2>3, <2>4 DEF ProvisionInv
<1>keys. at = "create" => begun /\ HasKeys
  BY <1>a DEF PlaceInv, TokenInv, HasKeys, Keys
<1>9. CASE AnswerLost
  <2>1. PICK request \in Pending : inFlight' = inFlight \cup {request}
    BY <1>9 DEF AnswerLost
  <2>2. CASE at \in {"store", "generate"}
    <3>1. Key \in Keys /\ held \in 1..MaxTokens
      BY <1>a, <2>2, KeyInKeys, ProvisionConstants DEF PlaceInv, ProvisionTypeOK
    <3>2. /\ request \in Request
          /\ request.what = "key" => request.token = secret[request.of]
          /\ request.what # "runtime"
      BY <1>a, <2>1, <2>2, <3>1 DEF Pending, Request, PlaceInv
    <3> QED
      BY <1>9, <1>a, <2>1, <3>2, LeavingHolds DEF AnswerLost, ProvisionTypeOK, RuntimeInv
  <2>3. CASE at = "create"
    <3>1. request \in Request /\ request.what = "runtime"
      BY <2>1, <2>3 DEF Pending, Request
    <3> QED
      BY <1>9, <1>a, <1>keys, <2>1, <2>3, <3>1, LeavingHolds
      DEF AnswerLost, ProvisionTypeOK, RuntimeInv
  <2> QED
    BY <2>1, <2>2, <2>3 DEF Pending
<1>10. CASE Abandoned
  BY <1>10, <1>a, LeavingHolds DEF Abandoned, clusterSide, ProvisionTypeOK, RuntimeInv
<1>11. CASE Check
  <2>1. ProvisionTypeOK'
    BY <1>11, <1>a DEF Check, clusterSide, ProvisionTypeOK
  <2>2. PlaceInv' /\ TokenInv' /\ RuntimeInv'
    BY <1>11, <1>a DEF Check, clusterSide, PlaceInv, TokenInv, RuntimeInv, HasKeys
  <2> QED
    BY <2>1, <2>2 DEF ProvisionInv
<1>12. ASSUME NEW s \in Sides, CreateRuntime(s) PROVE ProvisionInv'
  <2>1. ProvisionTypeOK'
    BY <1>12, <1>a DEF CreateRuntime, Default, ProvisionTypeOK
  <2>2. PlaceInv' /\ TokenInv'
    BY <1>12, <1>a DEF CreateRuntime, PlaceInv, TokenInv, HasKeys
  <2>3. RuntimeInv'
    BY <1>12, <1>a, <1>keys DEF CreateRuntime, Default, RuntimeInv, HasKeys, ProvisionTypeOK
  <2> QED
    BY <2>1, <2>2, <2>3 DEF ProvisionInv
<1>13. ASSUME NEW s \in Sides, CreationInterrupted(s) PROVE ProvisionInv'
  <2>1. ProvisionTypeOK'
    BY <1>13, <1>a, ProvisionConstants DEF CreationInterrupted, Default, ProvisionTypeOK, clusterSide
  <2>2. PlaceInv' /\ TokenInv'
    BY <1>13, <1>a DEF CreationInterrupted, PlaceInv, TokenInv, HasKeys, clusterSide
  <2>3. RuntimeInv'
    BY <1>13, <1>a, <1>keys
    DEF CreationInterrupted, Default, RuntimeInv, HasKeys, ProvisionTypeOK, clusterSide
  <2> QED
    BY <2>1, <2>2, <2>3 DEF ProvisionInv
<1>14. ASSUME NEW s \in Sides, RuntimeStarts(s) PROVE ProvisionInv'
  <2>1. ProvisionTypeOK'
    BY <1>14, <1>a DEF RuntimeStarts, ProvisionTypeOK
  <2>2. PlaceInv' /\ TokenInv' /\ RuntimeInv'
    BY <1>14, <1>a DEF RuntimeStarts, PlaceInv, TokenInv, RuntimeInv, HasKeys, ProvisionTypeOK, Key
  <2> QED
    BY <2>1, <2>2 DEF ProvisionInv
<1>15. ASSUME NEW s \in Sides, Exports(s) PROVE ProvisionInv'
  <2>1. ProvisionTypeOK'
    BY <1>15, <1>a DEF Exports, ProvisionTypeOK, clusterSide
  <2>2. PlaceInv' /\ TokenInv' /\ RuntimeInv'
    BY <1>15, <1>a DEF Exports, PlaceInv, TokenInv, RuntimeInv, HasKeys, Key, clusterSide
  <2> QED
    BY <2>1, <2>2 DEF ProvisionInv
<1>16. ASSUME NEW s \in Sides, AdminChanges(s) PROVE ProvisionInv'
  <2>1. ProvisionTypeOK'
    BY <1>16, <1>a DEF AdminChanges, ProvisionTypeOK, clusterSide
  <2>2. PlaceInv' /\ TokenInv' /\ RuntimeInv'
    BY <1>16, <1>a DEF AdminChanges, PlaceInv, TokenInv, RuntimeInv, HasKeys, Key, clusterSide,
      ProvisionTypeOK
  <2> QED
    BY <2>1, <2>2 DEF ProvisionInv
<1>17. ASSUME NEW q \in inFlight, Arrives(q) PROVE ProvisionInv'
  <2>1. /\ q \in Request /\ inFlight' \subseteq inFlight
        /\ UNCHANGED <<at, done, held, tokens, begun, folder, filled, policy, stopped, export>>
    BY <1>17, <1>a DEF Arrives, ProvisionTypeOK
  <2>2. CASE q.what = "secret"
    <3>1. /\ secret' = IF secret[q.of] = 0 THEN [secret EXCEPT ![q.of] = q.token] ELSE secret
          /\ UNCHANGED <<issued, runtime>>
      BY <1>17, <2>2 DEF Arrives
    <3>2. q.of \in Keys /\ q.token \in 1..MaxTokens
      BY <2>1, <2>2, KindsOfRequests
    <3>3. /\ secret' \in [Keys -> 0..MaxTokens]
          /\ \A k \in Keys : secret[k] # 0 => secret'[k] = secret[k]
      BY <1>a, <3>1, <3>2, ProvisionConstants DEF ProvisionTypeOK
    <3>4. ProvisionTypeOK'
      BY <1>a, <2>1, <3>1, <3>3 DEF ProvisionTypeOK
    <3>5. PlaceInv'
      <4>1. at \in {"lookup", "generate", "verify"} => secret'[Key] = secret[Key]
        BY <1>a, <3>3, KeyInKeys DEF PlaceInv
      <4> QED
        BY <1>a, <2>1, <4>1 DEF PlaceInv, Key
    <3>6. TokenInv'
      <4>1. \A r \in inFlight : r.what = "key" => r.of \in Keys /\ secret[r.of] # 0
        BY <1>a, KindsOfRequests DEF TokenInv, ProvisionTypeOK
      <4> QED
        BY <1>a, <2>1, <3>1, <3>3, <4>1 DEF TokenInv, HasKeys
    <3>7. RuntimeInv'
      BY <1>a, <2>1, <3>1 DEF RuntimeInv, HasKeys
    <3> QED
      BY <3>4, <3>5, <3>6, <3>7 DEF ProvisionInv
  <2>3. CASE q.what = "key"
    <3>1. /\ issued' = [issued EXCEPT ![q.of] = @ \cup {q.token}]
          /\ UNCHANGED <<secret, runtime>>
      BY <1>17, <2>3 DEF Arrives
    <3>2. q.of \in Keys /\ q.token \in 1..MaxTokens /\ q.token = secret[q.of]
      BY <1>a, <2>1, <2>3, KindsOfRequests DEF TokenInv
    <3>3. /\ issued' \in [Keys -> SUBSET (1..MaxTokens)]
          /\ \A k \in Keys : issued'[k] = IF k = q.of THEN issued[k] \cup {q.token} ELSE issued[k]
      BY <1>a, <3>1, <3>2 DEF ProvisionTypeOK
    <3>4. ProvisionTypeOK'
      BY <1>a, <2>1, <3>1, <3>3 DEF ProvisionTypeOK
    <3>5. PlaceInv'
      BY <1>a, <2>1, <3>1 DEF PlaceInv, Key
    <3>6. TokenInv' /\ RuntimeInv'
      <4>1. HasKeys => HasKeys'
        BY <3>3 DEF HasKeys
      <4>2. \A k \in 1..done : k \in Keys
        BY <1>a, ProvisionConstants DEF ProvisionTypeOK, Keys
      <4>3. RuntimeInv'
        BY <1>a, <2>1, <3>1, <4>1 DEF RuntimeInv
      <4>4. \A k \in Keys : issued'[k] \subseteq {secret[k]} \ {0}
        BY <1>a, <3>2, <3>3 DEF TokenInv
      <4> QED
        BY <1>a, <2>1, <3>1, <3>3, <4>1, <4>2, <4>3, <4>4 DEF TokenInv
    <3> QED
      BY <3>4, <3>5, <3>6 DEF ProvisionInv
  <2>4. CASE q.what = "runtime"
    <3>1. /\ runtime' = IF runtime[q.of] = "none" THEN [runtime EXCEPT ![q.of] = "made"]
                        ELSE runtime
          /\ UNCHANGED <<secret, issued>>
      BY <1>17, <2>4 DEF Arrives
    <3>2. q.of \in Sides /\ begun /\ HasKeys
      BY <1>17, <1>a, <2>1, <2>4, KindsOfRequests DEF TokenInv
    <3>3. ProvisionTypeOK'
      BY <1>a, <2>1, <3>1, <3>2 DEF ProvisionTypeOK
    <3>4. PlaceInv' /\ TokenInv' /\ RuntimeInv'
      BY <1>a, <2>1, <3>1, <3>2 DEF PlaceInv, TokenInv, RuntimeInv, HasKeys, Key
    <3> QED
      BY <3>3, <3>4 DEF ProvisionInv
  <2> QED
    BY <2>1, <2>2, <2>3, <2>4, KindsOfRequests
<1>18. CASE UNCHANGED provisionVars
  <2>1. ProvisionTypeOK'
    BY <1>18, <1>a DEF provisionVars, ProvisionTypeOK
  <2>2. PlaceInv' /\ TokenInv' /\ RuntimeInv'
    BY <1>18, <1>a DEF provisionVars, PlaceInv, TokenInv, RuntimeInv, HasKeys, Key
  <2> QED
    BY <2>1, <2>2 DEF ProvisionInv
<1> QED
  BY <1>1, <1>2, <1>3, <1>4, <1>5, <1>6, <1>7, <1>8, <1>9, <1>10, <1>11, <1>12, <1>13,
     <1>14, <1>15, <1>16, <1>17, <1>18 DEF ProvisionNext

LEMMA ProvisionAlways == ProvisionSpec => []ProvisionInv
  BY ProvisionInitHolds, ProvisionStepHolds, PTL DEF ProvisionSpec

(* However the controller is killed and its requests delayed, a key issued *)
(* is the one its Secret keeps and a runtime has all of its credentials.   *)
THEOREM PairIsFresh == ProvisionSpec => []FreshPair
<1>1. ASSUME ProvisionInv PROVE FreshPair
  BY <1>1 DEF ProvisionInv, TokenInv, RuntimeInv, HasKeys, FreshPair
<1> QED
  BY ProvisionAlways, <1>1, PTL

---------------------------------------------------------------------------
(* The native worker *)

(* An envelope that took the reservation of the binding, or has a client.  *)
Committed(e) == entry[e] = "reserved" \/ e \in launched

EntryInv ==
  /\ \A e \in Envelopes :
       /\ Committed(e) => file
       /\ e \in launched => entry[e] \notin {"none", "read", "reserved"}
       /\ e \in group => e \in launched /\ entry[e] \in {"running", "fencing", "killed"}
  /\ \A e, f \in Envelopes : Committed(e) /\ Committed(f) => e = f

(* A DELETE that was sent is in the journal's file, and so in memory.      *)
DeleteInv ==
  \A k \in Natives :
    /\ submitted[k] \in {0, 1} /\ (submitted[k] = 1 => saved[k] # "none")
    /\ saved[k] # "none" => deletes[k] # "none"

(* The recorded resource is there no more, whatever has its name.          *)
Lost(k) == object[k] = Absent \/ object[k].uid # identity[k]

(* Retirement follows the reservation of the stop, observation comes       *)
(* before it, and what retirement has read is what was recorded.           *)
AskingInv ==
  /\ asking[1] \in {"snapshot", "delete", "answer"} => asking[2] \in 1..Size
  /\ asking[1] \in {"snapshot", "delete", "answer", "verify"} => stopping
  /\ asking[1] = "pods" => ~stopping
  /\ asking[1] # "pods" => \A k \in Natives : saw[k] = Absent \/ saw[k].uid = identity[k]
  /\ asking = <<"verify", Size + 2>> => \A k \in Natives \ {"sandbox"} : Lost(k)

(* The recorded UIDs, which stand once the stop is reserved, are among     *)
(* those given out; a DELETE names one of them.                            *)
UidInv ==
  /\ stopping => identity # Unobserved
  /\ underWay # {} \/ removed # {} \/ receipt => stopping
  /\ \A k \in Natives :
       object[k].uid <= made[k] /\ saw[k].uid <= made[k] /\ identity[k] <= made[k]
  /\ \A d \in underWay : d.uid = identity[d.kind]
  /\ \A d \in removed : d[2] = identity[d[1]]
  /\ receipt => \A k \in Natives : Lost(k)

NativeInv ==
  WorkerTypeOK /\ EntryInv /\ DeleteInv /\ AskingInv /\ UidInv

LEMMA NamesOfResources ==
  /\ "sandbox" \in Natives /\ "pod" \in Natives /\ Size \in Nat \ {0}
  /\ \A i \in 1..Size : Of(i) \in Natives
<1>1. Size \in Nat
  BY WorkerConstants DEF Size
<1>2. "sandbox" \in Natives /\ "pod" \in Natives
  BY WorkerConstants DEF Natives, Size
<1>3. Size # 0
  BY <1>1, <1>2 DEF Natives
<1> QED
  BY <1>1, <1>2, <1>3 DEF Natives, Of

LEMMA UidsOfObjects ==
  /\ Absent.uid = 0
  /\ \A o \in Object : o # Absent /\ o.uid \in 1..MaxUid
  /\ \A o \in {Absent} \cup Object : o.uid \in 0..MaxUid /\ (o = Absent <=> o.uid = 0)
  BY WorkerConstants DEF Absent, Object

LEMMA PositionFacts ==
  /\ Resting \in Positions /\ Resting[1] = "idle" /\ <<"pods", 0>> \in Positions
  /\ \A a \in Positions :
       /\ a[1] \in {"idle", "pods", "snapshot", "delete", "answer", "verify"}
       /\ a = <<a[1], a[2]>>
       /\ a[1] = "pods" => a = <<"pods", 0>>
       /\ a[1] = "idle" => a = Resting
  BY DEF Positions, Resting

LEMMA MoveTo ==
  ASSUME NEW i \in 1..Size + 2, NEW x \in {"snapshot", "delete", "answer", "verify"}
  PROVE  <<x, i>> \in Positions
  BY DEF Positions

LEMMA DeletingFacts ==
  ASSUME NEW o \in Object
  PROVE  Deleting(o) \in Object /\ Deleting(o).uid = o.uid
<1>1. o.version \in 1..MaxVersion
  BY DEF Object
<1>2. (IF o.version < MaxVersion THEN o.version + 1 ELSE o.version) \in 1..MaxVersion
  BY <1>1, WorkerConstants
<1> QED
  BY <1>2 DEF Deleting, Object

LEMMA WorkerInitHolds == WorkerInit => NativeInv
<1> SUFFICES ASSUME WorkerInit PROVE NativeInv
  OBVIOUS
<1>1. New(1, 1) \in Object /\ New(1, 1).uid = 1
  BY WorkerConstants DEF New, Object
<1>2. WorkerTypeOK
  <2>1. /\ object \in [Natives -> {Absent} \cup Object] /\ made \in [Natives -> 1..MaxUid]
        /\ identity \in [Natives -> 0..MaxUid] /\ saw \in [Natives -> {Absent} \cup Object]
        /\ submitted \in [Natives -> Nat]
    BY <1>1, WorkerConstants DEF WorkerInit, Unobserved, Blank
  <2> QED
    BY <2>1, PositionFacts DEF WorkerInit, WorkerTypeOK
<1>3. EntryInv /\ DeleteInv
  BY DEF WorkerInit, EntryInv, DeleteInv, Committed
<1>4. AskingInv /\ UidInv
  BY <1>1 DEF WorkerInit, AskingInv, UidInv, Resting, Blank, Unobserved, Absent
<1> QED
  BY <1>2, <1>3, <1>4 DEF NativeInv

-----------------------------------------------------------------------------
(* The entries in the Pod.                                                 *)

LEMMA EntriesStep ==
  ASSUME NativeInv, UNCHANGED <<clusterVars, brokerVars>>, EntryInv',
         entry' \in [Envelopes -> {"none", "read", "reserved", "running", "fencing",
                                   "ended", "killed"}],
         file' \in BOOLEAN, group' \subseteq Envelopes, launched' \subseteq Envelopes
  PROVE  NativeInv'
<1>1. WorkerTypeOK'
  BY DEF NativeInv, WorkerTypeOK, clusterVars, brokerVars
<1>2. DeleteInv' /\ AskingInv' /\ UidInv'
  BY DEF NativeInv, DeleteInv, AskingInv, UidInv, Lost, clusterVars, brokerVars
<1> QED
  BY <1>1, <1>2 DEF NativeInv

LEMMA EntryStepHolds ==
  ASSUME NativeInv, NEW e \in Envelopes,
         \/ EntryReads(e) \/ ReserveExecution(e) \/ LaunchClient(e)
         \/ WatchClient(e) \/ Fence(e) \/ EntryKilled(e)
  PROVE  NativeInv'
<1>a. EntryInv /\ WorkerTypeOK
  BY DEF NativeInv
<1>1. UNCHANGED <<clusterVars, brokerVars>>
  BY DEF EntryReads, ReserveExecution, LaunchClient, WatchClient, Fence, EntryKilled
<1>2. /\ entry' \in [Envelopes -> {"none", "read", "reserved", "running", "fencing",
                                    "ended", "killed"}]
      /\ file' \in BOOLEAN /\ group' \subseteq Envelopes /\ launched' \subseteq Envelopes
  BY <1>a DEF EntryReads, ReserveExecution, LaunchClient, WatchClient, Fence, EntryKilled,
    WorkerTypeOK
<1>3. \A f \in Envelopes \ {e} : entry'[f] = entry[f]
  BY <1>a DEF EntryReads, ReserveExecution, LaunchClient, WatchClient, Fence, EntryKilled,
    WorkerTypeOK
<1>4. EntryInv'
  <2>1. CASE EntryReads(e)
    BY <1>a, <1>3, <2>1 DEF EntryReads, EntryInv, Committed, WorkerTypeOK
  <2>2. CASE ReserveExecution(e)
    BY <1>a, <1>3, <2>2 DEF ReserveExecution, EntryInv, Committed, WorkerTypeOK
  <2>3. CASE LaunchClient(e)
    BY <1>a, <1>3, <2>3 DEF LaunchClient, EntryInv, Committed, WorkerTypeOK
  <2>4. CASE WatchClient(e)
    BY <1>a, <1>3, <2>4 DEF WatchClient, EntryInv, Committed, WorkerTypeOK
  <2>5. CASE Fence(e)
    BY <1>a, <1>3, <2>5 DEF Fence, EntryInv, Committed, WorkerTypeOK
  <2>6. CASE EntryKilled(e)
    BY <1>a, <1>3, <2>6 DEF EntryKilled, InPod, EntryInv, Committed, WorkerTypeOK
  <2> QED
    BY <2>1, <2>2, <2>3, <2>4, <2>5, <2>6
<1> QED
  BY <1>1, <1>2, <1>4, EntriesStep

-----------------------------------------------------------------------------
(* The cluster.  A name may get a new resource, with a new UID; otherwise  *)
(* a resource goes, or changes and keeps its UID.                          *)

ObjectStep(k) ==
  /\ object' = [object EXCEPT ![k] = object'[k]]
  /\ made' = [made EXCEPT ![k] = made'[k]]
  /\ object'[k] \in {Absent} \cup Object /\ made'[k] \in 1..MaxUid
  /\ \/ object'[k].uid \in {0, object[k].uid} /\ made'[k] = made[k]
     \/ object'[k].uid = made[k] + 1 /\ made'[k] = made[k] + 1

LEMMA ClusterStep ==
  ASSUME NativeInv, NEW k \in Natives, ObjectStep(k), UNCHANGED brokerVars,
         EntryInv', underWay' \subseteq underWay,
         \A d \in removed' \ removed : d \in Natives \X (1..MaxUid)
                                      /\ stopping /\ d[2] = identity[d[1]],
         entry' \in [Envelopes -> {"none", "read", "reserved", "running", "fencing",
                                   "ended", "killed"}],
         file' \in BOOLEAN, group' \subseteq Envelopes, launched' \subseteq Envelopes
  PROVE  NativeInv'
<1>a. WorkerTypeOK /\ DeleteInv /\ AskingInv /\ UidInv
  BY DEF NativeInv
<1>1. /\ identity' = identity /\ stopping' = stopping /\ deletes' = deletes
      /\ saved' = saved /\ asking' = asking /\ saw' = saw /\ submitted' = submitted
      /\ receipt' = receipt
  BY DEF brokerVars
<1>2. /\ object' \in [Natives -> {Absent} \cup Object] /\ made' \in [Natives -> 1..MaxUid]
      /\ \A j \in Natives \ {k} : object'[j] = object[j] /\ made'[j] = made[j]
  BY <1>a DEF ObjectStep, WorkerTypeOK
<1>3. WorkerTypeOK'
  BY <1>a, <1>1, <1>2 DEF WorkerTypeOK
<1>4. \A j \in Natives : /\ made[j] \in Nat /\ made[j] <= made'[j] /\ made'[j] \in Nat
                         /\ object[j].uid \in Nat /\ object'[j].uid \in Nat
                         /\ saw[j].uid \in Nat /\ identity[j] \in Nat
  BY <1>a, <1>2, UidsOfObjects DEF ObjectStep, WorkerTypeOK
<1>5. \A j \in Natives : /\ object'[j].uid <= made'[j]
                         /\ saw[j].uid <= made'[j] /\ identity[j] <= made'[j]
  BY <1>a, <1>2, <1>4 DEF ObjectStep, UidInv
<1>6. \A j \in Natives : Lost(j) => Lost(j)'
  <2>1. ASSUME Lost(k) PROVE Lost(k)'
    <3>1. object[k].uid = 0 \/ object[k].uid # identity[k]
      BY <2>1, UidsOfObjects DEF Lost
    <3>2. object'[k].uid = 0 \/ object'[k].uid # identity[k]
      BY <1>a, <1>4, <3>1 DEF ObjectStep, UidInv
    <3> QED
      BY <1>1, <1>2, <3>2, UidsOfObjects DEF Lost
  <2> QED
    BY <1>1, <1>2, <2>1 DEF Lost
<1>7. DeleteInv' /\ AskingInv'
  BY <1>a, <1>1, <1>6 DEF DeleteInv, AskingInv
<1>8. UidInv'
  BY <1>a, <1>1, <1>5, <1>6 DEF UidInv
<1> QED
  BY <1>3, <1>7, <1>8 DEF NativeInv

LEMMA ClusterStepHolds ==
  ASSUME NativeInv, NEW k \in Natives,
         StatusChanges(k) \/ Collected(k) \/ Gone(k) \/ Remade(k)
  PROVE  NativeInv'
<1>a. WorkerTypeOK /\ EntryInv
  BY DEF NativeInv
<1>b. UNCHANGED <<underWay, removed, brokerVars>>
  BY DEF StatusChanges, Collected, Gone, Remade
<1>o. object[k] \in {Absent} \cup Object /\ object["sandbox"] \in {Absent} \cup Object
  BY <1>a, NamesOfResources DEF WorkerTypeOK
<1>1. ASSUME UNCHANGED entryVars
      PROVE  /\ EntryInv'
             /\ entry' \in [Envelopes -> {"none", "read", "reserved", "running", "fencing",
                                           "ended", "killed"}]
             /\ file' \in BOOLEAN /\ group' \subseteq Envelopes /\ launched' \subseteq Envelopes
  BY <1>a, <1>1 DEF EntryInv, Committed, WorkerTypeOK, entryVars
<1>2. CASE StatusChanges(k)
  <2>1. [object[k] EXCEPT !.version = @ + 1] \in Object
    <3>1. object[k] \in Object
      BY <1>o, <1>2 DEF StatusChanges
    <3>2. object[k].version + 1 \in 1..MaxVersion
      BY <1>2, <3>1, WorkerConstants DEF StatusChanges, Object
    <3> QED
      BY <3>1, <3>2 DEF Object
  <2>2. ObjectStep(k)
    BY <1>a, <1>o, <1>2, <2>1 DEF StatusChanges, ObjectStep, WorkerTypeOK, Object
  <2> QED
    BY <1>b, <1>1, <1>2, <2>2, ClusterStep DEF StatusChanges
<1>3. CASE Collected(k)
  <2>1. Deleting(object[k]) \in Object /\ Deleting(object[k]).uid = object[k].uid
    BY <1>o, <1>3, DeletingFacts DEF Collected
  <2>2. ObjectStep(k)
    BY <1>a, <1>o, <1>3, <2>1 DEF Collected, ObjectStep, WorkerTypeOK
  <2> QED
    BY <1>b, <1>1, <1>3, <2>2, ClusterStep DEF Collected
<1>4. CASE Gone(k)
  <2>1. ObjectStep(k)
    BY <1>a, <1>4, UidsOfObjects DEF Gone, ObjectStep, WorkerTypeOK
  <2>2. /\ EntryInv'
        /\ entry' \in [Envelopes -> {"none", "read", "reserved", "running", "fencing",
                                      "ended", "killed"}]
        /\ file' \in BOOLEAN /\ group' \subseteq Envelopes /\ launched' \subseteq Envelopes
    <3>1. CASE k = "pod"
      <4>1. /\ entry' = [e \in Envelopes |-> IF InPod(e) THEN "killed" ELSE entry[e]]
            /\ group' = {} /\ UNCHANGED <<file, launched>>
        BY <1>4, <3>1 DEF Gone
      <4>2. \A e \in Envelopes : Committed(e)' => Committed(e)
        BY <4>1 DEF Committed
      <4> QED
        BY <1>a, <4>1, <4>2 DEF EntryInv, InPod, WorkerTypeOK
    <3>2. CASE k # "pod"
      BY <1>1, <1>4, <3>2 DEF Gone, entryVars
    <3> QED
      BY <3>1, <3>2
  <2> QED
    BY <1>b, <2>1, <2>2, ClusterStep
<1>5. CASE Remade(k)
  <2>1. made[k] + 1 \in 1..MaxUid /\ made[k] \in 1..MaxUid
    BY <1>a, <1>5, WorkerConstants DEF Remade, WorkerTypeOK
  <2>2. PICK owner \in 1..MaxUid : object' = [object EXCEPT ![k] = New(made[k] + 1, owner)]
    BY <1>o, <1>5, <2>1, UidsOfObjects DEF Remade, Object
  <2>3. New(made[k] + 1, owner) \in Object /\ New(made[k] + 1, owner).uid = made[k] + 1
    BY <2>1, WorkerConstants DEF New, Object
  <2>4. ObjectStep(k)
    BY <1>a, <1>5, <2>1, <2>2, <2>3 DEF Remade, ObjectStep, WorkerTypeOK
  <2> QED
    BY <1>b, <1>1, <1>5, <2>4, ClusterStep DEF Remade
<1> QED
  BY <1>2, <1>3, <1>4, <1>5

LEMMA ClusterDeletesHolds ==
  ASSUME NativeInv, NEW d \in underWay, ClusterDeletes(d)
  PROVE  NativeInv'
<1>a. WorkerTypeOK /\ EntryInv /\ UidInv
  BY DEF NativeInv
<1>1. d.kind \in Natives /\ d.uid \in 1..MaxUid /\ d.uid = identity[d.kind] /\ stopping
  BY <1>a DEF WorkerTypeOK, UidInv
<1>2. ObjectStep(d.kind)
  <2>1. object[d.kind] \in {Absent} \cup Object /\ made[d.kind] \in 1..MaxUid
    BY <1>a, <1>1 DEF WorkerTypeOK
  <2>2. object[d.kind] # Absent => /\ Deleting(object[d.kind]) \in Object
                                   /\ Deleting(object[d.kind]).uid = object[d.kind].uid
    BY <2>1, DeletingFacts
  <2> QED
    BY <1>a, <1>1, <2>1, <2>2 DEF ClusterDeletes, Applies, ObjectStep, WorkerTypeOK
<1>3. \A r \in removed' \ removed : r \in Natives \X (1..MaxUid) /\ stopping
                                    /\ r[2] = identity[r[1]]
  BY <1>1 DEF ClusterDeletes
<1>4. /\ EntryInv'
      /\ entry' \in [Envelopes -> {"none", "read", "reserved", "running", "fencing",
                                    "ended", "killed"}]
      /\ file' \in BOOLEAN /\ group' \subseteq Envelopes /\ launched' \subseteq Envelopes
  BY <1>a DEF ClusterDeletes, EntryInv, Committed, WorkerTypeOK, entryVars
<1> QED
  BY <1>1, <1>2, <1>3, <1>4, ClusterStep DEF ClusterDeletes

-----------------------------------------------------------------------------
(* The broker.                                                             *)

(* It only goes from one position to another, or ends.                     *)
LEMMA BrokerStep ==
  ASSUME NativeInv, UNCHANGED <<object, made, removed, entryVars>>,
         AskingInv', UidInv', DeleteInv',
         identity' \in [Natives -> 0..MaxUid], stopping' \in BOOLEAN,
         deletes' \in [Natives -> {"none", "reserved", "accepted"}],
         saved' \in [Natives -> {"none", "reserved", "accepted"}],
         asking' \in Positions, saw' \in [Natives -> {Absent} \cup Object],
         underWay' \subseteq [kind : Natives, uid : 1..MaxUid, version : 1..MaxVersion],
         submitted' \in [Natives -> Nat], receipt' \in BOOLEAN
  PROVE  NativeInv'
<1>1. WorkerTypeOK'
  BY DEF NativeInv, WorkerTypeOK, entryVars
<1>2. EntryInv'
  BY DEF NativeInv, EntryInv, Committed, entryVars
<1> QED
  BY <1>1, <1>2 DEF NativeInv

LEMMA BlankIsAbsent ==
  /\ Blank \in [Natives -> {Absent} \cup Object]
  /\ \A k \in Natives : Blank[k] = Absent
  BY DEF Blank

(* The steps that only move on: what they read is what was recorded.       *)
LEMMA MovesHold ==
  ASSUME NativeInv, UNCHANGED <<clusterVars, identity, stopping, deletes, saved,
                                submitted, receipt, entryVars>>,
         asking' \in Positions, saw' \in [Natives -> {Absent} \cup Object],
         AskingInv',
         \A k \in Natives : saw'[k] \in {Absent, saw[k], object[k]}
  PROVE  NativeInv'
<1>a. WorkerTypeOK /\ DeleteInv /\ UidInv
  BY DEF NativeInv
<1>1. DeleteInv'
  BY <1>a DEF DeleteInv
<1>2. UidInv'
  <2>1. \A k \in Natives : saw'[k].uid <= made[k]
    <3>1. \A k \in Natives : 0 <= made[k] /\ saw[k].uid <= made[k] /\ object[k].uid <= made[k]
      BY <1>a DEF UidInv, WorkerTypeOK
    <3> QED
      BY <3>1, UidsOfObjects
  <2> QED
    BY <1>a, <2>1 DEF UidInv, Lost, clusterVars
<1> QED
  BY <1>a, <1>1, <1>2, BrokerStep DEF WorkerTypeOK, clusterVars

LEMMA EndingHolds ==
  ASSUME NativeInv, Ends, UNCHANGED <<clusterVars, identity, stopping, deletes,
                                      saved, submitted, receipt, entryVars>>
  PROVE  NativeInv'
<1>1. AskingInv'
  BY PositionFacts, BlankIsAbsent DEF Ends, AskingInv, Resting
<1> QED
  BY <1>1, PositionFacts, BlankIsAbsent, MovesHold DEF Ends

LEMMA ObservationHolds ==
  ASSUME NativeInv, ObserveSandbox \/ ObservePods \/ StopReserved \/ Retire
  PROVE  NativeInv'
<1>a. WorkerTypeOK /\ DeleteInv /\ AskingInv /\ UidInv
  BY DEF NativeInv
<1>1. CASE ObserveSandbox
  <2>1. asking' = <<"pods", 0>> /\ saw' = [saw EXCEPT !["sandbox"] = object["sandbox"]]
    BY <1>1 DEF ObserveSandbox
  <2>2. AskingInv'
    BY <1>1, <2>1 DEF ObserveSandbox, AskingInv
  <2>3. saw' \in [Natives -> {Absent} \cup Object]
    BY <1>a, <2>1, NamesOfResources DEF WorkerTypeOK
  <2> QED
    BY <1>1, <1>a, <2>1, <2>2, <2>3, PositionFacts, MovesHold DEF ObserveSandbox, WorkerTypeOK
<1>2. CASE ObservePods
  <2> DEFINE found == [object EXCEPT !["sandbox"] = saw["sandbox"]]
             uids == [k \in Natives |-> found[k].uid]
  <2>1. /\ ~stopping /\ underWay = {} /\ removed = {} /\ ~receipt
        /\ asking' = Resting /\ saw' = Blank
    BY <1>2, <1>a DEF ObservePods, Ends, AskingInv, UidInv
  <2>2. uids \in [Natives -> 0..MaxUid] /\ \A k \in Natives : uids[k] <= made[k]
    <3>1. \A k \in Natives : found[k] \in {object[k], saw[k]}
      BY <1>a, NamesOfResources DEF WorkerTypeOK
    <3> QED
      BY <1>a, <3>1, UidsOfObjects DEF UidInv, WorkerTypeOK
  <2>3. identity' \in {identity, uids}
    BY <1>2 DEF ObservePods
  <2>4. AskingInv'
    BY <2>1, BlankIsAbsent DEF AskingInv, Resting
  <2>5. UidInv' /\ DeleteInv'
    <3>1. \A k \in Natives : saw'[k].uid <= made[k] /\ identity'[k] <= made[k]
      <4>1. \A k \in Natives : 0 <= made[k] /\ saw'[k].uid = 0
        BY <1>a, <2>1, BlankIsAbsent, UidsOfObjects DEF WorkerTypeOK
      <4> QED
        BY <1>a, <2>2, <2>3, <4>1 DEF UidInv
    <3> QED
      BY <1>2, <1>a, <2>1, <3>1 DEF ObservePods, UidInv, DeleteInv, clusterVars
  <2> QED
    BY <1>2, <1>a, <2>1, <2>2, <2>3, <2>4, <2>5, PositionFacts, BlankIsAbsent, BrokerStep
    DEF ObservePods, WorkerTypeOK, clusterVars
<1>3. CASE StopReserved
  <2>1. AskingInv'
    BY <1>3, <1>a DEF StopReserved, AskingInv, Lost, Resting, clusterVars
  <2>2. UidInv' /\ DeleteInv'
    BY <1>3, <1>a DEF StopReserved, UidInv, Lost, DeleteInv, clusterVars
  <2> QED
    BY <1>3, <1>a, <2>1, <2>2, BrokerStep DEF StopReserved, WorkerTypeOK, clusterVars
<1>4. CASE Retire
  <2>1. PICK first \in {"snapshot", "verify"} : asking' = <<first, 1>>
    BY <1>4 DEF Retire
  <2>2. 1 \in 1..Size + 2 /\ 1 \in 1..Size /\ 1 # Size + 2
    BY NamesOfResources
  <2>3. asking' \in Positions
    BY <2>1, <2>2, MoveTo
  <2>4. AskingInv'
    BY <1>4, <1>a, <2>1, <2>2 DEF Retire, AskingInv, Resting
  <2> QED
    BY <1>4, <1>a, <2>3, <2>4, MovesHold DEF Retire, WorkerTypeOK
<1> QED
  BY <1>1, <1>2, <1>3, <1>4

LEMMA RetirementHolds ==
  ASSUME NativeInv, NEW k \in Natives,
         \/ Snapshot(k) \/ SkipAbsent(k) \/ NoRetry(k) \/ ReserveDelete(k)
         \/ DeleteAnswered(k) \/ VerifyAbsent(k)
  PROVE  NativeInv'
<1>a. WorkerTypeOK /\ DeleteInv /\ AskingInv /\ UidInv
  BY DEF NativeInv
<1>s. Size \in Nat \ {0}
  BY NamesOfResources
<1>1. CASE Snapshot(k)
  <2>1. CASE Ends
    BY <1>1, <2>1, EndingHolds DEF Snapshot
  <2>2. CASE /\ ~Replaced(k) /\ saw' = [saw EXCEPT ![k] = object[k]]
             /\ asking' = IF asking[2] = Size THEN <<"delete", 1>>
                                              ELSE <<"snapshot", asking[2] + 1>>
    <3>1. asking[1] = "snapshot" /\ asking[2] \in 1..Size /\ stopping
      BY <1>1, <1>a DEF Snapshot, AskingInv
    <3>2. asking' \in Positions
      <4>1. 1 \in 1..Size + 2 /\ (asking[2] # Size => asking[2] + 1 \in 1..Size + 2)
        BY <1>s, <3>1
      <4> QED
        BY <2>2, <4>1, MoveTo
    <3>3. saw' \in [Natives -> {Absent} \cup Object]
      BY <1>a, <2>2 DEF WorkerTypeOK
    <3>4. \A j \in Natives : saw'[j] = Absent \/ saw'[j].uid = identity[j]
      BY <1>a, <2>2, <3>1 DEF AskingInv, Replaced, WorkerTypeOK
    <3>5. AskingInv'
      BY <1>1, <1>s, <2>2, <3>1, <3>4 DEF Snapshot, AskingInv
    <3> QED
      BY <1>1, <1>a, <2>2, <3>2, <3>3, <3>5, MovesHold DEF Snapshot, WorkerTypeOK
  <2> QED
    BY <1>1, <2>1, <2>2 DEF Snapshot
<1>after. ASSUME asking[1] \in {"delete", "answer"}, AfterDelete, stopping' = stopping,
                 identity' = identity
          PROVE  /\ asking' \in Positions /\ AskingInv'
                 /\ saw' \in [Natives -> {Absent} \cup Object]
                 /\ \A j \in Natives : saw'[j] \in {Absent, saw[j]}
  <2>1. asking[2] \in 1..Size /\ stopping
    BY <1>a, <1>after DEF AskingInv
  <2>2. asking' \in Positions
    <3>1. 1 \in 1..Size + 2 /\ asking[2] + 1 \in 1..Size + 2
      BY <1>s, <2>1
    <3> QED
      BY <1>after, <3>1, MoveTo DEF AfterDelete
  <2>3. /\ saw' \in [Natives -> {Absent} \cup Object]
        /\ \A j \in Natives : saw'[j] \in {Absent, saw[j]}
    BY <1>a, <1>after, BlankIsAbsent DEF AfterDelete, WorkerTypeOK
  <2>4. AskingInv'
    BY <1>a, <1>s, <1>after, <2>1, <2>3 DEF AfterDelete, AskingInv
  <2> QED
    BY <2>2, <2>3, <2>4
<1>2. CASE SkipAbsent(k)
  BY <1>2, <1>after, MovesHold DEF SkipAbsent
<1>3. CASE NoRetry(k)
  BY <1>3, EndingHolds DEF NoRetry
<1>4. CASE ReserveDelete(k)
  <2>1. /\ asking[1] = "delete" /\ asking[2] \in 1..Size /\ stopping
        /\ saw[k] \in Object /\ saw[k].uid = identity[k] /\ deletes[k] = "none"
    BY <1>4, <1>a DEF ReserveDelete, AskingInv, WorkerTypeOK
  <2>2. /\ deletes' \in [Natives -> {"none", "reserved", "accepted"}]
        /\ \A j \in Natives : deletes[j] # "none" => deletes'[j] # "none"
        /\ deletes'[k] = "reserved"
    BY <1>4, <1>a DEF ReserveDelete, WorkerTypeOK
  <2>3. CASE /\ saved' = deletes' /\ asking' = <<"answer", asking[2]>> /\ UNCHANGED saw
             /\ submitted' = [submitted EXCEPT ![k] = @ + 1]
             /\ underWay' = underWay \cup {Delete(k)}
    <3>1. submitted[k] = 0
      BY <1>a, <2>1 DEF DeleteInv
    <3>2. submitted' \in [Natives -> Nat] /\ DeleteInv'
      BY <1>a, <2>2, <2>3, <3>1 DEF DeleteInv, WorkerTypeOK
    <3>3. Delete(k) \in [kind : Natives, uid : 1..MaxUid, version : 1..MaxVersion]
      BY <2>1 DEF Delete, Object
    <3>4. asking' \in Positions /\ AskingInv'
      <4>1. asking[2] \in 1..Size + 2
        BY <1>s, <2>1
      <4> QED
        BY <1>4, <1>a, <2>1, <2>3, <4>1, MoveTo DEF ReserveDelete, AskingInv
    <3>5. UidInv'
      BY <1>4, <1>a, <2>1, <2>3 DEF ReserveDelete, UidInv, Lost, Delete
    <3> QED
      BY <1>4, <1>a, <2>2, <2>3, <3>2, <3>3, <3>4, <3>5, BrokerStep
      DEF ReserveDelete, WorkerTypeOK
  <2>4. CASE Ends /\ UNCHANGED <<saved, submitted, underWay>>
    <3>1. DeleteInv'
      BY <1>a, <2>2, <2>4 DEF DeleteInv
    <3>2. asking' \in Positions /\ AskingInv' /\ saw' \in [Natives -> {Absent} \cup Object]
      BY <2>4, PositionFacts, BlankIsAbsent DEF Ends, AskingInv, Resting
    <3>3. UidInv'
      <4>1. \A j \in Natives : saw'[j].uid <= made[j]
        BY <1>a, <2>4, BlankIsAbsent, UidsOfObjects, WorkerConstants DEF Ends, WorkerTypeOK
      <4> QED
        BY <1>4, <1>a, <2>4, <4>1 DEF ReserveDelete, UidInv, Lost
    <3> QED
      BY <1>4, <1>a, <2>2, <2>4, <3>1, <3>2, <3>3, BrokerStep DEF ReserveDelete, WorkerTypeOK
  <2> QED
    BY <1>4, <2>3, <2>4 DEF ReserveDelete
<1>5. CASE DeleteAnswered(k)
  <2>1. asking[1] = "answer"
    BY <1>5 DEF DeleteAnswered
  <2>2. CASE Ends /\ UNCHANGED <<deletes, saved>>
    BY <1>5, <2>2, EndingHolds DEF DeleteAnswered
  <2>3. CASE /\ deletes' = [deletes EXCEPT ![k] = "accepted"]
             /\ (saved' = deletes' /\ AfterDelete) \/ (UNCHANGED saved /\ Ends)
    <3>1. /\ deletes' \in [Natives -> {"none", "reserved", "accepted"}]
          /\ saved' \in [Natives -> {"none", "reserved", "accepted"}]
          /\ \A j \in Natives : deletes[j] # "none" => deletes'[j] # "none"
      BY <1>a, <2>3 DEF WorkerTypeOK
    <3>2. DeleteInv'
      BY <1>5, <1>a, <2>3, <3>1 DEF DeleteAnswered, DeleteInv
    <3>3. /\ asking' \in Positions /\ AskingInv' /\ saw' \in [Natives -> {Absent} \cup Object]
          /\ \A j \in Natives : saw'[j] \in {Absent, saw[j]}
      <4>1. CASE AfterDelete
        BY <1>5, <1>after, <2>1, <4>1 DEF DeleteAnswered
      <4>2. CASE Ends
        BY <4>2, PositionFacts, BlankIsAbsent DEF Ends, AskingInv, Resting
      <4> QED
        BY <2>3, <4>1, <4>2
    <3>4. UidInv'
      <4>1. \A j \in Natives : saw'[j].uid <= made[j]
        <5>1. \A j \in Natives : 0 <= made[j] /\ saw[j].uid <= made[j]
          BY <1>a DEF UidInv, WorkerTypeOK
        <5> QED
          BY <3>3, <5>1, UidsOfObjects
      <4> QED
        BY <1>5, <1>a, <4>1 DEF DeleteAnswered, UidInv, Lost, clusterVars
    <3> QED
      BY <1>5, <1>a, <3>1, <3>2, <3>3, <3>4, BrokerStep
      DEF DeleteAnswered, WorkerTypeOK, clusterVars
  <2> QED
    BY <1>5, <2>2, <2>3 DEF DeleteAnswered
<1>6. CASE VerifyAbsent(k)
  <2>1. CASE Ends
    BY <1>6, <2>1, EndingHolds DEF VerifyAbsent
  <2>2. CASE asking' = <<"verify", asking[2] + 1>> /\ UNCHANGED saw
    <3>1. asking[1] = "verify" /\ asking[2] <= Size /\ asking \in Positions
      BY <1>6, <1>a DEF VerifyAbsent, WorkerTypeOK
    <3>2. asking[2] \in 1..Size
      BY <1>s, <3>1 DEF Positions, Resting
    <3>3. asking' \in Positions /\ asking' # <<"verify", Size + 2>>
      <4>1. asking[2] + 1 \in 1..Size + 2 /\ asking[2] + 1 # Size + 2
        BY <1>s, <3>2
      <4> QED
        BY <2>2, <4>1, MoveTo
    <3>4. AskingInv'
      BY <1>6, <1>a, <2>2, <3>1, <3>3 DEF VerifyAbsent, AskingInv
    <3> QED
      BY <1>6, <1>a, <2>2, <3>3, <3>4, MovesHold DEF VerifyAbsent, WorkerTypeOK
  <2> QED
    BY <1>6, <2>1, <2>2 DEF VerifyAbsent
<1> QED
  BY <1>1, <1>2, <1>3, <1>4, <1>5, <1>6

LEMMA VerifyListsHolds ==
  ASSUME NativeInv, VerifyLists
  PROVE  NativeInv'
<1>a. WorkerTypeOK /\ DeleteInv /\ AskingInv /\ UidInv
  BY DEF NativeInv
<1>s. Size \in Nat \ {0}
  BY NamesOfResources
<1>1. CASE /\ asking = <<"verify", Size + 1>>
           /\ \A k \in Natives \ {"sandbox"} : object[k] = Absent
           /\ asking' = <<"verify", Size + 2>> /\ UNCHANGED <<receipt, saw>>
  <2>1. AskingInv'
    BY <1>a, <1>1 DEF VerifyLists, AskingInv, Lost, clusterVars
  <2>2. asking' \in Positions
    <3>1. Size + 2 \in 1..Size + 2
      BY <1>s
    <3> QED
      BY <1>1, <3>1, MoveTo
  <2> QED
    BY <1>a, <1>1, <2>1, <2>2, MovesHold DEF VerifyLists, WorkerTypeOK
<1>2. CASE /\ asking = <<"verify", Size + 2>> /\ object["sandbox"] = Absent
           /\ Ends /\ receipt' = TRUE
  <2>1. stopping /\ \A k \in Natives : Lost(k)
    BY <1>a, <1>2 DEF AskingInv, Lost
  <2>2. asking' \in Positions /\ AskingInv' /\ saw' \in [Natives -> {Absent} \cup Object]
    BY <1>2, PositionFacts, BlankIsAbsent DEF Ends, AskingInv, Resting
  <2>3. UidInv' /\ DeleteInv'
    <3>1. \A j \in Natives : saw'[j].uid <= made[j]
      BY <1>a, <1>2, BlankIsAbsent, UidsOfObjects, WorkerConstants DEF Ends, WorkerTypeOK
    <3> QED
      BY <1>a, <2>1, <3>1 DEF VerifyLists, UidInv, DeleteInv, Lost, clusterVars
  <2> QED
    BY <1>a, <1>2, <2>2, <2>3, BrokerStep DEF VerifyLists, WorkerTypeOK, clusterVars
<1>3. CASE Ends /\ UNCHANGED receipt
  BY <1>3, EndingHolds DEF VerifyLists
<1> QED
  BY <1>1, <1>2, <1>3 DEF VerifyLists

LEMMA RestartHolds ==
  ASSUME NativeInv, BrokerRestart
  PROVE  NativeInv'
<1>a. WorkerTypeOK /\ DeleteInv /\ UidInv
  BY DEF NativeInv
<1>1. asking' \in Positions /\ AskingInv' /\ saw' \in [Natives -> {Absent} \cup Object]
  BY PositionFacts, BlankIsAbsent DEF BrokerRestart, Ends, AskingInv, Resting
<1>2. DeleteInv'
  BY <1>a DEF BrokerRestart, DeleteInv
<1>3. UidInv'
  <2>1. \A j \in Natives : saw'[j].uid <= made[j]
    BY <1>a, BlankIsAbsent, UidsOfObjects, WorkerConstants DEF BrokerRestart, Ends, WorkerTypeOK
  <2> QED
    BY <1>a, <2>1 DEF BrokerRestart, UidInv, Lost, clusterVars
<1> QED
  BY <1>a, <1>1, <1>2, <1>3, BrokerStep DEF BrokerRestart, WorkerTypeOK, clusterVars

LEMMA WorkerStepHolds == NativeInv /\ [WorkerNext]_workerVars => NativeInv'
<1> SUFFICES ASSUME NativeInv, [WorkerNext]_workerVars PROVE NativeInv'
  OBVIOUS
<1>1. CASE UNCHANGED workerVars
  <2>1. UNCHANGED <<clusterVars, brokerVars>> /\ UNCHANGED entryVars
    BY <1>1 DEF workerVars, clusterVars, brokerVars, entryVars
  <2>2. EntryInv'
    BY <2>1 DEF NativeInv, EntryInv, Committed, entryVars
  <2> QED
    BY <2>1, <2>2, EntriesStep DEF NativeInv, WorkerTypeOK, entryVars
<1> QED
  BY <1>1, ObservationHolds, RetirementHolds, VerifyListsHolds, RestartHolds,
     ClusterStepHolds, ClusterDeletesHolds, EntryStepHolds DEF WorkerNext

LEMMA WorkerAlways == WorkerSpec => []NativeInv
  BY WorkerInitHolds, WorkerStepHolds, PTL DEF WorkerSpec

(* A set of which all members are equal has one member at most.            *)
LEMMA AtMostOne ==
  ASSUME NEW S, \A x, y \in S : x = y
  PROVE  Cardinality(S) <= 1
<1>1. CASE S = {}
  BY <1>1, FS_EmptySet
<1>2. CASE S # {}
  <2>1. PICK x \in S : TRUE
    BY <1>2
  <2>2. S = {x}
    BY <2>1
  <2> QED
    BY <2>2, FS_Singleton
<1> QED
  BY <1>1, <1>2

(* Whatever restarts, times out or is replayed: one DELETE for a resource, *)
(* none of it on a resource made since, one client and one executor.       *)
THEOREM WorkerActsOnce == WorkerSpec => []ActsOnce
<1>1. ASSUME NativeInv PROVE ActsOnce
  <2>a. WorkerTypeOK /\ EntryInv /\ DeleteInv /\ UidInv
    BY <1>1 DEF NativeInv
  <2>1. \A x, y \in launched : x = y
    BY <2>a DEF EntryInv, Committed, WorkerTypeOK
  <2>2. Cardinality(launched) <= 1
    BY <2>1, AtMostOne
  <2>3. \A k \in Natives : submitted[k] <= 1
    BY <2>a DEF DeleteInv
  <2>4. \A e \in Envelopes : entry[e] = "ended" => e \notin group
    BY <2>a DEF EntryInv
  <2> QED
    BY <2>a, <2>2, <2>3, <2>4 DEF UidInv, Lost, ActsOnce
<1> QED
  BY WorkerAlways, <1>1, PTL

---------------------------------------------------------------------------
(* The parts together *)

LEMMA PartsSteps ==
  [PartsNext]_<<taskVars, workerVars, provisionVars, part>>
    => [Next]_vars /\ [WorkerNext]_workerVars /\ [ProvisionNext]_provisionVars
BY DEF PartsNext, taskVars

(* The instance that TLC checks is a behaviour of each of its parts, so    *)
(* that what holds of a part holds of the instance.                        *)
THEOREM PartsAreSpecs == PartsSpec => Spec /\ WorkerSpec /\ ProvisionSpec
<1>1. PartsInit => Init /\ WorkerInit /\ ProvisionInit
  BY DEF PartsInit
<1> QED BY <1>1, PartsSteps, PTL DEF PartsSpec, Spec, WorkerSpec, ProvisionSpec

(* The state of a task, of a worker and of a preparation stays in its      *)
(* types.                                                                  *)
THEOREM PartsTypeCorrect == PartsSpec => []PartsTypeOK
<1>1. TypeOK /\ NativeInv /\ ProvisionInv => PartsTypeOK
  BY DEF NativeInv, ProvisionInv, PartsTypeOK
<1> QED BY <1>1, PartsAreSpecs, TypeCorrect, WorkerAlways, ProvisionAlways, PTL
=============================================================================
