-------------------------------- MODULE Apps --------------------------------
(***************************************************************************)
(* Application addresses of the gateway (scripts/auth_proxy.js,            *)
(* app_signin.js, external_upstream.js, local_shared_proxy.js), for one    *)
(* alias: its mapping in app-links.json, the visits the gateway passes on  *)
(* under it, and the sign-in page of the application.  The gateway is one  *)
(* event loop; what follows a DNS lookup or a check of credentials sees    *)
(* whatever other handlers did in between.                                 *)
(***************************************************************************)
EXTENDS Naturals

CONSTANTS
  Visits,   \* connections
  Pages,    \* sign-in tokens
  MaxStamp  \* bound on the changes of the mapping

ASSUME AppsConstants == MaxStamp \in Nat

VARIABLES
  mapping,    \* the alias in the registry
  lockLeft,   \* a crash left the lock file of the registry behind
  account,    \* the owner is enabled, and allowed the Internet if it is needed
  hostname,   \* the inventory has the hostname, and a policy allows the target
  visitor,    \* a visitor of the audience has a session
  visit,      \* the connections
  page        \* the sign-in tokens

appVars == <<mapping, lockLeft, account, hostname, visitor, visit, page>>

Audiences == {"owner", "shared", "public"}
Mapping == [stamp : 0..MaxStamp, audience : Audiences \cup {"none"}, enabled : BOOLEAN]
NoVisit == [kind |-> "none"]
Visit == [kind : Audiences, stamp : 1..MaxStamp, browser : BOOLEAN,
          upstream : {"lookup", "open", "closed"}, missed : BOOLEAN]
NoPage == [at |-> "none"]
Page == [at : {"shown", "checking", "used"}, stamp : 1..MaxStamp]

AppsTypeOK ==
  /\ mapping \in Mapping
  /\ lockLeft \in BOOLEAN /\ account \in BOOLEAN /\ hostname \in BOOLEAN
  /\ visitor \in BOOLEAN
  /\ visit \in [Visits -> {NoVisit} \cup Visit]
  /\ page \in [Pages -> {NoPage} \cup Page]

AppsInit ==
  /\ mapping = [stamp |-> 0, audience |-> "none", enabled |-> FALSE]
  /\ lockLeft = FALSE
  /\ account = TRUE /\ hostname = TRUE /\ visitor = TRUE
  /\ visit = [v \in Visits |-> NoVisit]
  /\ page = [p \in Pages |-> NoPage]

(* resolveTarget: there, enabled, and a target the policy allows.          *)
Resolves == mapping.audience # "none" /\ mapping.enabled /\ hostname

(* Mutant: the registry is not looked at.                                  *)
MutantAvailable == account /\ hostname

(* resolveTarget, customAppPort, appHostnameState, and the owner's account *)
Available == Resolves /\ account
Gated == Available /\ mapping.audience # "public"

(* sharedExternalApp, publicApp, and the owner's own address.              *)
Admits(kind) ==
  /\ Available
  /\ kind # "owner" => mapping.audience = kind
  /\ kind = "shared" => visitor

StillAdmitted(v) == Admits(visit[v].kind) /\ mapping.stamp = visit[v].stamp

(* A destroyed connection takes an upstream that is there with it; a       *)
(* lookup goes on.                                                         *)
Destroyed(w) ==
  IF w = NoVisit THEN w
  ELSE [w EXCEPT !.browser = FALSE,
                 !.upstream = IF @ = "open" THEN "closed" ELSE @]
CloseAppConnections == visit' = [v \in Visits |-> Destroyed(visit[v])]

(* The mapping changed and the connections were not closed.                *)
Misses == visit' = [v \in Visits |->
  IF visit[v] = NoVisit THEN NoVisit ELSE [visit[v] EXCEPT !.missed = TRUE]]

(* The owner saves or deletes, or the administrator edits, enables,        *)
(* disables or deletes.  The file is replaced first, then the connections  *)
(* are closed, unless the directory could not be synced or the lock not    *)
(* removed: the change is there but counts as failed.  A mapping that is   *)
(* taken away keeps its number here; the stamp is a digest with the time.  *)
Changes(new) ==
  /\ ~lockLeft /\ mapping.stamp < MaxStamp
  /\ new.stamp = mapping.stamp + 1

SaveAppLinks(new) ==
  /\ Changes(new)
  /\ mapping' = new
  /\ CloseAppConnections \/ Misses
  /\ UNCHANGED <<lockLeft, account, hostname, visitor, page>>

GatewayGone ==
  /\ visit' = [v \in Visits |-> NoVisit]
  /\ page' = [p \in Pages |-> NoPage]

(* A crash while the lock is held, before or after the file is replaced:   *)
(* no later save gets past the lock.                                       *)
CrashInSave(new) ==
  /\ Changes(new)
  /\ lockLeft' = TRUE
  /\ mapping' \in {mapping, new}
  /\ GatewayGone
  /\ UNCHANGED <<account, hostname, visitor>>

GatewayRestart == GatewayGone /\ UNCHANGED <<mapping, lockLeft, account, hostname, visitor>>

(* revokeUserSessions of the owner closes the connections of the alias,    *)
(* unless the sessions could not be written.                               *)
AccountChanges ==
  /\ account' = ~account
  /\ IF account THEN CloseAppConnections \/ Misses ELSE UNCHANGED visit
  /\ UNCHANGED <<mapping, lockLeft, hostname, visitor, page>>

HostnameChanges ==
  /\ hostname' = ~hostname
  /\ UNCHANGED <<mapping, lockLeft, account, visitor, visit, page>>

(* Logout closes all connections of the session; a revocation only the     *)
(* upgraded ones, and the audience may also change without either.         *)
VisitorLeaves(closes) ==
  /\ visitor /\ visitor' = FALSE
  /\ visit' = [v \in Visits |->
       IF closes /\ visit[v].kind = "shared" THEN Destroyed(visit[v]) ELSE visit[v]]
  /\ UNCHANGED <<mapping, lockLeft, account, hostname, page>>

(* The connection is tracked under the alias before anything is awaited.   *)
Arrives(v, kind) ==
  /\ visit[v] = NoVisit /\ Admits(kind)
  /\ visit' = [visit EXCEPT ![v] = [kind |-> kind, stamp |-> mapping.stamp,
                 browser |-> TRUE, upstream |-> "lookup", missed |-> FALSE]]
  /\ UNCHANGED <<mapping, lockLeft, account, hostname, visitor, page>>

(* Only a shared visit is authorized again after the lookup.  A connection *)
(* that was destroyed in the meantime still gets an upstream.              *)
Connects(v) ==
  /\ visit[v].kind # "none" /\ visit[v].upstream = "lookup"
  /\ visit' = [visit EXCEPT ![v] =
       IF @.kind = "shared" /\ ~StillAdmitted(v)
       THEN [@ EXCEPT !.browser = FALSE, !.upstream = "closed"]
       ELSE [@ EXCEPT !.upstream = "open"]]
  /\ UNCHANGED <<mapping, lockLeft, account, hostname, visitor, page>>

(* The lookup fails, or either side closes.                                *)
Ends(v) ==
  /\ visit[v] # NoVisit
  /\ visit' = [visit EXCEPT ![v] = NoVisit]
  /\ UNCHANGED <<mapping, lockLeft, account, hostname, visitor, page>>

(* Mutant: the interval looks at the mapping only.                         *)
MutantMonitor(v) ==
  /\ visit[v].kind \in {"shared", "public"} /\ visit[v].browser
  /\ mapping.stamp # visit[v].stamp
  /\ visit' = [visit EXCEPT ![v] = Destroyed(@)]
  /\ UNCHANGED <<mapping, lockLeft, account, hostname, visitor, page>>

(* Every two seconds, for visitors; the owner's own visits have none.      *)
Monitor(v) ==
  /\ visit[v].kind \in {"shared", "public"} /\ visit[v].browser
  /\ ~StillAdmitted(v)
  /\ visit' = [visit EXCEPT ![v] = Destroyed(@)]
  /\ UNCHANGED <<mapping, lockLeft, account, hostname, visitor, page>>

(* AppSignIn.mapping: the registry alone, not the account or the hostname. *)
SignInMapping == mapping.enabled /\ mapping.audience \in {"owner", "shared"}

(* The page of a gated application carries a token, for five minutes.      *)
BeginSignIn(p) ==
  /\ page[p] = NoPage /\ SignInMapping
  /\ page' = [page EXCEPT ![p] = [at |-> "shown", stamp |-> mapping.stamp]]
  /\ UNCHANGED <<mapping, lockLeft, account, hostname, visitor, visit>>

(* The token is used up, whatever becomes of the attempt.                  *)
Consume(p) ==
  /\ page[p].at = "shown"
  /\ page' = [page EXCEPT ![p].at =
       IF SignInMapping /\ mapping.stamp = page[p].stamp THEN "checking" ELSE "used"]
  /\ UNCHANGED <<mapping, lockLeft, account, hostname, visitor, visit>>

(* After the check of the credentials the mapping is looked at again.      *)
SignsIn(p) ==
  /\ page[p].at = "checking"
  /\ page' = [page EXCEPT ![p].at = "used"]
  /\ visitor' \in IF Gated /\ mapping.stamp = page[p].stamp THEN {visitor, TRUE} ELSE {visitor}
  /\ UNCHANGED <<mapping, lockLeft, account, hostname, visit>>

AppsNext ==
  \/ AccountChanges \/ HostnameChanges \/ GatewayRestart
  \/ \E closes \in BOOLEAN : VisitorLeaves(closes)
  \/ \E new \in Mapping : SaveAppLinks(new) \/ CrashInSave(new)
  \/ \E v \in Visits :
       \/ \E kind \in Audiences : Arrives(v, kind)
       \/ Connects(v) \/ Ends(v) \/ Monitor(v)
  \/ \E p \in Pages : BeginSignIn(p) \/ Consume(p) \/ SignsIn(p)

AppsFairness == \A v \in Visits : WF_appVars(Monitor(v))

AppsSpec == AppsInit /\ [][AppsNext]_appVars /\ AppsFairness

-----------------------------------------------------------------------------
(* The owner's own connection is one of an enabled account to the mapping  *)
(* as it is, or a change was made and counted as failed.                   *)
OwnersVisitIsCurrent(v) ==
  visit[v].kind = "owner" /\ visit[v].browser /\ ~visit[v].missed
    => account /\ mapping.stamp = visit[v].stamp

(* A browser connection that was let in and no longer would be is closed,  *)
(* unless it would be let in again: at once where the mapping or the       *)
(* owner's account changed, by the interval otherwise.  The owner's own    *)
(* connection stays open where a change was made but counted as failed, or *)
(* where only the hostname was withdrawn.                                  *)
LapsedVisitEnds ==
  \A v \in Visits :
    /\ visit[v].kind \in {"shared", "public"} /\ visit[v].browser /\ ~StillAdmitted(v)
         ~> visit[v] = NoVisit \/ ~visit[v].browser \/ StillAdmitted(v)
    /\ []OwnersVisitIsCurrent(v)
=============================================================================
