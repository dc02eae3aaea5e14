--------------------------- MODULE Gateway_proofs ---------------------------
(***************************************************************************)
(* Three services of the gateway, each for any number of its users: its    *)
(* sessions and accounts, the Jupyter server it launches on demand, and    *)
(* the package requests.  Each has one inductive invariant: which sessions *)
(* are in the map, in the file and valid (SessionInv); who may own a       *)
(* server (ServerInv); and what a request has while it is open (WorkInv,   *)
(* OwnerInv, WheelsInv).                                                   *)
(***************************************************************************)
EXTENDS Accounts, Jupyter, Packages, FiniteSetTheorems, TLAPS

(* Sessions and accounts *)

(* Every session in the map is in the file, and each of the file's is in   *)
(* the map and valid, unless its removal was refused once: what the map    *)
(* has dropped as invalid had been refused before.                         *)
SessionInv ==
  /\ memory \subseteq saved
  /\ \A s \in saved \cup ended : row[s] # NoRow
  /\ \A s \in saved : (s \in memory /\ Valid(s)) \/ s \in refused
  /\ SignedOutStaysOut

AccountsInv == AccountsTypeOK /\ SessionInv

LEMMA AccountsInitHolds == AccountsInit => AccountsInv
  BY DEF AccountsInit, AccountsInv, AccountsTypeOK, SessionInv, SignedOutStaysOut

LEMMA RowsHaveUsers ==
  ASSUME AccountsTypeOK, NEW s \in Sids, row[s] # NoRow
  PROVE  row[s] \in Row /\ row[s].user \in Users
  BY DEF AccountsTypeOK, Row

(* Sessions are revoked after their account has changed: only they may     *)
(* become invalid.                                                         *)
LEMMA RevokeHolds ==
  ASSUME AccountsTypeOK, SessionInv, NEW u \in Users, Revoke(u), row' = row,
         \A v \in Users \ {u} : accounts'[v] = accounts[v]
  PROVE  /\ SessionInv' /\ memory' \subseteq Sids /\ saved' \subseteq Sids
         /\ sockets' \subseteq Sids /\ ended' \subseteq Sids /\ refused' \subseteq Sids
<1>1. \A s \in saved : s \in Sids /\ row[s] \in Row
  BY RowsHaveUsers DEF AccountsTypeOK, SessionInv
<1>2. \A s \in saved : row[s].user # u /\ Valid(s) => Valid(s)'
  BY <1>1 DEF Valid, Enabled, Exists, Row
<1>3. ended \cup {s \in Sids : row[s].user = u} \subseteq {s \in Sids : row[s] # NoRow}
  BY AccountConstants DEF AccountsTypeOK, SessionInv, NoRow, None
<1>4. SessionsOf(u) \subseteq memory /\ \A s \in memory \ SessionsOf(u) : row[s].user # u
  BY DEF SessionsOf
<1>5. CASE /\ SessionsOf(u) = {} /\ UNCHANGED <<memory, saved, refused>>
           /\ sockets' = {s \in sockets : row[s].user # u}
           /\ ended' = ended \cup {s \in Sids : row[s].user = u}
  BY <1>1, <1>2, <1>3, <1>4, <1>5 DEF AccountsTypeOK, SessionInv, SignedOutStaysOut
<1>6. CASE /\ Removes(SessionsOf(u)) /\ UNCHANGED refused
           /\ sockets' = {s \in sockets : row[s].user # u}
           /\ ended' = ended \cup {s \in Sids : row[s].user = u}
  BY <1>1, <1>2, <1>3, <1>4, <1>6 DEF Removes, AccountsTypeOK, SessionInv, SignedOutStaysOut
<1>7. CASE Refuses(SessionsOf(u)) /\ UNCHANGED <<sockets, ended>>
  BY <1>1, <1>2, <1>3, <1>4, <1>7 DEF Refuses, AccountsTypeOK, SessionInv, SignedOutStaysOut
<1> QED
  BY <1>5, <1>6, <1>7 DEF Revoke

LEMMA FreshAccounts ==
  ASSUME AccountsTypeOK, FreeSlots # {}, NEW kind \in {"local", "ldap"}
  PROVE  NewAccount(kind) \in Account
<1>1. (CHOOSE s \in FreeSlots : TRUE) \in Slots
  BY DEF FreeSlots
<1> QED
  BY <1>1, AccountConstants DEF NewAccount, Account

(* No session of somebody who has no account is valid.                     *)
LEMMA AccountsGrow ==
  ASSUME AccountsTypeOK, SessionInv, NEW u \in Users, ~Exists(u), NEW a,
         accounts' = [accounts EXCEPT ![u] = a], row' = row
  PROVE  \A s \in saved : Valid(s) => Valid(s)'
<1>1. \A s \in saved : row[s] \in Row
  BY RowsHaveUsers DEF AccountsTypeOK, SessionInv
<1> QED
  BY <1>1 DEF Valid, Enabled, Exists, Row, AccountsTypeOK

LEMMA AccountsStepHolds == AccountsInv /\ [AccountsNext]_accountVars => AccountsInv'
<1> SUFFICES ASSUME AccountsInv, [AccountsNext]_accountVars PROVE AccountsInv'
  OBVIOUS
<1>a. AccountsTypeOK /\ SessionInv
  BY DEF AccountsInv
<1>1. ASSUME NEW u \in Users, Register(u) PROVE AccountsInv'
  <2>1. accounts' \in [Users -> {NoAccount} \cup Account]
    BY <1>1, <1>a, FreshAccounts DEF Register, AccountsTypeOK
  <2>2. \A s \in saved : Valid(s) => Valid(s)'
    BY <1>1, <1>a, AccountsGrow DEF Register
  <2> QED
    BY <1>1, <1>a, <2>1, <2>2 DEF Register, AccountsInv, AccountsTypeOK, SessionInv, SignedOutStaysOut
<1>2. ASSUME NEW u \in Users,
             NEW action \in {"enable", "disable", "allow", "deny", "reset", "revoke"},
             Managed(u, action)
      PROVE  AccountsInv'
  <2>1. accounts[u] \in Account
    BY <1>2, <1>a DEF Managed, Exists, NoAccount, AccountsTypeOK
  <2>2. /\ accounts' \in [Users -> {NoAccount} \cup Account]
        /\ \A v \in Users \ {u} : accounts'[v] = accounts[v]
    <3>1. ASSUME action = "reset" PROVE accounts[u].password + 1 \in 0..MaxChanges
      BY <1>2, <2>1, <3>1, AccountConstants DEF Managed, Account
    <3>2. \E a \in Account : accounts' = [accounts EXCEPT ![u] = a]
      <4>1. CASE action \in {"enable", "disable"}
        BY <1>2, <2>1, <4>1, [accounts[u] EXCEPT !.disabled = (action = "disable")] \in Account
        DEF Managed, Account
      <4>2. CASE action \in {"allow", "deny"}
        BY <1>2, <2>1, <4>2, [accounts[u] EXCEPT !.internet = (action = "allow")] \in Account
        DEF Managed, Account
      <4>3. CASE action = "reset"
        <5>1. [accounts[u] EXCEPT !.password = @ + 1, !.mustChange = TRUE] \in Account
          BY <2>1, <3>1, <4>3 DEF Account
        <5>2. accounts' = [accounts EXCEPT ![u] =
                [accounts[u] EXCEPT !.password = @ + 1, !.mustChange = TRUE]]
          <6> DEFINE new == [accounts[u] EXCEPT !.password = @ + 1, !.mustChange = TRUE]
                     able == [accounts[u] EXCEPT !.disabled = (action = "disable")]
                     net == [accounts[u] EXCEPT !.internet = (action = "allow")]
          <6>1. accounts' = [accounts EXCEPT ![u] =
                  CASE action \in {"enable", "disable"} -> able
                    [] action \in {"allow", "deny"} -> net
                    [] action = "reset" -> new
                    [] action = "revoke" -> @]
            BY <1>2 DEF Managed
          <6> HIDE DEF new, able, net
          <6>2. accounts' = [accounts EXCEPT ![u] = new]
            BY <4>3, <6>1
          <6> QED
            BY <6>2 DEF new
        <5> QED
          BY <5>1, <5>2
      <4>4. CASE action = "revoke"
        BY <1>2, <2>1, <4>4 DEF Managed
      <4> QED
        BY <4>1, <4>2, <4>3, <4>4
    <3> QED
      BY <1>a, <3>2 DEF AccountsTypeOK
  <2>3. CASE action \in {"enable", "allow"}
    <3>1. /\ accounts'[u].kind = accounts[u].kind /\ accounts'[u].password = accounts[u].password
          /\ accounts'[u].disabled => accounts[u].disabled
          /\ accounts[u].internet => accounts'[u].internet
      BY <1>2, <1>a, <2>1, <2>3 DEF Managed, AccountsTypeOK, Account
    <3>2. \A s \in saved : row[s] \in Row
      BY <1>a, RowsHaveUsers DEF AccountsTypeOK, SessionInv
    <3>3. \A s \in saved : Valid(s) => Valid(s)'
      BY <1>2, <2>2, <3>1, <3>2 DEF Managed, Valid, Enabled, Exists, Row
    <3> QED
      BY <1>2, <1>a, <2>2, <2>3, <3>3 DEF Managed, AccountsInv, AccountsTypeOK, SessionInv,
        SignedOutStaysOut
  <2>4. CASE action \notin {"enable", "allow"}
    BY <1>2, <1>a, <2>2, <2>4, RevokeHolds DEF Managed, AccountsInv, AccountsTypeOK
  <2> QED
    BY <2>3, <2>4
<1>3. ASSUME NEW u \in Users, NEW r \in Awaiting, NEW op \in {"local", "ldap", "change"},
             Begin(r, op, u)
      PROVE  AccountsInv'
  BY <1>3, <1>a DEF Begin, Wait, AccountsInv, AccountsTypeOK, SessionInv, SignedOutStaysOut,
    Valid, Enabled, Exists
<1>4. ASSUME NEW r \in Awaiting, GiveUp(r) PROVE AccountsInv'
  BY <1>4, <1>a DEF GiveUp, AccountsInv, AccountsTypeOK, SessionInv, SignedOutStaysOut,
    Valid, Enabled, Exists
<1>5. ASSUME NEW r \in Awaiting, Changed(r) PROVE AccountsInv'
  <2> DEFINE u == waiting[r].user
  <2>1. u \in Users /\ waiting' \in [Awaiting -> {NoWait} \cup Wait]
    BY <1>5, <1>a DEF Changed, AccountsTypeOK, Wait, NoWait, None
  <2>2. accounts[u] \in Account
    BY <1>5, <1>a, <2>1 DEF Changed, Enabled, Exists, NoAccount, AccountsTypeOK
  <2>3. /\ accounts' \in [Users -> {NoAccount} \cup Account]
        /\ \A v \in Users \ {u} : accounts'[v] = accounts[v]
    <3>1. accounts[u].password + 1 \in 0..MaxChanges
      BY <1>5, <2>2, AccountConstants DEF Changed, Account
    <3> QED
      BY <1>5, <1>a, <2>1, <2>2, <3>1 DEF Changed, AccountsTypeOK, Account
  <2> QED
    BY <1>5, <1>a, <2>1, <2>3, RevokeHolds DEF Changed, AccountsInv, AccountsTypeOK
<1>6. ASSUME NEW r \in Awaiting, NEW s \in Sids, NEW net \in BOOLEAN, SignedIn(r, s, net)
      PROVE  AccountsInv'
  <2> DEFINE w == waiting[r]
             u == w.user
  <2>1. u \in Users /\ w.op \in {"local", "ldap"} /\ waiting' \in [Awaiting -> {NoWait} \cup Wait]
    BY <1>6, <1>a DEF SignedIn, AccountsTypeOK, Wait, NoWait, None
  <2>2. /\ accounts' \in [Users -> {NoAccount} \cup Account]
        /\ \A t \in saved : Valid(t) => accounts'[row[t].user] = accounts[row[t].user]
    <3>0. \A t \in saved : row[t] \in Row
      BY <1>a, RowsHaveUsers DEF AccountsTypeOK, SessionInv
    <3>1. CASE w.op = "ldap" /\ ~Exists(u)
      <4>1. accounts' = [accounts EXCEPT ![u] = NewAccount("ldap")] /\ FreeSlots # {}
        BY <1>6, <3>1 DEF SignedIn
      <4>2. accounts' \in [Users -> {NoAccount} \cup Account]
        BY <1>a, <4>1, FreshAccounts DEF AccountsTypeOK
      <4> QED
        BY <1>a, <2>1, <3>0, <3>1, <4>1, <4>2 DEF Valid, Enabled, Exists, Row, AccountsTypeOK
    <3>2. CASE ~(w.op = "ldap" /\ ~Exists(u))
      <4>1. accounts' = accounts
        BY <1>6, <3>2 DEF SignedIn
      <4> QED
        BY <1>a, <3>0, <4>1 DEF Valid, Enabled, Exists, AccountsTypeOK
    <3> QED
      BY <3>1, <3>2
  <2>3. accounts'[u] \in Account /\ ~accounts'[u].disabled /\ accounts'[u].kind # None
    BY <1>6, <2>1, <2>2 DEF SignedIn, NoAccount, None
  <2>4. /\ row[s] = NoRow
        /\ row' = [row EXCEPT ![s] = [user |-> u, internet |-> net, stamp |-> accounts'[u].password]]
        /\ memory' = memory \cup {s} /\ saved' = memory \cup {s}
        /\ UNCHANGED <<sockets, ended, refused>> /\ (net => accounts'[u].internet)
    BY <1>6 DEF SignedIn, Issue
  <2>5. row'[s] \in Row /\ row' \in [Sids -> {NoRow} \cup Row]
    BY <1>a, <2>1, <2>3, <2>4 DEF AccountsTypeOK, Row, Account
  <2>6. row'[s] # NoRow
    BY <2>4, <2>5, <2>1, AccountConstants, <1>a DEF NoRow, AccountsTypeOK, Row
  <2>7. Valid(s)'
    BY <1>a, <2>3, <2>4, <2>1 DEF Valid, Enabled, Exists, AccountsTypeOK
  <2>8. \A t \in saved : t # s /\ (Valid(t) => Valid(t)')
    BY <1>a, <2>2, <2>4 DEF Valid, Enabled, Exists, SessionInv, AccountsTypeOK
  <2>9. SessionInv'
    BY <1>a, <2>4, <2>6, <2>7, <2>8 DEF SessionInv, SignedOutStaysOut, AccountsTypeOK
  <2> QED
    BY <1>a, <2>1, <2>2, <2>4, <2>5, <2>9 DEF AccountsInv, AccountsTypeOK
<1>7. ASSUME NEW s \in Sids, Presents(s) PROVE AccountsInv'
  BY <1>7, <1>a DEF Presents, AccountsInv, AccountsTypeOK, SessionInv, SignedOutStaysOut,
    Valid, Enabled, Exists
<1>8. ASSUME NEW s \in Sids, Logout(s) \/ SessionExpires(s) PROVE AccountsInv'
  BY <1>8, <1>a DEF Logout, SessionExpires, Removes, Refuses, AccountsInv, AccountsTypeOK,
    SessionInv, SignedOutStaysOut, Valid, Enabled, Exists
<1>9. CASE Restart
  BY <1>9, <1>a DEF Restart, AccountsInv, AccountsTypeOK, SessionInv, SignedOutStaysOut,
    Valid, Enabled, Exists
<1>10. CASE UNCHANGED accountVars
  BY <1>10, <1>a DEF accountVars, AccountsInv, AccountsTypeOK, SessionInv, SignedOutStaysOut,
    Valid, Enabled, Exists
<1> QED
  BY <1>1, <1>2, <1>3, <1>4, <1>5, <1>6, <1>7, <1>8, <1>9, <1>10 DEF AccountsNext

LEMMA AccountsAlways == AccountsSpec => []AccountsInv
  BY AccountsInitHolds, AccountsStepHolds, PTL DEF AccountsSpec

(* A session that was ended is not valid again, whichever writes failed    *)
(* and whichever restarts came between.                                    *)
THEOREM SignedOut == AccountsSpec => []SignedOutStaysOut
  BY AccountsAlways, PTL DEF AccountsInv, SessionInv

---------------------------------------------------------------------------
(* Jupyter on demand *)

(* The lock is held by one launcher at a time; a server that is alive is   *)
(* recorded, is about to be by its launcher, or has been left an orphan;   *)
(* and while a launcher is about to record its own, there is no other.     *)
ServerInv ==
  /\ \A l, m \in Starts : run[l] \in Holding /\ run[m] \in Holding => l = m
  /\ \A l \in Starts :
       /\ run[l] \in {"new", "waiting", "locked"} => server[l] = "none"
       /\ Alive(l) /\ l \notin orphans =>
            record = l \/ run[l] \in {"spawned", "truncated"}
       /\ run[l] \in {"spawned", "truncated"} =>
            \A m \in Starts \ {l} : Alive(m) => m \in orphans
JupyterInv == JupyterTypeOK /\ ServerInv

LEMMA JupyterInitHolds == JupyterInit => JupyterInv
  BY DEF JupyterInit, JupyterInv, JupyterTypeOK, ServerInv, Holding, Alive

(* The gateway goes on, and no launcher, server or record changes.         *)
LEMMA GatewayStep ==
  ASSUME JupyterInv, UNCHANGED launchVars,
         session' \subseteq Browsers, asked' \subseteq Browsers,
         permitted' \in BOOLEAN, supervised' \in BOOLEAN, foreign' \in BOOLEAN,
         flight' \in {NoFlight} \cup Flight
  PROVE  JupyterInv'
  BY DEF JupyterInv, JupyterTypeOK, ServerInv, Alive, launchVars

(* A launcher is killed, or ends, which only takes it away.                *)
LEMMA LaunchersEnd ==
  ASSUME JupyterInv, NEW l \in Starts, Killed(l) \/ UNCHANGED <<run, orphans>>,
         UNCHANGED <<environmentVars, server, record>>,
         asked' \subseteq Browsers, flight' \in {NoFlight} \cup Flight
  PROVE  JupyterInv'
<1>1. JupyterTypeOK'
  BY DEF JupyterInv, JupyterTypeOK, Killed, environmentVars, Holding
<1>2. /\ orphans \subseteq orphans'
      /\ \A m \in Starts : run'[m] = run[m] \/ (m = l /\ run'[m] = "killed")
      /\ run[l] \in {"spawned", "truncated"} /\ run'[l] # run[l] => l \in orphans'
  BY DEF JupyterInv, JupyterTypeOK, Killed
<1>3. \A m \in Starts : Alive(m)' <=> Alive(m)
  BY DEF Alive
<1>4. ServerInv'
  BY <1>2, <1>3 DEF JupyterInv, ServerInv, Holding
<1> QED
  BY <1>1, <1>4 DEF JupyterInv

LEMMA JupyterStepHolds == JupyterInv /\ [JupyterNext]_jupyterVars => JupyterInv'
<1> SUFFICES ASSUME JupyterInv, [JupyterNext]_jupyterVars PROVE JupyterInv'
  OBVIOUS
<1>a. JupyterTypeOK /\ ServerInv
  BY DEF JupyterInv
<1>flight. flight.at # "none" => flight \in Flight /\ flight.by \in Browsers
  BY <1>a DEF JupyterTypeOK, NoFlight, Flight
<1>goes. ASSUME NEW where \in {"token", "opening", "polling"}, flight.at # "none",
                FlightGoes(where)
         PROVE  asked' \subseteq Browsers /\ flight' \in {NoFlight} \cup Flight
  BY <1>a, <1>flight, <1>goes DEF JupyterTypeOK, FlightGoes, Flight
<1>replies. Replies => asked' \subseteq Browsers /\ flight' \in {NoFlight} \cup Flight
  BY DEF Replies
<1>1. CASE PermissionChanges
  BY <1>1, <1>a, GatewayStep DEF PermissionChanges, JupyterTypeOK, gatewayStartVars
<1>2. CASE ForeignChanges
  BY <1>2, <1>a, GatewayStep DEF ForeignChanges, JupyterTypeOK, gatewayStartVars
<1>3. ASSUME NEW b \in Browsers, SessionEnds(b) PROVE JupyterInv'
  BY <1>3, <1>a, GatewayStep DEF SessionEnds, JupyterTypeOK, gatewayStartVars
<1>4. ASSUME NEW b \in Browsers, Ask(b) PROVE JupyterInv'
  <2>1. asked' \subseteq Browsers /\ flight' \in {NoFlight} \cup Flight
    BY <1>4, <1>a DEF Ask, Joined, JupyterTypeOK, Flight
  <2> QED
    BY <1>4, <2>1, <1>a, GatewayStep DEF Ask, JupyterTypeOK, environmentVars
<1>5. CASE Probed \/ TokenRead \/ NotOpened \/ Polled
  <2>1. flight.at # "none" /\ UNCHANGED <<environmentVars, launchVars>>
    BY <1>5 DEF Probed, TokenRead, NotOpened, Polled
  <2>2. Replies \/ \E where \in {"token", "opening", "polling"} : FlightGoes(where)
    BY <1>5 DEF Probed, TokenRead, NotOpened, Polled
  <2> QED
    BY <2>1, <2>2, <1>a, <1>goes, <1>replies, GatewayStep DEF JupyterTypeOK, environmentVars
<1>6. CASE LauncherAnswered
  <2>1. flight.at # "none" /\ UNCHANGED <<environmentVars, launchVars>>
    BY <1>6 DEF LauncherAnswered
  <2>2. Replies \/ FlightGoes("polling")
    BY <1>6 DEF LauncherAnswered
  <2> QED
    BY <2>1, <2>2, <1>a, <1>goes, <1>replies, GatewayStep DEF JupyterTypeOK, environmentVars
<1>7. CASE TerminalCloses \/ GatewayReplaced
  <2>1. UNCHANGED <<environmentVars, server, record>> /\ (Replies \/ FlightGoes("polling"))
    BY <1>7 DEF TerminalCloses, GatewayReplaced
  <2>2. flight # NoFlight /\ (flight.at = "terminal" => flight.start \in Starts)
    BY <1>7, <1>a DEF TerminalCloses, GatewayReplaced, JupyterTypeOK, Flight, NoFlight
  <2>3. asked' \subseteq Browsers /\ flight' \in {NoFlight} \cup Flight
    <3>1. flight.at # "none"
      BY <2>2, <1>a DEF JupyterTypeOK, Flight
    <3> QED
      BY <2>1, <3>1, <1>goes, <1>replies
  <2>4. CASE flight.at = "terminal" /\ Killed(flight.start)
    BY <2>1, <2>2, <2>3, <2>4, LaunchersEnd
  <2>5. CASE UNCHANGED <<run, orphans>>
    BY <2>1, <2>3, <2>5, <1>a, GatewayStep DEF JupyterTypeOK, environmentVars, launchVars
  <2> QED
    BY <1>7, <2>4, <2>5 DEF TerminalCloses, GatewayReplaced
<1>8. ASSUME NEW l \in Starts, CommandSent(l) PROVE JupyterInv'
  <2>1. JupyterTypeOK'
    BY <1>8, <1>a, <1>flight DEF CommandSent, JupyterTypeOK, environmentVars, Flight
  <2>2. ServerInv'
    BY <1>8, <1>a DEF CommandSent, JupyterTypeOK, ServerInv, Holding, Alive
  <2> QED
    BY <2>1, <2>2 DEF JupyterInv
<1>9. ASSUME NEW l \in Starts, Lock(l) PROVE JupyterInv'
  <2>1. JupyterTypeOK'
    BY <1>9, <1>a DEF Lock, LauncherGoes, JupyterTypeOK, environmentVars, gatewayStartVars,
      Holding, Answers
  <2>2. ServerInv'
    BY <1>9, <1>a DEF Lock, LockFree, LauncherGoes, JupyterTypeOK, ServerInv, Holding, Alive
  <2> QED
    BY <2>1, <2>2 DEF JupyterInv
<1>10. ASSUME NEW l \in Starts, LookAround(l) PROVE JupyterInv'
  <2>1. JupyterTypeOK'
    BY <1>10, <1>a DEF LookAround, LauncherGoes, JupyterTypeOK, environmentVars,
      gatewayStartVars, Holding, Answers
  <2>2. ServerInv'
    <3>1. CASE UNCHANGED server
      BY <1>10, <1>a, <3>1 DEF LookAround, LauncherGoes, JupyterTypeOK, ServerInv, Holding, Alive
    <3>2. CASE /\ LauncherGoes(l, "spawned") /\ server' = [server EXCEPT ![l] = "booting"]
               /\ record # "torn" /\ (record \in Starts => ~Alive(record))
      <4>1. \A m \in Starts \ {l} : Alive(m) => m \in orphans
        BY <1>10, <1>a, <3>2 DEF LookAround, ServerInv, Holding
      <4>2. \A m \in Starts \ {l} : run'[m] = run[m] /\ server'[m] = server[m]
        BY <3>2, <1>a DEF LauncherGoes, JupyterTypeOK
      <4>3. run'[l] = "spawned" /\ record' = record /\ orphans' = orphans
        BY <1>10, <3>2, <1>a DEF LookAround, LauncherGoes, JupyterTypeOK
      <4> QED
        BY <1>10, <1>a, <4>1, <4>2, <4>3 DEF LookAround, ServerInv, Holding, Alive
    <3> QED
      BY <1>10, <3>1, <3>2 DEF LookAround
  <2> QED
    BY <2>1, <2>2 DEF JupyterInv
<1>11. ASSUME NEW l \in Starts, Record(l) PROVE JupyterInv'
  <2>1. JupyterTypeOK'
    BY <1>11, <1>a DEF Record, LauncherGoes, JupyterTypeOK, environmentVars,
      gatewayStartVars, Holding, Answers
  <2>2. ServerInv'
    BY <1>11, <1>a DEF Record, LauncherGoes, JupyterTypeOK, ServerInv, Holding, Alive
  <2> QED
    BY <2>1, <2>2 DEF JupyterInv
<1>12. ASSUME NEW l \in Starts, Watch(l) PROVE JupyterInv'
  <2>1. JupyterTypeOK'
    BY <1>12, <1>a DEF Watch, LauncherGoes, JupyterTypeOK, environmentVars,
      gatewayStartVars, Holding, Answers
  <2>2. ServerInv'
    BY <1>12, <1>a DEF Watch, LauncherGoes, JupyterTypeOK, ServerInv, Holding, Alive
  <2> QED
    BY <2>1, <2>2 DEF JupyterInv
<1>13. ASSUME NEW l \in Starts, Serve(l) \/ ServerDies(l) PROVE JupyterInv'
  <2>1. JupyterTypeOK'
    BY <1>13, <1>a DEF Serve, ServerDies, JupyterTypeOK, environmentVars, gatewayStartVars
  <2>2. \A m \in Starts : Alive(m)' => Alive(m)
    BY <1>13, <1>a DEF Serve, ServerDies, JupyterTypeOK, Alive
  <2>3. server[l] # "none" /\ \A m \in Starts \ {l} : server'[m] = server[m]
    BY <1>13, <1>a DEF Serve, ServerDies, JupyterTypeOK, Alive
  <2>4. ServerInv'
    BY <1>13, <1>a, <2>2, <2>3 DEF Serve, ServerDies, ServerInv
  <2> QED
    BY <2>1, <2>4 DEF JupyterInv
<1>14. CASE UNCHANGED jupyterVars
  BY <1>14, <1>a, GatewayStep DEF jupyterVars, JupyterTypeOK, launchVars
<1> QED
  BY <1>1, <1>2, <1>3, <1>4, <1>5, <1>6, <1>7, <1>8, <1>9, <1>10, <1>11, <1>12,
     <1>13, <1>14 DEF JupyterNext

LEMMA JupyterAlways == JupyterSpec => []JupyterInv
  BY JupyterInitHolds, JupyterStepHolds, PTL DEF JupyterSpec

(* A set of which all members are equal has one member at most.            *)
LEMMA AtMostOne ==
  ASSUME NEW S, \A x, y \in S : x = y
  PROVE  Cardinality(S) <= 1
<1>1. CASE S = {}
  BY <1>1, FS_EmptySet
<1>2. CASE S # {}
  <2>1. PICK x \in S : TRUE
    BY <1>2
  <2>2. S = {x}
    BY <2>1
  <2> QED
    BY <2>2, FS_Singleton
<1> QED
  BY <1>1, <1>2

(* For any browsers and starts: of the servers that are alive, one at most *)
(* is no orphan.                                                           *)
THEOREM OneServer == JupyterSpec => []OneServerPerRecord
<1>1. ASSUME JupyterInv PROVE OneServerPerRecord
  <2>1. \A x, y \in {l \in Starts : Alive(l)} \ orphans : x = y
    BY <1>1 DEF JupyterInv, ServerInv
  <2> QED
    BY <2>1, AtMostOne DEF OneServerPerRecord
<1> QED
  BY JupyterAlways, <1>1, PTL

---------------------------------------------------------------------------
(* Self-service packages *)

Written(r) == state[r] \notin {"none", "empty"}
Whole(r) == state[r] \notin {"none"} \cup Unwritten
Open(r) == Written(r) /\ state[r] \notin Ended
Kept(r) == r \in staged \/ owner[r] \in late

(* Only what is written completely is visited and has Jobs, and a result   *)
(* stands.                                                                 *)
WorkInv ==
  \A r \in Requests :
    /\ Written(r) => owner[r] \in Owners
    /\ r \in turn => Whole(r)
    /\ \A p \in Phases : job[r][p] # "none" => Whole(r)
    /\ \A p \in Phases : result[r][p] # "none" => job[r][p] = "over"

(* An owner has one request at most that has not ended.                    *)
OwnerInv ==
  \A r, q \in Requests : Open(r) /\ Open(q) /\ owner[r] = owner[q] => r = q

WheelsInv ==
  \A r \in Requests :
    /\ state[r] \in Ended /\ job[r]["download"] \in Live => owner[r] \in late
    /\ state[r] = "installing" => result[r]["download"] = "ok"
    /\ Open(r) /\ result[r]["download"] = "ok" /\ job[r]["install"] # "over" => Kept(r)

PackagesInv == PackagesTypeOK /\ WorkInv /\ OwnerInv /\ WheelsInv

LEMMA PackagesInitHolds == PackagesInit => PackagesInv
<1> SUFFICES ASSUME PackagesInit PROVE PackagesInv
  OBVIOUS
<1>1. PackagesTypeOK
  BY DEF PackagesInit, PackagesTypeOK, Levels, Live
<1>2. WorkInv /\ OwnerInv /\ WheelsInv
  BY DEF PackagesInit, WorkInv, OwnerInv, WheelsInv, Written, Whole, Open, Ended,
    Unwritten, Phases
<1> QED
  BY <1>1, <1>2 DEF PackagesInv

(* Nothing that the invariant is about changes, but for what the tick has  *)
(* still to visit.                                                         *)
LEMMA AroundStep ==
  ASSUME WorkInv, OwnerInv, WheelsInv,
         UNCHANGED <<owner, state, jobVars, late>>,
         \A r \in turn' : r \in turn \/ Whole(r)
  PROVE  WorkInv' /\ OwnerInv' /\ WheelsInv'
<1>1. \A r \in Requests : /\ Written(r)' <=> Written(r)
                          /\ Whole(r)' <=> Whole(r)
                          /\ Open(r)' <=> Open(r) /\ (Kept(r)' <=> Kept(r))
  BY DEF Written, Whole, Open, Kept, jobVars
<1> QED
  BY <1>1 DEF WorkInv, OwnerInv, WheelsInv, jobVars

(* What the visit of a folder may do to it: its state goes on and Jobs     *)
(* begin or are deleted.                                                   *)
VisitStep(r) ==
  /\ state' = [state EXCEPT ![r] = state'[r]]
  /\ job' = [job EXCEPT ![r] = job'[r]]
  /\ state'[r] \in {"queued"} \cup InProgress \cup Ended
  /\ job'[r] \in [Phases -> {"none", "over"} \cup Live]
  /\ \A p \in Phases : job[r][p] = "over" <=> job'[r][p] = "over"
  /\ state'[r] = "installing" => result[r]["download"] = "ok"
  /\ state'[r] \in Ended /\ job'[r]["download"] \in Live => owner[r] \in late'
  /\ late' \in {late, late \cup {owner[r]}}
  /\ UNCHANGED <<owner, result, staged>>

LEMMA VisitSteps ==
  ASSUME PackagesTypeOK, WorkInv, WheelsInv, NEW r \in Requests, Visit(r)
  PROVE  /\ Whole(r)
         /\ \/ UNCHANGED <<owner, state, jobVars, late>>
            \/ VisitStep(r) /\ state[r] \notin Ended
         /\ turn' \subseteq turn /\ active' \in Nat
         /\ UNCHANGED <<accessVars, creating>>
<1>1. Whole(r) /\ owner[r] \in Owners
  BY DEF Visit, WorkInv, Whole, Written, Unwritten
<1>2. turn' \subseteq turn /\ active' \in Nat
  BY DEF Visit, PackagesTypeOK
<1>3. UNCHANGED <<accessVars, creating>> /\ UNCHANGED owner
  BY DEF Visit, gatewayVars
<1>t. /\ state[r] \in {"queued"} \cup InProgress \cup Ended
      /\ job[r] \in [Phases -> {"none", "over"} \cup Live]
      /\ Phase(r) \in Phases /\ result[r] \in [Phases -> {"none", "ok", "failed"}]
      /\ state \in [Requests -> {"none", "queued"} \cup Unwritten \cup InProgress \cup Ended]
      /\ job \in [Requests -> [Phases -> {"none", "over"} \cup Live]]
  BY <1>1 DEF PackagesTypeOK, Whole, Phase, Phases
<1>4. ASSUME NEW s \in {"queued"} \cup InProgress \cup Ended, Becomes(r, s)
      PROVE  /\ state' = [state EXCEPT ![r] = s] /\ state'[r] = s
             /\ s \in Ended /\ job'[r]["download"] \in Live => owner[r] \in late'
             /\ late' \in {late, late \cup {owner[r]}}
             /\ UNCHANGED <<result, staged>>
  BY <1>4, <1>t DEF Becomes
<1>5. ASSUME Revokes(r), state[r] \notin Ended PROVE VisitStep(r)
  <2>1. "failed" \in Ended /\ "failed" # "installing"
    BY DEF Ended
  <2>2. /\ job' = [job EXCEPT ![r] = job'[r]]
        /\ job'[r] = [p \in Phases |-> IF job[r][p] \in Live THEN "deleted" ELSE job[r][p]]
    BY <1>5, <1>t DEF Revokes
  <2>3. /\ job'[r] \in [Phases -> {"none", "over"} \cup Live]
        /\ \A p \in Phases : job[r][p] = "over" <=> job'[r][p] = "over"
    BY <2>2, <1>t DEF Live
  <2> QED
    BY <1>3, <1>4, <1>5, <2>1, <2>2, <2>3 DEF Revokes, VisitStep
<1>6. ASSUME Rejects(r), state[r] \notin Ended PROVE VisitStep(r)
  <2>1. "failed" \in Ended /\ "failed" # "installing"
    BY DEF Ended
  <2>2. job' = job /\ job' = [job EXCEPT ![r] = job'[r]]
    BY <1>6, <1>t DEF Rejects
  <2> QED
    BY <1>3, <1>4, <1>6, <1>t, <2>1, <2>2 DEF Rejects, VisitStep
<1>7. ASSUME NEW p \in Phases, job' = [job EXCEPT ![r][p] = IF @ = "none" THEN "pending" ELSE @]
      PROVE  /\ job' = [job EXCEPT ![r] = job'[r]]
             /\ job'[r] \in [Phases -> {"none", "over"} \cup Live]
             /\ \A q \in Phases : job[r][q] = "over" <=> job'[r][q] = "over"
  BY <1>7, <1>t DEF Live
<1>8. ASSUME Proceeds(r), state[r] \notin Ended PROVE VisitStep(r)
  <2> DEFINE p == Phase(r)
             done == IF p = "download" THEN "installing" ELSE "complete"
             s == CASE result[r][p] = "ok" -> done
                    [] result[r][p] = "failed" \/ job[r][p] = "over" -> "failed"
                    [] OTHER -> IF p = "download" THEN "downloading" ELSE "installing"
  <2>1. s \in {"queued"} \cup InProgress \cup Ended
    BY DEF InProgress, Ended
  <2>2. s = "installing" => result[r]["download"] = "ok"
    BY <1>t, <1>8 DEF Phase, WheelsInv
  <2>3. Becomes(r, s) /\ job' = [job EXCEPT ![r][p] = IF @ = "none" THEN "pending" ELSE @]
    BY <1>8 DEF Proceeds
  <2> HIDE DEF p, s
  <2> QED
    BY <1>3, <1>4, <1>7, <1>t, <2>1, <2>2, <2>3 DEF VisitStep, p
<1>9. ASSUME MakesJobOnly(r), state[r] \notin Ended PROVE VisitStep(r)
  <2> DEFINE p == Phase(r)
  <2>1. job' = [job EXCEPT ![r][p] = IF @ = "none" THEN "pending" ELSE @]
    BY <1>9, <1>t DEF MakesJobOnly
  <2>2. /\ state' = state /\ state' = [state EXCEPT ![r] = state'[r]]
        /\ UNCHANGED <<late, result, staged>>
    BY <1>9, <1>t DEF MakesJobOnly
  <2>3. state[r] = "installing" => result[r]["download"] = "ok"
    BY DEF WheelsInv
  <2> HIDE DEF p
  <2> QED
    BY <1>3, <1>7, <1>9, <1>t, <2>1, <2>2, <2>3 DEF VisitStep, p
<1> QED
  BY <1>1, <1>2, <1>3, <1>5, <1>6, <1>8, <1>9 DEF Visit

LEMMA VisitHolds ==
  ASSUME PackagesInv, NEW r \in Requests, Visit(r)
  PROVE  PackagesInv'
<1>a. PackagesTypeOK /\ WorkInv /\ OwnerInv /\ WheelsInv
  BY DEF PackagesInv
<1>b. Whole(r) /\ turn' \subseteq turn /\ active' \in Nat /\ UNCHANGED <<accessVars, creating>>
  BY <1>a, VisitSteps
<1>1. CASE UNCHANGED <<owner, state, jobVars, late>>
  <2>1. PackagesTypeOK'
    BY <1>a, <1>b, <1>1 DEF PackagesTypeOK, accessVars, jobVars
  <2> QED
    BY <1>a, <1>b, <1>1, <2>1, AroundStep DEF PackagesInv
<1>2. CASE VisitStep(r) /\ state[r] \notin Ended
  <2>1. /\ \A q \in Requests \ {r} : state'[q] = state[q] /\ job'[q] = job[q]
        /\ owner' = owner /\ result' = result /\ staged' = staged
        /\ late \subseteq late' /\ owner[r] \in Owners
    BY <1>a, <1>b, <1>2 DEF VisitStep, PackagesTypeOK, WorkInv, Whole, Written, Unwritten
  <2>2. PackagesTypeOK'
    BY <1>a, <1>b, <1>2, <2>1 DEF PackagesTypeOK, VisitStep, accessVars
  <2>3. /\ \A q \in Requests : Written(q)' <=> Written(q)
        /\ \A q \in Requests : Whole(q)' <=> Whole(q)
        /\ \A q \in Requests : Open(q)' => Open(q)
        /\ \A q \in Requests : Kept(q) => Kept(q)'
    BY <1>b, <1>2, <2>1 DEF VisitStep, Written, Whole, Open, Kept, Unwritten, InProgress, Ended
  <2>4. WorkInv'
    <3>1. ASSUME NEW q \in Requests, NEW p \in Phases
          PROVE  /\ job'[q][p] # "none" => Whole(q)'
                 /\ result'[q][p] # "none" => job'[q][p] = "over"
      BY <1>a, <1>b, <1>2, <2>1, <2>3 DEF VisitStep, WorkInv
    <3> QED
      BY <1>a, <1>b, <2>1, <2>3, <3>1 DEF WorkInv
  <2>5. OwnerInv'
    BY <1>a, <2>1, <2>3 DEF OwnerInv
  <2>6. WheelsInv'
    <3> SUFFICES ASSUME NEW q \in Requests
                 PROVE  /\ state'[q] \in Ended /\ job'[q]["download"] \in Live =>
                             owner[q] \in late'
                        /\ state'[q] = "installing" => result[q]["download"] = "ok"
                        /\ Open(q)' /\ result[q]["download"] = "ok"
                             /\ job'[q]["install"] # "over" => Kept(q)'
      BY <2>1 DEF WheelsInv
    <3>1. job'[q]["install"] = "over" <=> job[q]["install"] = "over"
      BY <1>2, <2>1 DEF VisitStep, Phases
    <3> QED
      BY <1>a, <1>2, <2>1, <2>3, <3>1 DEF WheelsInv, VisitStep
  <2> QED
    BY <2>2, <2>4, <2>5, <2>6 DEF PackagesInv
<1> QED
  BY <1>a, <1>1, <1>2, VisitSteps

LEMMA PackagesStepHolds == PackagesInv /\ [PackagesNext]_packageVars => PackagesInv'
<1> SUFFICES ASSUME PackagesInv, [PackagesNext]_packageVars PROVE PackagesInv'
  OBVIOUS
<1>a. PackagesTypeOK /\ WorkInv /\ OwnerInv /\ WheelsInv
  BY DEF PackagesInv
<1>1. CASE Project \/ Ages \/ CreateFails \/ TickAborts
  <2>1. PackagesTypeOK'
    <3>1. CASE Project
      BY <1>a, <3>1 DEF Project, PackagesTypeOK, gatewayVars, tickVars, jobVars
    <3>2. CASE Ages \/ CreateFails
      BY <1>a, <3>2 DEF Ages, CreateFails, PackagesTypeOK, accessVars, gatewayVars,
        tickVars, jobVars
    <3>3. CASE TickAborts
      BY <1>a, <3>3 DEF TickAborts, PackagesTypeOK, accessVars, gatewayVars, jobVars
    <3> QED
      BY <1>1, <3>1, <3>2, <3>3
  <2>2. /\ UNCHANGED <<owner, state, jobVars, late>>
        /\ \A r \in turn' : r \in turn \/ Whole(r)
    BY <1>1 DEF Project, Ages, CreateFails, TickAborts, accessVars, gatewayVars, tickVars
  <2> QED
    BY <1>a, <2>1, <2>2, AroundStep DEF PackagesInv
<1>2. CASE TickBegins
  <2>1. active' \in Nat
    <3>1. IsFiniteSet({r \in Requests : state[r] \in InProgress})
      BY PackageConstants, FS_Subset
    <3> QED
      BY <1>2, <3>1, FS_CardinalityType DEF TickBegins
  <2>2. PackagesTypeOK'
    BY <1>2, <1>a, <2>1 DEF TickBegins, PackagesTypeOK, accessVars, gatewayVars, jobVars
  <2>3. /\ UNCHANGED <<owner, state, jobVars, late>>
        /\ \A r \in turn' : r \in turn \/ Whole(r)
    BY <1>2 DEF TickBegins, gatewayVars, Whole
  <2> QED
    BY <1>a, <2>2, <2>3, AroundStep DEF PackagesInv
<1>3. ASSUME NEW r \in Requests, NEW o \in Owners, Create(r, o) PROVE PackagesInv'
  <2>1. PackagesTypeOK'
    BY <1>3, <1>a DEF Create, PackagesTypeOK, accessVars, tickVars, jobVars, Unwritten
  <2>2. /\ \A q \in Requests : Written(q)' <=> Written(q)
        /\ \A q \in Requests : Whole(q)' <=> Whole(q)
        /\ \A q \in Requests : Open(q)' <=> Open(q)
        /\ \A q \in Requests : Kept(q)' <=> Kept(q)
        /\ \A q \in Requests : state'[q] = state[q] \/ ~Whole(q)
    BY <1>3, <1>a DEF Create, PackagesTypeOK, Written, Whole, Open, Kept, Unwritten,
      Ended, tickVars, jobVars
  <2>3. WorkInv' /\ OwnerInv'
    BY <1>3, <1>a, <2>2 DEF Create, WorkInv, OwnerInv, tickVars, jobVars
  <2>4. WheelsInv'
    BY <1>3, <1>a, <2>2 DEF Create, PackagesTypeOK, WheelsInv, tickVars, jobVars, Ended, Whole
  <2> QED
    BY <2>1, <2>3, <2>4 DEF PackagesInv
<1>4. ASSUME NEW r \in Requests, NEW o \in Owners, WriteRequest(r, o) PROVE PackagesInv'
  <2>1. PackagesTypeOK'
    BY <1>4, <1>a DEF WriteRequest, PackagesTypeOK, accessVars, tickVars, jobVars, Unwritten
  <2>2. /\ ~Whole(r) /\ ~Whole(r)' /\ Written(r)' /\ owner'[r] = o
        /\ state'[r] = "half" /\ ~Written(r)
        /\ \A q \in Requests \ {r} : state'[q] = state[q] /\ owner'[q] = owner[q]
        /\ UNCHANGED <<turn, job, result, staged, late>>
    BY <1>4, <1>a DEF WriteRequest, PackagesTypeOK, Written, Whole, Unwritten, tickVars, jobVars
  <2>3. WorkInv'
    <3>1. \A q \in Requests : Whole(q)' <=> Whole(q)
      BY <2>2 DEF Whole
    <3> QED
      BY <1>a, <2>2, <3>1 DEF WorkInv, Written
  <2>4. OwnerInv'
    BY <1>4, <1>a, <2>2 DEF WriteRequest, Unfinished, OwnerInv, Open, Written
  <2>5. WheelsInv'
    <3>1. result[r]["download"] = "none"
      BY <1>a, <2>2 DEF WorkInv, Phases
    <3> QED
      BY <1>a, <2>2, <3>1 DEF WheelsInv, Open, Written, Kept, Ended
  <2> QED
    BY <2>1, <2>3, <2>4, <2>5 DEF PackagesInv
<1>5. ASSUME NEW r \in Requests, WritePublic(r) PROVE PackagesInv'
  <2>1. PackagesTypeOK'
    BY <1>5, <1>a DEF WritePublic, PackagesTypeOK, accessVars, tickVars, jobVars
  <2>2. /\ \A q \in Requests : Written(q)' <=> Written(q)
        /\ \A q \in Requests : Whole(q) => Whole(q)'
        /\ \A q \in Requests : Open(q)' <=> Open(q)
        /\ \A q \in Requests : Kept(q)' <=> Kept(q)
        /\ \A q \in Requests : state'[q] = state[q] \/ state'[q] = "queued"
    BY <1>5, <1>a DEF WritePublic, PackagesTypeOK, Written, Whole, Open, Kept,
      Unwritten, Ended, tickVars, jobVars
  <2>3. WorkInv' /\ OwnerInv'
    BY <1>5, <1>a, <2>2 DEF WritePublic, WorkInv, OwnerInv, tickVars, jobVars
  <2>4. WheelsInv'
    BY <1>5, <1>a, <2>2 DEF WritePublic, WheelsInv, tickVars, jobVars, Ended
  <2> QED
    BY <2>1, <2>3, <2>4 DEF PackagesInv
<1>6. ASSUME NEW r \in Requests, Visit(r) PROVE PackagesInv'
  BY <1>6, VisitHolds
<1>7. ASSUME NEW r \in Requests, DownloadBegins(r) PROVE PackagesInv'
  <2>1. PackagesTypeOK'
    BY <1>7, <1>a DEF DownloadBegins, PackagesTypeOK, accessVars, gatewayVars, tickVars,
      Phases, Live
  <2>2. /\ UNCHANGED <<owner, state, turn, late, result>>
        /\ \A q \in Requests, p \in Phases :
             job'[q][p] = job[q][p] \/ (job[q][p] \in Live /\ job'[q][p] \in Live)
    BY <1>7, <1>a DEF DownloadBegins, PackagesTypeOK, gatewayVars, tickVars, Phases, Live
  <2>3. /\ \A q \in Requests : Written(q)' <=> Written(q)
        /\ \A q \in Requests : Whole(q)' <=> Whole(q)
        /\ \A q \in Requests : Open(q)' <=> Open(q)
    BY <2>2 DEF Written, Whole, Open
  <2>4. WorkInv' /\ OwnerInv'
    BY <1>a, <2>2, <2>3 DEF WorkInv, OwnerInv, Live
  \* A Job that is live is that of the one open request, or it is late.
  <2>5. ASSUME NEW q \in Requests, Open(q), Kept(q) PROVE Kept(q)'
    <3>1. job[r]["download"] \in Live /\ Whole(r)
      BY <1>7, <1>a DEF DownloadBegins, WorkInv, Live, Phases
    <3>2. CASE owner[q] # owner[r] \/ q = r \/ owner[q] \in late
      BY <1>7, <2>2, <2>5, <3>2 DEF DownloadBegins, Others, Kept
    <3>3. CASE owner[q] = owner[r] /\ q # r
      BY <1>a, <2>2, <2>5, <3>1, <3>3 DEF OwnerInv, WheelsInv, Open, Written, Whole,
        Unwritten, Kept
    <3> QED
      BY <3>2, <3>3
  <2>6. WheelsInv'
    BY <1>a, <2>2, <2>3, <2>5 DEF WheelsInv, Phases, Live
  <2> QED
    BY <2>1, <2>4, <2>6 DEF PackagesInv
<1>8. ASSUME NEW r \in Requests, NEW p \in Phases, NEW outcome \in {"none", "ok", "failed"},
             JobEnds(r, p, outcome)
      PROVE  PackagesInv'
  <2>1. PackagesTypeOK'
    BY <1>8, <1>a DEF JobEnds, PackagesTypeOK, accessVars, gatewayVars, tickVars
  <2>2. /\ UNCHANGED <<owner, state, turn, late, staged>>
        /\ job'[r][p] = "over" /\ result'[r][p] = outcome /\ job[r][p] \in Live
        /\ \A q \in Requests, x \in Phases :
             q # r \/ x # p => job'[q][x] = job[q][x] /\ result'[q][x] = result[q][x]
        /\ outcome = "ok" => r \in staged
    BY <1>8, <1>a DEF JobEnds, PackagesTypeOK, gatewayVars, tickVars
  <2>3. /\ \A q \in Requests : Written(q)' <=> Written(q)
        /\ \A q \in Requests : Whole(q)' <=> Whole(q)
        /\ \A q \in Requests : Open(q)' <=> Open(q)
        /\ \A q \in Requests : Kept(q)' <=> Kept(q)
    BY <2>2 DEF Written, Whole, Open, Kept
  <2>4. WorkInv' /\ OwnerInv'
    BY <1>a, <2>2, <2>3 DEF WorkInv, OwnerInv, Live
  <2>5. result[r][p] = "none"
    BY <1>a, <2>2 DEF WorkInv, Live
  <2>6. WheelsInv'
    BY <1>a, <2>2, <2>3, <2>5 DEF WheelsInv, Phases, Live, Kept
  <2> QED
    BY <2>1, <2>4, <2>6 DEF PackagesInv
<1>9. CASE UNCHANGED packageVars
  <2>1. PackagesTypeOK'
    BY <1>9, <1>a DEF packageVars, PackagesTypeOK
  <2> QED
    BY <1>a, <1>9, <2>1, AroundStep DEF PackagesInv, packageVars, jobVars
<1> QED
  BY <1>1, <1>2, <1>3, <1>4, <1>5, <1>6, <1>7, <1>8, <1>9 DEF PackagesNext

LEMMA PackagesAlways == PackagesSpec => []PackagesInv
  BY PackagesInitHolds, PackagesStepHolds, PTL DEF PackagesSpec

(* What an open request has downloaded is there until it is installed.     *)
THEOREM WheelsKept == PackagesSpec => []StagedUntilInstalled
<1>1. ASSUME PackagesInv PROVE StagedUntilInstalled
  BY <1>1 DEF PackagesInv, WheelsInv, StagedUntilInstalled, Open, Written, Ended, Kept
<1> QED
  BY PackagesAlways, <1>1, PTL
=============================================================================
