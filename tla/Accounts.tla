------------------------------ MODULE Accounts ------------------------------
(***************************************************************************)
(* Accounts and browser sessions of the gateway (scripts/auth_proxy.js,    *)
(* identity_auth.js, session_store.js).  The gateway is one event loop: a  *)
(* handler runs to its next await in one step.  Sign-in and password       *)
(* change await the check of a password or the directory, and go on with   *)
(* the account store as it is then.                                        *)
(*                                                                         *)
(* A session is a cookie value, used once; its row holds the stamp of the  *)
(* account, here the number of its password.  Rows are kept in memory and  *)
(* in a file that each change rewrites, unless the volume refuses it.      *)
(***************************************************************************)
EXTENDS Naturals, FiniteSets

CONSTANTS
  Users,      \* names that are not administrators
  Slots,      \* runtime slots published to new accounts
  Sids,       \* session cookies
  Awaiting,   \* requests that may be waiting for a check
  MaxChanges  \* bound on the passwords of one account

ASSUME AccountConstants == "none" \notin Users /\ MaxChanges \in Nat

VARIABLES
  accounts,   \* the account store
  row,        \* what each session was issued for
  memory,     \* sessions in the map
  saved,      \* sessions in the file
  sockets,    \* sessions with an open browser socket
  waiting,    \* requests in an await
  ended,      \* history: sessions whose end was acknowledged
  refused     \* history: sessions whose removal could not be written

accountVars == <<accounts, row, memory, saved, sockets, waiting, ended, refused>>

None == "none"
NoRow == [user |-> None]
NoAccount == [kind |-> None]
Account == [kind : {"local", "ldap"}, password : 0..MaxChanges, mustChange : BOOLEAN,
            disabled : BOOLEAN, internet : BOOLEAN, slot : Slots]
Row == [user : Users, internet : BOOLEAN, stamp : 0..MaxChanges]
Wait == [op : {"local", "ldap", "change"}, user : Users]
NoWait == [op |-> None]

AccountsTypeOK ==
  /\ accounts \in [Users -> {NoAccount} \cup Account]
  /\ row \in [Sids -> {NoRow} \cup Row]
  /\ memory \subseteq Sids /\ saved \subseteq Sids /\ sockets \subseteq Sids
  /\ waiting \in [Awaiting -> {NoWait} \cup Wait]
  /\ ended \subseteq Sids /\ refused \subseteq Sids

AccountsInit ==
  /\ accounts = [u \in Users |-> NoAccount]
  /\ row = [s \in Sids |-> NoRow]
  /\ memory = {} /\ saved = {} /\ sockets = {}
  /\ waiting = [r \in Awaiting |-> NoWait]
  /\ ended = {} /\ refused = {}

Exists(u) == accounts[u].kind # None
Enabled(u) == Exists(u) /\ ~accounts[u].disabled
Valid(s) == LET r == row[s] IN
  /\ Enabled(r.user) /\ accounts[r.user].password = r.stamp
  /\ r.internet => accounts[r.user].internet
SessionsOf(u) == {s \in memory : row[s].user = u}

Taken(u) == Exists(u)

FreeSlots == Slots \ {accounts[u].slot : u \in {v \in Users : Taken(v)}}

NewAccount(kind) ==
  [kind |-> kind, password |-> 0, mustChange |-> FALSE, disabled |-> FALSE,
   internet |-> FALSE, slot |-> CHOOSE s \in FreeSlots : TRUE]

(* Self-registration, or an administrator creates the account.             *)
Register(u) ==
  /\ ~Exists(u) /\ FreeSlots # {}
  /\ accounts' = [accounts EXCEPT ![u] = NewAccount("local")]
  /\ UNCHANGED <<row, memory, saved, sockets, waiting, ended, refused>>

(* The session map is rewritten as S.  The write is refused: the map is    *)
(* put back, and nothing is acknowledged.                                  *)
Removes(S) == memory' = memory \ S /\ saved' = memory \ S
Refuses(S) == UNCHANGED <<memory, saved>> /\ refused' = refused \cup S

(* A local password is checked against the account as it is now; a change  *)
(* of password is the same up to here.                                     *)
Begin(r, op, u) ==
  /\ waiting[r] = NoWait
  /\ op # "ldap" => Enabled(u) /\ accounts[u].kind = "local"
  /\ waiting' = [waiting EXCEPT ![r] = [op |-> op, user |-> u]]
  /\ UNCHANGED <<accounts, row, memory, saved, sockets, ended, refused>>

(* A wrong password, an unknown identity, or a browser that goes.          *)
GiveUp(r) ==
  /\ waiting[r] # NoWait
  /\ waiting' = [waiting EXCEPT ![r] = NoWait]
  /\ UNCHANGED <<accounts, row, memory, saved, sockets, ended, refused>>

Issue(s, u, net, store) ==
  /\ row[s] = NoRow
  /\ row' = [row EXCEPT ![s] = [user |-> u, internet |-> net,
                                stamp |-> store[u].password]]
  /\ memory' = memory \cup {s} /\ saved' = memory \cup {s}

(* The account may have changed during the await: it must be enabled still *)
(* and must not need a new password, and the session gets its stamp as it  *)
(* is now.  A directory account that is not there is created first.        *)
SignedIn(r, s, net) ==
  LET w == waiting[r]
      u == w.user
      creates == w.op = "ldap" /\ ~Exists(u) IN
  /\ w.op \in {"local", "ldap"}
  /\ creates => FreeSlots # {}
  /\ accounts' = IF creates THEN [accounts EXCEPT ![u] = NewAccount("ldap")] ELSE accounts
  /\ ~accounts'[u].disabled /\ accounts'[u].kind = w.op
  /\ w.op = "local" => ~accounts'[u].mustChange
  /\ net => accounts'[u].internet
  /\ Issue(s, u, net, accounts')
  /\ waiting' = [waiting EXCEPT ![r] = NoWait]
  /\ UNCHANGED <<sockets, ended, refused>>

(* revokeUserSessions: the map and the file first, then the sockets.       *)
Revoke(u) ==
  \/ /\ IF SessionsOf(u) = {} THEN UNCHANGED <<memory, saved>> ELSE Removes(SessionsOf(u))
     /\ sockets' = {s \in sockets : row[s].user # u}
     /\ ended' = ended \cup {s \in Sids : row[s].user = u}
     /\ UNCHANGED refused
  \/ SessionsOf(u) # {} /\ Refuses(SessionsOf(u)) /\ UNCHANGED <<sockets, ended>>

(* The store is read again, and whatever password is there is replaced.    *)
Changed(r) ==
  LET u == waiting[r].user IN
  /\ waiting[r].op = "change" /\ Enabled(u) /\ accounts[u].password < MaxChanges
  /\ accounts' = [accounts EXCEPT ![u].password = @ + 1, ![u].mustChange = FALSE]
  /\ waiting' = [waiting EXCEPT ![r] = NoWait]
  /\ Revoke(u)
  /\ UNCHANGED row

Managed(u, action) ==
  /\ Exists(u)
  /\ accounts' = [accounts EXCEPT ![u] =
       CASE action \in {"enable", "disable"} -> [@ EXCEPT !.disabled = (action = "disable")]
         [] action \in {"allow", "deny"} -> [@ EXCEPT !.internet = (action = "allow")]
         [] action = "reset" -> [@ EXCEPT !.password = @ + 1, !.mustChange = TRUE]
         [] action = "revoke" -> @]
  /\ action = "reset" => accounts[u].kind = "local" /\ accounts[u].password < MaxChanges
  /\ IF action \in {"enable", "allow"}
     THEN UNCHANGED <<memory, saved, sockets, ended, refused>> ELSE Revoke(u)
  /\ UNCHANGED <<row, waiting>>

(* A request or an upgrade.  A session that is not valid is dropped from   *)
(* the map, not from the file.                                             *)
Presents(s) ==
  /\ s \in memory
  /\ IF Valid(s) THEN sockets' \in {sockets, sockets \cup {s}} /\ UNCHANGED memory
                 ELSE memory' = memory \ {s} /\ UNCHANGED sockets
  /\ UNCHANGED <<accounts, row, saved, waiting, ended, refused>>

(* Mutant: the file is left as it is.                                      *)
MutantLogout(s) ==
  /\ s \in memory /\ Valid(s)
  /\ memory' = memory \ {s} /\ sockets' = sockets \ {s} /\ ended' = ended \cup {s}
  /\ UNCHANGED <<accounts, row, saved, waiting, refused>>

Logout(s) ==
  /\ s \in memory /\ Valid(s)
  /\ \/ Removes({s}) /\ sockets' = sockets \ {s} /\ ended' = ended \cup {s} /\ UNCHANGED refused
     \/ Refuses({s}) /\ UNCHANGED <<sockets, ended>>
  /\ UNCHANGED <<accounts, row, waiting>>

(* After a day, in the map, at the next start, and for its socket.         *)
SessionExpires(s) ==
  /\ s \in memory \cup saved
  /\ memory' = memory \ {s} /\ saved' = saved \ {s} /\ sockets' = sockets \ {s}
  /\ UNCHANGED <<accounts, row, waiting, ended, refused>>

Restart ==
  /\ memory' = saved /\ sockets' = {}
  /\ waiting' = [r \in Awaiting |-> NoWait]
  /\ UNCHANGED <<accounts, row, saved, ended, refused>>

AccountsNext ==
  \/ \E u \in Users :
       \/ Register(u)
       \/ \E action \in {"enable", "disable", "allow", "deny", "reset", "revoke"} :
            Managed(u, action)
       \/ \E r \in Awaiting, op \in {"local", "ldap", "change"} : Begin(r, op, u)
  \/ \E r \in Awaiting : \/ GiveUp(r) \/ Changed(r)
                         \/ \E s \in Sids, net \in BOOLEAN : SignedIn(r, s, net)
  \/ \E s \in Sids : Presents(s) \/ Logout(s) \/ SessionExpires(s)
  \/ Restart

AccountsSpec == AccountsInit /\ [][AccountsNext]_accountVars

-----------------------------------------------------------------------------
(* A session whose end was acknowledged, by logout, revocation, or a new   *)
(* password, is in neither the map nor the file nor on a socket, over      *)
(* restarts and later writes of other sessions.  One whose removal could   *)
(* not be written once is excepted: dropped from the map by its next       *)
(* request, it is no longer found by a second revocation, and comes back   *)
(* from the file.                                                          *)
SignedOutStaysOut == (ended \ refused) \cap (memory \cup saved \cup sockets) = {}
=============================================================================
