------------------------------- MODULE Jupyter -------------------------------
(***************************************************************************)
(* Jupyter on demand in one environment.  The gateway                      *)
(* (scripts/jupyter_on_demand.js) keeps one start in flight per            *)
(* environment and sends a fixed command through the owner's terminal.     *)
(* The command is a launcher (scripts/jupyter_launcher.py) that takes a    *)
(* file lock, looks at port 8888 and at the recorded process, and starts a *)
(* server (container/jupyter-managed.py).  The terminal may kill a         *)
(* launcher when its connection closes, and the gateway may be replaced,   *)
(* so that several launchers may be there.                                 *)
(***************************************************************************)
EXTENDS Naturals, FiniteSets

CONSTANTS
  Browsers,   \* sessions of the owner
  Starts      \* runs of the launcher; the server it starts has the same name

VARIABLES
  session,    \* sessions that are authorized for this environment
  permitted,  \* services allowed, and Jupyter not disabled
  supervised, \* the supervisor runs Jupyter
  foreign,    \* a server started otherwise listens
  asked,      \* sessions waiting for the start in flight
  flight,     \* the start in flight
  run,        \* the launchers
  server,     \* the servers they started
  record,     \* the record of the last server
  orphans     \* history: servers whose launcher ended before the record

jupyterVars == <<session, permitted, supervised, foreign, asked, flight, run,
                 server, record, orphans>>

NoFlight == [at |-> "none"]
Flight == [at : {"probing", "token", "opening", "polling"}, by : Browsers]
            \cup [at : {"terminal"}, by : Browsers, start : Starts]
Holding == {"locked", "spawned", "truncated", "watching"}
Answers == {"listening", "starting", "failed"}

JupyterTypeOK ==
  /\ session \subseteq Browsers /\ asked \subseteq Browsers
  /\ permitted \in BOOLEAN /\ supervised \in BOOLEAN /\ foreign \in BOOLEAN
  /\ flight \in {NoFlight} \cup Flight
  /\ run \in [Starts -> {"new", "waiting", "killed"} \cup Holding \cup Answers]
  /\ server \in [Starts -> {"none", "booting", "serving", "dead"}]
  /\ record \in {"none", "torn"} \cup Starts
  /\ orphans \subseteq Starts

JupyterInit ==
  /\ session = Browsers /\ permitted = TRUE /\ supervised = FALSE /\ foreign = FALSE
  /\ asked = {} /\ flight = NoFlight
  /\ run = [l \in Starts |-> "new"] /\ server = [l \in Starts |-> "none"]
  /\ record = "none" /\ orphans = {}

environmentVars == <<session, permitted, supervised, foreign>>
gatewayStartVars == <<asked, flight>>
launchVars == <<run, server, record, orphans>>

Listening == foreign \/ \E l \in Starts : server[l] = "serving"
Alive(l) == server[l] \in {"booting", "serving"}
LockFree == \A l \in Starts : run[l] \notin Holding

SessionEnds(b) ==
  /\ b \in session /\ session' = session \ {b}
  /\ UNCHANGED <<permitted, supervised, foreign, gatewayStartVars, launchVars>>

PermissionChanges ==
  /\ permitted' \in BOOLEAN /\ supervised' \in BOOLEAN
  /\ UNCHANGED <<session, foreign, gatewayStartVars, launchVars>>

ForeignChanges ==
  /\ foreign \/ ~Listening
  /\ foreign' = ~foreign
  /\ UNCHANGED <<session, permitted, supervised, gatewayStartVars, launchVars>>

(* A second browser waits for the start in flight.                         *)
Joined(b) == IF flight = NoFlight THEN [at |-> "probing", by |-> b] ELSE flight

Ask(b) ==
  /\ b \in session \ asked /\ permitted
  /\ asked' = asked \cup {b}
  /\ flight' = Joined(b)
  /\ UNCHANGED <<environmentVars, launchVars>>

Authorized == flight.by \in session
FlightGoes(at) == flight' = [at |-> at, by |-> flight.by] /\ UNCHANGED asked
(* All that wait get the answer, ready, starting or failed, unless their   *)
(* own session ended.                                                      *)
Replies == flight' = NoFlight /\ asked' = {}

(* The probe is a request of its page, and may fail.                       *)
Probed ==
  /\ flight.at = "probing"
  /\ \/ Listening /\ Replies
     \/ ~(Authorized /\ permitted) /\ Replies
     \/ Authorized /\ permitted /\ FlightGoes(IF supervised THEN "polling" ELSE "token")
  /\ UNCHANGED <<environmentVars, launchVars>>

(* Authorization is looked at again after each await.                      *)
TokenRead ==
  /\ flight.at = "token"
  /\ \/ Replies
     \/ Authorized /\ permitted /\ FlightGoes("opening")
  /\ UNCHANGED <<environmentVars, launchVars>>

CommandSent(l) ==
  /\ flight.at = "opening" /\ Authorized /\ permitted
  /\ run[l] = "new" /\ run' = [run EXCEPT ![l] = "waiting"]
  /\ flight' = [at |-> "terminal", by |-> flight.by, start |-> l]
  /\ UNCHANGED <<environmentVars, asked, server, record, orphans>>
NotOpened ==
  /\ flight.at = "opening" /\ Replies
  /\ UNCHANGED <<environmentVars, launchVars>>

(* What the launcher printed.                                              *)
LauncherAnswered ==
  /\ flight.at = "terminal" /\ run[flight.start] \in Answers
  /\ IF run[flight.start] = "failed" THEN Replies ELSE FlightGoes("polling")
  /\ UNCHANGED <<environmentVars, launchVars>>

Killed(l) ==
  IF run[l] \in {"waiting"} \cup Holding
  THEN /\ run' = [run EXCEPT ![l] = "killed"]
       /\ orphans' = IF run[l] \in {"spawned", "truncated"} THEN orphans \cup {l} ELSE orphans
  ELSE UNCHANGED <<run, orphans>>

(* After 36 seconds, or when the connection fails, it is closed, and the   *)
(* shell with the launcher in it may be killed; the server has a session   *)
(* of its own and goes on.                                                 *)
TerminalCloses ==
  /\ flight.at = "terminal"
  /\ Killed(flight.start) \/ UNCHANGED <<run, orphans>>
  /\ Replies \/ FlightGoes("polling")
  /\ UNCHANGED <<environmentVars, server, record>>

Polled ==
  /\ flight.at = "polling" /\ Replies
  /\ UNCHANGED <<environmentVars, launchVars>>

GatewayReplaced ==
  /\ flight # NoFlight /\ Replies
  /\ \/ flight.at = "terminal" /\ Killed(flight.start)
     \/ UNCHANGED <<run, orphans>>
  /\ UNCHANGED <<environmentVars, server, record>>

LauncherGoes(l, to) == run' = [run EXCEPT ![l] = to]

(* Mutant: the lock is not waited for.                                     *)
MutantLock(l) ==
  /\ run[l] = "waiting"
  /\ LauncherGoes(l, "locked") \/ LauncherGoes(l, "starting")
  /\ UNCHANGED <<environmentVars, gatewayStartVars, server, record, orphans>>

(* For thirty seconds, tried again and again.                              *)
Lock(l) ==
  /\ run[l] = "waiting"
  /\ \/ LockFree /\ LauncherGoes(l, "locked")
     \/ ~LockFree /\ LauncherGoes(l, "starting")
  /\ UNCHANGED <<environmentVars, gatewayStartVars, server, record, orphans>>

(* The port first, then the record, which must be whole; a recorded server *)
(* that is alive is waited for.                                            *)
LookAround(l) ==
  /\ run[l] = "locked"
  /\ \/ Listening /\ LauncherGoes(l, "listening") /\ UNCHANGED server
     \/ ~Listening /\ record = "torn" /\ LauncherGoes(l, "failed") /\ UNCHANGED server
     \/ /\ ~Listening /\ record \in Starts /\ Alive(record)
        /\ LauncherGoes(l, "watching") /\ UNCHANGED server
     \/ /\ ~Listening /\ record # "torn" /\ (record \in Starts => ~Alive(record))
        /\ \/ LauncherGoes(l, "failed") /\ UNCHANGED server
           \/ LauncherGoes(l, "spawned") /\ server' = [server EXCEPT ![l] = "booting"]
  /\ UNCHANGED <<environmentVars, gatewayStartVars, record, orphans>>

(* The record is emptied, then written.  A server that died already has no *)
(* identity to record.                                                     *)
Record(l) ==
  /\ \/ /\ run[l] = "spawned" /\ Alive(l)
        /\ record' = "torn" /\ LauncherGoes(l, "truncated")
     \/ run[l] = "spawned" /\ ~Alive(l) /\ LauncherGoes(l, "failed") /\ UNCHANGED record
     \/ run[l] = "truncated" /\ record' = l /\ LauncherGoes(l, "watching")
  /\ UNCHANGED <<environmentVars, gatewayStartVars, server, orphans>>

(* Until the end of the thirty seconds; a slow server is left alone.       *)
Watch(l) ==
  /\ run[l] = "watching"
  /\ \/ Listening /\ LauncherGoes(l, "listening")
     \/ ~Listening /\ server[l] = "dead" /\ LauncherGoes(l, "failed")
     \/ LauncherGoes(l, "starting")
  /\ UNCHANGED <<environmentVars, gatewayStartVars, server, record, orphans>>

(* One process can have the port: a second one ends.                       *)
Serve(l) ==
  /\ server[l] = "booting"
  /\ server' = [server EXCEPT ![l] = IF Listening THEN "dead" ELSE "serving"]
  /\ UNCHANGED <<environmentVars, gatewayStartVars, run, record, orphans>>
ServerDies(l) ==
  /\ Alive(l) /\ server' = [server EXCEPT ![l] = "dead"]
  /\ UNCHANGED <<environmentVars, gatewayStartVars, run, record, orphans>>

JupyterNext ==
  \/ PermissionChanges \/ ForeignChanges
  \/ \E b \in Browsers : SessionEnds(b) \/ Ask(b)
  \/ Probed \/ TokenRead \/ NotOpened \/ LauncherAnswered \/ TerminalCloses
  \/ Polled \/ GatewayReplaced
  \/ \E l \in Starts :
       \/ CommandSent(l) \/ Lock(l) \/ LookAround(l) \/ Record(l) \/ Watch(l)
       \/ Serve(l) \/ ServerDies(l)

JupyterSpec == JupyterInit /\ [][JupyterNext]_jupyterVars

-----------------------------------------------------------------------------
(* The launchers of one environment, however many gateways and browsers    *)
(* ask, have at most one server alive, except for those whose launcher was *)
(* killed before it had recorded them.                                     *)
OneServerPerRecord ==
  Cardinality({l \in Starts : Alive(l)} \ orphans) <= 1
=============================================================================
