----------------------------- MODULE SDKChannel -----------------------------
(***************************************************************************)
(* The pair of pipes between the broker and the isolated process that runs *)
(* the native SDK: SDKControlPeer on the broker's side                     *)
(* (src/scripts/official_sdk_control_peer.py) and the Controller of the    *)
(* child (src/container/dsh-sdk-control.py).  Every frame carries the next *)
(* number of its direction; the receiver refuses any other, and a refused  *)
(* frame ends the channel.  Calls (start, run, one answer per approval) go *)
(* down, responses and the child's approval requests come up, and several  *)
(* threads write on each side.                                             *)
(*                                                                         *)
(* Numbering a frame and writing it are two steps, as in the code, where a *)
(* lock holds them together.  The 120 seconds a call waits are a step that *)
(* may be taken at any time.  The MAC and the binding of a frame are left  *)
(* out: both ends hold the same key and the pipes are private.             *)
(***************************************************************************)
EXTENDS Naturals, Sequences

CONSTANTS Approvals   \* the native approval requests of the run

ASSUME ChannelConstants ==
  Approvals \cap {"start", "run", "off", "idle", "busy", "none"} = {}

Calls   == {"start", "run"} \cup Approvals
Threads == {"main", "runner", "asker"}
Silent  == [kind |-> "none", id |-> "none", ok |-> TRUE]

VARIABLES
  rpc,       \* the state of each call at the broker
  number,    \* the number a call holds between encode() and send()
  sent,      \* codec.sent of either side
  received,  \* codec.received of either side
  down, up,  \* the frames in the pipes
  requests,  \* the approvals the broker has read
  closed,    \* the broker's closed event
  child,     \* the isolated process
  task,      \* what each thread of the child does
  outgoing,  \* the frame a thread of the child wants to emit
  numbered,  \* the number it holds between encode() and send()
  pending,   \* the approvals the Controller waits for
  halted,    \* the Controller's closed event
  causes     \* why the channel may end: history

channelVars == <<rpc, number, sent, received, down, up, requests, closed, child,
                 task, outgoing, numbered, pending, halted, causes>>
broker  == <<rpc, number, requests, closed>>
pipes   == <<sent, received, down, up>>
process == <<child, task, outgoing, numbered, pending, halted>>

Reasons == {"late_answer", "frame_too_large", "harness_failed", "stopped"}

ChannelTypeOK ==
  /\ rpc \in [Calls -> {"new", "registered", "encoded", "waiting", "leaving",
                         "done", "failed", "timed_out"}]
  /\ number \in [Calls -> Nat]
  /\ sent \in [{"broker", "child"} -> Nat]
  /\ received \in [{"broker", "child"} -> Nat]
  /\ \A i \in DOMAIN down : down[i] \in [id: Calls, seq: Nat]
  /\ \A i \in DOMAIN up :
       /\ up[i].kind \in {"response", "request", "fault"}
       /\ up[i].seq \in Nat /\ up[i].ok \in BOOLEAN
  /\ requests \subseteq Approvals
  /\ closed \in {"open", "closed", "shut"}
  /\ child \in {"none", "up", "gone"}
  /\ task \in [Threads -> {"off", "idle", "busy"} \cup Calls]
  /\ numbered \in [Threads -> Nat]
  /\ pending \subseteq Approvals
  /\ halted \in BOOLEAN
  /\ causes \subseteq Reasons

ChannelInit ==
  /\ rpc = [c \in Calls |-> "new"]
  /\ number = [c \in Calls |-> 0]
  /\ sent = [s \in {"broker", "child"} |-> 0]
  /\ received = sent
  /\ down = <<>> /\ up = <<>>
  /\ requests = {} /\ closed = "open"
  /\ child = "none"
  /\ task = [t \in Threads |-> "off"]
  /\ outgoing = [t \in Threads |-> Silent]
  /\ numbered = [t \in Threads |-> 0]
  /\ pending = {} /\ halted = FALSE
  /\ causes = {}

\* Mutant: encode() alone is under a lock.
MutantFree(held) == TRUE

\* send_lock and the Controller's write_lock: a frame is numbered only while
\* no other frame of its side is numbered and not yet written.
Free(held) == \A k \in DOMAIN held : held[k] = 0

---------------------------------------------------------------------------
(* The broker *)

\* start() launches the child and calls "start"; the session runner calls
\* "run" after it, and the approval bridge answers what the reader queued.
Allowed(c) ==
  CASE c = "start" -> child = "none"
    [] c = "run"   -> rpc["start"] = "done"
    [] OTHER       -> c \in requests

\* The child admits its package and its bootstrap, or ends.
ChildBoots ==
  \/ child' = "up" /\ task' = [task EXCEPT !["main"] = "idle"] /\ UNCHANGED causes
  \/ child' = "gone" /\ causes' = causes \cup {"harness_failed"} /\ UNCHANGED task

Registers(c) ==
  /\ rpc[c] = "new" /\ closed = "open" /\ Allowed(c)
  /\ rpc' = [rpc EXCEPT ![c] = "registered"]
  /\ IF c = "start" THEN ChildBoots ELSE UNCHANGED <<child, task, causes>>
  /\ UNCHANGED <<number, pipes, requests, closed, outgoing, numbered, pending,
                 halted>>

\* encode() counts the frame before it looks at its size.
Encodes(c) ==
  /\ rpc[c] = "registered" /\ Free(number)
  /\ sent' = [sent EXCEPT !["broker"] = @ + 1]
  /\ \/ /\ number' = [number EXCEPT ![c] = sent["broker"] + 1]
        /\ rpc' = [rpc EXCEPT ![c] = "encoded"]
        /\ UNCHANGED causes
     \/ /\ c # "start"
        /\ rpc' = [rpc EXCEPT ![c] = "failed"]
        /\ causes' = causes \cup {"frame_too_large"}
        /\ UNCHANGED number
  /\ UNCHANGED <<received, down, up, requests, closed, process>>

\* A write to a shut transport or to a process that has ended may raise.
Sends(c) ==
  /\ rpc[c] = "encoded"
  /\ number' = [number EXCEPT ![c] = 0]
  /\ \/ /\ closed # "shut"
        /\ down' = Append(down, [id |-> c, seq |-> number[c]])
        /\ rpc' = [rpc EXCEPT ![c] = "waiting"]
     \/ /\ closed = "shut" \/ child = "gone"
        /\ rpc' = [rpc EXCEPT ![c] = "failed"]
        /\ UNCHANGED down
  /\ UNCHANGED <<sent, received, up, requests, closed, process, causes>>

\* target.get() gives up, and only then the call leaves `pending`; or the
\* channel has closed and every target holds {"ok": False}.
GivesUp(c) ==
  /\ \/ rpc[c] = "waiting" /\ rpc' = [rpc EXCEPT ![c] = "leaving"]
     \/ rpc[c] = "leaving" /\ rpc' = [rpc EXCEPT ![c] = "timed_out"]
     \/ /\ rpc[c] = "waiting" /\ closed # "open"
        /\ rpc' = [rpc EXCEPT ![c] = "failed"]
  /\ UNCHANGED <<number, requests, closed, pipes, process, causes>>

\* decode() takes the next number alone.
InTurn(side, f) == f.seq = received[side] + 1
Counts(side) == received' = [received EXCEPT ![side] = @ + 1]

Waits(c) == rpc[c] \in {"registered", "encoded", "waiting", "leaving"}

\* The reader: a frame out of turn, a fault or an answer nobody waits for
\* ends the channel.
ReaderReads ==
  /\ closed = "open" /\ up # <<>>
  /\ LET f == Head(up)
         inTurn == InTurn("broker", f)
         known  == f.kind = "request" \/ (f.kind = "response" /\ Waits(f.id))
         good   == inTurn /\ known
     IN  /\ up' = Tail(up)
         /\ IF inTurn THEN Counts("broker") ELSE UNCHANGED received
         /\ closed' = IF good THEN "open" ELSE "closed"
         /\ requests' = IF good /\ f.kind = "request" THEN requests \cup {f.id} ELSE requests
         /\ rpc' = IF good /\ f.kind = "response" /\ rpc[f.id] # "leaving"
                    THEN [rpc EXCEPT ![f.id] = IF f.ok THEN "done" ELSE "failed"]
                    ELSE rpc
         /\ causes' = IF /\ inTurn /\ f.kind = "response"
                         /\ rpc[f.id] = "timed_out"
                      THEN causes \cup {"late_answer"} ELSE causes
  /\ UNCHANGED <<number, sent, down, process>>

ReaderEnds ==
  /\ closed = "open" /\ child = "gone" /\ up = <<>>
  /\ closed' = "closed"
  /\ UNCHANGED <<rpc, number, requests, pipes, process, causes>>

\* close(): the transport is shut and the reader with it.
Closes ==
  /\ child # "none" /\ closed # "shut"
  /\ closed' = "shut"
  /\ causes' = causes \cup {"stopped"}
  /\ UNCHANGED <<rpc, number, requests, pipes, process>>

---------------------------------------------------------------------------
(* The child *)

Dies ==
  /\ child' = "gone"
  /\ task' = [t \in Threads |-> "off"]
  /\ outgoing' = [t \in Threads |-> Silent]
  /\ numbered' = [t \in Threads |-> 0]
  /\ UNCHANGED <<pending, halted>>

ResponseTo(c, ok) == [kind |-> "response", id |-> c, ok |-> ok]

\* The main loop decodes and dispatches one frame.
Dispatches ==
  /\ task["main"] = "idle" /\ down # <<>>
  /\ LET f == Head(down)
         good == /\ InTurn("child", f)
                 /\ CASE f.id = "start" -> task["asker"] = "off"
                      [] f.id = "run"   -> task["asker"] # "off" /\ task["runner"] = "off"
                      [] OTHER          -> f.id \in pending
     IN  /\ down' = Tail(down)
         /\ IF ~good THEN Dies /\ UNCHANGED received
            ELSE /\ Counts("child")
                 /\ pending' = pending \ {f.id}
                 /\ task' = IF f.id = "run"
                            THEN [task EXCEPT !["runner"] = "busy",
                                              !["main"] = IF halted THEN "off" ELSE "idle"]
                            ELSE [task EXCEPT !["main"] = f.id]
                 /\ UNCHANGED <<child, outgoing, numbered, halted>>
  /\ UNCHANGED <<sent, up, broker, causes>>

\* harness.start() or client.respond() returns, or raises out of the loop.
HarnessAnswers ==
  /\ task["main"] \in Calls /\ outgoing["main"] = Silent
  /\ \/ /\ outgoing' = [outgoing EXCEPT !["main"] = ResponseTo(task["main"], TRUE)]
        /\ task' = IF task["main"] = "start"
                   THEN [task EXCEPT !["asker"] = "idle"] ELSE task
        /\ UNCHANGED <<child, numbered, pending, halted, causes>>
     \/ Dies /\ causes' = causes \cup {"harness_failed"}
  /\ UNCHANGED <<broker, pipes>>

\* End of the input, or the closed event seen at the top of the loop.
LoopEnds ==
  /\ \/ task["main"] = "idle" /\ closed = "shut" /\ down = <<>>
     \/ task["main"] = "off" /\ halted /\ child = "up"
  /\ Dies
  /\ UNCHANGED <<broker, pipes, causes>>

\* The approvals thread: the next request of the harness, or its failure.
Asks ==
  /\ task["asker"] = "idle"
  /\ \/ /\ ~halted /\ task["runner"] = "busy"
        /\ \E a \in Approvals :
             /\ rpc[a] = "new" /\ a \notin pending \cup requests
             /\ ~\E i \in DOMAIN up : up[i].id = a
             /\ pending' = pending \cup {a}
             /\ outgoing' = [outgoing EXCEPT !["asker"] =
                               [kind |-> "request", id |-> a, ok |-> TRUE]]
        /\ UNCHANGED <<halted, causes>>
     \/ /\ halted' = TRUE
        /\ outgoing' = [outgoing EXCEPT !["asker"] =
                          [kind |-> "fault", id |-> "none", ok |-> FALSE]]
        /\ causes' = causes \cup {"harness_failed"}
        /\ UNCHANGED pending
  /\ task' = [task EXCEPT !["asker"] = "busy"]
  /\ UNCHANGED <<broker, pipes, child, numbered>>

RunEnds ==
  /\ task["runner"] = "busy" /\ outgoing["runner"] = Silent
  /\ \E ok \in BOOLEAN :
       outgoing' = [outgoing EXCEPT !["runner"] = ResponseTo("run", ok)]
  /\ UNCHANGED <<broker, pipes, child, task, numbered, pending, halted, causes>>

\* emit(): the frame is numbered ...
Numbers(t) ==
  /\ outgoing[t] # Silent /\ numbered[t] = 0 /\ Free(numbered)
  /\ sent' = [sent EXCEPT !["child"] = @ + 1]
  /\ numbered' = [numbered EXCEPT ![t] = sent["child"] + 1]
  /\ UNCHANGED <<broker, received, down, up, child, task, outgoing, pending,
                 halted, causes>>

\* ... or refused for its size, its number spent: the runner then answers
\* that it failed, the approvals thread emits its fault, the main loop ends.
TooLarge(t) ==
  /\ outgoing[t].kind # "fault" /\ outgoing[t].ok
  /\ outgoing[t] # Silent /\ numbered[t] = 0 /\ Free(numbered)
  /\ sent' = [sent EXCEPT !["child"] = @ + 1]
  /\ causes' = causes \cup {"frame_too_large"}
  /\ IF t = "main" THEN Dies
     ELSE /\ outgoing' = [outgoing EXCEPT ![t] =
                IF t = "runner" THEN ResponseTo("run", FALSE)
                ELSE [kind |-> "fault", id |-> "none", ok |-> FALSE]]
          /\ halted' = (halted \/ t = "asker")
          /\ UNCHANGED <<child, task, numbered, pending>>
  /\ UNCHANGED <<broker, received, down, up>>

\* ... and written; the thread goes on.
Writes(t) ==
  /\ numbered[t] # 0
  /\ up' = Append(up, [kind |-> outgoing[t].kind, id |-> outgoing[t].id,
                       ok |-> outgoing[t].ok, seq |-> numbered[t]])
  /\ numbered' = [numbered EXCEPT ![t] = 0]
  /\ outgoing' = [outgoing EXCEPT ![t] = Silent]
  /\ task' = [task EXCEPT ![t] =
       CASE t = "main"   -> IF halted THEN "off" ELSE "idle"
         [] t = "runner" -> "idle"
         [] t = "asker"  -> IF outgoing[t].kind = "fault" THEN "busy" ELSE "idle"]
  /\ UNCHANGED <<broker, sent, received, down, child, pending, halted, causes>>

\* The protected scope stops the process.
ScopeStops ==
  /\ child = "up" /\ Dies
  /\ causes' = causes \cup {"stopped"}
  /\ UNCHANGED <<broker, pipes>>

---------------------------------------------------------------------------
ChannelNext ==
  \/ \E c \in Calls : Registers(c) \/ Encodes(c) \/ Sends(c) \/ GivesUp(c)
  \/ ReaderReads \/ ReaderEnds \/ Closes
  \/ Dispatches \/ HarnessAnswers \/ LoopEnds \/ Asks \/ RunEnds \/ ScopeStops
  \/ \E t \in Threads : Numbers(t) \/ TooLarge(t) \/ Writes(t)

ChannelSpec == ChannelInit /\ [][ChannelNext]_channelVars

\* The channel ends only for a cause of its own: an answer that came after
\* its caller had given up, a frame over the limit, a failure of the harness
\* or a stop.  The threads that write on either side never end it by the
\* order in which their frames arrive, and no answer is refused because its
\* approval is not yet known.
ChannelEndsForCause == closed # "open" \/ child = "gone" => causes # {}
=============================================================================
