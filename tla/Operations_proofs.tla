------------------------- MODULE Operations_proofs -------------------------
(***************************************************************************)
(* The model guard, the copies, the rollout tools, the control channel,    *)
(* the launch layer and the signup pool, for any instance, and the parts   *)
(* of MCOperations in one behaviour.                                       *)
(*                                                                         *)
(* The guard: what is sent must be traced back to its reservation.  The    *)
(* ledger keeps one reservation for each mark for ever, so its size bounds *)
(* what was sent; and of the handlers with one mark only the one that      *)
(* wrote the reservation is ever past it, so that one alone may send.      *)
(*                                                                         *)
(* The copies: that what is replaced is in a recovery directory needs what *)
(* each step of the reconciliation has seen and preserved (ReconcileInv).  *)
(*                                                                         *)
(* The rollout tools: a step is judged by what the tool read; that an undo *)
(* obeys it needs what the tool found before it (UndoesItsOwn).            *)
(*                                                                         *)
(* The channel: while there is no cause it is in order (Clean): the frames *)
(* of a direction have consecutive numbers, a call is in one place, and an *)
(* approval is awaited from before it is asked until its answer is taken.  *)
(*                                                                         *)
(* The launch layer: that what is recorded can be undone needs what a run  *)
(* holds from its first reading on (HoldsInv), and the boot package that   *)
(* a receipt is what was read with the registration at its end (BootInv).  *)
(* The signup pool: that what a run of the Job has seen still holds when   *)
(* the workloads are applied (ReadyInv, OwnInv).                           *)
(***************************************************************************)
EXTENDS MCOperations, Gateway_proofs, SequenceTheorems

(* The model guard *)

Handlers == [at : Stages, by : Launchers, mark : Marks, body : Bodies,
          sequence : Nat]

Marked == {r.mark : r \in Reserved}

(* The handlers that may still send a request with mark m.                 *)
MaySend(c, m) == call[c].at = "admitted" /\ call[c].mark = m

ReservedInv ==
  /\ IsFiniteSet(Reserved)
  /\ \E l \in Launchers : Cardinality(Reserved) <= GuardCap[l]

SentInv ==
  \A m \in Marks :
    /\ upstream[m] <= 1
    /\ upstream[m] > 0 => m \in Marked
    /\ \A c \in Connections : MaySend(c, m) => m \in Marked /\ upstream[m] = 0
    /\ \A c, d \in Connections : MaySend(c, m) /\ MaySend(d, m) => c = d

Numbered ==
  \A c \in Connections :
    call[c].at \in {"admitted", "sent", "answered"} => call[c].sequence # 0

GuardInv == GuardTypeOK /\ Numbered /\ ReservedInv /\ SentInv

LEMMA GuardInitHolds == GuardInit => GuardInv
<1> SUFFICES ASSUME GuardInit PROVE GuardInv
  OBVIOUS
<1>1. Reserved = {}
  BY DEF GuardInit, Reserved
<1>2. GuardTypeOK /\ Numbered
  <2>1. ledger \in Seq(Rows)
    BY DEF GuardInit
  <2> QED
    BY <2>1 DEF GuardInit, GuardTypeOK, Numbered, NoCall
<1>3. ReservedInv
  <2>1. PICK l \in Launchers : TRUE
    BY GuardConstants
  <2>2. GuardCap[l] \in 1..32
    BY <2>1, GuardConstants
  <2> QED
    BY <1>1, <2>1, <2>2, FS_EmptySet DEF ReservedInv
<1>4. SentInv
  BY DEF GuardInit, SentInv, MaySend, NoCall
<1> QED
  BY <1>2, <1>3, <1>4 DEF GuardInv

(* What an append does to the reservations.                                *)
LEMMA AppendReserves ==
  ASSUME GuardTypeOK, NEW line \in Rows, ledger' = Append(ledger, line)
  PROVE  Reserved' = IF line.event = "reserved" THEN Reserved \cup {line}
                                               ELSE Reserved
<1>1. ledger \in Seq(Rows)
  BY DEF GuardTypeOK
<1>2. /\ Len(ledger') = Len(ledger) + 1 /\ Len(ledger) \in Nat
      /\ DOMAIN ledger = 1..Len(ledger) /\ DOMAIN ledger' = 1..Len(ledger')
      /\ \A i \in 1..Len(ledger) : ledger'[i] = ledger[i]
      /\ ledger'[Len(ledger) + 1] = line
  BY <1>1, AppendProperties
<1> QED
  BY <1>2 DEF Reserved

LEMMA RowsOfCalls ==
  ASSUME NEW event \in {"reserved", "finished"}, NEW m \in Marks,
         NEW n \in Nat \ {0}
  PROVE  [event |-> event, mark |-> m, sequence |-> n] \in Rows
  BY DEF Rows

(* A step that reserves nothing and sends nothing only has to take no      *)
(* handler to the place from which it may send.                            *)
LEMMA GuardQuietStep ==
  ASSUME ReservedInv, SentInv, Reserved' = Reserved, upstream' = upstream,
         \A c \in Connections, m \in Marks : MaySend(c, m)' => MaySend(c, m)
  PROVE  ReservedInv' /\ SentInv'
  BY DEF ReservedInv, SentInv, Marked

(* A handler that goes on to another stage keeps what it knows.            *)
LEMMA GoesTyped ==
  ASSUME GuardTypeOK, NEW c \in Connections, call[c].at # "none",
         NEW stage \in Stages, Goes(c, stage)
  PROVE  /\ call[c] \in Handlers
         /\ call' \in [Connections -> {NoCall} \cup Handlers]
         /\ call'[c] = [call[c] EXCEPT !.at = stage]
         /\ \A d \in Connections \ {c} : call'[d] = call[d]
<1>1. call \in [Connections -> {NoCall} \cup Handlers]
  BY DEF GuardTypeOK, Handlers
<1>2. call[c] \in Handlers
  BY <1>1 DEF NoCall
<1>3. [call[c] EXCEPT !.at = stage] \in Handlers
  BY <1>2 DEF Handlers
<1> QED
  BY <1>1, <1>2, <1>3 DEF Goes

LEMMA StageValues ==
  /\ "received" \in Stages /\ "admitted" \in Stages /\ "sent" \in Stages
  /\ "answered" \in Stages /\ "finished" \in Stages /\ "refused" \in Stages
  /\ "raised" \in Stages /\ "killed" \in Stages /\ "none" \in Stages
  BY DEF Stages

LEMMA GuardStepHolds == GuardInv /\ [GuardNext]_guardVars => GuardInv'
<1> SUFFICES ASSUME GuardInv, [GuardNext]_guardVars PROVE GuardInv'
  OBVIOUS
<1>a. GuardTypeOK /\ Numbered /\ ReservedInv /\ SentInv
  BY DEF GuardInv
<1>call. call \in [Connections -> {NoCall} \cup Handlers]
  BY <1>a DEF GuardTypeOK, Handlers
<1>1. ASSUME NEW l \in Launchers, NEW resume \in BOOLEAN, Launch(l, resume)
      PROVE  GuardInv'
  <2>1. GuardTypeOK' /\ Numbered'
    BY <1>a, <1>1 DEF Launch, GuardTypeOK, Numbered
  <2>2. ReservedInv' /\ SentInv'
    BY <1>a, <1>1, GuardQuietStep DEF Launch, Reserved, MaySend
  <2> QED
    BY <2>1, <2>2 DEF GuardInv
<1>2. ASSUME NEW l \in Launchers, Exit(l) PROVE GuardInv'
  <2>1. ASSUME NEW c \in Connections
        PROVE  /\ call'[c] \in {NoCall} \cup Handlers
               /\ call'[c] = call[c] \/ call'[c].at = "killed"
    <3>1. CASE call[c] \in Handlers
      <4>1. [call[c] EXCEPT !.at = "killed"] \in Handlers
        BY <3>1, StageValues DEF Handlers
      <4>2. call'[c] = call[c] \/ call'[c] = [call[c] EXCEPT !.at = "killed"]
        BY <1>2 DEF Exit
      <4> QED
        BY <3>1, <4>1, <4>2 DEF Handlers
    <3>2. CASE call[c] = NoCall
      BY <1>2, <3>2 DEF Exit, NoCall
    <3> QED
      BY <1>call, <3>1, <3>2
  <2>2. call' \in [Connections -> {NoCall} \cup Handlers]
    BY <1>2, <2>1 DEF Exit
  <2>3. GuardTypeOK'
    BY <1>a, <1>2, <2>2 DEF Exit, GuardTypeOK, Handlers
  <2>4. Numbered'
    BY <1>a, <2>1 DEF Numbered
  <2>5. \A c \in Connections, m \in Marks : MaySend(c, m)' => MaySend(c, m)
    BY <2>1 DEF MaySend
  <2>6. ReservedInv' /\ SentInv'
    BY <1>a, <1>2, <2>5, GuardQuietStep DEF Exit, Reserved
  <2> QED
    BY <2>3, <2>4, <2>6 DEF GuardInv
<1>3. ASSUME NEW c \in Connections, NEW l \in Launchers, NEW m \in Marks,
             NEW body \in Bodies, Receive(c, l, m, body)
      PROVE  GuardInv'
  <2>1. PICK at \in {"received", "refused"} :
          call' = [call EXCEPT ![c] =
            [at |-> at, by |-> l, mark |-> m, body |-> body, sequence |-> 0]]
    BY <1>3 DEF Receive
  <2>2. call'[c] \in Handlers /\ call'[c].at = at
    BY <1>call, <2>1, StageValues DEF Handlers
  <2>3. call' \in [Connections -> {NoCall} \cup Handlers]
    BY <1>call, <2>1, <2>2
  <2>4. \A d \in Connections \ {c} : call'[d] = call[d]
    BY <1>call, <2>1
  <2>5. GuardTypeOK' /\ Numbered'
    BY <1>a, <1>3, <2>2, <2>3, <2>4 DEF Receive, GuardTypeOK, Numbered, Handlers
  <2>6. \A d \in Connections, n \in Marks : MaySend(d, n)' => MaySend(d, n)
    BY <2>2, <2>4 DEF MaySend
  <2>7. ReservedInv' /\ SentInv'
    BY <1>a, <1>3, <2>6, GuardQuietStep DEF Receive, Reserved
  <2> QED
    BY <2>5, <2>7 DEF GuardInv
<1>4. ASSUME NEW c \in Connections, Reserve(c) PROVE GuardInv'
  <2> DEFINE n == NextSequence
             m == call[c].mark
             line == [event |-> "reserved", mark |-> m, sequence |-> n]
  <2>1. call[c] \in Handlers /\ call[c].at = "received"
    BY <1>4, <1>call DEF Reserve, NoCall
  <2>2. n \in Nat \ {0} /\ n = Cardinality(Reserved) + 1
    BY <1>a, FS_CardinalityType DEF NextSequence, ReservedInv
  <2>3. CASE /\ ledger' = Append(ledger, line) /\ torn' = torn
             /\ call' = [call EXCEPT ![c].at = "admitted", ![c].sequence = n]
             /\ ~IsRepeat(m) /\ n <= GuardCap[call[c].by]
    <3>1. line \in Rows /\ m \in Marks
      BY <2>1, <2>2, RowsOfCalls DEF Handlers
    <3>2. /\ call'[c] \in Handlers /\ call'[c].at = "admitted"
          /\ call'[c].mark = m /\ call'[c].sequence = n
          /\ \A d \in Connections \ {c} : call'[d] = call[d]
      BY <1>call, <2>1, <2>2, <2>3, StageValues DEF Handlers
    <3>3. GuardTypeOK'
      <4>1. ledger' \in Seq(Rows)
        BY <1>a, <2>3, <3>1, AppendProperties DEF GuardTypeOK
      <4>2. call' \in [Connections -> {NoCall} \cup Handlers]
        BY <1>call, <2>3, <3>2
      <4> QED
        BY <1>a, <1>4, <2>3, <4>1, <4>2 DEF Reserve, GuardTypeOK, Handlers
    <3>4. Numbered'
      BY <1>a, <2>2, <3>2 DEF Numbered
    <3>5. Reserved' = Reserved \cup {line} /\ line \notin Reserved
      BY <1>a, <2>3, <3>1, AppendReserves DEF IsRepeat
    <3>6. ReservedInv'
      <4>1. IsFiniteSet(Reserved') /\ Cardinality(Reserved') = n
        BY <1>a, <2>2, <3>5, FS_AddElement DEF ReservedInv
      <4>2. call[c].by \in Launchers /\ n <= GuardCap[call[c].by]
        BY <2>1, <2>3 DEF Handlers
      <4> QED
        BY <4>1, <4>2 DEF ReservedInv
    <3>7. Marked' = Marked \cup {m} /\ m \notin Marked
      BY <2>3, <3>5 DEF Marked, IsRepeat
    <3>8. upstream' = upstream
      BY <1>4 DEF Reserve
    <3>9. ASSUME NEW d \in Connections, NEW k \in Marks
          PROVE  MaySend(d, k)' <=> MaySend(d, k) \/ (d = c /\ k = m)
      BY <2>1, <3>2 DEF MaySend
    <3>10. SentInv'
      <4>1. upstream \in [Marks -> Nat]
        BY <1>a DEF GuardTypeOK
      <4> QED
        BY <1>a, <3>1, <3>7, <3>8, <3>9, <4>1 DEF SentInv
    <3> QED
      BY <3>3, <3>4, <3>6, <3>10 DEF GuardInv
  <2>4. CASE /\ ledger' = ledger /\ torn' \in BOOLEAN
             /\ \E at \in {"refused", "raised"} : Goes(c, at)
    <3>1. PICK at \in {"refused", "raised"} : Goes(c, at)
      BY <2>4
    <3>2. /\ call' \in [Connections -> {NoCall} \cup Handlers]
          /\ call'[c].at = at
          /\ \A d \in Connections \ {c} : call'[d] = call[d]
      <4>1. /\ call' \in [Connections -> {NoCall} \cup Handlers]
            /\ call'[c] = [call[c] EXCEPT !.at = at]
            /\ \A d \in Connections \ {c} : call'[d] = call[d]
        BY <1>a, <2>1, <3>1, GoesTyped, StageValues
      <4> QED
        BY <2>1, <4>1 DEF Handlers
    <3>3. GuardTypeOK' /\ Numbered'
      BY <1>a, <1>4, <2>4, <3>2 DEF Reserve, GuardTypeOK, Numbered, Handlers
    <3>4. \A d \in Connections, k \in Marks : MaySend(d, k)' => MaySend(d, k)
      BY <3>2 DEF MaySend
    <3>5. ReservedInv' /\ SentInv'
      BY <1>a, <1>4, <2>4, <3>4, GuardQuietStep DEF Reserve, Reserved
    <3> QED
      BY <3>3, <3>5 DEF GuardInv
  <2>5. torn \in BOOLEAN
    BY <1>a DEF GuardTypeOK
  <2>6. \/ /\ Goes(c, "refused") /\ UNCHANGED <<ledger, torn>>
        \/ /\ ~(torn \/ IsRepeat(m) \/ n > GuardCap[call[c].by])
           /\ ledger' = Append(ledger, line)
           /\ call' = [call EXCEPT ![c].at = "admitted", ![c].sequence = n]
           /\ UNCHANGED torn
        \/ torn' = TRUE /\ Goes(c, "raised") /\ UNCHANGED ledger
    BY <1>4 DEF Reserve
  <2>7. GuardCap[call[c].by] \in Nat
    BY <2>1, GuardConstants DEF Handlers
  <2>8. n <= GuardCap[call[c].by] \/ n > GuardCap[call[c].by]
    BY <2>2, <2>7
  <2> HIDE DEF n, m, line
  <2> QED
    BY <2>3, <2>4, <2>5, <2>6, <2>8
<1>5. ASSUME NEW c \in Connections, Send(c) PROVE GuardInv'
  <2> DEFINE m == call[c].mark
  <2>1. PICK at \in {"raised", "sent", "answered"} : Goes(c, at)
    BY <1>5 DEF Send
  <2>2. /\ call[c] \in Handlers /\ call[c].at = "admitted"
        /\ call' \in [Connections -> {NoCall} \cup Handlers]
        /\ call'[c] = [call[c] EXCEPT !.at = at]
        /\ \A d \in Connections \ {c} : call'[d] = call[d]
    <3>1. call[c].at = "admitted"
      BY <1>5 DEF Send
    <3> QED
      BY <1>a, <2>1, <3>1, GoesTyped, StageValues
  <2>3. MaySend(c, m) /\ m \in Marks
    BY <2>2 DEF Handlers, MaySend
  <2>4. upstream' \in {upstream, [upstream EXCEPT ![m] = @ + 1]}
    BY <1>5 DEF Send
  <2>5. GuardTypeOK'
    <3>1. upstream' \in [Marks -> Nat]
      BY <1>a, <2>3, <2>4 DEF GuardTypeOK
    <3> QED
      BY <1>a, <1>5, <2>2, <3>1 DEF Send, GuardTypeOK, Handlers
  <2>6. Numbered'
    BY <1>a, <2>2 DEF Numbered, Handlers
  <2>7. Reserved' = Reserved
    BY <1>5 DEF Send, Reserved
  <2>8. \A d \in Connections, k \in Marks :
          MaySend(d, k)' => MaySend(d, k) /\ d # c
    BY <2>2 DEF MaySend, Handlers
  <2>9. upstream[m] = 0 /\ m \in Marked
    BY <1>a, <2>3 DEF SentInv
  <2>10. SentInv'
    <3>1. CASE upstream' = upstream
      BY <1>a, <2>7, <2>8, <3>1, GuardQuietStep
    <3>2. CASE upstream' = [upstream EXCEPT ![m] = @ + 1]
      BY <1>a, <2>3, <2>7, <2>8, <2>9, <3>2 DEF SentInv, Marked, GuardTypeOK
    <3> QED
      BY <2>4, <3>1, <3>2
  <2>11. ReservedInv'
    BY <1>a, <2>7 DEF ReservedInv
  <2> QED
    BY <2>5, <2>6, <2>10, <2>11 DEF GuardInv
<1>6. ASSUME NEW c \in Connections, Answer(c) \/ Complete(c) PROVE GuardInv'
  <2>1. PICK at \in {"answered", "finished", "raised"} : Goes(c, at)
    BY <1>6 DEF Answer, Complete
  <2>2. /\ call[c] \in Handlers /\ call[c].at \in {"sent", "answered"}
        /\ call' \in [Connections -> {NoCall} \cup Handlers]
        /\ call'[c] = [call[c] EXCEPT !.at = at]
        /\ \A d \in Connections \ {c} : call'[d] = call[d]
    <3>1. call[c].at \in {"sent", "answered"}
      BY <1>6 DEF Answer, Complete
    <3> QED
      BY <1>a, <2>1, <3>1, GoesTyped, StageValues
  <2>3. ledger' \in Seq(Rows) /\ Reserved' = Reserved /\ torn' \in BOOLEAN
    <3> DEFINE line == [event |-> "finished", mark |-> call[c].mark,
                       sequence |-> call[c].sequence]
    <3>1. CASE ledger' = ledger /\ torn' \in {torn, TRUE}
      BY <1>a, <3>1 DEF GuardTypeOK, Reserved
    <3>2. CASE ledger' = Append(ledger, line) /\ torn' = torn
      <4>1. line \in Rows
        BY <1>a, <2>2, RowsOfCalls DEF Numbered, Handlers
      <4> QED
        BY <1>a, <3>2, <4>1, AppendReserves, AppendProperties DEF GuardTypeOK
    <3> QED
      BY <1>6, <3>1, <3>2 DEF Answer, Complete
  <2>4. upstream' = upstream
    BY <1>6 DEF Answer, Complete
  <2>5. GuardTypeOK' /\ Numbered'
    BY <1>a, <1>6, <2>2, <2>3, <2>4
    DEF Answer, Complete, GuardTypeOK, Numbered, Handlers
  <2>6. \A d \in Connections, k \in Marks : MaySend(d, k)' => MaySend(d, k)
    BY <2>2 DEF MaySend, Handlers
  <2>7. ReservedInv' /\ SentInv'
    BY <1>a, <2>3, <2>4, <2>6, GuardQuietStep
  <2> QED
    BY <2>5, <2>7 DEF GuardInv
<1>7. CASE UNCHANGED guardVars
  <2>1. GuardTypeOK' /\ Numbered'
    BY <1>a, <1>7 DEF guardVars, GuardTypeOK, Numbered
  <2>2. ReservedInv' /\ SentInv'
    BY <1>a, <1>7, GuardQuietStep DEF guardVars, Reserved, MaySend
  <2> QED
    BY <2>1, <2>2 DEF GuardInv
<1> QED
  BY <1>1, <1>2, <1>3, <1>4, <1>5, <1>6, <1>7 DEF GuardNext, GuardStep

LEMMA GuardAlways == GuardSpec => []GuardInv
  BY GuardInitHolds, GuardStepHolds, PTL DEF GuardSpec

(* The ledger holds well-formed rows only, numbered from 1, and the state  *)
(* of the launchers and handlers keeps its types.                          *)
THEOREM GuardTypeCorrect == GuardSpec => []GuardTypeOK
  BY GuardAlways, PTL DEF GuardInv

(* A request is sent to the model once at most, and no more of them are    *)
(* sent than the largest cap allows, whatever launchers resume, whatever   *)
(* dies between a reservation and its completion.                          *)
THEOREM SentOnce == GuardSpec => []SentOnceWithinCap
<1>1. ASSUME GuardInv PROVE SentOnceWithinCap
  <2> DEFINE Sent == {m \in Marks : upstream[m] > 0}
             markOf == [r \in Reserved |-> r.mark]
  <2>1. ReservedInv /\ SentInv
    BY <1>1 DEF GuardInv
  <2>2. Sent \subseteq Marked
    BY <2>1 DEF SentInv
  <2>3. markOf \in Surjection(Reserved, Marked)
    BY DEF Marked, Surjection
  <2>4. IsFiniteSet(Marked) /\ Cardinality(Marked) <= Cardinality(Reserved)
    BY <2>1, <2>3, FS_Surjection DEF ReservedInv
  <2>5. IsFiniteSet(Sent) /\ Cardinality(Sent) <= Cardinality(Marked)
    BY <2>2, <2>4, FS_Subset
  <2>6. PICK l \in Launchers : Cardinality(Reserved) <= GuardCap[l]
    BY <2>1 DEF ReservedInv
  <2>7. Cardinality(Sent) <= GuardCap[l]
    <3>1. /\ Cardinality(Sent) \in Nat /\ Cardinality(Marked) \in Nat
          /\ Cardinality(Reserved) \in Nat /\ GuardCap[l] \in 1..32
      BY <2>1, <2>4, <2>5, FS_CardinalityType, GuardConstants DEF ReservedInv
    <3> QED
      BY <2>4, <2>5, <2>6, <3>1
  <2>8. \A m \in Marks : upstream[m] <= 1
    BY <2>1 DEF SentInv
  <2> QED
    BY <2>7, <2>8 DEF SentOnceWithinCap
<1> QED
  BY GuardAlways, <1>1, PTL

---------------------------------------------------------------------------
(* Copies *)

PromotionInv ==
  /\ approved = first
  /\ \A a \in Artifacts : approved[a] # NoCopy =>
       \E j \in Jobs : approved[a] = manifest[j][a]

(* What was read has been preserved before it is compared with its copy,   *)
(* and from the last look on only a user can have changed it.              *)
PreservedFirst ==
  \A f \in Files :
    place \in {<<"compare", f>>, <<"look", f>>, <<"replace", f>>} =>
      old = NoCopy \/ old \in recovery[f]

SeenUnlessNew ==
  \A f \in Files :
    place = <<"replace", f>> => central[f] = old \/ central[f] \in unseen[f]

LostIsPreserved == \A f \in Files : lost[f] \subseteq recovery[f]

ReconcileInv == PreservedFirst /\ SeenUnlessNew /\ LostIsPreserved

CopiesInv == CopiesTypeOK /\ PromotionInv /\ ReconcileInv

LEMMA CopiesInitHolds == CopiesInit => CopiesInv
<1>. SUFFICES ASSUME CopiesInit PROVE CopiesInv
  OBVIOUS
<1>. USE DEF CopiesInit, PromotionInit, ReconcileInit
<1>1. CopiesTypeOK
  BY DEF CopiesTypeOK, Maybe
<1>2. PromotionInv
  BY DEF PromotionInv
<1>3. ReconcileInv
  BY DEF ReconcileInv, PreservedFirst, SeenUnlessNew, LostIsPreserved, NoFile
<1>. QED
  BY <1>1, <1>2, <1>3 DEF CopiesInv

(* A step of one tool leaves what the other one relies on.                 *)
LEMMA ReconcileKept ==
  ASSUME CopiesInv, UNCHANGED reconcileVars
  PROVE  ReconcileInv'
BY DEF CopiesInv, ReconcileInv, PreservedFirst, SeenUnlessNew,
       LostIsPreserved, reconcileVars

LEMMA PromotionKept ==
  ASSUME CopiesInv, UNCHANGED promotionVars
  PROVE  PromotionInv'
BY DEF CopiesInv, PromotionInv, promotionVars

-----------------------------------------------------------------------------
LEMMA StageHolds ==
  ASSUME CopiesInv, NEW j \in Jobs, NEW a \in Artifacts, Stage(j, a)
  PROVE  CopiesInv'
<1>1. CopiesTypeOK'
  <2>1. promotion' \in [Jobs -> {"staging", "linking", "done", "failed"}]
    BY DEF CopiesInv, CopiesTypeOK, Stage
  <2>2. verified' \in [Jobs -> SUBSET Artifacts]
    BY DEF CopiesInv, CopiesTypeOK, Stage
  <2>. QED
    BY <2>1, <2>2 DEF CopiesInv, CopiesTypeOK, Stage, reconcileVars
<1>2. PromotionInv'
  BY DEF CopiesInv, PromotionInv, Stage
<1>3. ReconcileInv'
  BY ReconcileKept DEF Stage
<1>. QED
  BY <1>1, <1>2, <1>3 DEF CopiesInv

LEMMA LinkHolds ==
  ASSUME CopiesInv, NEW j \in Jobs, NEW a \in Artifacts, Link(j, a)
  PROVE  CopiesInv'
<1>. USE DEF CopiesInv, Link, Linked, Shows
<1>1. CopiesTypeOK'
  <2>1. promotion' \in [Jobs -> {"staging", "linking", "done", "failed"}]
    BY DEF CopiesTypeOK
  <2>2. verified' \in [Jobs -> SUBSET Artifacts]
    BY DEF CopiesTypeOK
  <2>3. manifest[j][a] \in Maybe
    BY DEF CopiesTypeOK, Maybe
  <2>4. approved' \in [Artifacts -> Maybe] /\ first' \in [Artifacts -> Maybe]
    BY <2>3 DEF CopiesTypeOK
  <2>. QED
    BY <2>1, <2>2, <2>4 DEF CopiesTypeOK, reconcileVars
<1>2. PromotionInv'
  <2>1. approved' = first'
    BY DEF PromotionInv
  <2>2. ASSUME NEW b \in Artifacts, approved'[b] # NoCopy
        PROVE  \E k \in Jobs : approved'[b] = manifest'[k][b]
    BY <2>2 DEF PromotionInv, CopiesTypeOK
  <2>. QED
    BY <2>1, <2>2 DEF PromotionInv
<1>3. ReconcileInv'
  BY ReconcileKept
<1>. QED
  BY <1>1, <1>2, <1>3

LEMMA PromotionRestartHolds ==
  ASSUME CopiesInv, NEW j \in Jobs, PromotionRestart(j)
  PROVE  CopiesInv'
<1>1. CopiesTypeOK'
  BY DEF CopiesInv, CopiesTypeOK, PromotionRestart, reconcileVars
<1>2. PromotionInv'
  BY DEF CopiesInv, PromotionInv, PromotionRestart
<1>3. ReconcileInv'
  BY ReconcileKept DEF PromotionRestart
<1>. QED
  BY <1>1, <1>2, <1>3 DEF CopiesInv

-----------------------------------------------------------------------------
LEMMA UserWritesHolds ==
  ASSUME CopiesInv, NEW f \in Files, NEW content \in Contents,
         UserWrites(f, content)
  PROVE  CopiesInv'
<1>. USE DEF CopiesInv, UserWrites
<1>1. CopiesTypeOK'
  BY DEF CopiesTypeOK, Maybe, promotionVars
<1>2. PromotionInv'
  BY PromotionKept
<1>3. PreservedFirst' /\ LostIsPreserved'
  BY DEF ReconcileInv, PreservedFirst, LostIsPreserved
<1>4. SeenUnlessNew'
  <2>. SUFFICES ASSUME NEW g \in Files, place' = <<"replace", g>>
                PROVE  central'[g] = old' \/ central'[g] \in unseen'[g]
    BY DEF SeenUnlessNew
  <2>1. CASE g = f
    BY <2>1 DEF CopiesTypeOK
  <2>2. CASE g # f
    BY <2>2 DEF CopiesTypeOK, ReconcileInv, SeenUnlessNew
  <2>. QED
    BY <2>1, <2>2
<1>. QED
  BY <1>1, <1>2, <1>3, <1>4 DEF ReconcileInv

LEMMA CompareHolds ==
  ASSUME CopiesInv, NEW f \in Files, Compare(f)
  PROVE  CopiesInv'
<1>. USE DEF CopiesInv, Compare
<1>0. place' \in {<<"verify", f>>, <<"look", f>>, <<"copy", f>>}
  OBVIOUS
<1>1. CopiesTypeOK'
  BY <1>0 DEF CopiesTypeOK, Steps, promotionVars
<1>2. PromotionInv'
  BY PromotionKept
<1>3. PreservedFirst'
  BY <1>0 DEF PreservedFirst, CopiesTypeOK, ReconcileInv
<1>4. SeenUnlessNew'
  BY <1>0 DEF SeenUnlessNew
<1>5. LostIsPreserved'
  BY DEF ReconcileInv, LostIsPreserved
<1>. QED
  BY <1>1, <1>2, <1>3, <1>4, <1>5 DEF ReconcileInv

LEMMA PreserveHolds ==
  ASSUME CopiesInv, NEW f \in Files, Preserve(f)
  PROVE  CopiesInv'
<1>. USE DEF CopiesInv, Preserve, Stops, NoFile
<1>1. CopiesTypeOK'
  BY DEF CopiesTypeOK, Maybe, Steps, promotionVars
<1>2. PromotionInv'
  BY PromotionKept
<1>3. central[f] \in recovery'[f] /\ \A g \in Files : recovery[g] \subseteq recovery'[g]
  BY DEF CopiesTypeOK
<1>4. PreservedFirst'
  BY <1>3 DEF PreservedFirst
<1>5. SeenUnlessNew'
  BY DEF SeenUnlessNew
<1>6. LostIsPreserved'
  BY <1>3 DEF ReconcileInv, LostIsPreserved
<1>. QED
  BY <1>1, <1>2, <1>4, <1>5, <1>6 DEF ReconcileInv

LEMMA StillOldHolds ==
  ASSUME CopiesInv, NEW f \in Files, ComparePreserved(f) \/ Look(f)
  PROVE  CopiesInv'
<1>. USE DEF CopiesInv, ComparePreserved, Look, StillOld, Stops, NoFile
<1>1. CopiesTypeOK'
  BY DEF CopiesTypeOK, Maybe, Steps, promotionVars
<1>2. PromotionInv'
  BY PromotionKept
<1>3. PreservedFirst'
  BY DEF ReconcileInv, PreservedFirst
<1>4. SeenUnlessNew'
  BY DEF SeenUnlessNew
<1>5. LostIsPreserved'
  BY DEF ReconcileInv, LostIsPreserved
<1>. QED
  BY <1>1, <1>2, <1>3, <1>4, <1>5 DEF ReconcileInv

LEMMA ReplaceHolds ==
  ASSUME CopiesInv, NEW f \in Files, Replace(f)
  PROVE  CopiesInv'
<1>. USE DEF CopiesInv, Replace
<1>0. central[f] \in {old, NoCopy} \cup unseen[f] \cup recovery[f]
  BY DEF ReconcileInv, SeenUnlessNew
<1>1. central[f] = old => old = NoCopy \/ old \in recovery[f]
  BY DEF ReconcileInv, PreservedFirst
<1>2. CopiesTypeOK'
  <2>1. central' \in [Files -> Maybe]
    BY DEF CopiesTypeOK, Maybe
  <2>2. lost' \in [Files -> SUBSET Contents]
    BY DEF CopiesTypeOK, Maybe
  <2>3. place' \in {NoFile} \cup (Steps \X Files)
    BY DEF Steps
  <2>. QED
    BY <2>1, <2>2, <2>3 DEF CopiesTypeOK, promotionVars
<1>3. PromotionInv'
  BY PromotionKept
<1>4. PreservedFirst' /\ SeenUnlessNew'
  BY DEF PreservedFirst, SeenUnlessNew
<1>5. LostIsPreserved'
  BY <1>0, <1>1 DEF ReconcileInv, LostIsPreserved, CopiesTypeOK
<1>. QED
  BY <1>2, <1>3, <1>4, <1>5 DEF ReconcileInv

LEMMA EndHolds ==
  ASSUME CopiesInv, ReconcileRestart \/ \E f \in Files : VerifyCopy(f)
  PROVE  CopiesInv'
<1>. USE DEF CopiesInv, ReconcileRestart, VerifyCopy, Stops, NoFile
<1>1. CopiesTypeOK'
  BY DEF CopiesTypeOK, Maybe, promotionVars
<1>2. PromotionInv'
  BY PromotionKept
<1>3. PreservedFirst' /\ SeenUnlessNew'
  BY DEF PreservedFirst, SeenUnlessNew
<1>4. LostIsPreserved'
  BY DEF ReconcileInv, LostIsPreserved
<1>. QED
  BY <1>1, <1>2, <1>3, <1>4 DEF ReconcileInv

-----------------------------------------------------------------------------
LEMMA CopiesStepHolds ==
  ASSUME CopiesInv, [CopiesNext]_copyVars
  PROVE  CopiesInv'
<1>1. CASE PromotionNext
  BY <1>1, StageHolds, LinkHolds, PromotionRestartHolds DEF PromotionNext
<1>2. CASE ReconcileNext
  BY <1>2, UserWritesHolds, CompareHolds, PreserveHolds, StillOldHolds,
     ReplaceHolds, EndHolds DEF ReconcileNext
<1>3. CASE UNCHANGED copyVars
  <2>1. CopiesTypeOK'
    BY <1>3 DEF CopiesInv, CopiesTypeOK, copyVars
  <2>2. PromotionInv'
    BY <1>3, PromotionKept DEF copyVars, promotionVars
  <2>3. ReconcileInv'
    BY <1>3, ReconcileKept DEF copyVars, reconcileVars
  <2>. QED
    BY <2>1, <2>2, <2>3 DEF CopiesInv
<1>. QED
  BY <1>1, <1>2, <1>3 DEF CopiesNext

(* What a promotion has made visible, and what a user had written where    *)
(* the reconciliation copies, is never lost, however promotions and        *)
(* restarts overlap and whenever users write.                              *)
THEOREM NothingIsOverwritten == CopiesSpec => []NothingOverwritten
<1>1. CopiesInv => NothingOverwritten
  BY DEF CopiesInv, PromotionInv, ReconcileInv, LostIsPreserved, NothingOverwritten
<1>. QED
  BY <1>1, CopiesInitHolds, CopiesStepHolds, PTL DEF CopiesSpec

(* The type of the tools' state.                                           *)
THEOREM CopiesTypeCorrect == CopiesSpec => []CopiesTypeOK
<1>1. CopiesInv => CopiesTypeOK
  BY DEF CopiesInv
<1>. QED
  BY <1>1, CopiesInitHolds, CopiesStepHolds, PTL DEF CopiesSpec

---------------------------------------------------------------------------
(* Rollout tools *)

UndoesItsOwn ==
  \A t \in Tools : step[t] = "restoring" =>
    \/ t = "packages" /\ observed[t] = Wanted(t, seen[t])
    \/ t = "credential" /\ observed[t].source = Wanted(t, seen[t]).source

RolloutInv == RolloutTypeOK /\ UndoesItsOwn

LEMMA WantedType ==
  ASSUME NEW t \in Tools, NEW d \in Deployment
  PROVE  Wanted(t, d) \in Deployment
<1>1. t \in Kinds
  BY RolloutConstants
<1>2. Bundled(t, d) \subseteq Kinds
  BY <1>1 DEF Bundled, Deployment, Kinds
<1>3. Mounted(t, d) \subseteq Kinds
  BY <1>1 DEF Mounted, Deployment
<1>. QED
  BY <1>2, <1>3 DEF Wanted, Deployment

LEMMA BareType == Bare \in Deployment
BY DEF Bare, Deployment

LEMMA RolloutInitHolds == RolloutInit => RolloutInv
BY BareType DEF RolloutInit, RolloutInv, RolloutTypeOK, UndoesItsOwn

(* What a step of a tool does to the tools' own state.                     *)
StepNames == {"idle", "read", "ready", "patched", "undoing", "restoring"}

LEMMA MovesKeeps ==
  ASSUME RolloutInv, NEW t \in Tools, spec' \in Deployment,
         NEW to \in StepNames \ {"restoring"}, Moves(t, to)
  PROVE  RolloutInv'
<1>. USE DEF RolloutInv, Moves, StepNames
<1>1. RolloutTypeOK'
  BY DEF RolloutTypeOK
<1>2. UndoesItsOwn'
  BY DEF UndoesItsOwn, RolloutTypeOK
<1>. QED
  BY <1>1, <1>2

LEMMA ExitsKeeps ==
  ASSUME RolloutInv, NEW t \in Tools, spec' \in Deployment, Exits(t)
  PROVE  RolloutInv'
<1>. USE DEF RolloutInv, Exits
<1>1. RolloutTypeOK'
  BY BareType DEF RolloutTypeOK
<1>2. UndoesItsOwn'
  <2>. SUFFICES ASSUME NEW u \in Tools, step'[u] = "restoring"
                PROVE  \/ u = "packages" /\ observed'[u] = Wanted(u, seen'[u])
                       \/ /\ u = "credential"
                          /\ observed'[u].source = Wanted(u, seen'[u]).source
    BY DEF UndoesItsOwn
  <2>1. u # t /\ step[u] = "restoring"
    BY DEF RolloutTypeOK
  <2>2. observed'[u] = observed[u] /\ seen'[u] = seen[u]
    BY <2>1 DEF RolloutTypeOK
  <2>. QED
    BY <2>1, <2>2 DEF UndoesItsOwn
<1>. QED
  BY <1>1, <1>2

LEMMA RefusedKeeps ==
  ASSUME RolloutInv, NEW t \in Tools, spec' \in Deployment, PatchRefused(t)
  PROVE  RolloutInv'
BY MovesKeeps, ExitsKeeps DEF PatchRefused, StepNames

-----------------------------------------------------------------------------
LEMMA ReadsKeeps ==
  ASSUME RolloutInv, NEW t \in Tools, Reads(t)
  PROVE  RolloutInv'
<1>. USE DEF RolloutInv, Reads
<1>1. RolloutTypeOK'
  BY DEF RolloutTypeOK
<1>2. ASSUME NEW u \in Tools, step'[u] = "restoring"
      PROVE  step[u] = "restoring" /\ observed'[u] = observed[u] /\ seen'[u] = seen[u]
  BY <1>2 DEF RolloutTypeOK
<1>. QED
  BY <1>1, <1>2 DEF UndoesItsOwn

LEMMA PatchesKeeps ==
  ASSUME RolloutInv, NEW t \in Tools, Patches(t)
  PROVE  RolloutInv'
<1>1. t \in Kinds /\ spec \in Deployment /\ seen[t] \in Deployment
  BY RolloutConstants DEF RolloutInv, RolloutTypeOK
<1>2. [spec EXCEPT !.source = {t}] \in Deployment
  BY <1>1 DEF Deployment
<1>3. spec' \in Deployment
  BY <1>1, <1>2, WantedType DEF Patches, SwitchSource
<1>. QED
  BY <1>3, MovesKeeps, RefusedKeeps DEF Patches, StepNames

LEMMA ObservesKeeps ==
  ASSUME RolloutInv, NEW t \in Tools, Observes(t)
  PROVE  RolloutInv'
<1>0. spec' \in Deployment
  BY DEF RolloutInv, RolloutTypeOK, Observes
<1>1. CASE Exits(t)
  BY <1>0, <1>1, ExitsKeeps
<1>2. CASE ~Exits(t)
  <2>0. t \in {"credential", "packages"}
    BY DEF Observes
  <2>1. /\ observed' = [observed EXCEPT ![t] = spec]
        /\ step' = [step EXCEPT ![t] = "restoring"]
        /\ seen' = seen
    BY <1>2 DEF Observes
  <2>2. t = "credential" => spec.source = Wanted(t, seen[t]).source
    BY <1>2 DEF Observes
  <2>3. t = "packages" => spec = Wanted(t, seen[t])
    BY <1>2 DEF Observes
  <2>4. RolloutTypeOK'
    BY <1>0, <2>1 DEF RolloutInv, RolloutTypeOK
  <2>5. ASSUME NEW u \in Tools, step'[u] = "restoring", u # t
        PROVE  step[u] = "restoring" /\ observed'[u] = observed[u] /\ seen'[u] = seen[u]
    BY <2>1, <2>5 DEF RolloutInv, RolloutTypeOK
  <2>6. observed'[t] = spec /\ seen'[t] = seen[t]
    BY <2>1 DEF RolloutInv, RolloutTypeOK
  <2>7. UndoesItsOwn'
    BY <2>0, <2>2, <2>3, <2>5, <2>6 DEF RolloutInv, UndoesItsOwn
  <2>. QED
    BY <2>4, <2>7 DEF RolloutInv
<1>. QED
  BY <1>1, <1>2

LEMMA RestoresKeeps ==
  ASSUME RolloutInv, NEW t \in Tools, Restores(t)
  PROVE  RolloutInv'
<1>1. spec \in Deployment /\ seen[t] \in Deployment /\ observed[t] \in Deployment
  BY DEF RolloutInv, RolloutTypeOK
<1>2. [source |-> seen[t].source, mounts |-> observed[t].mounts \ {t}] \in Deployment
  BY <1>1 DEF Deployment
<1>3. spec' \in Deployment
  BY <1>1, <1>2 DEF Restores
<1>. QED
  BY <1>3, ExitsKeeps DEF Restores

LEMMA RolloutStepKeeps ==
  ASSUME RolloutInv, [RolloutNext]_rolloutVars
  PROVE  RolloutInv'
<1>1. CASE UNCHANGED rolloutVars
  BY <1>1 DEF rolloutVars, RolloutInv, RolloutTypeOK, UndoesItsOwn
<1>2. CASE RolloutNext
  <2>. PICK t \in Tools :
         \/ Reads(t) \/ Prepares(t) \/ Patches(t) \/ Accepted(t) \/ Rejected(t)
         \/ SwitchesBack(t) \/ Observes(t) \/ Restores(t)
    BY <1>2 DEF RolloutNext
  <2>0. spec \in Deployment /\ seen[t] \in Deployment
    BY DEF RolloutInv, RolloutTypeOK
  <2>1. CASE Prepares(t)
    BY <2>0, <2>1, MovesKeeps, ExitsKeeps DEF Prepares, StepNames
  <2>2. CASE Accepted(t)
    BY <2>0, <2>2, ExitsKeeps DEF Accepted
  <2>3. CASE Rejected(t)
    BY <2>0, <2>3, MovesKeeps DEF Rejected, StepNames
  <2>4. CASE SwitchesBack(t)
    <3>1. [spec EXCEPT !.source = seen[t].source] \in Deployment
      BY <2>0 DEF Deployment
    <3>. QED
      BY <2>4, <3>1, ExitsKeeps DEF SwitchesBack, SwitchSource
  <2>. QED
    BY <2>1, <2>2, <2>3, <2>4, ReadsKeeps, PatchesKeeps, ObservesKeeps, RestoresKeeps
<1>. QED
  BY <1>1, <1>2

-----------------------------------------------------------------------------
(* A step of a tool that tests, and what it may take away or bring.        *)
KeepsOthers(t) ==
  /\ Holds(spec) \ Holds(spec') \subseteq Holds(seen[t]) \cup {t}
  /\ Holds(spec') \ Holds(spec) \subseteq {t}

LEMMA PatchKeepsOthers ==
  ASSUME RolloutInv, NEW t \in Tools \ {"sources", "services"}, Patches(t)
  PROVE  KeepsOthers(t)
<1>0. t \in Kinds /\ spec \in Deployment
  BY RolloutConstants DEF RolloutInv, RolloutTypeOK
<1>1. CASE spec' = spec
  BY <1>1 DEF KeepsOthers
<1>2. CASE spec' # spec
  <2>1. spec = seen[t] /\ spec' = Wanted(t, seen[t])
    BY <1>2 DEF Patches, Test
  <2>2. Bundled(t, spec) \subseteq spec.source \cup {t}
    BY <1>0 DEF Bundled, Kinds
  <2>3. Mounted(t, spec) \subseteq spec.mounts \cup {t}
    BY DEF Mounted
  <2>4. Holds(spec') \subseteq Holds(spec) \cup {t}
    BY <2>1, <2>2, <2>3 DEF Wanted, Holds
  <2>. QED
    BY <2>1, <2>4 DEF KeepsOthers
<1>. QED
  BY <1>1, <1>2

LEMMA UndoKeepsOthers ==
  ASSUME RolloutInv, NEW t \in Tools, Restores(t)
  PROVE  KeepsOthers(t)
<1>1. CASE spec' = spec
  BY <1>1 DEF KeepsOthers
<1>2. CASE spec' # spec
  <2>0. spec = observed[t] /\ seen[t] \in Deployment /\ spec \in Deployment
    BY <1>2 DEF Restores, Test, RolloutInv, RolloutTypeOK
  <2>1. CASE t = "packages"
    <3>1. spec = Wanted(t, seen[t]) /\ spec' = seen[t]
      BY <1>2, <2>0, <2>1 DEF Restores, RolloutInv, UndoesItsOwn
    <3>2. spec.source = seen[t].source \cup {t} /\ spec.mounts = seen[t].mounts \cup {t}
      BY <2>1, <3>1 DEF Wanted, Bundled, Mounted, Additive, Kinds
    <3>. QED
      BY <3>1, <3>2 DEF KeepsOthers, Holds
  <2>2. CASE t # "packages"
    <3>1. t = "credential" /\ spec.source = Wanted(t, seen[t]).source
      BY <2>0, <2>2 DEF Restores, RolloutInv, UndoesItsOwn
    <3>2. spec.source = seen[t].source \cup {t}
      BY <3>1 DEF Wanted, Bundled
    <3>3. spec' = [source |-> seen[t].source, mounts |-> spec.mounts \ {t}]
      BY <1>2, <2>0, <2>2 DEF Restores
    <3>. QED
      BY <3>2, <3>3 DEF KeepsOthers, Holds
  <2>. QED
    BY <2>1, <2>2
<1>. QED
  BY <1>1, <1>2

(* A tool moves by its own steps only, and only the patch and the undo of  *)
(* a tool that tests change the Deployment.                                *)
LEMMA MoveKeepsOthers ==
  ASSUME RolloutInv, RolloutNext,
         NEW t \in Tools \ {"sources", "services"}, step'[t] # step[t]
  PROVE  KeepsOthers(t)
<1>. PICK u \in Tools :
       \/ Reads(u) \/ Prepares(u) \/ Patches(u) \/ Accepted(u) \/ Rejected(u)
       \/ SwitchesBack(u) \/ Observes(u) \/ Restores(u)
  BY DEF RolloutNext
<1>1. \E to : step' = [step EXCEPT ![u] = to]
  BY DEF Reads, Prepares, Patches, Accepted, Rejected, SwitchesBack, Observes,
         Restores, Moves, Exits, PatchRefused
<1>2. u = t
  BY <1>1 DEF RolloutInv, RolloutTypeOK
<1>3. CASE spec' = spec
  BY <1>3 DEF KeepsOthers
<1>4. CASE spec' # spec
  <2>1. Patches(t) \/ Restores(t)
    BY <1>2, <1>4 DEF Reads, Prepares, Accepted, Rejected, SwitchesBack, Observes
  <2>. QED
    BY <2>1, PatchKeepsOthers, UndoKeepsOthers
<1>. QED
  BY <1>3, <1>4

(* Whatever tools interleave, and whatever each takes for refused, a tool  *)
(* that tests what it patches keeps the work of the others and its undo    *)
(* brings nothing back.                                                    *)
THEOREM TestedPatchKeeps == RolloutSpec => TestedPatchKeepsOthers
<1>1. RolloutInv /\ [RolloutNext]_rolloutVars =>
        [\A t \in Tools \ {"sources", "services"} : step'[t] # step[t] =>
           /\ Holds(spec) \ Holds(spec') \subseteq Holds(seen[t]) \cup {t}
           /\ Holds(spec') \ Holds(spec) \subseteq {t}]_rolloutVars
  BY MoveKeepsOthers DEF KeepsOthers
<1>. QED
  BY <1>1, RolloutInitHolds, RolloutStepKeeps, PTL DEF RolloutSpec, TestedPatchKeepsOthers

---------------------------------------------------------------------------
(* The control channel *)

(* What the frames and the threads of the child can say.                   *)
Saying == [kind : {"response"}, id : Calls, ok : BOOLEAN]
            \cup [kind : {"request"}, id : Approvals, ok : {TRUE}]
            \cup [kind : {"fault"}, id : {"none"}, ok : {FALSE}]
UpFrame == [kind : {"response"}, id : Calls, ok : BOOLEAN, seq : Nat]
             \cup [kind : {"request"}, id : Approvals, ok : {TRUE}, seq : Nat]
             \cup [kind : {"fault"}, id : {"none"}, ok : {FALSE}, seq : Nat]
DownFrame == [id : Calls, seq : Nat]

FramesTypeOK ==
  /\ ChannelTypeOK
  /\ down \in Seq(DownFrame) /\ up \in Seq(UpFrame)
  /\ outgoing \in [Threads -> {Silent} \cup Saying]
  /\ \A t \in Threads : numbered[t] # 0 => outgoing[t] # Silent

Down(c) == \E i \in DOMAIN down : down[i].id = c
Up(kind, c) == \E i \in DOMAIN up : up[i].kind = kind /\ up[i].id = c
Unsent == {"new", "registered", "encoded"}

(* The frames of a direction stand in the order of their numbers, with the *)
(* one that is numbered and not yet written behind them.                   *)
DownOrder ==
  LET next == received["child"] + Len(down) + 1 IN
  /\ \A i \in DOMAIN down : down[i].seq = received["child"] + i
  /\ \A c \in Calls : rpc[c] = "encoded" => number[c] = next /\ sent["broker"] = next
  /\ \A c \in Calls : rpc[c] # "encoded" => number[c] = 0
  /\ \A c, d \in Calls : rpc[c] = "encoded" /\ rpc[d] = "encoded" => c = d
  /\ Free(number) => sent["broker"] + 1 = next

UpOrder ==
  LET next == received["broker"] + Len(up) + 1 IN
  /\ \A i \in DOMAIN up : up[i].seq = received["broker"] + i
  /\ \A t \in Threads : numbered[t] # 0 =>
       numbered[t] = next /\ sent["child"] = next /\ outgoing[t] # Silent
  /\ \A t, u \in Threads : numbered[t] # 0 /\ numbered[u] # 0 => t = u
  /\ Free(numbered) => sent["child"] + 1 = next

(* A call is in one place at a time: on its way down, with a thread of the *)
(* child, or its response on its way up; and nowhere before it was sent    *)
(* and after its response was read.                                        *)
Working(c) == task["main"] = c \/ (c = "run" /\ task["runner"] = "busy")

OnePlace ==
  /\ \A i, j \in DOMAIN down : down[i].id = down[j].id => i = j
  /\ \A i, j \in DOMAIN up : up[i].kind = up[j].kind /\ up[i].id = up[j].id => i = j
  /\ \A c \in Calls :
       /\ rpc[c] \in Unsent \cup {"done", "failed"} =>
            ~Down(c) /\ ~Working(c) /\ ~Up("response", c)
       /\ Down(c) => ~Working(c) /\ ~Up("response", c)
       /\ Working(c) => ~Up("response", c)
  /\ task["main"] # "run"

(* What the threads of the child do and are about to say.                  *)
ThreadsFit ==
  /\ outgoing["main"] # Silent =>
       task["main"] \in Calls /\ outgoing["main"] = ResponseTo(task["main"], TRUE)
  /\ outgoing["runner"] # Silent =>
       /\ task["runner"] = "busy"
       /\ \E ok \in BOOLEAN : outgoing["runner"] = ResponseTo("run", ok)
  /\ outgoing["asker"] # Silent =>
       outgoing["asker"].kind = "request" /\ task["asker"] = "busy"
  /\ \A i \in DOMAIN up : up[i].kind # "fault"
  /\ child = "none" => \A t \in Threads : task[t] = "off"
  /\ task["main"] \in {"off", "idle"} \cup Calls
  /\ task["runner"] \in {"off", "idle", "busy"} /\ task["asker"] \in {"off", "idle", "busy"}

(* start comes before the other calls, and run once.                       *)
StartedFirst ==
  /\ task["asker"] # "off" => rpc["start"] \notin Unsent /\ ~Down("start")
  /\ rpc["start"] = "done" \/ Up("response", "start") => task["asker"] # "off"
  /\ outgoing["main"] = ResponseTo("start", TRUE) => task["asker"] # "off"
  /\ task["main"] = "start" /\ outgoing["main"] = Silent => task["asker"] = "off"
  /\ rpc["run"] # "new" => rpc["start"] = "done"
  /\ task["runner"] # "off" => rpc["run"] \notin Unsent /\ ~Down("run")

(* The child waits for the answer of an approval from before it asks until *)
(* it takes the answer from the pipe.                                      *)
Asked(a) == outgoing["asker"].kind = "request" /\ outgoing["asker"].id = a
AwaitsAnswers ==
  \A a \in Approvals :
    /\ Asked(a) \/ Up("request", a) => a \in pending /\ a \notin requests
    /\ Asked(a) => ~Up("request", a)
    /\ a \in requests /\ rpc[a] \in Unsent => a \in pending
    /\ Down(a) => a \in pending
    /\ rpc[a] # "new" => a \in requests

Clean ==
  /\ closed = "open" /\ child # "gone" /\ ~halted
  /\ DownOrder /\ UpOrder /\ OnePlace /\ ThreadsFit /\ StartedFirst /\ AwaitsAnswers

ChannelInv == FramesTypeOK /\ (causes = {} => Clean)

---------------------------------------------------------------------------
LEMMA Sayings ==
  /\ \A m \in Saying : m.kind \in {"response", "request", "fault"} /\ m # Silent
  /\ \A c \in Calls, ok \in BOOLEAN : ResponseTo(c, ok) \in Saying
  /\ \A a \in Approvals : [kind |-> "request", id |-> a, ok |-> TRUE] \in Saying
  /\ [kind |-> "fault", id |-> "none", ok |-> FALSE] \in Saying
<1>1. ASSUME NEW m \in Saying
      PROVE  m.kind \in {"response", "request", "fault"} /\ m # Silent
  <2>1. CASE m \in [kind : {"response"}, id : Calls, ok : BOOLEAN]
    BY <2>1 DEF Silent
  <2>2. CASE m \in [kind : {"request"}, id : Approvals, ok : {TRUE}]
    BY <2>2 DEF Silent
  <2>3. CASE m \in [kind : {"fault"}, id : {"none"}, ok : {FALSE}]
    BY <2>3 DEF Silent
  <2> QED BY <1>1, <2>1, <2>2, <2>3 DEF Saying
<1> QED BY <1>1 DEF Saying, ResponseTo

LEMMA Frames ==
  /\ \A f \in UpFrame :
       /\ f.kind \in {"response", "request", "fault"}
       /\ f.seq \in Nat /\ f.ok \in BOOLEAN
       /\ f.kind = "request" => f.id \in Approvals
       /\ f.kind = "response" => f.id \in Calls
  /\ \A f \in DownFrame : f \in [id : Calls, seq : Nat]
<1>1. ASSUME NEW f \in UpFrame
      PROVE  /\ f.kind \in {"response", "request", "fault"}
             /\ f.seq \in Nat /\ f.ok \in BOOLEAN
             /\ f.kind = "request" => f.id \in Approvals
             /\ f.kind = "response" => f.id \in Calls
  <2>1. CASE f \in [kind : {"response"}, id : Calls, ok : BOOLEAN, seq : Nat]
    BY <2>1
  <2>2. CASE f \in [kind : {"request"}, id : Approvals, ok : {TRUE}, seq : Nat]
    BY <2>2
  <2>3. CASE f \in [kind : {"fault"}, id : {"none"}, ok : {FALSE}, seq : Nat]
    BY <2>3
  <2> QED BY <1>1, <2>1, <2>2, <2>3 DEF UpFrame
<1> QED BY <1>1 DEF DownFrame

LEMMA ChannelInitHolds == ChannelInit => ChannelInv
<1> SUFFICES ASSUME ChannelInit PROVE ChannelInv
  OBVIOUS
<1> USE DEF ChannelInit
<1>1. FramesTypeOK
  <2>1. /\ rpc \in [Calls -> {"new", "registered", "encoded", "waiting",
                              "leaving", "done", "failed", "timed_out"}]
        /\ number \in [Calls -> Nat] /\ numbered \in [Threads -> Nat]
        /\ task \in [Threads -> {"off", "idle", "busy"} \cup Calls]
        /\ outgoing \in [Threads -> {Silent} \cup Saying]
        /\ down \in Seq(DownFrame) /\ up \in Seq(UpFrame)
    OBVIOUS
  <2>2. /\ sent \in [{"broker", "child"} -> Nat]
        /\ received \in [{"broker", "child"} -> Nat]
        /\ DOMAIN down = {} /\ DOMAIN up = {}
        /\ requests \subseteq Approvals /\ pending \subseteq Approvals
        /\ causes \subseteq Reasons
        /\ closed = "open" /\ child = "none" /\ halted = FALSE
        /\ \A t \in Threads : numbered[t] = 0
    OBVIOUS
  <2> HIDE DEF ChannelInit
  <2> QED BY <2>1, <2>2 DEF FramesTypeOK, ChannelTypeOK
<1>2. \A c : ~Down(c) /\ \A kind : ~Up(kind, c)
  BY DEF Down, Up
<1>3. DownOrder /\ UpOrder
  BY DEF DownOrder, UpOrder, Free, Calls, Threads
<1>4. OnePlace
  BY <1>2, ChannelConstants DEF OnePlace, Working, Threads, Calls
<1>5. ThreadsFit
  BY DEF ThreadsFit, Threads, Silent
<1>6. StartedFirst
  BY <1>2 DEF StartedFirst, Threads, Calls, Silent, ResponseTo
<1>7. AwaitsAnswers
  BY <1>2 DEF AwaitsAnswers, Asked, Threads, Calls, Silent
<1> QED BY <1>1, <1>3, <1>4, <1>5, <1>6, <1>7 DEF ChannelInv, Clean

LEMMA ChannelTypeStep ==
  FramesTypeOK /\ [ChannelNext]_channelVars => FramesTypeOK'
<1> SUFFICES ASSUME FramesTypeOK, [ChannelNext]_channelVars PROVE FramesTypeOK'
  OBVIOUS
<1> USE DEF FramesTypeOK, ChannelTypeOK
<1>0. /\ \A i \in DOMAIN down' : down' \in Seq(DownFrame) => down'[i] \in [id: Calls, seq: Nat]
      /\ \A i \in DOMAIN up' : up' \in Seq(UpFrame) =>
           /\ up'[i].kind \in {"response", "request", "fault"}
           /\ up'[i].seq \in Nat /\ up'[i].ok \in BOOLEAN
  <2>1. ASSUME down' \in Seq(DownFrame), NEW i \in DOMAIN down'
        PROVE  down'[i] \in [id: Calls, seq: Nat]
    BY <2>1, Frames
  <2>2. ASSUME up' \in Seq(UpFrame), NEW i \in DOMAIN up'
        PROVE  /\ up'[i].kind \in {"response", "request", "fault"}
               /\ up'[i].seq \in Nat /\ up'[i].ok \in BOOLEAN
    <3>1. up'[i] \in UpFrame
      BY <2>2
    <3> QED BY <3>1, Frames
  <2> QED BY <2>1, <2>2
<1>a. ASSUME Dies PROVE FramesTypeOK'
               \/ ~(UNCHANGED <<sent, broker>> /\ received' = received /\ up' = up /\ down' \in Seq(DownFrame))
               \/ ~(causes' \subseteq Reasons)
  BY <1>a, <1>0 DEF Dies, Threads, Silent, broker
<1>1. ASSUME NEW c \in Calls, Registers(c) PROVE FramesTypeOK'
  <2>1. /\ rpc' \in [Calls -> {"new", "registered", "encoded", "waiting",
                               "leaving", "done", "failed", "timed_out"}]
        /\ UNCHANGED <<number, pipes, requests, closed, outgoing, numbered,
                       pending, halted>>
    BY <1>1 DEF Registers
  <2>2. /\ child' \in {"none", "up", "gone"} /\ causes' \subseteq Reasons
        /\ task' \in [Threads -> {"off", "idle", "busy"} \cup Calls]
    BY <1>1 DEF Registers, ChildBoots, Threads, Reasons
  <2> QED BY <2>1, <2>2, <1>0 DEF pipes
<1>2. ASSUME NEW c \in Calls, Encodes(c) PROVE FramesTypeOK'
  <2>0. /\ UNCHANGED <<received, down, up, requests, closed, process>>
        /\ sent' = [sent EXCEPT !["broker"] = sent["broker"] + 1]
        /\ \/ rpc' = [rpc EXCEPT ![c] = "encoded"]
           \/ rpc' = [rpc EXCEPT ![c] = "failed"]
    BY <1>2 DEF Encodes
  <2>1. /\ rpc' \in [Calls -> {"new", "registered", "encoded", "waiting",
                               "leaving", "done", "failed", "timed_out"}]
    BY <2>0
  <2>2. /\ \/ number' = [number EXCEPT ![c] = sent["broker"] + 1]
           \/ number' = number
        /\ causes' \subseteq Reasons
    BY <1>2 DEF Encodes, Reasons
  <2>a. number \in [Calls -> Nat] /\ sent \in [{"broker", "child"} -> Nat]
    OBVIOUS
  <2> HIDE DEF ChannelTypeOK, FramesTypeOK
  <2>3. number' \in [Calls -> Nat] /\ sent' \in [{"broker", "child"} -> Nat]
    <3> DEFINE n == sent["broker"] + 1
    <3>1. n \in Nat
      BY <2>a
    <3>2. /\ number' = [number EXCEPT ![c] = n] \/ number' = number
          /\ sent' = [sent EXCEPT !["broker"] = n]
      BY <2>0, <2>2
    <3> HIDE DEF n
    <3> QED BY <2>a, <3>1, <3>2
  <2> QED BY <2>0, <2>1, <2>2, <2>3, <1>0
      DEF process, ChannelTypeOK, FramesTypeOK
<1>3. ASSUME NEW c \in Calls, Sends(c) PROVE FramesTypeOK'
  <2>1. down' \in Seq(DownFrame)
    <3> DEFINE f == [id |-> c, seq |-> number[c]]
    <3>1. f \in DownFrame
      BY DEF DownFrame
    <3>2. down' = Append(down, f) \/ down' = down
      BY <1>3 DEF Sends
    <3>3. down \in Seq(DownFrame)
      OBVIOUS
    <3> HIDE DEF f, ChannelTypeOK, FramesTypeOK
    <3> QED BY <3>1, <3>2, <3>3
  <2> QED BY <1>3, <1>0, <2>1 DEF Sends, process
<1>4. ASSUME NEW c \in Calls, GivesUp(c) PROVE FramesTypeOK'
  BY <1>4, <1>0 DEF GivesUp, pipes, process
<1>5. CASE ReaderReads
  <2> DEFINE f == Head(up)
  <2>1. f \in UpFrame /\ up' = Tail(up)
    BY <1>5 DEF ReaderReads
  <2>2. up' \in Seq(UpFrame)
    BY <1>5, <2>1 DEF ReaderReads
  <2>3. /\ f.kind = "request" => f.id \in Approvals
        /\ f.kind = "response" => f.id \in Calls
        /\ f.ok \in BOOLEAN
    BY <2>1, Frames
  <2> HIDE DEF f
  <2>4. /\ requests' \subseteq Approvals
        /\ rpc' \in [Calls -> {"new", "registered", "encoded", "waiting",
                               "leaving", "done", "failed", "timed_out"}]
        /\ closed' \in {"open", "closed", "shut"}
        /\ causes' \subseteq Reasons
        /\ received' \in [{"broker", "child"} -> Nat]
    BY <1>5, <2>3 DEF ReaderReads, f, Counts, Reasons
  <2> QED BY <1>5, <1>0, <2>2, <2>4 DEF ReaderReads, process
<1>6. CASE ReaderEnds \/ Closes
  BY <1>6, <1>0 DEF ReaderEnds, Closes, pipes, process, Reasons
<1>7. CASE Dispatches
  <2>1. down' \in Seq(DownFrame) /\ Head(down) \in DownFrame
    BY <1>7 DEF Dispatches
  <2>2. Head(down).id \in Calls
    BY <2>1, Frames
  <2>3. CASE Dies /\ UNCHANGED received
    BY <1>7, <1>a, <2>1, <2>3 DEF Dispatches
  <2>4. CASE ~(Dies /\ UNCHANGED received)
    <3> DEFINE f == Head(down)
    <3>1. /\ Counts("child")
          /\ pending' = pending \ {f.id}
          /\ task' = IF f.id = "run"
                     THEN [task EXCEPT !["runner"] = "busy",
                                       !["main"] = IF halted THEN "off" ELSE "idle"]
                     ELSE [task EXCEPT !["main"] = f.id]
          /\ UNCHANGED <<child, outgoing, numbered, halted>>
          /\ UNCHANGED <<sent, up, broker, causes>>
      BY <1>7, <2>4 DEF Dispatches
    <3>2. f.id \in Calls
      BY <2>2
    <3> HIDE DEF f
    <3>3. task' \in [Threads -> {"off", "idle", "busy"} \cup Calls]
      BY <3>1, <3>2 DEF Threads
    <3>4. received' \in [{"broker", "child"} -> Nat]
      BY <3>1 DEF Counts
    <3> QED BY <1>0, <2>1, <3>1, <3>3, <3>4 DEF broker
  <2> QED BY <2>3, <2>4
<1>8. CASE HarnessAnswers
  <2>1. CASE Dies
    BY <1>8, <1>a, <2>1 DEF HarnessAnswers, broker, pipes, Reasons
  <2>2. CASE ~Dies
    <3>1. outgoing' = [outgoing EXCEPT !["main"] = ResponseTo(task["main"], TRUE)]
      BY <1>8, <2>2 DEF HarnessAnswers
    <3>2. ResponseTo(task["main"], TRUE) \in Saying /\ ResponseTo(task["main"], TRUE) # Silent
      BY <1>8, Sayings DEF HarnessAnswers
    <3>3. outgoing' \in [Threads -> {Silent} \cup Saying]
      BY <3>1, <3>2
    <3>4. \A t \in Threads : numbered[t] # 0 => outgoing'[t] # Silent
      BY <3>1, <3>2
    <3>5. /\ task' \in [Threads -> {"off", "idle", "busy"} \cup Calls]
          /\ UNCHANGED <<child, numbered, pending, halted, causes>>
          /\ UNCHANGED <<broker, pipes>>
      BY <1>8, <2>2 DEF HarnessAnswers
    <3> QED BY <1>0, <3>3, <3>4, <3>5 DEF broker, pipes
  <2> QED BY <2>1, <2>2
<1>9. CASE LoopEnds \/ ScopeStops
  BY <1>9, <1>a DEF LoopEnds, ScopeStops, broker, pipes, Reasons
<1>10. CASE Asks
  <2>1. PICK m \in Saying : outgoing' = [outgoing EXCEPT !["asker"] = m]
    BY <1>10, Sayings DEF Asks
  <2>2. m # Silent
    BY <2>1, Sayings
  <2>3. outgoing' \in [Threads -> {Silent} \cup Saying]
    BY <2>1
  <2> QED BY <1>10, <1>0, <2>1, <2>2, <2>3 DEF Asks, broker, pipes, Threads, Reasons
<1>11. CASE RunEnds
  <2>1. PICK ok \in BOOLEAN : outgoing' = [outgoing EXCEPT !["runner"] = ResponseTo("run", ok)]
    BY <1>11 DEF RunEnds
  <2>2. ResponseTo("run", ok) \in Saying /\ ResponseTo("run", ok) # Silent
    BY <2>1, Sayings DEF Calls
  <2>3. outgoing' \in [Threads -> {Silent} \cup Saying]
    BY <2>1, <2>2
  <2> QED BY <1>11, <1>0, <2>1, <2>2, <2>3 DEF RunEnds, broker, pipes, Threads
<1>12. ASSUME NEW t \in Threads, Numbers(t) PROVE FramesTypeOK'
  BY <1>12, <1>0 DEF Numbers, broker
<1>13. ASSUME NEW t \in Threads, TooLarge(t) PROVE FramesTypeOK'
  <2>1. CASE t = "main"
    <3>1. Dies /\ causes' \subseteq Reasons
          /\ UNCHANGED <<broker, received, down, up>>
          /\ sent' \in [{"broker", "child"} -> Nat]
      BY <1>13, <2>1 DEF TooLarge, Reasons
    <3> QED BY <3>1, <1>0 DEF Dies, Threads, broker
  <2>2. CASE t # "main"
    <3>1. PICK m \in Saying : outgoing' = [outgoing EXCEPT ![t] = m]
      BY <1>13, <2>2, Sayings DEF TooLarge, Calls
    <3>2. m # Silent
      BY <3>1, Sayings
    <3>3. outgoing' \in [Threads -> {Silent} \cup Saying]
      BY <3>1
    <3> QED BY <1>13, <1>0, <2>2, <3>1, <3>2, <3>3 DEF TooLarge, broker, Reasons
  <2> QED BY <2>1, <2>2
<1>14. ASSUME NEW t \in Threads, Writes(t) PROVE FramesTypeOK'
  <2>1. outgoing[t] \in Saying /\ numbered[t] \in Nat
    BY <1>14 DEF Writes
  <2>2. [kind |-> outgoing[t].kind, id |-> outgoing[t].id,
         ok |-> outgoing[t].ok, seq |-> numbered[t]] \in UpFrame
    BY <2>1 DEF Saying, UpFrame
  <2>3. up' \in Seq(UpFrame)
    BY <1>14, <2>2 DEF Writes
  <2>4. task' \in [Threads -> {"off", "idle", "busy"} \cup Calls]
    BY <1>14 DEF Writes, Threads
  <2> QED BY <1>14, <1>0, <2>3, <2>4 DEF Writes, broker
<1>15. CASE UNCHANGED channelVars
  BY <1>15 DEF channelVars
<1> QED BY <1>1, <1>2, <1>3, <1>4, <1>5, <1>6, <1>7, <1>8, <1>9, <1>10, <1>11,
           <1>12, <1>13, <1>14, <1>15 DEF ChannelNext

LEMMA DownTaken ==
  /\ FramesTypeOK /\ down # <<>> /\ down' = Tail(down)
  /\ \A i, j \in DOMAIN down : down[i].id = down[j].id => i = j
  => /\ Len(down) \in Nat /\ Len(down') + 1 = Len(down)
     /\ 1 \in DOMAIN down /\ Head(down) = down[1] /\ down[1] \in DownFrame
     /\ \A i \in DOMAIN down' :
          i \in Nat /\ i + 1 \in DOMAIN down /\ down'[i] = down[i + 1]
     /\ \A c : Down(c)' <=> Down(c) /\ c # down[1].id
<1> SUFFICES ASSUME FramesTypeOK, down # <<>>, down' = Tail(down),
               \A i, j \in DOMAIN down : down[i].id = down[j].id => i = j
    PROVE  /\ Len(down) \in Nat /\ Len(down') + 1 = Len(down)
           /\ 1 \in DOMAIN down /\ Head(down) = down[1] /\ down[1] \in DownFrame
           /\ \A i \in DOMAIN down' :
                i \in Nat /\ i + 1 \in DOMAIN down /\ down'[i] = down[i + 1]
           /\ \A c : Down(c)' <=> Down(c) /\ c # down[1].id
  OBVIOUS
<1>1. down \in Seq(DownFrame)
  BY DEF FramesTypeOK
<1>2. /\ Len(down) \in Nat /\ Len(down') + 1 = Len(down)
      /\ DOMAIN down = 1..Len(down) /\ DOMAIN down' = 1..(Len(down) - 1)
      /\ Len(down) >= 1
  BY <1>1
<1>3. \A i \in DOMAIN down' :
        i \in Nat /\ i + 1 \in DOMAIN down /\ down'[i] = down[i + 1]
  BY <1>1, <1>2
<1>4. 1 \in DOMAIN down /\ Head(down) = down[1] /\ down[1] \in DownFrame
  BY <1>1, <1>2
<1>5. \A i \in DOMAIN down : i = 1 \/ (i - 1 \in DOMAIN down' /\ (i - 1) + 1 = i)
  BY <1>2
<1>6. ASSUME NEW c PROVE Down(c)' <=> Down(c) /\ c # down[1].id
  <2>1. ASSUME NEW i \in DOMAIN down', down'[i].id = c
        PROVE  Down(c) /\ c # down[1].id
    <3>1. i + 1 \in DOMAIN down /\ down[i + 1].id = c /\ i + 1 # 1
      BY <2>1, <1>3, <1>2
    <3> QED BY <3>1, <1>4 DEF Down
  <2>2. ASSUME NEW i \in DOMAIN down, down[i].id = c, c # down[1].id
        PROVE  \E j \in DOMAIN down' : down'[j].id = c
    BY <2>2, <1>5, <1>3
  <2> QED BY <2>1, <2>2 DEF Down
<1> QED BY <1>2, <1>3, <1>4, <1>6

LEMMA UpTaken ==
  /\ FramesTypeOK /\ up # <<>> /\ up' = Tail(up)
  /\ \A i, j \in DOMAIN up : up[i].kind = up[j].kind /\ up[i].id = up[j].id => i = j
  => /\ Len(up) \in Nat /\ Len(up') + 1 = Len(up)
     /\ 1 \in DOMAIN up /\ Head(up) = up[1] /\ up[1] \in UpFrame
     /\ \A i \in DOMAIN up' :
          i \in Nat /\ i + 1 \in DOMAIN up /\ up'[i] = up[i + 1]
     /\ \A k, c : Up(k, c)' <=> Up(k, c) /\ ~(k = up[1].kind /\ c = up[1].id)
<1> SUFFICES ASSUME FramesTypeOK, up # <<>>, up' = Tail(up),
               \A i, j \in DOMAIN up :
                 up[i].kind = up[j].kind /\ up[i].id = up[j].id => i = j
    PROVE  /\ Len(up) \in Nat /\ Len(up') + 1 = Len(up)
           /\ 1 \in DOMAIN up /\ Head(up) = up[1] /\ up[1] \in UpFrame
           /\ \A i \in DOMAIN up' :
                i \in Nat /\ i + 1 \in DOMAIN up /\ up'[i] = up[i + 1]
           /\ \A k, c : Up(k, c)' <=> Up(k, c) /\ ~(k = up[1].kind /\ c = up[1].id)
  OBVIOUS
<1>1. up \in Seq(UpFrame)
  BY DEF FramesTypeOK
<1>2. /\ Len(up) \in Nat /\ Len(up') + 1 = Len(up)
      /\ DOMAIN up = 1..Len(up) /\ DOMAIN up' = 1..(Len(up) - 1)
      /\ Len(up) >= 1
  BY <1>1
<1>3. \A i \in DOMAIN up' :
        i \in Nat /\ i + 1 \in DOMAIN up /\ up'[i] = up[i + 1]
  BY <1>1, <1>2
<1>4. 1 \in DOMAIN up /\ Head(up) = up[1] /\ up[1] \in UpFrame
  BY <1>1, <1>2
<1>5. \A i \in DOMAIN up : i = 1 \/ (i - 1 \in DOMAIN up' /\ (i - 1) + 1 = i)
  BY <1>2
<1>6. ASSUME NEW k, NEW c
      PROVE  Up(k, c)' <=> Up(k, c) /\ ~(k = up[1].kind /\ c = up[1].id)
  <2>1. ASSUME NEW i \in DOMAIN up', up'[i].kind = k, up'[i].id = c
        PROVE  Up(k, c) /\ ~(k = up[1].kind /\ c = up[1].id)
    <3>1. i + 1 \in DOMAIN up /\ up[i + 1].kind = k /\ up[i + 1].id = c /\ i + 1 # 1
      BY <2>1, <1>3, <1>2
    <3> QED BY <3>1, <1>4 DEF Up
  <2>2. ASSUME NEW i \in DOMAIN up, up[i].kind = k, up[i].id = c,
               ~(k = up[1].kind /\ c = up[1].id)
        PROVE  \E j \in DOMAIN up' : up'[j].kind = k /\ up'[j].id = c
    BY <2>2, <1>5, <1>3
  <2> QED BY <2>1, <2>2 DEF Up
<1> QED BY <1>2, <1>3, <1>4, <1>6

LEMMA DownGiven ==
  ASSUME FramesTypeOK, NEW f \in DownFrame, down' = Append(down, f)
  PROVE  /\ Len(down) \in Nat /\ Len(down') = Len(down) + 1
         /\ \A i \in DOMAIN down' :
              \/ i \in DOMAIN down /\ down'[i] = down[i]
              \/ i = Len(down) + 1 /\ down'[i] = f
         /\ \A c : Down(c)' <=> Down(c) \/ c = f.id
<1>1. down \in Seq(DownFrame)
  BY DEF FramesTypeOK
<1>2. /\ Len(down) \in Nat /\ Len(down') = Len(down) + 1
      /\ DOMAIN down = 1..Len(down) /\ DOMAIN down' = 1..(Len(down) + 1)
  BY <1>1
<1>3. \A i \in DOMAIN down : i \in DOMAIN down' /\ down'[i] = down[i]
  BY <1>1, <1>2
<1>4. Len(down) + 1 \in DOMAIN down' /\ down'[Len(down) + 1] = f
  BY <1>1, <1>2
<1>5. \A i \in DOMAIN down' : i \in DOMAIN down \/ i = Len(down) + 1
  BY <1>2
<1> QED BY <1>2, <1>3, <1>4, <1>5 DEF Down

LEMMA UpGiven ==
  ASSUME FramesTypeOK, NEW f \in UpFrame, up' = Append(up, f)
  PROVE  /\ Len(up) \in Nat /\ Len(up') = Len(up) + 1
         /\ \A i \in DOMAIN up' :
              \/ i \in DOMAIN up /\ up'[i] = up[i]
              \/ i = Len(up) + 1 /\ up'[i] = f
         /\ \A k, c : Up(k, c)' <=> Up(k, c) \/ (k = f.kind /\ c = f.id)
<1>1. up \in Seq(UpFrame)
  BY DEF FramesTypeOK
<1>2. /\ Len(up) \in Nat /\ Len(up') = Len(up) + 1
      /\ DOMAIN up = 1..Len(up) /\ DOMAIN up' = 1..(Len(up) + 1)
  BY <1>1
<1>3. \A i \in DOMAIN up : i \in DOMAIN up' /\ up'[i] = up[i]
  BY <1>1, <1>2
<1>4. Len(up) + 1 \in DOMAIN up' /\ up'[Len(up) + 1] = f
  BY <1>1, <1>2
<1>5. \A i \in DOMAIN up' : i \in DOMAIN up \/ i = Len(up) + 1
  BY <1>2
<1> QED BY <1>2, <1>3, <1>4, <1>5 DEF Up

LEMMA PipesKept ==
  /\ down' = down => \A c : Down(c)' <=> Down(c)
  /\ up' = up => \A k, c : Up(k, c)' <=> Up(k, c)
BY DEF Down, Up

LEMMA OrderKept ==
  /\ /\ DownOrder /\ down' = down /\ number' = number
     /\ received'["child"] = received["child"] /\ sent'["broker"] = sent["broker"]
     /\ \A c \in Calls : rpc'[c] = "encoded" <=> rpc[c] = "encoded"
     => DownOrder'
  /\ /\ UpOrder /\ up' = up /\ numbered' = numbered
     /\ received'["broker"] = received["broker"] /\ sent'["child"] = sent["child"]
     /\ \A t \in Threads : numbered[t] # 0 => outgoing'[t] # Silent
     => UpOrder'
<1>1. ASSUME DownOrder, down' = down, number' = number,
             received'["child"] = received["child"], sent'["broker"] = sent["broker"],
             \A c \in Calls : rpc'[c] = "encoded" <=> rpc[c] = "encoded"
      PROVE  DownOrder'
  BY <1>1 DEF DownOrder, Free
<1>2. ASSUME UpOrder, up' = up, numbered' = numbered,
             received'["broker"] = received["broker"], sent'["child"] = sent["child"],
             \A t \in Threads : numbered[t] # 0 => outgoing'[t] # Silent
      PROVE  UpOrder'
  BY <1>2 DEF UpOrder, Free
<1> QED BY <1>1, <1>2

LEMMA RegistersHolds ==
  ASSUME FramesTypeOK, FramesTypeOK', Clean, NEW c \in Calls, Registers(c),
         causes' = {}
  PROVE  Clean'
<1> USE DEF Clean
<1>1. /\ rpc[c] = "new" /\ Allowed(c) /\ rpc' = [rpc EXCEPT ![c] = "registered"]
      /\ UNCHANGED <<number, sent, received, down, up, requests, closed,
                     outgoing, numbered, pending, halted>>
  BY DEF Registers, pipes
<1>2. /\ \A d : Down(d)' <=> Down(d)
      /\ \A k, d : Up(k, d)' <=> Up(k, d)
  BY <1>1, PipesKept
<1>3. rpc \in [Calls -> {"new", "registered", "encoded", "waiting", "leaving",
                          "done", "failed", "timed_out"}]
  BY DEF FramesTypeOK, ChannelTypeOK
<1>4. /\ c = "start" => child' = "up" /\ task' = [task EXCEPT !["main"] = "idle"]
      /\ c # "start" => UNCHANGED <<child, task>>
  BY DEF Registers, ChildBoots
<1>5. task \in [Threads -> {"off", "idle", "busy"} \cup Calls]
  BY DEF FramesTypeOK, ChannelTypeOK
<1>6. DownOrder' /\ UpOrder'
  BY <1>1, <1>3, OrderKept DEF UpOrder
<1>7. OnePlace'
  BY <1>1, <1>2, <1>3, <1>4, <1>5, ChannelConstants
    DEF OnePlace, Working, Unsent, Threads, Calls
<1>8. ThreadsFit'
  BY <1>1, <1>2, <1>3, <1>4, <1>5, ChannelConstants
    DEF ThreadsFit, Threads, Calls, Allowed
<1>9. StartedFirst'
  BY <1>1, <1>2, <1>3, <1>4, <1>5 DEF StartedFirst, Unsent, Threads, Calls, Allowed
<1>10. AwaitsAnswers'
  BY <1>1, <1>2, <1>3, ChannelConstants
    DEF AwaitsAnswers, Asked, Unsent, Calls, Allowed
<1> QED BY <1>1, <1>4, <1>6, <1>7, <1>8, <1>9, <1>10

LEMMA EncodesHolds ==
  ASSUME FramesTypeOK, FramesTypeOK', Clean, NEW c \in Calls, Encodes(c),
         causes' = {}
  PROVE  Clean'
<1> USE DEF Clean
<1>1. /\ rpc[c] = "registered" /\ Free(number)
      /\ sent' = [sent EXCEPT !["broker"] = sent["broker"] + 1]
      /\ number' = [number EXCEPT ![c] = sent["broker"] + 1]
      /\ rpc' = [rpc EXCEPT ![c] = "encoded"]
      /\ UNCHANGED <<received, down, up, requests, closed, child, task,
                     outgoing, numbered, pending, halted>>
  BY DEF Encodes, process
<1>2. /\ \A d : Down(d)' <=> Down(d)
      /\ \A k, d : Up(k, d)' <=> Up(k, d)
  BY <1>1, PipesKept
<1>3. /\ rpc \in [Calls -> {"new", "registered", "encoded", "waiting", "leaving",
                             "done", "failed", "timed_out"}]
      /\ number \in [Calls -> Nat] /\ sent \in [{"broker", "child"} -> Nat]
      /\ received \in [{"broker", "child"} -> Nat] /\ Len(down) \in Nat
  BY DEF FramesTypeOK, ChannelTypeOK
<1>4. DownOrder'
  <2>1. /\ \A i \in DOMAIN down : down[i].seq = received["child"] + i
        /\ sent["broker"] + 1 = received["child"] + Len(down) + 1
        /\ \A d \in Calls : number[d] = 0
    BY <1>1, <1>3 DEF DownOrder, Free
  <2>2. \A d \in Calls : rpc[d] # "encoded"
    <3>1. ASSUME NEW d \in Calls, rpc[d] = "encoded" PROVE FALSE
      BY <2>1, <3>1, <1>3 DEF DownOrder
    <3> QED BY <3>1
  <2>3. \A d \in Calls : rpc'[d] = "encoded" <=> d = c
    BY <1>1, <1>3, <2>2
  <2>4. /\ number'[c] = sent["broker"] + 1 /\ sent'["broker"] = sent["broker"] + 1
        /\ \A d \in Calls : d # c => number'[d] = 0
        /\ c \in DOMAIN number' /\ number'[c] # 0
    BY <1>1, <1>3, <2>1
  <2>5. /\ \A i \in DOMAIN down' : down'[i].seq = received'["child"] + i
        /\ number'[c] = received'["child"] + Len(down') + 1
        /\ sent'["broker"] = received'["child"] + Len(down') + 1
        /\ ~Free(number)'
    BY <1>1, <2>1, <2>4 DEF Free
  <2> QED BY <2>3, <2>4, <2>5 DEF DownOrder
<1>5. UpOrder'
  BY <1>1, <1>3, OrderKept DEF UpOrder
<1>6. OnePlace'
  BY <1>1, <1>2, <1>3 DEF OnePlace, Working, Unsent
<1>7. ThreadsFit'
  BY <1>1 DEF ThreadsFit
<1>8. StartedFirst'
  BY <1>1, <1>2, <1>3 DEF StartedFirst, Unsent, Calls
<1>9. AwaitsAnswers'
  BY <1>1, <1>2, <1>3 DEF AwaitsAnswers, Asked, Unsent, Calls
<1> QED BY <1>1, <1>4, <1>5, <1>6, <1>7, <1>8, <1>9

LEMMA SendsHolds ==
  ASSUME FramesTypeOK, FramesTypeOK', Clean, NEW c \in Calls, Sends(c),
         causes' = {}
  PROVE  Clean'
<1> USE DEF Clean
<1> DEFINE f == [id |-> c, seq |-> number[c]]
<1>1. /\ rpc[c] = "encoded"
      /\ number' = [number EXCEPT ![c] = 0]
      /\ down' = Append(down, f)
      /\ rpc' = [rpc EXCEPT ![c] = "waiting"]
      /\ UNCHANGED <<sent, received, up, requests, closed, child, task,
                     outgoing, numbered, pending, halted>>
  BY DEF Sends, process
<1>3. /\ rpc \in [Calls -> {"new", "registered", "encoded", "waiting", "leaving",
                             "done", "failed", "timed_out"}]
      /\ number \in [Calls -> Nat] /\ sent \in [{"broker", "child"} -> Nat]
      /\ received \in [{"broker", "child"} -> Nat] /\ Len(down) \in Nat
  BY DEF FramesTypeOK, ChannelTypeOK
<1>f. f \in DownFrame /\ f.id = c /\ f.seq = number[c]
  BY <1>3 DEF DownFrame
<1> HIDE DEF f
<1>2. /\ Len(down') = Len(down) + 1
      /\ \A i \in DOMAIN down' :
           \/ i \in DOMAIN down /\ down'[i] = down[i]
           \/ i = Len(down) + 1 /\ down'[i] = f
      /\ \A d : Down(d)' <=> Down(d) \/ d = c
      /\ \A k, d : Up(k, d)' <=> Up(k, d)
  BY <1>1, <1>f, DownGiven, PipesKept
<1>a. ~Down(c) /\ ~Working(c) /\ ~Up("response", c)
  BY <1>1 DEF OnePlace, Unsent
<1>4. DownOrder'
  <2>1. /\ number[c] = received["child"] + Len(down) + 1
        /\ sent["broker"] = received["child"] + Len(down) + 1
        /\ \A d \in Calls : rpc[d] = "encoded" => d = c
        /\ \A d \in Calls : d # c => number[d] = 0
    BY <1>1 DEF DownOrder
  <2>2. \A d \in Calls : rpc'[d] # "encoded" /\ number'[d] = 0
    BY <1>1, <1>3, <2>1
  <2>3. \A i \in DOMAIN down' : down'[i].seq = received'["child"] + i
    <3>1. ASSUME NEW i \in DOMAIN down', i = Len(down) + 1, down'[i] = f
          PROVE  down'[i].seq = received'["child"] + i
      BY <3>1, <1>f, <2>1, <1>1, <1>3
    <3> QED BY <1>1, <1>2, <3>1 DEF DownOrder
  <2>4. sent'["broker"] + 1 = received'["child"] + Len(down') + 1
    BY <2>1, <1>1, <1>2, <1>3
  <2> QED BY <2>2, <2>3, <2>4 DEF DownOrder
<1>5. UpOrder'
  BY <1>1, <1>3, OrderKept DEF UpOrder
<1>6. OnePlace'
  <2>1. \A i, j \in DOMAIN down' : down'[i].id = down'[j].id => i = j
    BY <1>2, <1>f, <1>a DEF OnePlace, Down
  <2>2. \A d \in Calls :
          /\ rpc'[d] \in Unsent \cup {"done", "failed"} =>
               ~Down(d)' /\ ~Working(d)' /\ ~Up("response", d)'
          /\ Down(d)' => ~Working(d)' /\ ~Up("response", d)'
          /\ Working(d)' => ~Up("response", d)'
    BY <1>1, <1>2, <1>3, <1>a DEF OnePlace, Working, Unsent
  <2> QED BY <1>1, <2>1, <2>2 DEF OnePlace
<1>7. ThreadsFit'
  BY <1>1 DEF ThreadsFit
<1>8. StartedFirst'
  BY <1>1, <1>2, <1>3 DEF StartedFirst, Unsent, Calls
<1>9. AwaitsAnswers'
  BY <1>1, <1>2, <1>3 DEF AwaitsAnswers, Asked, Unsent, Calls
<1> QED BY <1>1, <1>4, <1>5, <1>6, <1>7, <1>8, <1>9

LEMMA GivesUpHolds ==
  ASSUME FramesTypeOK, FramesTypeOK', Clean, NEW c \in Calls, GivesUp(c),
         causes' = {}
  PROVE  Clean'
<1> USE DEF Clean
<1>1. /\ \/ rpc[c] = "waiting" /\ rpc' = [rpc EXCEPT ![c] = "leaving"]
         \/ rpc[c] = "leaving" /\ rpc' = [rpc EXCEPT ![c] = "timed_out"]
      /\ UNCHANGED <<number, requests, closed, sent, received, down, up, child,
                     task, outgoing, numbered, pending, halted>>
  BY DEF GivesUp, pipes, process
<1>2. /\ \A d : Down(d)' <=> Down(d)
      /\ \A k, d : Up(k, d)' <=> Up(k, d)
  BY <1>1, PipesKept
<1>3. rpc \in [Calls -> {"new", "registered", "encoded", "waiting", "leaving",
                          "done", "failed", "timed_out"}]
  BY DEF FramesTypeOK, ChannelTypeOK
<1>4. DownOrder' /\ UpOrder'
  BY <1>1, <1>3, OrderKept DEF UpOrder
<1>5. OnePlace'
  BY <1>1, <1>2, <1>3 DEF OnePlace, Working, Unsent
<1>6. ThreadsFit'
  BY <1>1 DEF ThreadsFit
<1>7. StartedFirst'
  BY <1>1, <1>2, <1>3 DEF StartedFirst, Unsent, Calls
<1>8. AwaitsAnswers'
  BY <1>1, <1>2, <1>3 DEF AwaitsAnswers, Asked, Unsent, Calls
<1> QED BY <1>1, <1>4, <1>5, <1>6, <1>7, <1>8

LEMMA ReadsHolds ==
  ASSUME FramesTypeOK, FramesTypeOK', Clean, ReaderReads, causes' = {}
  PROVE  Clean'
<1> USE DEF Clean
<1> DEFINE f == up[1]
<1>1. /\ up # <<>> /\ up' = Tail(up)
      /\ UNCHANGED <<number, sent, down, child, task, outgoing, numbered,
                     pending, halted>>
  BY DEF ReaderReads, process
<1>2. /\ Len(up) \in Nat /\ Len(up') + 1 = Len(up)
      /\ 1 \in DOMAIN up /\ Head(up) = f /\ f \in UpFrame
      /\ \A i \in DOMAIN up' :
           i \in Nat /\ i + 1 \in DOMAIN up /\ up'[i] = up[i + 1]
      /\ \A k, c : Up(k, c)' <=> Up(k, c) /\ ~(k = f.kind /\ c = f.id)
  BY <1>1, UpTaken DEF OnePlace
<1>3. /\ rpc \in [Calls -> {"new", "registered", "encoded", "waiting", "leaving",
                             "done", "failed", "timed_out"}]
      /\ received \in [{"broker", "child"} -> Nat]
      /\ sent \in [{"broker", "child"} -> Nat]
  BY DEF FramesTypeOK, ChannelTypeOK
<1>4. /\ f.seq = received["broker"] + 1 /\ Up(f.kind, f.id)
      /\ f.kind = "response" \/ f.kind = "request"
      /\ f.kind = "request" => f.id \in Approvals
      /\ f.kind = "response" => f.id \in Calls
  BY <1>2, Frames DEF UpOrder, ThreadsFit, Up
<1>5. f.kind = "response" => rpc[f.id] \in {"waiting", "leaving", "timed_out"}
  BY <1>3, <1>4 DEF OnePlace, Unsent
<1>6. InTurn("broker", f)
  BY <1>4 DEF InTurn
<1> HIDE DEF f
<1>7. f.kind = "response" => rpc[f.id] \in {"waiting", "leaving"}
  BY <1>2, <1>5, <1>6 DEF ReaderReads
<1>8. /\ received' = [received EXCEPT !["broker"] = received["broker"] + 1]
      /\ closed' = "open"
      /\ requests' = IF f.kind = "request" THEN requests \cup {f.id} ELSE requests
      /\ rpc' = IF f.kind = "response" /\ rpc[f.id] # "leaving"
                THEN [rpc EXCEPT ![f.id] = IF f.ok THEN "done" ELSE "failed"]
                ELSE rpc
  BY <1>2, <1>4, <1>6, <1>7 DEF ReaderReads, Counts, Waits
<1>9. \A d : Down(d)' <=> Down(d)
  BY <1>1, PipesKept
<1>10. DownOrder'
  <2>1. \A c \in Calls : rpc'[c] = "encoded" <=> rpc[c] = "encoded"
    BY <1>3, <1>7, <1>8
  <2> QED BY <1>1, <1>3, <1>8, <2>1, OrderKept
<1>11. UpOrder'
  <2>1. \A i \in DOMAIN up' : up'[i].seq = received'["broker"] + i
    <3>1. ASSUME NEW i \in DOMAIN up' PROVE up'[i].seq = received'["broker"] + i
      <4>1. i \in Nat /\ up'[i].seq = received["broker"] + (i + 1)
        BY <1>2 DEF UpOrder
      <4> QED BY <4>1, <1>3, <1>8
    <3> QED BY <3>1
  <2>2. received'["broker"] + Len(up') + 1 = received["broker"] + Len(up) + 1
    <3>1. received'["broker"] = received["broker"] + 1 /\ received["broker"] \in Nat
      BY <1>3, <1>8
    <3>2. Len(up') \in Nat
      BY DEF FramesTypeOK
    <3>3. Len(up') \in Nat /\ Len(up) = Len(up') + 1
      BY <1>2, <3>2
    <3> QED BY <3>1, <3>3
  <2> QED BY <1>1, <2>1, <2>2 DEF UpOrder, Free
<1>12. OnePlace'
  <2>1. \A i, j \in DOMAIN up' :
          up'[i].kind = up'[j].kind /\ up'[i].id = up'[j].id => i = j
    <3>1. ASSUME NEW i \in DOMAIN up', NEW j \in DOMAIN up',
                 up'[i].kind = up'[j].kind, up'[i].id = up'[j].id
          PROVE  i = j
      <4>1. i + 1 = j + 1
        BY <1>2, <3>1 DEF OnePlace
      <4> QED BY <1>2, <4>1
    <3> QED BY <3>1
  <2>2. \A c \in Calls : Working(c)' <=> Working(c)
    BY <1>1 DEF Working
  <2>3. ASSUME NEW c \in Calls
        PROVE  /\ rpc'[c] \in Unsent \cup {"done", "failed"} =>
                    ~Down(c)' /\ ~Working(c)' /\ ~Up("response", c)'
               /\ Down(c)' => ~Working(c)' /\ ~Up("response", c)'
               /\ Working(c)' => ~Up("response", c)'
    <3>1. CASE f.kind = "response" /\ f.id = c
      BY <1>2, <1>4, <1>9, <2>2, <3>1 DEF OnePlace
    <3>2. CASE ~(f.kind = "response" /\ f.id = c)
      <4>1. rpc'[c] = rpc[c]
        BY <1>3, <1>4, <1>8, <3>2
      <4> QED BY <1>2, <1>9, <2>2, <3>2, <4>1 DEF OnePlace
    <3> QED BY <3>1, <3>2
  <2> QED BY <1>1, <2>1, <2>3 DEF OnePlace
<1>13. ThreadsFit'
  BY <1>1, <1>2 DEF ThreadsFit
<1>14. StartedFirst'
  <2>1. \A c \in Calls : (rpc'[c] \in Unsent <=> rpc[c] \in Unsent)
                          /\ (rpc'[c] = "new" <=> rpc[c] = "new")
                          /\ (rpc[c] = "done" => rpc'[c] = "done")
                          /\ (rpc'[c] = "done" => rpc[c] = "done" \/ Up("response", c))
    BY <1>3, <1>4, <1>7, <1>8 DEF Unsent
  <2>2. "start" \in Calls /\ "run" \in Calls
    BY DEF Calls
  <2> QED BY <1>1, <1>2, <1>9, <2>1, <2>2 DEF StartedFirst
<1>15. AwaitsAnswers'
  <2>1. \A c \in Calls : (rpc'[c] \in Unsent <=> rpc[c] \in Unsent)
                          /\ (rpc'[c] = "new" <=> rpc[c] = "new")
    BY <1>3, <1>4, <1>7, <1>8 DEF Unsent
  <2>2. ASSUME NEW a \in Approvals
        PROVE  /\ Asked(a)' \/ Up("request", a)' => a \in pending' /\ a \notin requests'
               /\ Asked(a)' => ~Up("request", a)'
               /\ a \in requests' /\ rpc'[a] \in Unsent => a \in pending'
               /\ Down(a)' => a \in pending'
               /\ rpc'[a] # "new" => a \in requests'
    <3>1. Asked(a)' <=> Asked(a)
      BY <1>1 DEF Asked
    <3>2. a \in Calls
      BY DEF Calls
    <3>3. CASE f.kind = "request" /\ f.id = a
      <4>1. a \in pending /\ ~Asked(a) /\ ~Up("request", a)' /\ requests' = requests \cup {a}
        BY <1>2, <1>4, <1>8, <3>3 DEF AwaitsAnswers
      <4> QED BY <1>1, <1>9, <2>1, <3>1, <3>2, <4>1 DEF AwaitsAnswers
    <3>4. CASE ~(f.kind = "request" /\ f.id = a)
      <4>1. /\ Up("request", a)' <=> Up("request", a)
            /\ a \in requests' <=> a \in requests
        BY <1>2, <1>8, <3>4
      <4> QED BY <1>1, <1>9, <2>1, <3>1, <3>2, <4>1 DEF AwaitsAnswers
    <3> QED BY <3>3, <3>4
  <2> QED BY <2>2 DEF AwaitsAnswers
<1> QED BY <1>1, <1>8, <1>10, <1>11, <1>12, <1>13, <1>14, <1>15

LEMMA DispatchesHolds ==
  ASSUME FramesTypeOK, FramesTypeOK', Clean, Dispatches, causes' = {}
  PROVE  Clean'
<1> USE DEF Clean
<1> DEFINE f == down[1]
<1>1. /\ down # <<>> /\ down' = Tail(down) /\ task["main"] = "idle"
      /\ UNCHANGED <<sent, up, rpc, number, requests, closed>>
  BY DEF Dispatches, broker
<1>2. /\ Len(down) \in Nat /\ Len(down') + 1 = Len(down)
      /\ 1 \in DOMAIN down /\ Head(down) = f /\ f \in DownFrame
      /\ \A i \in DOMAIN down' :
           i \in Nat /\ i + 1 \in DOMAIN down /\ down'[i] = down[i + 1]
      /\ \A c : Down(c)' <=> Down(c) /\ c # f.id
  BY <1>1, DownTaken DEF OnePlace
<1>3. /\ received \in [{"broker", "child"} -> Nat]
      /\ task \in [Threads -> {"off", "idle", "busy"} \cup Calls]
  BY DEF FramesTypeOK, ChannelTypeOK
<1>4. /\ f.seq = received["child"] + 1 /\ Down(f.id) /\ f.id \in Calls
      /\ rpc[f.id] \notin Unsent \cup {"done", "failed"}
      /\ ~Working(f.id) /\ ~Up("response", f.id)
  BY <1>2, Frames DEF DownOrder, OnePlace, Down
<1> HIDE DEF f
<1>5. /\ InTurn("child", f)
      /\ f.id = "start" => task["asker"] = "off"
      /\ f.id = "run" => task["asker"] # "off" /\ task["runner"] = "off"
      /\ f.id \notin {"start", "run"} => f.id \in pending
  <2>1. f.id \in Approvals \/ f.id = "start" \/ f.id = "run"
    BY <1>4 DEF Calls
  <2> QED BY <1>4, <2>1 DEF InTurn, StartedFirst, AwaitsAnswers, Unsent
<1>6. /\ received' = [received EXCEPT !["child"] = received["child"] + 1]
      /\ pending' = pending \ {f.id}
      /\ task' = IF f.id = "run"
                 THEN [task EXCEPT !["runner"] = "busy", !["main"] = "idle"]
                 ELSE [task EXCEPT !["main"] = f.id]
      /\ UNCHANGED <<child, outgoing, numbered, halted>>
  BY <1>2, <1>5 DEF Dispatches, Counts
<1>7. \A k, c : Up(k, c)' <=> Up(k, c)
  BY <1>1, PipesKept
<1>8. DownOrder'
  <2>1. \A i \in DOMAIN down' : down'[i].seq = received'["child"] + i
    <3>1. ASSUME NEW i \in DOMAIN down' PROVE down'[i].seq = received'["child"] + i
      <4>1. i \in Nat /\ down'[i].seq = received["child"] + (i + 1)
        BY <1>2 DEF DownOrder
      <4> QED BY <4>1, <1>3, <1>6
    <3> QED BY <3>1
  <2>2. received'["child"] + Len(down') + 1 = received["child"] + Len(down) + 1
    <3>1. received'["child"] = received["child"] + 1 /\ received["child"] \in Nat
      BY <1>3, <1>6
    <3>2. Len(down') \in Nat
      BY DEF FramesTypeOK
    <3>3. Len(down') \in Nat /\ Len(down) = Len(down') + 1
      BY <1>2, <3>2
    <3> QED BY <3>1, <3>3
  <2> QED BY <1>1, <2>1, <2>2 DEF DownOrder, Free
<1>9. UpOrder'
  BY <1>1, <1>3, <1>6, OrderKept DEF UpOrder
<1>10. OnePlace'
  <2>1. \A i, j \in DOMAIN down' : down'[i].id = down'[j].id => i = j
    <3>1. ASSUME NEW i \in DOMAIN down', NEW j \in DOMAIN down',
                 down'[i].id = down'[j].id
          PROVE  i = j
      <4>1. i + 1 = j + 1
        BY <1>2, <3>1 DEF OnePlace
      <4> QED BY <1>2, <4>1
    <3> QED BY <3>1
  <2>2. \A c \in Calls : Working(c)' => c = f.id \/ Working(c)
    BY <1>3, <1>6, ChannelConstants DEF Working, Threads, Calls
  <2>3. task'["main"] # "run"
    BY <1>3, <1>6 DEF Threads
  <2> QED BY <1>1, <1>2, <1>4, <1>7, <2>1, <2>2, <2>3 DEF OnePlace
<1>11. ThreadsFit'
  BY <1>1, <1>3, <1>4, <1>5, <1>6, ChannelConstants DEF ThreadsFit, Threads, Calls
<1>12. StartedFirst'
  BY <1>1, <1>2, <1>3, <1>4, <1>5, <1>6, <1>7 DEF StartedFirst, Threads, Calls
<1>13. AwaitsAnswers'
  <2>1. \A a : Asked(a)' <=> Asked(a)
    BY <1>6 DEF Asked
  <2>2. \A a \in Approvals : rpc[a] # "new" => a \in requests
    BY DEF AwaitsAnswers
  <2>3. f.id \in Approvals => f.id \in requests /\ rpc[f.id] \notin Unsent
    BY <1>4, <2>2 DEF Unsent
  <2> QED BY <1>1, <1>2, <1>6, <1>7, <2>1, <2>3 DEF AwaitsAnswers
<1> QED BY <1>1, <1>6, <1>8, <1>9, <1>10, <1>11, <1>12, <1>13

LEMMA AnswersHolds ==
  ASSUME FramesTypeOK, FramesTypeOK', Clean, HarnessAnswers, causes' = {}
  PROVE  Clean'
<1> USE DEF Clean
<1>1. /\ task["main"] \in Calls /\ outgoing["main"] = Silent
      /\ outgoing' = [outgoing EXCEPT !["main"] = ResponseTo(task["main"], TRUE)]
      /\ task' = IF task["main"] = "start"
                 THEN [task EXCEPT !["asker"] = "idle"] ELSE task
      /\ UNCHANGED <<child, numbered, pending, halted, rpc, number, requests,
                     closed, sent, received, down, up>>
  BY DEF HarnessAnswers, broker, pipes
<1>2. /\ \A d : Down(d)' <=> Down(d)
      /\ \A k, d : Up(k, d)' <=> Up(k, d)
  BY <1>1, PipesKept
<1>3. /\ task \in [Threads -> {"off", "idle", "busy"} \cup Calls]
      /\ outgoing \in [Threads -> {Silent} \cup Saying]
      /\ "main" \in Threads /\ "asker" \in Threads /\ "runner" \in Threads
  BY DEF FramesTypeOK, ChannelTypeOK, Threads
<1>4. ResponseTo(task["main"], TRUE) # Silent
  BY <1>1, Sayings
<1>5. DownOrder' /\ UpOrder'
  BY <1>1, <1>3, <1>4, OrderKept DEF UpOrder
<1>6. OnePlace'
  BY <1>1, <1>2, <1>3 DEF OnePlace, Working
<1>7. /\ task'["main"] = task["main"] /\ task'["runner"] = task["runner"]
      /\ task'["asker"] = IF task["main"] = "start" THEN "idle" ELSE task["asker"]
      /\ outgoing'["main"] = ResponseTo(task["main"], TRUE)
      /\ outgoing'["asker"] = outgoing["asker"]
      /\ outgoing'["runner"] = outgoing["runner"]
  BY <1>1, <1>3
<1>8. task["main"] = "start" =>
        /\ rpc["start"] \notin Unsent /\ ~Down("start")
        /\ task["asker"] = "off"
  BY <1>1 DEF OnePlace, Working, StartedFirst
<1>9. ThreadsFit'
  <2>1. task["main"] = "start" => outgoing["asker"] = Silent
    BY <1>8 DEF ThreadsFit
  <2>2. child # "none"
    BY <1>1, <1>3, ChannelConstants DEF ThreadsFit, Calls
  <2> QED BY <1>1, <1>7, <2>1, <2>2 DEF ThreadsFit
<1>10. StartedFirst'
  BY <1>1, <1>2, <1>4, <1>7, <1>8 DEF StartedFirst, ResponseTo
<1>11. AwaitsAnswers'
  BY <1>1, <1>2, <1>7 DEF AwaitsAnswers, Asked
<1> QED BY <1>1, <1>5, <1>6, <1>9, <1>10, <1>11

LEMMA AsksHolds ==
  ASSUME FramesTypeOK, FramesTypeOK', Clean, Asks, causes' = {}
  PROVE  Clean'
<1> USE DEF Clean
<1>1. PICK a \in Approvals :
        /\ rpc[a] = "new" /\ a \notin pending \cup requests
        /\ ~\E i \in DOMAIN up : up[i].id = a
        /\ pending' = pending \cup {a}
        /\ outgoing' = [outgoing EXCEPT !["asker"] =
                          [kind |-> "request", id |-> a, ok |-> TRUE]]
  BY DEF Asks
<1>2. /\ task["asker"] = "idle" /\ halted' = halted /\ task["runner"] = "busy"
      /\ task' = [task EXCEPT !["asker"] = "busy"]
      /\ UNCHANGED <<child, numbered, rpc, number, requests, closed, sent,
                     received, down, up>>
  BY DEF Asks, broker, pipes
<1>3. /\ \A d : Down(d)' <=> Down(d)
      /\ \A k, d : Up(k, d)' <=> Up(k, d)
  BY <1>2, PipesKept
<1>4. /\ task \in [Threads -> {"off", "idle", "busy"} \cup Calls]
      /\ outgoing \in [Threads -> {Silent} \cup Saying]
      /\ "main" \in Threads /\ "asker" \in Threads /\ "runner" \in Threads
  BY DEF FramesTypeOK, ChannelTypeOK, Threads
<1>5. /\ task'["main"] = task["main"] /\ task'["runner"] = task["runner"]
      /\ task'["asker"] = "busy"
      /\ outgoing'["asker"].kind = "request" /\ outgoing'["asker"].id = a
      /\ outgoing'["asker"] # Silent
      /\ outgoing'["main"] = outgoing["main"]
      /\ outgoing'["runner"] = outgoing["runner"]
      /\ \A t \in Threads : outgoing[t] # Silent => outgoing'[t] # Silent
  BY <1>1, <1>2, <1>4 DEF Silent
<1>6. DownOrder' /\ UpOrder'
  BY <1>2, <1>5, OrderKept DEF UpOrder
<1>7. OnePlace'
  BY <1>2, <1>3, <1>5 DEF OnePlace, Working
<1>8. ThreadsFit'
  <2>1. child # "none"
    BY <1>2, <1>4 DEF ThreadsFit
  <2> QED BY <1>2, <1>5, <2>1 DEF ThreadsFit
<1>9. StartedFirst'
  BY <1>2, <1>3, <1>5 DEF StartedFirst
<1>10. AwaitsAnswers'
  <2>1. \A b : Asked(b)' <=> b = a
    BY <1>5 DEF Asked
  <2>2. ~Up("request", a) /\ ~Down(a)
    BY <1>1 DEF AwaitsAnswers, Up
  <2> QED BY <1>1, <1>2, <1>3, <2>1, <2>2 DEF AwaitsAnswers
<1> QED BY <1>2, <1>6, <1>7, <1>8, <1>9, <1>10

LEMMA RunEndsHolds ==
  ASSUME FramesTypeOK, FramesTypeOK', Clean, RunEnds, causes' = {}
  PROVE  Clean'
<1> USE DEF Clean
<1>1. PICK ok \in BOOLEAN :
        outgoing' = [outgoing EXCEPT !["runner"] = ResponseTo("run", ok)]
  BY DEF RunEnds
<1>2. /\ task["runner"] = "busy"
      /\ UNCHANGED <<child, task, numbered, pending, halted, rpc, number,
                     requests, closed, sent, received, down, up>>
  BY DEF RunEnds, broker, pipes
<1>3. /\ \A d : Down(d)' <=> Down(d)
      /\ \A k, d : Up(k, d)' <=> Up(k, d)
  BY <1>2, PipesKept
<1>4. /\ outgoing \in [Threads -> {Silent} \cup Saying]
      /\ "main" \in Threads /\ "asker" \in Threads /\ "runner" \in Threads
  BY DEF FramesTypeOK, Threads
<1>a. ResponseTo("run", ok) # Silent
  BY Sayings DEF Calls
<1>5. /\ outgoing'["runner"] = ResponseTo("run", ok)
      /\ outgoing'["main"] = outgoing["main"]
      /\ outgoing'["asker"] = outgoing["asker"]
      /\ \A t \in Threads : outgoing[t] # Silent => outgoing'[t] # Silent
  BY <1>1, <1>4, <1>a
<1>6. DownOrder' /\ UpOrder'
  BY <1>2, <1>5, OrderKept DEF UpOrder
<1>7. OnePlace'
  BY <1>2, <1>3 DEF OnePlace, Working
<1>8. ThreadsFit'
  BY <1>2, <1>5 DEF ThreadsFit
<1>9. StartedFirst'
  BY <1>2, <1>3, <1>5 DEF StartedFirst
<1>10. AwaitsAnswers'
  BY <1>2, <1>3, <1>5 DEF AwaitsAnswers, Asked
<1> QED BY <1>2, <1>6, <1>7, <1>8, <1>9, <1>10

LEMMA NumbersHolds ==
  ASSUME FramesTypeOK, FramesTypeOK', Clean, NEW t \in Threads, Numbers(t),
         causes' = {}
  PROVE  Clean'
<1> USE DEF Clean
<1>1. /\ outgoing[t] # Silent /\ Free(numbered)
      /\ sent' = [sent EXCEPT !["child"] = sent["child"] + 1]
      /\ numbered' = [numbered EXCEPT ![t] = sent["child"] + 1]
      /\ UNCHANGED <<rpc, number, requests, closed, received, down, up, child,
                     task, outgoing, pending, halted>>
  BY DEF Numbers, broker
<1>2. /\ \A d : Down(d)' <=> Down(d)
      /\ \A k, d : Up(k, d)' <=> Up(k, d)
  BY <1>1, PipesKept
<1>3. /\ numbered \in [Threads -> Nat] /\ sent \in [{"broker", "child"} -> Nat]
      /\ received \in [{"broker", "child"} -> Nat] /\ Len(up) \in Nat
  BY DEF FramesTypeOK, ChannelTypeOK
<1>4. DownOrder'
  BY <1>1, <1>3, OrderKept
<1>5. UpOrder'
  <2>1. /\ sent["child"] + 1 = received["broker"] + Len(up) + 1
        /\ \A u \in Threads : numbered[u] = 0
    BY <1>1, <1>3 DEF UpOrder, Free
  <2>2. /\ numbered'[t] = sent["child"] + 1 /\ sent'["child"] = sent["child"] + 1
        /\ \A u \in Threads : u # t => numbered'[u] = 0
        /\ t \in DOMAIN numbered' /\ numbered'[t] # 0
    BY <1>1, <1>3, <2>1
  <2>3. /\ \A i \in DOMAIN up' : up'[i].seq = received'["broker"] + i
        /\ numbered'[t] = received'["broker"] + Len(up') + 1
        /\ sent'["child"] = received'["broker"] + Len(up') + 1
        /\ ~Free(numbered)'
    BY <1>1, <2>1, <2>2 DEF UpOrder, Free
  <2> QED BY <1>1, <2>2, <2>3 DEF UpOrder
<1>6. OnePlace'
  BY <1>1, <1>2 DEF OnePlace, Working
<1>7. ThreadsFit'
  BY <1>1 DEF ThreadsFit
<1>8. StartedFirst'
  BY <1>1, <1>2 DEF StartedFirst
<1>9. AwaitsAnswers'
  BY <1>1, <1>2 DEF AwaitsAnswers, Asked
<1> QED BY <1>1, <1>4, <1>5, <1>6, <1>7, <1>8, <1>9

LEMMA WritesHolds ==
  ASSUME FramesTypeOK, FramesTypeOK', Clean, NEW t \in Threads, Writes(t),
         causes' = {}
  PROVE  Clean'
<1> USE DEF Clean
<1> DEFINE f == [kind |-> outgoing[t].kind, id |-> outgoing[t].id,
                 ok |-> outgoing[t].ok, seq |-> numbered[t]]
<1>1. /\ numbered[t] # 0 /\ up' = Append(up, f)
      /\ numbered' = [numbered EXCEPT ![t] = 0]
      /\ outgoing' = [outgoing EXCEPT ![t] = Silent]
      /\ UNCHANGED <<rpc, number, requests, closed, sent, received, down, child,
                     pending, halted>>
  BY DEF Writes, broker
<1>2. /\ numbered \in [Threads -> Nat] /\ sent \in [{"broker", "child"} -> Nat]
      /\ received \in [{"broker", "child"} -> Nat] /\ Len(up) \in Nat
      /\ outgoing \in [Threads -> {Silent} \cup Saying]
      /\ task \in [Threads -> {"off", "idle", "busy"} \cup Calls]
      /\ "main" \in Threads /\ "asker" \in Threads /\ "runner" \in Threads
  BY DEF FramesTypeOK, ChannelTypeOK, Threads
<1>3. outgoing[t] # Silent /\ outgoing[t] \in Saying
  BY <1>1, <1>2 DEF FramesTypeOK
<1>f. /\ f \in UpFrame /\ f.seq = numbered[t]
      /\ f.kind = outgoing[t].kind /\ f.id = outgoing[t].id
  BY <1>2, <1>3 DEF Saying, UpFrame
<1> HIDE DEF f
<1>4. /\ Len(up') = Len(up) + 1
      /\ \A i \in DOMAIN up' :
           \/ i \in DOMAIN up /\ up'[i] = up[i]
           \/ i = Len(up) + 1 /\ up'[i] = f
      /\ \A k, d : Up(k, d)' <=> Up(k, d) \/ (k = f.kind /\ d = f.id)
      /\ \A d : Down(d)' <=> Down(d)
  BY <1>1, <1>f, UpGiven, PipesKept
<1>5. \/ /\ t = "main" /\ f.kind = "response" /\ f.id = task["main"]
         /\ task["main"] \in Calls
         /\ task' = [task EXCEPT !["main"] = "idle"]
      \/ /\ t = "runner" /\ f.kind = "response" /\ f.id = "run"
         /\ task["runner"] = "busy"
         /\ task' = [task EXCEPT !["runner"] = "idle"]
      \/ /\ t = "asker" /\ f.kind = "request" /\ f.id \in Approvals /\ Asked(f.id)
         /\ task["asker"] = "busy"
         /\ task' = [task EXCEPT !["asker"] = "idle"]
  <2>1. CASE t = "main"
    BY <1>3, <1>f, <2>1 DEF Writes, ThreadsFit, ResponseTo
  <2>2. CASE t = "runner"
    <3>1. PICK ok \in BOOLEAN : outgoing["runner"] = ResponseTo("run", ok)
      BY <1>3, <2>2 DEF ThreadsFit
    <3>2. outgoing[t].kind = "response" /\ outgoing[t].id = "run"
      BY <3>1, <2>2 DEF ResponseTo
    <3>3. task["runner"] = "busy" /\ task' = [task EXCEPT !["runner"] = "idle"]
      BY <1>3, <2>2 DEF Writes, ThreadsFit
    <3> QED BY <1>f, <2>2, <3>2, <3>3
  <2>3. CASE t = "asker"
    <3>1. outgoing[t].kind = "request" /\ task["asker"] = "busy"
      BY <1>3, <2>3 DEF ThreadsFit
    <3>2. outgoing[t].id \in Approvals
      BY <1>3, <3>1 DEF Saying
    <3> QED BY <1>f, <2>3, <3>1, <3>2 DEF Writes, Asked
  <2> QED BY <2>1, <2>2, <2>3 DEF Threads
<1>6. DownOrder'
  BY <1>1, OrderKept
<1>7. UpOrder'
  <2>1. /\ numbered[t] = received["broker"] + Len(up) + 1
        /\ sent["child"] = received["broker"] + Len(up) + 1
        /\ \A u \in Threads : numbered[u] # 0 => u = t
    BY <1>1 DEF UpOrder
  <2>2. \A u \in Threads : numbered'[u] = 0
    BY <1>1, <1>2, <2>1
  <2>3. \A i \in DOMAIN up' : up'[i].seq = received'["broker"] + i
    <3>1. ASSUME NEW i \in DOMAIN up', i = Len(up) + 1, up'[i] = f
          PROVE  up'[i].seq = received'["broker"] + i
      BY <3>1, <1>f, <2>1, <1>1, <1>2
    <3> QED BY <1>1, <1>4, <3>1 DEF UpOrder
  <2>4. sent'["child"] + 1 = received'["broker"] + Len(up') + 1
    BY <2>1, <1>1, <1>2, <1>4
  <2> QED BY <2>2, <2>3, <2>4 DEF UpOrder
<1>8. ~Up(f.kind, f.id)
  <2>1. CASE t = "main" \/ t = "runner"
    BY <1>5, <2>1 DEF OnePlace, Working, Calls
  <2>2. CASE t = "asker"
    BY <1>5, <2>2 DEF AwaitsAnswers
  <2> QED BY <2>1, <2>2 DEF Threads
<1>9. OnePlace'
  <2>1. \A i, j \in DOMAIN up' :
          up'[i].kind = up'[j].kind /\ up'[i].id = up'[j].id => i = j
    BY <1>4, <1>8 DEF OnePlace, Up
  <2>2. \A c \in Calls : Working(c)' <=> Working(c) /\ ~(f.kind = "response" /\ c = f.id)
    <3>1. CASE t = "main"
      BY <1>2, <1>5, <3>1, ChannelConstants DEF Working, OnePlace, Calls
    <3>2. CASE t = "runner"
      BY <1>2, <1>5, <3>2 DEF Working, OnePlace
    <3>3. CASE t = "asker"
      BY <1>2, <1>5, <3>3 DEF Working
    <3> QED BY <3>1, <3>2, <3>3 DEF Threads
  <2>3. f.kind = "response" => Working(f.id) /\ f.id \in Calls
    BY <1>5 DEF Working, Calls
  <2>4. task'["main"] # "run"
    BY <1>2, <1>5 DEF OnePlace
  <2>5. ASSUME NEW c \in Calls
        PROVE  /\ rpc'[c] \in Unsent \cup {"done", "failed"} =>
                    ~Down(c)' /\ ~Working(c)' /\ ~Up("response", c)'
               /\ Down(c)' => ~Working(c)' /\ ~Up("response", c)'
               /\ Working(c)' => ~Up("response", c)'
    BY <1>1, <1>4, <2>2, <2>3 DEF OnePlace
  <2> QED BY <1>1, <2>1, <2>4, <2>5 DEF OnePlace
<1>10. ThreadsFit'
  <2>1. \A i \in DOMAIN up' : up'[i].kind # "fault"
    BY <1>4, <1>5 DEF ThreadsFit
  <2>2. child # "none"
    BY <1>5, <1>2, ChannelConstants DEF ThreadsFit, Calls
  <2>3. /\ outgoing'[t] = Silent
        /\ \A u \in Threads : u # t => outgoing'[u] = outgoing[u] /\ task'[u] = task[u]
        /\ task'[t] = "idle"
    BY <1>1, <1>2, <1>5
  <2> QED BY <1>1, <1>2, <2>1, <2>2, <2>3 DEF ThreadsFit
<1>11. StartedFirst'
  <2>1. /\ outgoing'[t] = Silent
        /\ \A u \in Threads : u # t => outgoing'[u] = outgoing[u] /\ task'[u] = task[u]
        /\ task'[t] = "idle"
        /\ task[t] # "off" 
    BY <1>1, <1>2, <1>5, ChannelConstants DEF Calls
  <2>2. /\ task'["asker"] # "off" <=> task["asker"] # "off"
        /\ task'["runner"] # "off" <=> task["runner"] # "off"
    BY <2>1, <1>2
  <2>3. ResponseTo("start", TRUE) # Silent
    BY DEF ResponseTo, Silent
  <2>4. outgoing'["main"] = ResponseTo("start", TRUE) =>
          outgoing["main"] = ResponseTo("start", TRUE)
    BY <2>1, <2>3, <1>2
  <2>5. Up("response", "start")' => Up("response", "start") \/ task["asker"] # "off"
    <3>1. ASSUME f.kind = "response", f.id = "start" PROVE task["asker"] # "off"
      <4>1. t = "main" /\ task["main"] = "start"
        BY <1>5, <3>1
      <4>2. outgoing["main"] = ResponseTo("start", TRUE)
        BY <1>3, <4>1 DEF ThreadsFit
      <4> QED BY <4>2 DEF StartedFirst
    <3> QED BY <1>4, <3>1
  <2>6. task'["main"] = "start" /\ outgoing'["main"] = Silent =>
          task["main"] = "start" /\ outgoing["main"] = Silent
    BY <2>1, <1>2
  <2> QED BY <1>1, <1>4, <2>2, <2>4, <2>5, <2>6 DEF StartedFirst
<1>12. AwaitsAnswers'
  <2>1. \A a : Asked(a)' => t # "asker" /\ Asked(a)
    BY <1>1, <1>2 DEF Asked, Silent
  <2>2. f.kind = "request" => t = "asker" /\ f.id \in Approvals /\ Asked(f.id)
    BY <1>5
  <2> QED BY <1>1, <1>4, <2>1, <2>2 DEF AwaitsAnswers
<1> QED BY <1>1, <1>6, <1>7, <1>9, <1>10, <1>11, <1>12

LEMMA ChannelStepHolds ==
  ChannelInv /\ [ChannelNext]_channelVars => ChannelInv'
<1> SUFFICES ASSUME ChannelInv, [ChannelNext]_channelVars, causes' = {}
    PROVE  Clean'
  BY ChannelTypeStep DEF ChannelInv
<1>1. FramesTypeOK /\ FramesTypeOK'
  BY ChannelTypeStep DEF ChannelInv
<1>2. causes = {}
  BY DEF ChannelNext, Registers, ChildBoots, Encodes, Sends, GivesUp, ReaderReads,
    ReaderEnds, Closes, Dispatches, HarnessAnswers, LoopEnds, Asks, RunEnds,
    ScopeStops, Numbers, TooLarge, Writes, channelVars, pipes, process, broker
<1>3. Clean
  BY <1>2 DEF ChannelInv
<1>4. ASSUME NEW c \in Calls, Registers(c) \/ Encodes(c) \/ Sends(c) \/ GivesUp(c)
      PROVE  Clean'
  BY <1>1, <1>3, <1>4, RegistersHolds, EncodesHolds, SendsHolds, GivesUpHolds
<1>5. CASE ReaderReads \/ Dispatches \/ HarnessAnswers \/ Asks \/ RunEnds
  BY <1>1, <1>3, <1>5, ReadsHolds, DispatchesHolds, AnswersHolds, AsksHolds,
    RunEndsHolds
<1>6. CASE ReaderEnds \/ Closes \/ LoopEnds \/ ScopeStops
  BY <1>3, <1>6 DEF ReaderEnds, Closes, LoopEnds, ScopeStops, Clean
<1>7. ASSUME NEW t \in Threads, Numbers(t) \/ Writes(t) PROVE Clean'
  BY <1>1, <1>3, <1>7, NumbersHolds, WritesHolds
<1>8. ASSUME NEW t \in Threads, TooLarge(t) PROVE Clean'
  BY <1>8 DEF TooLarge
<1>9. CASE UNCHANGED channelVars
  <2>1. UNCHANGED channelVars
    BY <1>9
  <2>2. /\ \A d : Down(d)' <=> Down(d)
        /\ \A k, d : Up(k, d)' <=> Up(k, d)
    BY <2>1, PipesKept DEF channelVars
  <2>3. DownOrder' /\ UpOrder'
    BY <1>3, <2>1, OrderKept DEF channelVars, Clean, UpOrder
  <2>4. OnePlace'
    BY <1>3, <2>1, <2>2 DEF channelVars, Clean, OnePlace, Working
  <2>5. ThreadsFit' /\ StartedFirst'
    BY <1>3, <2>1, <2>2 DEF channelVars, Clean, ThreadsFit, StartedFirst
  <2>6. AwaitsAnswers'
    BY <1>3, <2>1, <2>2 DEF channelVars, Clean, AwaitsAnswers, Asked
  <2> QED BY <1>3, <2>1, <2>3, <2>4, <2>5, <2>6 DEF channelVars, Clean
<1> QED BY <1>4, <1>5, <1>6, <1>7, <1>8, <1>9 DEF ChannelNext

LEMMA ChannelAlways == ChannelSpec => []ChannelInv
BY ChannelInitHolds, ChannelStepHolds, PTL DEF ChannelSpec

(* With any approvals and however the threads of both sides interleave:    *)
(* the channel ends for a cause of its own, never by the order of frames.  *)
THEOREM EndsForCause == ChannelSpec => []ChannelEndsForCause
<1>1. ChannelInv => ChannelEndsForCause
  BY DEF ChannelInv, Clean, ChannelEndsForCause
<1> QED BY <1>1, ChannelAlways, PTL

---------------------------------------------------------------------------
(* The launch layer and the boot package *)

IsRecoverable(r) ==
  /\ r.release \in unpacked /\ r.previous \in unpacked \cup {NoRelease}
  /\ IsPrefix(r.before, r.after) /\ Contains(r.after, Block)

(* A run that has unpacked its release holds one that is there.            *)
HoldsInv ==
  \A p \in Processes :
    /\ doing[p] \in {"saved", "opened", "written", "linking"} =>
         /\ holds[p].release \in unpacked
         /\ holds[p].previous \in unpacked \cup {NoRelease}
    /\ doing[p] \in {"linking", "undoing", "relinking"} => IsRecoverable(holds[p])

ClientInv == ClientTypeOK /\ HoldsInv /\ LayerIsRecoverable

LEMMA ClientInitHolds == ClientInit => ClientInv
BY ClientConstants DEF ClientInit, ClientInv, ClientTypeOK, HoldsInv,
  LayerIsRecoverable, Texts, Pointers, Installation, NoInstallation, Added

LEMMA NoneIsInstallation == NoInstallation \in Installation
BY ClientConstants DEF NoInstallation, Installation, Texts, Pointers

LEMMA EndsKeeps ==
  ASSUME ClientInv, NEW p \in Processes, Ends(p),
         UNCHANGED <<bashrc, edits, unpacked, pointer, records>>
  PROVE  ClientInv'
<1>1. NoInstallation \in Installation
  BY NoneIsInstallation
<1>2. ClientTypeOK'
  BY <1>1 DEF ClientInv, ClientTypeOK, Ends, StepsTo
<1>3. HoldsInv' /\ LayerIsRecoverable'
  BY DEF ClientInv, ClientTypeOK, HoldsInv, LayerIsRecoverable, IsRecoverable,
    Ends, StepsTo
<1> QED BY <1>2, <1>3 DEF ClientInv

LEMMA BeginsKeeps ==
  ASSUME ClientInv, NEW p \in Processes, NEW release \in Releases,
         Begins(p, release)
  PROVE  ClientInv'
<1> DEFINE new == [NoInstallation EXCEPT !.release = release, !.before = bashrc]
<1>1. new \in Installation
  <2>1. NoInstallation \in Installation
    BY NoneIsInstallation
  <2>2. bashrc \in Texts
    BY DEF ClientInv, ClientTypeOK
  <2> QED BY <2>1, <2>2 DEF Installation
<1>2. ClientTypeOK'
  BY <1>1 DEF ClientInv, ClientTypeOK, Begins, StepsTo
<1>3. HoldsInv' /\ LayerIsRecoverable'
  BY DEF ClientInv, ClientTypeOK, HoldsInv, LayerIsRecoverable, IsRecoverable,
    Begins, StepsTo
<1> QED BY <1>2, <1>3 DEF ClientInv

LEMMA BlockIsText ==
  ASSUME bashrc \in Texts, NEW line \in Lines \cup Added
  PROVE  Append(bashrc, line) \in Texts
BY DEF Texts

LEMMA ClientStepKeeps == ClientInv /\ [ClientNext]_clientVars => ClientInv'
<1> SUFFICES ASSUME ClientInv, [ClientNext]_clientVars PROVE ClientInv'
  OBVIOUS
<1> USE DEF ClientInv
<1>0. CASE UNCHANGED clientVars
  BY <1>0 DEF clientVars, ClientTypeOK, HoldsInv, LayerIsRecoverable,
    IsRecoverable
<1>1. ASSUME NEW p \in Processes, NEW release \in Releases,
             Installs(p, release)
      PROVE ClientInv'
  BY <1>1, BeginsKeeps DEF Installs
<1>2. ASSUME NEW p \in Processes, Reactivates(p) PROVE ClientInv'
  <2>1. ClientTypeOK'
    <3>1. [holds[p] EXCEPT !.before = bashrc] \in Installation
      BY DEF ClientTypeOK, Installation
    <3> QED BY <1>2, <3>1 DEF Reactivates, ClientTypeOK, StepsTo
  <2>2. HoldsInv' /\ LayerIsRecoverable'
    BY <1>2 DEF Reactivates, StepsTo, ClientTypeOK, HoldsInv,
      LayerIsRecoverable, IsRecoverable
  <2> QED BY <2>1, <2>2
<1>3. ASSUME NEW p \in Processes, PutsBlockBack(p) PROVE ClientInv'
  BY <1>3, BeginsKeeps, ClientConstants DEF PutsBlockBack
<1>4. ASSUME NEW p \in Processes, Unpacks(p) PROVE ClientInv'
  <2>1. [holds[p] EXCEPT !.previous = pointer] \in Installation
    BY DEF ClientTypeOK, Installation
  <2>2. ClientTypeOK'
    BY <1>4, <2>1 DEF Unpacks, ClientTypeOK, StepsTo, Installation
  <2>3. /\ holds'[p] = [holds[p] EXCEPT !.previous = pointer]
        /\ \A q \in Processes \ {p} : holds'[q] = holds[q] /\ doing'[q] = doing[q]
        /\ doing'[p] = "saved" /\ unpacked' = unpacked \cup {holds[p].release}
        /\ pointer' = pointer /\ records' = records
    BY <1>4 DEF Unpacks, ClientTypeOK, StepsTo
  <2>4. holds'[p].release = holds[p].release /\ holds'[p].previous = pointer
    BY <2>3 DEF ClientTypeOK, Installation
  <2>5. HoldsInv'
    BY <2>3, <2>4 DEF HoldsInv, LayerIsRecoverable, IsRecoverable
  <2>6. LayerIsRecoverable'
    BY <2>3 DEF LayerIsRecoverable
  <2> QED BY <2>2, <2>5, <2>6
<1>5. ASSUME NEW p \in Processes, Compares(p) PROVE ClientInv'
  BY <1>5 DEF Compares, ClientTypeOK, StepsTo, HoldsInv, LayerIsRecoverable,
    IsRecoverable
<1>6. ASSUME NEW p \in Processes, AppendsBlock(p) PROVE ClientInv'
  <2>1. Append(bashrc, Block) \in Texts /\ Append(bashrc, Piece) \in Texts
    BY BlockIsText DEF ClientTypeOK, Added
  <2>2. CASE bashrc' = Appended(p, Block) /\ StepsTo(p, "written")
               /\ UNCHANGED <<holds, sameFile>>
    BY <1>6, <2>1, <2>2 DEF AppendsBlock, Appended, ClientTypeOK, StepsTo,
      HoldsInv, LayerIsRecoverable, IsRecoverable
  <2>3. CASE bashrc' = Appended(p, Piece) /\ Ends(p)
    <3>1. NoInstallation \in Installation
      BY NoneIsInstallation
    <3>2. ClientTypeOK'
      BY <1>6, <2>1, <2>3, <3>1 DEF AppendsBlock, Appended, ClientTypeOK,
        Ends, StepsTo
    <3>3. HoldsInv' /\ LayerIsRecoverable'
      BY <1>6, <2>3 DEF AppendsBlock, ClientTypeOK, Ends, StepsTo, HoldsInv,
        LayerIsRecoverable, IsRecoverable
    <3> QED BY <3>2, <3>3
  <2> QED BY <1>6, <2>2, <2>3 DEF AppendsBlock
<1>7. ASSUME NEW p \in Processes, ReadsBack(p) PROVE ClientInv'
  <2>1. [holds[p] EXCEPT !.after = bashrc] \in Installation
    BY DEF ClientTypeOK, Installation
  <2>2. ClientTypeOK'
    BY <1>7, <2>1 DEF ReadsBack, ClientTypeOK, StepsTo
  <2>3. /\ holds'[p] = [holds[p] EXCEPT !.after = bashrc]
        /\ \A q \in Processes \ {p} : holds'[q] = holds[q] /\ doing'[q] = doing[q]
        /\ doing'[p] = "linking"
        /\ UNCHANGED <<unpacked, pointer, records>>
    BY <1>7 DEF ReadsBack, ClientTypeOK, StepsTo
  <2>4. /\ holds'[p].release = holds[p].release
        /\ holds'[p].previous = holds[p].previous
        /\ holds'[p].before = holds[p].before /\ holds'[p].after = bashrc
    BY <2>3 DEF ClientTypeOK, Installation
  <2>5. HoldsInv'
    BY <1>7, <2>3, <2>4 DEF HoldsInv, IsRecoverable, ReadsBack
  <2> QED BY <2>2, <2>3, <2>5 DEF LayerIsRecoverable
<1>8. ASSUME NEW p \in Processes, Links(p) PROVE ClientInv'
  <2>1. NoInstallation \in Installation
    BY NoneIsInstallation
  <2>2. holds[p] \in Installation /\ doing[p] = "linking"
        /\ IsRecoverable(holds[p]) /\ holds[p].release \in Releases
    BY <1>8 DEF Links, ClientTypeOK, HoldsInv, Installation
  <2>3. ClientTypeOK'
    BY <1>8, <2>1, <2>2 DEF Links, ClientTypeOK, Ends, StepsTo, Pointers
  <2>4. HoldsInv'
    BY <1>8 DEF Links, ClientTypeOK, Ends, StepsTo, HoldsInv, IsRecoverable
  <2>5. LayerIsRecoverable'
    BY <1>8, <2>2 DEF Links, Ends, LayerIsRecoverable, IsRecoverable
  <2> QED BY <2>3, <2>4, <2>5
<1>9. ASSUME NEW p \in Processes, Fails(p) PROVE ClientInv'
  BY <1>9, EndsKeeps DEF Fails
<1>10. ASSUME NEW p \in Processes, NEW r \in records, Undoes(p, r)
       PROVE ClientInv'
  BY <1>10 DEF Undoes, ClientTypeOK, StepsTo, HoldsInv, LayerIsRecoverable,
    IsRecoverable
<1>11. ASSUME NEW p \in Processes, Replaces(p) PROVE ClientInv'
  <2>1. holds[p].before \in Texts
    BY DEF ClientTypeOK, Installation
  <2> QED
    BY <1>11, <2>1 DEF Replaces, NoneFresh, ClientTypeOK, StepsTo, HoldsInv,
      LayerIsRecoverable, IsRecoverable
<1>12. ASSUME NEW p \in Processes, Relinks(p) PROVE ClientInv'
  <2>1. NoInstallation \in Installation
    BY NoneIsInstallation
  <2>2. holds[p].previous \in Pointers /\ IsRecoverable(holds[p])
    BY <1>12 DEF Relinks, ClientTypeOK, HoldsInv, Installation
  <2>3. ClientTypeOK'
    BY <1>12, <2>1, <2>2 DEF Relinks, ClientTypeOK, Ends, StepsTo
  <2>4. HoldsInv' /\ LayerIsRecoverable'
    BY <1>12, <2>2 DEF Relinks, ClientTypeOK, Ends, StepsTo, HoldsInv,
      LayerIsRecoverable, IsRecoverable
  <2> QED BY <2>3, <2>4
<1>13. CASE OwnerEdits
  <2>1. \A line \in Lines : Append(bashrc, line) \in Texts /\ <<line>> \in Texts
    BY BlockIsText DEF ClientTypeOK, Texts
  <2>2. edits' \in 0..MaxEdits
    BY <1>13, ClientConstants DEF OwnerEdits, ClientTypeOK
  <2> QED
    BY <1>13, <2>1, <2>2 DEF OwnerEdits, NoneFresh, ClientTypeOK, HoldsInv,
      LayerIsRecoverable, IsRecoverable
<1>14. CASE PodReplaced
  <2>1. NoInstallation \in Installation /\ << >> \in Texts
    BY ClientConstants DEF NoInstallation, Installation, Texts, Pointers
  <2> QED
    BY <1>14, <2>1 DEF PodReplaced, NoneFresh, ClientTypeOK, HoldsInv,
      LayerIsRecoverable, IsRecoverable
<1> QED
  BY <1>0, <1>1, <1>2, <1>3, <1>4, <1>5, <1>6, <1>7, <1>8, <1>9, <1>10,
    <1>11, <1>12, <1>13, <1>14 DEF ClientNext

LEMMA ClientAlways == ClientSpec => []ClientInv
BY ClientInitHolds, ClientStepKeeps, PTL DEF ClientSpec

(* For any releases, runs of the tool and edits: `current` and every undo  *)
(* lead to complete releases, and an undo restores what the profile began  *)
(* with when the block came into it.                                       *)
THEOREM LayerRecovers == ClientSpec => []LayerIsRecoverable
BY ClientAlways, PTL DEF ClientInv

(* What a run will put back is what it read and the registration.          *)
IsRegistered(r) == r.after = Append(r.before, Registration)

BootInv ==
  /\ BootTypeOK
  /\ \A r \in receipts : IsRegistered(r)
  /\ \A p \in Registrars : does[p] # "idle" => IsRegistered(hands[p])

LEMMA BootInitHolds == BootInit => BootInv
BY BootConstants DEF BootInit, BootInv, BootTypeOK, Profiles, Receipt, Nothing

LEMMA BootStepKeeps == BootInv /\ [BootNext]_bootVars => BootInv'
<1> SUFFICES ASSUME BootInv, [BootNext]_bootVars PROVE BootInv'
  OBVIOUS
<1>a. /\ Nothing \in Receipt
      /\ \A entry \in Entries \cup Inserted :
           Append(profile, entry) \in Profiles /\ <<entry>> \in Profiles
  BY DEF Nothing, Receipt, Profiles, BootInv, BootTypeOK
<1>0. CASE UNCHANGED bootVars
  BY <1>0 DEF bootVars, BootInv, BootTypeOK, IsRegistered
<1>1. ASSUME NEW p \in Registrars, Validates(p) PROVE BootInv'
  <2> DEFINE r == [before |-> profile, after |-> Append(profile, Registration)]
  <2>1. r \in Receipt /\ IsRegistered(r)
    BY <1>a DEF Receipt, IsRegistered, Inserted, BootInv, BootTypeOK
  <2>2. hands' = [hands EXCEPT ![p] = r]
    BY <1>1 DEF Validates
  <2> HIDE DEF r
  <2> QED
    BY <1>1, <2>1, <2>2 DEF Validates, ProceedsTo, BootInv, BootTypeOK
<1>2. ASSUME NEW p \in Registrars, Opens(p) PROVE BootInv'
  BY <1>2 DEF Opens, ProceedsTo, BootInv, BootTypeOK, IsRegistered
<1>3. ASSUME NEW p \in Registrars, Adds(p) PROVE BootInv'
  <2>1. profile' \in Profiles
    BY <1>3, <1>a DEF Adds, WithEntry, Inserted, BootInv, BootTypeOK
  <2>2. CASE ProceedsTo(p, "written") /\ UNCHANGED <<hands, same>>
    BY <1>3, <2>1, <2>2 DEF Adds, ProceedsTo, BootInv, BootTypeOK, IsRegistered
  <2>3. CASE EndsRun(p)
    BY <1>3, <1>a, <2>1, <2>3 DEF Adds, EndsRun, ProceedsTo, BootInv,
      BootTypeOK, IsRegistered
  <2> QED BY <1>3, <2>2, <2>3 DEF Adds
<1>4. ASSUME NEW p \in Registrars, Confirms(p) PROVE BootInv'
  BY <1>4 DEF Confirms, ProceedsTo, BootInv, BootTypeOK, IsRegistered
<1>5. ASSUME NEW p \in Registrars, Records(p) PROVE BootInv'
  BY <1>5, <1>a DEF Records, EndsRun, ProceedsTo, BootInv, BootTypeOK,
    IsRegistered
<1>6. ASSUME NEW p \in Registrars, RunFails(p) PROVE BootInv'
  BY <1>6, <1>a DEF RunFails, EndsRun, ProceedsTo, BootInv, BootTypeOK,
    IsRegistered
<1>7. ASSUME NEW p \in Registrars, NEW receipt \in receipts,
             TakesBack(p, receipt)
      PROVE BootInv'
  BY <1>7 DEF TakesBack, ProceedsTo, BootInv, BootTypeOK, IsRegistered
<1>8. ASSUME NEW p \in Registrars, PutsBack(p) PROVE BootInv'
  <2>1. hands[p].before \in Profiles
    BY DEF BootInv, BootTypeOK, Receipt
  <2> QED BY <1>8, <1>a, <2>1 DEF PutsBack, NoneSame, ProceedsTo, BootInv,
        BootTypeOK, IsRegistered
<1>9. CASE Rewritten
  <2>1. rewrites' \in 0..MaxRewrites
    BY <1>9, BootConstants DEF Rewritten, BootInv, BootTypeOK
  <2>2. profile' \in Profiles
    BY <1>9, <1>a DEF Rewritten
  <2>3. same' \in [Registrars -> BOOLEAN]
    BY <1>9 DEF Rewritten, NoneSame, BootInv, BootTypeOK
  <2> QED BY <1>9, <2>1, <2>2, <2>3 DEF Rewritten, BootInv, BootTypeOK,
        IsRegistered
<1> QED BY <1>0, <1>1, <1>2, <1>3, <1>4, <1>5, <1>6, <1>7, <1>8, <1>9
     DEF BootNext

LEMMA BootAlways == BootSpec => []BootInv
BY BootInitHolds, BootStepKeeps, PTL DEF BootSpec

(* For any registrars and edits: taking a registration back takes that     *)
(* entry away and nothing else.                                            *)
THEOREM OnlyRegistrationGoes == BootSpec => OnlyTheRegistrationGoes
<1> DEFINE Step ==
      \A p \in Registrars :
        does[p] = "undoing" /\ profile' # profile /\ does'[p] = "idle"
          /\ profile = hands[p].after
        => profile = Append(profile', Registration)
<1>1. BootInv /\ [BootNext]_bootVars => [Step]_bootVars
  <2> SUFFICES ASSUME BootInv, BootNext, NEW p \in Registrars,
                      does[p] = "undoing", profile' # profile,
                      does'[p] = "idle", profile = hands[p].after
               PROVE  profile = Append(profile', Registration)
    OBVIOUS
  <2>1. IsRegistered(hands[p])
    BY DEF BootInv
  <2>2. PutsBack(p)
    BY DEF BootNext, Validates, Opens, Adds, Confirms, Records, RunFails,
      TakesBack, PutsBack, Rewritten, ProceedsTo, EndsRun, BootInv, BootTypeOK
  <2> QED BY <2>1, <2>2 DEF PutsBack, IsRegistered
<1> QED BY <1>1, BootAlways, PTL DEF BootSpec, OnlyTheRegistrationGoes

---------------------------------------------------------------------------
(* The signup pool *)

(* Where a run is past its credentials they are there, and folders once    *)
(* there stay.  What counts for a Job that a run has made itself: from its *)
(* first look until the workloads are applied nobody may retire a pair.    *)
ReadyInv ==
  /\ \A o \in Operators : reached[o] \in {"keys", "waiting", "deleting", "documents"} =>
       Credentials \ lacks[o] \subseteq secrets
  /\ \A o \in Operators : reached[o] \in {"waiting", "deleting", "documents"} =>
       lacks[o] = {}
  /\ initJob \in {"running", "complete"} => \A s \in looked : folder[s] # "absent"
  /\ initJob = "complete" => looked = Pairs
  /\ \A o \in Operators : reached[o] \in {"deleting", "documents"} =>
       \A s \in Pairs : folder[s] # "absent"

OwnInv ==
  \A o \in Operators : created[o] =>
    /\ reached[o] \in {"waiting", "deleting", "documents"}
    /\ reached[o] = "waiting" /\ initJob \in {"running", "complete"} =>
         \A s \in looked : IsPrivate(s)
    /\ reached[o] \in {"deleting", "documents"} => \A s \in Pairs : IsPrivate(s)

PoolInv == PoolTypeOK /\ ReadyInv /\ OwnInv /\ PoolIsFresh

LEMMA PoolInitHolds == PoolInit => PoolInv
BY PoolConstants DEF PoolInit, PoolInv, PoolTypeOK, ReadyInv, OwnInv,
  PoolIsFresh

LEMMA ProvidesKeeps ==
  ASSUME PoolInv, NEW o \in Operators, NEW credential \in Credentials,
         reached[o] = "keys", Provides(o, credential)
  PROVE  PoolInv'
<1>1. PoolTypeOK'
  BY DEF PoolInv, PoolTypeOK, Provides
<1>2. /\ \A q \in Operators : lacks[q] \subseteq Credentials
      /\ lacks'[o] = lacks[o] \ {credential}
      /\ \A q \in Operators \ {o} : lacks'[q] = lacks[q]
  BY DEF PoolInv, PoolTypeOK, Provides
<1>3. ReadyInv'
  BY <1>2 DEF PoolInv, Provides, ReadyInv
<1>4. OwnInv' /\ PoolIsFresh'
  BY DEF PoolInv, Provides, OwnInv, PoolIsFresh, IsPrivate
<1> QED BY <1>1, <1>3, <1>4 DEF PoolInv

LEMMA PoolStepKeeps == PoolInv /\ [PoolNext]_poolVars => PoolInv'
<1> SUFFICES ASSUME PoolInv, [PoolNext]_poolVars PROVE PoolInv'
  OBVIOUS
<1>a. PoolTypeOK /\ ReadyInv /\ OwnInv /\ PoolIsFresh
  BY DEF PoolInv
<1>0. CASE UNCHANGED poolVars
  BY <1>0, <1>a DEF poolVars, PoolInv, PoolTypeOK, ReadyInv, OwnInv,
    PoolIsFresh, IsPrivate
<1>1. ASSUME NEW o \in Operators, ListsClaims(o) PROVE PoolInv'
  BY <1>1, <1>a DEF ListsClaims, Reaches, clusterVars, PoolInv, PoolTypeOK,
    ReadyInv, OwnInv, PoolIsFresh, IsPrivate
<1>2. ASSUME NEW o \in Operators, ListsWorkloads(o) PROVE PoolInv'
  BY <1>2, <1>a DEF ListsWorkloads, Reaches, clusterVars, PoolInv, PoolTypeOK,
    ReadyInv, OwnInv, PoolIsFresh, IsPrivate
<1>3. ASSUME NEW o \in Operators, NEW s \in Pairs, ProvidesInference(o, s)
      PROVE PoolInv'
  BY <1>3, ProvidesKeeps DEF ProvidesInference, Credentials
<1>4. ASSUME NEW o \in Operators, NEW s \in Pairs, NEW e \in Environments,
             ProvidesHarness(o, s, e)
      PROVE PoolInv'
  BY <1>4, ProvidesKeeps DEF ProvidesHarness, Credentials
<1>5. ASSUME NEW o \in Operators, AppliesJob(o) PROVE PoolInv'
  <2>1. PoolTypeOK'
    BY <1>5, <1>a DEF AppliesJob, Reaches, PoolTypeOK
  <2>2. ReadyInv'
    BY <1>5, <1>a DEF AppliesJob, Reaches, PoolTypeOK, ReadyInv
  <2>3. OwnInv' /\ PoolIsFresh'
    BY <1>5, <1>a DEF AppliesJob, Reaches, PoolTypeOK, OwnInv, PoolIsFresh,
      IsPrivate
  <2> QED BY <2>1, <2>2, <2>3 DEF PoolInv
<1>6. ASSUME NEW o \in Operators, WaitsForJob(o) PROVE PoolInv'
  BY <1>6, <1>a DEF WaitsForJob, Reaches, clusterVars, PoolInv, PoolTypeOK,
    ReadyInv, OwnInv, PoolIsFresh, IsPrivate
<1>7. ASSUME NEW o \in Operators, DeletesJob(o) PROVE PoolInv'
  BY <1>7, <1>a DEF DeletesJob, Reaches, PoolInv, PoolTypeOK, ReadyInv,
    OwnInv, PoolIsFresh, IsPrivate
<1>8. ASSUME NEW o \in Operators, NEW r \in Runtimes, AppliesClaim(o, r)
      PROVE PoolInv'
  BY <1>8, <1>a DEF AppliesClaim, PoolInv, PoolTypeOK, ReadyInv, OwnInv,
    PoolIsFresh, IsPrivate
<1>9. ASSUME NEW o \in Operators, NEW r \in Runtimes, AppliesWorkload(o, r)
      PROVE PoolInv'
  <2>1. PoolTypeOK' /\ ReadyInv' /\ OwnInv'
    BY <1>9, <1>a DEF AppliesWorkload, PoolTypeOK, ReadyInv, OwnInv, IsPrivate
  <2>2. Credentials \subseteq secrets /\ \A s \in Pairs : folder[s] # "absent"
    BY <1>9, <1>a DEF AppliesWorkload, ReadyInv
  <2>3. r[1] \in Pairs /\ Needs(r) \subseteq Credentials
    BY DEF Runtimes, Credentials, Needs
  <2>4. PoolIsFresh'
    BY <1>9, <1>a, <2>2, <2>3 DEF AppliesWorkload, PoolIsFresh, IsPrivate
  <2> QED BY <2>1, <2>4 DEF PoolInv
<1>10. ASSUME NEW o \in Operators, Concludes(o) PROVE PoolInv'
  BY <1>10, <1>a DEF Concludes, Reaches, clusterVars, PoolInv, PoolTypeOK,
    ReadyInv, OwnInv, PoolIsFresh, IsPrivate
<1>11. ASSUME NEW s \in Pairs, JobLooks(s) PROVE PoolInv'
  <2>1. CASE folder[s] = "used"
    BY <1>11, <1>a, <2>1 DEF JobLooks, PoolInv, PoolTypeOK, ReadyInv, OwnInv,
      PoolIsFresh, IsPrivate
  <2>2. CASE folder[s] # "used"
    <3>1. /\ looked' = looked \cup {s} /\ initJob' = "running"
          /\ initJob = "running" /\ folder'[s] = "empty"
          /\ \A t \in Pairs \ {s} : folder'[t] = folder[t]
          /\ UNCHANGED <<secrets, claims, workloads, reached, lacks, created, retired>>
      BY <1>11, <1>a, <2>2 DEF JobLooks, PoolTypeOK
    <3>2. PoolTypeOK'
      BY <1>11, <1>a, <2>2 DEF JobLooks, PoolTypeOK
    <3>3. ReadyInv' /\ OwnInv'
      BY <1>a, <3>1 DEF PoolTypeOK, ReadyInv, OwnInv, IsPrivate
    <3>4. PoolIsFresh'
      BY <1>a, <3>1 DEF PoolTypeOK, PoolIsFresh, IsPrivate, Runtimes
    <3> QED BY <3>2, <3>3, <3>4 DEF PoolInv
  <2> QED BY <2>1, <2>2
<1>12. CASE JobStops
  BY <1>12, <1>a DEF JobStops, PoolInv, PoolTypeOK, ReadyInv, OwnInv,
    PoolIsFresh, IsPrivate
<1>13. ASSUME NEW s \in Pairs, Fills(s) PROVE PoolInv'
  BY <1>13, <1>a DEF Fills, PoolInv, PoolTypeOK, ReadyInv, OwnInv,
    PoolIsFresh, IsPrivate, Runtimes
<1>14. ASSUME NEW s \in Pairs, Retires(s) PROVE PoolInv'
  <2>1. \A o \in Operators : reached[o] = "idle" /\ ~created[o]
    BY <1>14, <1>a DEF Retires, OwnInv, PoolTypeOK
  <2>2. retired' \in 0..MaxRetired
    BY <1>14, <1>a, PoolConstants DEF Retires, PoolTypeOK
  <2>3. workloads' \subseteq workloads /\ claims' \subseteq claims
    BY <1>14 DEF Retires
  <2> QED BY <1>14, <1>a, <2>1, <2>2, <2>3 DEF Retires, PoolInv, PoolTypeOK,
        ReadyInv, OwnInv, PoolIsFresh
<1> QED
  BY <1>0, <1>1, <1>2, <1>3, <1>4, <1>5, <1>6, <1>7, <1>8, <1>9, <1>10,
    <1>11, <1>12, <1>13, <1>14 DEF PoolNext

LEMMA PoolAlways == PoolSpec => []PoolInv
BY PoolInitHolds, PoolStepKeeps, PTL DEF PoolSpec

(* For any pairs and operators: a runtime has its credentials and its      *)
(* folder, and none that is made after a Job of its own run finds what     *)
(* another has left.                                                       *)
THEOREM PoolStaysFresh == PoolSpec => []PoolIsFresh
BY PoolAlways, PTL DEF PoolInv

---------------------------------------------------------------------------
(* The parts together *)

LEMMA OperationsSteps ==
  [Next]_vars =>
    /\ [AccountsNext]_accountVars /\ [GuardNext]_guardVars
    /\ [PackagesNext]_packageVars /\ [JupyterNext]_jupyterVars
    /\ [ChannelNext]_channelVars /\ [RolloutNext]_rolloutVars
    /\ [CopiesNext]_copyVars /\ [ClientNext]_clientVars
    /\ [BootNext]_bootVars /\ [PoolNext]_poolVars
<1>1. [Next]_vars =>
        /\ [AccountsNext]_accountVars /\ [GuardNext]_guardVars
        /\ [PackagesNext]_packageVars /\ [JupyterNext]_jupyterVars
        /\ [ChannelNext]_channelVars /\ [RolloutNext]_rolloutVars
        /\ [ClientNext]_clientVars /\ [BootNext]_bootVars
        /\ [PoolNext]_poolVars
  BY DEF Next, vars
<1>2. [Next]_vars =>
        \/ PromotionNext /\ UNCHANGED reconcileVars
        \/ ReconcileNext /\ UNCHANGED promotionVars
        \/ UNCHANGED <<promotionVars, reconcileVars>>
  BY DEF Next, vars
<1>3. UNCHANGED <<promotionVars, reconcileVars>> => UNCHANGED copyVars
  BY DEF promotionVars, reconcileVars, copyVars
<1>4. [Next]_vars => [CopiesNext]_copyVars
  BY <1>2, <1>3 DEF CopiesNext
<1> QED BY <1>1, <1>4

(* The instance that TLC checks is a behaviour of each of its parts, so    *)
(* that what holds of a part holds of the instance.                        *)
THEOREM OperationsAreSpecs ==
  Spec => /\ AccountsSpec /\ GuardSpec /\ PackagesSpec /\ JupyterSpec
          /\ ChannelSpec /\ RolloutSpec /\ CopiesSpec
          /\ ClientSpec /\ BootSpec /\ PoolSpec
<1>1. Init => /\ AccountsInit /\ GuardInit /\ PackagesInit /\ JupyterInit
              /\ ChannelInit /\ RolloutInit /\ CopiesInit
              /\ ClientInit /\ BootInit /\ PoolInit
  BY DEF Init
<1> QED BY <1>1, OperationsSteps, PTL DEF Spec, AccountsSpec, GuardSpec,
     PackagesSpec, JupyterSpec, ChannelSpec, RolloutSpec, CopiesSpec, ClientSpec,
     BootSpec, PoolSpec

(* The state of every part stays in its types.                             *)
THEOREM OperationsTypeCorrect == Spec => []OperationsTypeOK
<1>1. RolloutSpec => []RolloutInv
  BY RolloutInitHolds, RolloutStepKeeps, PTL DEF RolloutSpec
<1>2. /\ AccountsInv /\ GuardTypeOK /\ PackagesInv /\ JupyterInv
      /\ ChannelInv /\ RolloutInv /\ CopiesTypeOK
      /\ ClientInv /\ BootInv /\ PoolInv
      => OperationsTypeOK
  BY DEF AccountsInv, PackagesInv, JupyterInv, ChannelInv, FramesTypeOK,
    RolloutInv, ClientInv, BootInv, PoolInv, OperationsTypeOK
<1> QED BY <1>1, <1>2, OperationsAreSpecs, AccountsAlways, GuardTypeCorrect,
     PackagesAlways, JupyterAlways, ChannelAlways, CopiesTypeCorrect,
     ClientAlways, BootAlways, PoolAlways, PTL
=============================================================================
