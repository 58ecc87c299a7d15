--------------------------- MODULE DeliveryProofs ---------------------------
(***************************************************************************)
(* What is delivered is delivered once, for any number of messages, calls, *)
(* senders and dispatchers: the customer's messages to the state machine,  *)
(* notifications to the customer, alerts to the operations team.           *)
(***************************************************************************)
EXTENDS InboundMessages, Notifications, OpsAlerts,
        SequenceTheorems, FiniteSetTheorems, WellFoundedInduction, TLAPS

(* Inbound messages.                                                       *)

\* A call holds its message from the claim to the end of the mark; one that was
\* skipped never did.
Early == {"unused", "claim", "check", "reclaim", "skipped"}
Held == {"lock", "process", "mark", "release"}

\* A call that claimed has a message and its row; a claim is of the call's own message.
Settled(m) == handled[m] > 0 \/ m \in failed
CallsNamed ==
    \A c \in Call :
       /\ IF call[c].pc = "unused" THEN call[c].web = Nobody ELSE call[c].msg \in Message
       /\ call[c].pc \in Held \cup {"check", "reclaim", "skipped", "handled"} => event[call[c].msg].exists
       /\ call[c].pc = "mark" => Settled(call[c].msg)
       /\ \A m \in Message : Owns(c, m) => call[c].pc \notin Early /\ call[c].msg = m

\* Only a claim whose owner is dead, done or slow is taken over.
ClaimsAged == \A m \in Message, c \in Call :
    Owns(c, m) /\ ~event[m].fresh => call[c].pc \notin Running \/ m \in slow
SeenStale == \A c, d \in Call :
    call[c].pc = "reclaim" /\ call[c].old = d =>
       call[d].pc \notin Early /\ (Owns(d, call[c].msg) => ~event[call[c].msg].fresh)
HeldOwned == \A c \in Call : call[c].pc \in Held => Owns(c, call[c].msg) \/ call[c].msg \in slow
HeldUnmarked == \A c \in Call :
    call[c].pc \in Held /\ Owns(c, call[c].msg) => ~event[call[c].msg].processed
ClaimsStale == ClaimsAged /\ SeenStale /\ HeldOwned /\ HeldUnmarked

\* What was handled is marked, or its call is about to.
EffectMarked ==
    \A m \in Message \ (slow \cup torn) :
       /\ handled[m] <= 1
       /\ handled[m] = 1 => event[m].processed \/ \E c \in Call : call[c].pc = "mark" /\ call[c].msg = m

\* Whatever has a row was handled, is in the hands of a call, or is named as lost.
Cared(m) == \/ Settled(m) \/ m \in lost
            \/ \E c \in Call : Owns(c, m) /\ call[c].pc \in Running
RowsCared ==
    /\ \A m \in acked : event[m].exists \/ m \in covered
    /\ \A m \in Message : event[m].exists => Cared(m)
    /\ \A m \in Message : (event[m].processed \/ event[m].owner # Nobody) => event[m].exists
    /\ \A m \in Message : event[m].processed => Settled(m)
    /\ \A m \in Message, c \in Call : Owns(c, m) =>
          /\ call[c].pc = "handled" => Settled(m)
          /\ call[c].pc = "retry" => m \in lost

\* Who runs the state machine has the lock, until it lapses under a call.
LockKept == ~overrun => \A c \in Call : Busy(c) => lock = c

\* What handle_webhook_event keeps together: whose a message is, that it was
\* handled and marked, and who has the customer's lock.
InboundInv ==
    InboundTypeOK /\ CallsNamed /\ ClaimsStale /\ EffectMarked /\ RowsCared /\ LockKept

-----------------------------------------------------------------------------
\* Where a delivery may stand.
CallStage == Running \cup {"unused", "done", "dead"}

CallState == [pc : CallStage, msg : Message \cup {Nobody}, old : Call \cup {Nobody},
              web : Call \cup {Nobody}]

\* Goto moves one call and leaves what the calls deliver; an answer or a death
\* moves the calls of a webhook.
MoveAll(calls, pc) ==
    /\ call' \in [Call -> CallState]
    /\ \A d \in Call : /\ call'[d].msg = call[d].msg /\ call'[d].old = call[d].old
                       /\ call'[d].web = call[d].web
                       /\ call'[d].pc = IF d \in calls THEN pc ELSE call[d].pc
Moves(c, pc) == MoveAll({c}, pc)

LEMMA CallMoves ==
    ASSUME InboundTypeOK, NEW c \in Call, NEW pc \in CallStage, Goto(c, pc)
    PROVE  Moves(c, pc)
  BY DEF InboundTypeOK, Goto, Moves, MoveAll, CallStage, CallState, Running, Ended

LEMMA BatchMoves ==
    ASSUME InboundTypeOK, NEW w \in Call, NEW pc \in CallStage,
           call' = [c \in Call |-> IF c \in Batch(w) THEN [call[c] EXCEPT !.pc = pc] ELSE call[c]]
    PROVE  MoveAll(Batch(w), pc)
  BY DEF InboundTypeOK, Batch, MoveAll, CallStage, CallState, Running, Ended

LEMMA InboundStutter == InboundInv /\ UNCHANGED inboundVars => InboundInv'
  BY DEF InboundInv, inboundVars, InboundTypeOK, CallsNamed, ClaimsStale, ClaimsAged,
         SeenStale, HeldOwned, HeldUnmarked, EffectMarked, RowsCared, Settled, Cared,
         LockKept, Busy, Owns

LEMMA InboundBegins == InboundInit => InboundInv
<1> SUFFICES ASSUME InboundInit
             PROVE  InboundInv
  OBVIOUS
<1>1. /\ \A m \in Message : event[m] = NoRow /\ handled[m] = 0
      /\ \A c \in Call : call[c] = Idle
      /\ acked = {} /\ lock = Nobody
  BY DEF InboundInit
<1>2. InboundTypeOK
  BY DEF InboundInit, InboundTypeOK, NoRow, Idle
<1>3. CallsNamed /\ ClaimsStale
  BY <1>1, CallAssumption DEF NoRow, Idle, CallsNamed, ClaimsStale, ClaimsAged, SeenStale, HeldOwned,
         HeldUnmarked, Owns, Early, Held
<1>4. EffectMarked /\ RowsCared /\ LockKept
  BY <1>1, CallAssumption DEF NoRow, Idle, EffectMarked, RowsCared, Settled, LockKept, Busy, Owns
<1> QED
  BY <1>2, <1>3, <1>4 DEF InboundInv

LEMMA DeliverStep ==
    ASSUME InboundInv, NEW c \in Call, NEW w \in Call, NEW m \in Message, Deliver(c, m, w)
    PROVE  InboundInv'
<1>1. /\ call[c].pc = "unused" /\ UNCHANGED <<event, lock, acked, handled, slow, overrun, lost, torn, failed, covered>>
      /\ \A d \in Call : call'[d] = IF d = c THEN [pc |-> "claim", msg |-> m, old |-> Nobody, web |-> w]
                                    ELSE call[d]
      /\ InboundTypeOK'
  BY DEF Deliver, At, InboundInv, InboundTypeOK, Running, Ended
<1>2. CallsNamed'
  BY <1>1, CallAssumption DEF CallsNamed, Settled, InboundInv, Owns, Early, Held
<1>3. ClaimsStale'
  BY <1>1, CallAssumption DEF CallsNamed, ClaimsStale, ClaimsAged, SeenStale, HeldOwned, HeldUnmarked,
         InboundInv, Owns, Early, Held, Running, Ended
<1>4. EffectMarked'
  BY <1>1 DEF EffectMarked, InboundInv
<1>5. RowsCared'
  BY <1>1 DEF RowsCared, Settled, Cared, CallsNamed, InboundInv, Owns, Early, Held, Running,
         Ended
<1>6. LockKept'
  BY <1>1 DEF LockKept, Busy, InboundInv
<1> QED
  BY <1>1, <1>2, <1>3, <1>4, <1>5, <1>6 DEF InboundInv

\* A call takes a row that nobody holds, or nobody that is fast enough.
LEMMA ClaimWon ==
    ASSUME InboundInv, NEW c \in Call, call[c].pc \in {"claim", "reclaim"}, Goto(c, "lock"),
           event' = [event EXCEPT ![call[c].msg] = Claimed(c)],
           \/ ~event[call[c].msg].exists
           \/ /\ call[c].pc = "reclaim" /\ ~event[call[c].msg].processed
              /\ event[call[c].msg].owner = call[c].old,
           UNCHANGED <<lock, acked, handled, slow, overrun, lost, torn, failed, covered>>
    PROVE  InboundInv'
<1> DEFINE m == call[c].msg
<1>1. m \in Message /\ ~event[m].processed /\ call[c].pc \in Early
  BY DEF InboundInv, CallsNamed, RowsCared, Settled, Early
<1>2. Moves(c, "lock")
  BY CallMoves DEF InboundInv, CallStage, Running, Ended, CallState
<1>3. \A n \in Message : event'[n] = IF n = m THEN Claimed(c) ELSE event[n]
  BY <1>1 DEF InboundInv, InboundTypeOK
<1>4. InboundTypeOK'
  BY <1>1, <1>2 DEF InboundInv, InboundTypeOK, Claimed, Moves, MoveAll, CallStage, CallState
<1>5. \A d \in Call : Owns(d, m) => call[d].pc \notin Held \/ m \in slow
  BY <1>1 DEF InboundInv, CallsNamed, ClaimsStale, ClaimsAged, SeenStale, Owns, RowsCared,
         Settled, Held, Running, Ended
<1>6. CallsNamed'
  BY <1>1, <1>2, <1>3 DEF InboundInv, CallsNamed, Settled, Owns, Early, Held, Claimed, Moves, MoveAll
<1>7. ClaimsStale'
  <2>1. ClaimsAged'
    BY <1>1, <1>2, <1>3 DEF InboundInv, CallsNamed, ClaimsStale, ClaimsAged, Owns, Claimed, Early, Moves,
         MoveAll, Running, Ended
  <2>2. SeenStale'
    BY <1>1, <1>2, <1>3 DEF InboundInv, CallsNamed, ClaimsStale, SeenStale, Owns, Claimed, Early, Moves,
         MoveAll
  <2>3. HeldOwned' /\ HeldUnmarked'
    BY <1>1, <1>2, <1>3, <1>5 DEF InboundInv, CallsNamed, ClaimsStale, HeldOwned, HeldUnmarked, Owns, Claimed,
         Held, Moves, MoveAll
  <2> QED
    BY <2>1, <2>2, <2>3 DEF ClaimsStale
<1>8. EffectMarked'
  BY <1>1, <1>2, <1>3 DEF InboundInv, EffectMarked, Moves, MoveAll
<1>9. RowsCared'
  BY <1>1, <1>2, <1>3, CallAssumption
  DEF InboundInv, CallsNamed, RowsCared, Settled, Cared, Owns, Claimed, Moves, MoveAll,
         Early, Running, Ended
<1>10. LockKept'
  BY <1>2 DEF InboundInv, LockKept, Busy, Moves, MoveAll
<1> QED
  BY <1>4, <1>6, <1>7, <1>8, <1>9, <1>10 DEF InboundInv

\* A call that holds no row moves on.
LEMMA IdleMoves ==
    ASSUME InboundInv, NEW c \in Call, call[c].pc \in Early, call[c].pc # "unused",
           NEW pc \in {"check", "reclaim", "skipped", "retry"},
           InboundTypeOK',
           \A d \in Call : /\ call'[d].msg = call[d].msg
                           /\ d # c => call'[d] = call[d],
           call'[c].pc = pc, pc # "retry" => event[call[c].msg].exists,
           pc = "reclaim" => /\ call'[c].old = event[call[c].msg].owner
                             /\ \/ ~event[call[c].msg].fresh
                                \/ event[call[c].msg].owner = Nobody,
           UNCHANGED <<event, lock, acked, handled, slow, overrun, lost, torn, failed, covered>>
    PROVE  InboundInv'
<1>1. CallsNamed'
  BY DEF InboundInv, CallsNamed, Settled, Owns, Early, Held
<1>2. ClaimsStale'
  <2>1. ClaimsAged'
    BY CallAssumption DEF InboundInv, CallsNamed, ClaimsStale, ClaimsAged, Owns, Early, Running, Ended
  <2>2. SeenStale'
    BY CallAssumption DEF InboundInv, CallsNamed, ClaimsStale, SeenStale, Owns, Early
  <2>3. HeldOwned' /\ HeldUnmarked'
    BY CallAssumption DEF InboundInv, CallsNamed, ClaimsStale, HeldOwned, HeldUnmarked, Owns, Held
  <2> QED
    BY <2>1, <2>2, <2>3 DEF ClaimsStale
<1>3. EffectMarked'
  BY DEF InboundInv, EffectMarked, Early
<1>4. RowsCared'
  BY DEF InboundInv, CallsNamed, RowsCared, Settled, Cared, Owns, Early, Running, Ended
<1>5. LockKept'
  BY DEF InboundInv, LockKept, Busy
<1> QED
  BY <1>1, <1>2, <1>3, <1>4, <1>5 DEF InboundInv

LEMMA ClaimSteps ==
    ASSUME InboundInv, NEW c \in Call, Claim(c) \/ Check(c) \/ Reclaim(c)
    PROVE  InboundInv'
<1> DEFINE m == call[c].msg
<1>1. /\ m \in Message /\ call[c].pc \in {"claim", "check", "reclaim"}
      /\ UNCHANGED <<lock, acked, handled, slow, overrun, lost, torn, failed, covered>>
  BY DEF Claim, Check, Reclaim, At, InboundInv, CallsNamed
<1>2. ASSUME Goto(c, "lock"), event' = [event EXCEPT ![m] = Claimed(c)],
             \/ ~event[m].exists /\ call[c].pc = "claim"
             \/ /\ call[c].pc = "reclaim" /\ ~event[m].processed
                /\ event[m].owner = call[c].old
      PROVE  InboundInv'
  BY <1>1, <1>2, ClaimWon
<1>3. ASSUME UNCHANGED event, NEW pc \in {"check", "skipped", "retry"}, Goto(c, pc),
             pc # "retry" => event[m].exists
      PROVE  InboundInv'
  <2>1. Moves(c, pc)
    BY <1>3, CallMoves DEF InboundInv, CallStage, Running, Ended, CallState
  <2>2. InboundTypeOK' /\ \A d \in Call : call'[d].msg = call[d].msg /\ (d # c => call'[d] = call[d])
    BY <1>1, <1>3, <2>1 DEF InboundInv, InboundTypeOK, Goto, Moves, MoveAll, CallStage, CallState
  <2>3. call'[c].pc = pc
    BY <2>1 DEF Moves, MoveAll
  <2> QED
    BY <1>1, <1>3, <2>2, <2>3, IdleMoves DEF Early
<1>4. CASE Claim(c)
  <2> call[c].pc = "claim"
    BY <1>4 DEF Claim, At
  <2>1. \/ ~event[m].exists /\ event' = [event EXCEPT ![m] = Claimed(c)] /\ Goto(c, "lock")
        \/ event[m].exists /\ Goto(c, "check") /\ UNCHANGED event
        \/ Goto(c, "retry") /\ UNCHANGED event
    BY <1>4 DEF Claim
  <2> QED
    BY <1>2, <1>3, <2>1
<1>5. CASE Check(c)
  <2>1. event[m].exists /\ call[c].pc = "check" /\ UNCHANGED event
    BY <1>5 DEF Check, At, InboundInv, CallsNamed
  <2>2. CASE Goto(c, "skipped")
    BY <1>3, <2>1, <2>2
  <2>3. CASE /\ ~(event[m].processed \/ (event[m].fresh /\ event[m].owner # Nobody))
             /\ call' = [call EXCEPT ![c].pc = "reclaim", ![c].old = event[m].owner]
    <3> DEFINE seen == [call[c] EXCEPT !.pc = "reclaim", !.old = event[m].owner]
    <3>3. call' = [call EXCEPT ![c] = seen]
      BY <2>3
    <3>4. seen \in CallState
      BY <1>1 DEF InboundInv, InboundTypeOK, CallStage, Running, Ended, CallState
    <3>1. InboundTypeOK'
      <4> HIDE DEF seen
      <4> QED
        BY <1>1, <2>1, <3>3, <3>4 DEF InboundInv, InboundTypeOK, CallStage, CallState
    <3>2. /\ \A d \in Call : call'[d].msg = call[d].msg /\ (d # c => call'[d] = call[d])
          /\ call'[c].pc = "reclaim" /\ call'[c].old = event[m].owner
          /\ ~event[m].fresh \/ event[m].owner = Nobody
      BY <1>1, <2>1, <2>3 DEF InboundInv, InboundTypeOK
    <3> QED
      BY <1>1, <2>1, <3>1, <3>2, IdleMoves DEF Early
  <2> QED
    BY <1>5, <2>2, <2>3 DEF Check
<1>6. CASE Reclaim(c)
  <2>1. event[m].exists /\ call[c].pc = "reclaim"
    BY <1>6 DEF Reclaim, At, InboundInv, CallsNamed
  <2> QED
    BY <1>2, <1>3, <1>6, <2>1 DEF Reclaim
<1> QED
  BY <1>4, <1>5, <1>6

LEMMA AcquireStep ==
    ASSUME InboundInv, NEW c \in Call, Acquire(c)
    PROVE  InboundInv'
<1> DEFINE m == call[c].msg
           next == IF lock = Nobody THEN "process" ELSE "release"
<1>1. /\ m \in Message /\ call[c].pc = "lock" /\ call[c].pc \in Held
      /\ UNCHANGED <<event, acked, handled, slow, overrun, lost, torn, failed, covered>>
      /\ lock' = IF lock = Nobody THEN c ELSE lock
      /\ Goto(c, next) /\ next \in Held
  BY DEF Acquire, At, InboundInv, CallsNamed, Held
<1>2. next \in {"process", "release"}
  OBVIOUS
<1>3. Moves(c, next)
  BY <1>1, <1>2, CallMoves DEF InboundInv, CallStage, Running, Ended, CallState
<1>4. LockKept'
  BY <1>1, <1>3, CallAssumption DEF InboundInv, LockKept, Busy, Moves, MoveAll
<1> HIDE DEF next
<1>5. InboundTypeOK'
  BY <1>1, <1>3 DEF InboundInv, InboundTypeOK, Moves, MoveAll, CallStage, CallState
<1>6. CallsNamed'
  BY <1>1, <1>2, <1>3 DEF InboundInv, CallsNamed, Settled, Owns, Early, Held, Moves, MoveAll
<1>7. ClaimsStale'
  <2>1. ClaimsAged'
    BY <1>1, <1>2, <1>3 DEF InboundInv, CallsNamed, ClaimsStale, ClaimsAged, Owns, Early, Moves, MoveAll,
         Running, Ended
  <2>2. SeenStale'
    BY <1>1, <1>2, <1>3 DEF InboundInv, CallsNamed, ClaimsStale, SeenStale, Owns, Early, Moves, MoveAll
  <2>3. HeldOwned' /\ HeldUnmarked'
    BY <1>1, <1>2, <1>3 DEF InboundInv, CallsNamed, ClaimsStale, HeldOwned, HeldUnmarked, Owns, Held, Moves,
         MoveAll
  <2> QED
    BY <2>1, <2>2, <2>3 DEF ClaimsStale
<1>8. EffectMarked'
  BY <1>1, <1>2, <1>3 DEF InboundInv, EffectMarked, Moves, MoveAll
<1>9. RowsCared'
  BY <1>1, <1>2, <1>3 DEF InboundInv, RowsCared, Settled, Cared, Owns, Moves, MoveAll, Running, Ended
<1> QED
  BY <1>4, <1>5, <1>6, <1>7, <1>8, <1>9 DEF InboundInv

LEMMA ReleaseStep ==
    ASSUME InboundInv, NEW c \in Call, Release(c)
    PROVE  InboundInv'
<1> DEFINE m == call[c].msg
<1>1. /\ m \in Message /\ call[c].pc = "release" /\ Goto(c, "retry")
      /\ UNCHANGED <<lock, acked, handled, slow, overrun, torn, failed, covered>> /\ lost' = lost \cup {m}
      /\ \/ /\ Owns(c, m) /\ ~event[m].processed
            /\ event' = [event EXCEPT ![m].owner = Nobody, ![m].fresh = FALSE]
         \/ UNCHANGED event
  BY DEF Release, At, InboundInv, CallsNamed, Held
<1>2. Moves(c, "retry")
  BY <1>1, CallMoves DEF InboundInv, CallStage, Running, Ended, CallState
<1>3. /\ \A n \in Message : n # m => event'[n] = event[n]
      /\ event'[m].exists = event[m].exists /\ event'[m].processed = event[m].processed
      /\ \/ event'[m] = event[m]
         \/ Owns(c, m) /\ event'[m].owner = Nobody /\ ~event'[m].fresh
      /\ event' \in [Message -> [exists : BOOLEAN, owner : Call \cup {Nobody},
                                 fresh : BOOLEAN, processed : BOOLEAN]]
  <2>1. event \in [Message -> [exists : BOOLEAN, owner : Call \cup {Nobody},
                               fresh : BOOLEAN, processed : BOOLEAN]]
    BY DEF InboundInv, InboundTypeOK
  <2>2. CASE UNCHANGED event
    BY <2>1, <2>2
  <2>3. CASE /\ Owns(c, m) /\ ~event[m].processed
             /\ event' = [event EXCEPT ![m].owner = Nobody, ![m].fresh = FALSE]
    <3>1. /\ \A n \in Message : n # m => event'[n] = event[n]
          /\ event'[m] = [event[m] EXCEPT !.owner = Nobody, !.fresh = FALSE]
          /\ event' \in [Message -> [exists : BOOLEAN, owner : Call \cup {Nobody},
                                     fresh : BOOLEAN, processed : BOOLEAN]]
      BY <1>1, <2>1, <2>3
    <3> QED
      BY <1>1, <2>1, <2>3, <3>1
  <2> QED
    BY <1>1, <2>2, <2>3
<1>4. InboundTypeOK'
  BY <1>1, <1>2, <1>3 DEF InboundInv, InboundTypeOK, Moves, MoveAll, CallStage, CallState
<1>5. CallsNamed'
  <2>1. \A d \in Call, n \in Message : Owns(d, n)' => Owns(d, n)
    BY <1>1, <1>3, CallAssumption DEF Owns
  <2>2. \A d \in Call, n \in Message : Owns(d, n)' => call'[d].pc \notin Early /\ call'[d].msg = n
    BY <1>1, <1>2, <2>1 DEF InboundInv, CallsNamed, Early, Moves, MoveAll
  <2>3. \A n \in Message : event'[n].exists = event[n].exists
    BY <1>3
  <2> QED
    BY <1>1, <1>2, <2>2, <2>3 DEF InboundInv, CallsNamed, Settled, Held, Moves, MoveAll
<1>6. ClaimsStale'
  <2>1. ClaimsAged'
    BY <1>1, <1>2, <1>3, CallAssumption DEF InboundInv, CallsNamed, ClaimsStale, ClaimsAged, Owns, Early, Moves, MoveAll,
         Running, Ended
  <2>2. SeenStale'
    BY <1>1, <1>2, <1>3, CallAssumption DEF InboundInv, CallsNamed, ClaimsStale, SeenStale, Owns, Early, Moves, MoveAll
  <2>3. HeldOwned'
    BY <1>1, <1>2, <1>3, CallAssumption DEF InboundInv, CallsNamed, ClaimsStale, HeldOwned, Owns, Held, Moves, MoveAll
  <2>4. HeldUnmarked'
    BY <1>1, <1>2, <1>3, CallAssumption DEF InboundInv, CallsNamed, ClaimsStale, HeldUnmarked, Owns, Held, Moves, MoveAll
  <2> QED
    BY <2>1, <2>2, <2>3, <2>4 DEF ClaimsStale
<1>7. EffectMarked'
  BY <1>1, <1>2, <1>3 DEF InboundInv, EffectMarked, Moves, MoveAll
<1>8. RowsCared'
  <2>1. (\A n \in Message : event[n].exists => Cared(n))'
    BY <1>1, <1>2, <1>3, CallAssumption DEF InboundInv, CallsNamed, RowsCared, Settled, Cared, Owns, Moves, MoveAll, Running,
         Ended
  <2>2. (\A n \in Message, d \in Call : Owns(d, n) =>
            /\ call[d].pc = "handled" => Settled(n)
            /\ call[d].pc = "retry" => n \in lost)'
    BY <1>1, <1>2, <1>3, CallAssumption DEF InboundInv, CallsNamed, RowsCared, Settled, Owns, Moves, MoveAll
  <2> QED
    BY <1>1, <1>3, <2>1, <2>2, CallAssumption DEF InboundInv, InboundTypeOK, RowsCared, Settled
<1>9. LockKept'
  BY <1>1, <1>2 DEF InboundInv, LockKept, Busy, Moves, MoveAll
<1> QED
  BY <1>4, <1>5, <1>6, <1>7, <1>8, <1>9 DEF InboundInv

LEMMA ProcessStep ==
    ASSUME InboundInv, NEW c \in Call, Process(c)
    PROVE  InboundInv'
<1> DEFINE m == call[c].msg
<1>1. /\ m \in Message /\ call[c].pc = "process" /\ Goto(c, "mark")
      /\ UNCHANGED <<event, lock, acked, slow, overrun, lost, torn, covered>>
      /\ \A n \in Message : /\ handled[n] \in Nat /\ (n # m => handled'[n] = handled[n])
                            /\ (Settled(n) => Settled(n)')
      /\ handled'[m] \in {handled[m], handled[m] + 1} /\ (handled'[m] > 0 \/ m \in failed')
      /\ handled' \in [Message -> Nat] /\ failed' \subseteq Message
  <2>1. m \in Message /\ call[c].pc = "process" /\ handled \in [Message -> Nat] /\ failed \subseteq Message
    BY DEF Process, At, InboundInv, InboundTypeOK, CallsNamed, Held
  <2>2. /\ Goto(c, "mark") /\ UNCHANGED <<event, lock, acked, slow, overrun, lost, torn, covered>>
        /\ \/ handled' = [handled EXCEPT ![m] = @ + 1] /\ UNCHANGED failed
           \/ failed' = failed \cup {m} /\ UNCHANGED handled
    BY DEF Process
  <2>3. CASE handled' = [handled EXCEPT ![m] = @ + 1] /\ UNCHANGED failed
    <3>1. /\ handled'[m] = handled[m] + 1 /\ \A n \in Message : n # m => handled'[n] = handled[n]
          /\ handled' \in [Message -> Nat] /\ \A n \in Message : handled[n] \in Nat
      BY <2>1, <2>3
    <3> QED
      BY <2>1, <2>2, <2>3, <3>1 DEF Settled
  <2>4. CASE failed' = failed \cup {m} /\ UNCHANGED handled
    BY <2>1, <2>2, <2>4 DEF Settled
  <2> QED
    BY <2>2, <2>3, <2>4
<1>2. Moves(c, "mark")
  BY <1>1, CallMoves DEF InboundInv, CallStage, Running, Ended, CallState
<1>3. InboundTypeOK'
  BY <1>1, <1>2 DEF InboundInv, InboundTypeOK, Moves, MoveAll, CallStage, CallState
<1>4. CallsNamed'
  BY <1>1, <1>2 DEF InboundInv, CallsNamed, Settled, Owns, Early, Held, Moves, MoveAll
<1>5. ClaimsStale'
  <2>1. ClaimsAged'
    BY <1>1, <1>2 DEF InboundInv, CallsNamed, ClaimsStale, ClaimsAged, Owns, Early, Moves, MoveAll,
         Running, Ended
  <2>2. SeenStale'
    BY <1>1, <1>2 DEF InboundInv, CallsNamed, ClaimsStale, SeenStale, Owns, Early, Moves, MoveAll
  <2>3. HeldOwned' /\ HeldUnmarked'
    BY <1>1, <1>2 DEF InboundInv, CallsNamed, ClaimsStale, HeldOwned, HeldUnmarked, Owns, Held, Moves,
         MoveAll
  <2> QED
    BY <2>1, <2>2, <2>3 DEF ClaimsStale
<1>6. EffectMarked'
  <2>1. m \in slow \/ m \in torn \/ handled[m] = 0
    BY <1>1 DEF InboundInv, CallsNamed, ClaimsStale, HeldOwned, HeldUnmarked, EffectMarked, Owns,
         Held
  <2> QED
    BY <1>1, <1>2, <2>1 DEF InboundInv, EffectMarked, Moves, MoveAll
<1>7. RowsCared'
  BY <1>1, <1>2 DEF InboundInv, RowsCared, Settled, Cared, Owns, Moves, MoveAll, Running, Ended
<1>8. LockKept'
  BY <1>1, <1>2 DEF InboundInv, LockKept, Busy, Moves, MoveAll
<1> QED
  BY <1>3, <1>4, <1>5, <1>6, <1>7, <1>8 DEF InboundInv

LEMMA MarkStep ==
    ASSUME InboundInv, NEW c \in Call, Mark(c)
    PROVE  InboundInv'
<1> DEFINE m == call[c].msg
<1>1. /\ m \in Message /\ call[c].pc = "mark" /\ Goto(c, "handled")
      /\ UNCHANGED <<acked, handled, slow, overrun, lost, failed, covered>> /\ lock' = IF lock = c THEN Nobody ELSE lock
      /\ \/ Owns(c, m) /\ event' = [event EXCEPT ![m].processed = TRUE] /\ UNCHANGED torn
         \/ ~Owns(c, m) /\ UNCHANGED <<event, torn>>
         \/ torn' = torn \cup {m} /\ UNCHANGED event
  BY DEF Mark, At, InboundInv, CallsNamed, Held
<1>2. Moves(c, "handled")
  BY <1>1, CallMoves DEF InboundInv, CallStage, Running, Ended, CallState
<1>3. /\ \A n \in Message : /\ n # m => event'[n] = event[n]
                            /\ event'[n].owner = event[n].owner /\ event'[n].fresh = event[n].fresh
                            /\ event'[n].exists = event[n].exists
      /\ event'[m] = event[m] \/ (Owns(c, m) /\ event'[m].processed)
      /\ event' \in [Message -> [exists : BOOLEAN, owner : Call \cup {Nobody},
                                 fresh : BOOLEAN, processed : BOOLEAN]]
      /\ torn \subseteq torn' /\ torn' \subseteq Message
      /\ m \in slow' \cup torn' \/ event'[m].processed
  <2>1. m \in slow \/ Owns(c, m)
    BY <1>1 DEF InboundInv, ClaimsStale, HeldOwned, Held
  <2>2. event \in [Message -> [exists : BOOLEAN, owner : Call \cup {Nobody},
                               fresh : BOOLEAN, processed : BOOLEAN]] /\ torn \subseteq Message
    BY DEF InboundInv, InboundTypeOK
  <2>3. CASE Owns(c, m) /\ event' = [event EXCEPT ![m].processed = TRUE] /\ UNCHANGED torn
    <3>1. /\ \A n \in Message : n # m => event'[n] = event[n]
          /\ event'[m] = [event[m] EXCEPT !.processed = TRUE]
      BY <1>1, <2>2, <2>3
    <3>2. /\ \A n \in Message : /\ event'[n].owner = event[n].owner
                                /\ event'[n].fresh = event[n].fresh /\ event'[n].exists = event[n].exists
          /\ event'[m].processed
      BY <1>1, <2>2, <3>1
    <3>3. event' \in [Message -> [exists : BOOLEAN, owner : Call \cup {Nobody},
                                  fresh : BOOLEAN, processed : BOOLEAN]]
      BY <1>1, <2>2, <2>3
    <3> QED
      BY <2>2, <2>3, <3>1, <3>2, <3>3
  <2>4. CASE UNCHANGED event
    BY <1>1, <2>1, <2>2, <2>4
  <2> QED
    BY <1>1, <2>3, <2>4
<1>4. InboundTypeOK'
  BY <1>1, <1>2, <1>3 DEF InboundInv, InboundTypeOK, Moves, MoveAll, CallStage, CallState
<1>5. CallsNamed'
  BY <1>1, <1>2, <1>3 DEF InboundInv, CallsNamed, Settled, Owns, Early, Held, Moves, MoveAll
<1>6. ClaimsStale'
  <2>1. ClaimsAged'
    BY <1>1, <1>2, <1>3, CallAssumption DEF InboundInv, CallsNamed, ClaimsStale, ClaimsAged, Owns, Early, Moves, MoveAll,
         Running, Ended
  <2>2. SeenStale'
    BY <1>1, <1>2, <1>3, CallAssumption DEF InboundInv, CallsNamed, ClaimsStale, SeenStale, Owns, Early, Moves, MoveAll
  <2>3. HeldOwned' /\ HeldUnmarked'
    BY <1>1, <1>2, <1>3, CallAssumption DEF InboundInv, CallsNamed, ClaimsStale, HeldOwned, HeldUnmarked, Owns, Held, Moves,
         MoveAll
  <2> QED
    BY <2>1, <2>2, <2>3 DEF ClaimsStale
<1>7. EffectMarked'
  BY <1>1, <1>2, <1>3 DEF InboundInv, EffectMarked, Moves, MoveAll
<1>8. RowsCared'
  <2>1. (\A n \in Message : event[n].exists => Cared(n))'
    BY <1>1, <1>2, <1>3 DEF InboundInv, CallsNamed, RowsCared, Settled, Cared, Owns, Moves, MoveAll, Running,
         Ended
  <2>2. (\A n \in Message, d \in Call : Owns(d, n) =>
            /\ call[d].pc = "handled" => Settled(n)
            /\ call[d].pc = "retry" => n \in lost)'
    BY <1>1, <1>2, <1>3 DEF InboundInv, CallsNamed, RowsCared, Settled, Owns, Moves, MoveAll
  <2>3. Settled(m) /\ event[m].exists
    BY <1>1 DEF InboundInv, CallsNamed, Held
  <2> QED
    BY <1>1, <1>3, <2>1, <2>2, <2>3 DEF InboundInv, InboundTypeOK, RowsCared, Settled
<1>9. LockKept'
  BY <1>1, <1>2 DEF InboundInv, LockKept, Busy, Moves, MoveAll
<1> QED
  BY <1>4, <1>5, <1>6, <1>7, <1>8, <1>9 DEF InboundInv

LEMMA AnswerStep ==
    ASSUME InboundInv, NEW w \in Call, Answer(w)
    PROVE  InboundInv'
<1>1. /\ \A c \in Batch(w) : c \in Call /\ call[c].msg \in Message /\ call[c].pc \in Ended
      /\ UNCHANGED <<event, lock, handled, slow, overrun, lost, torn, failed>>
      /\ covered \subseteq covered' /\ covered' \subseteq Message /\ acked' \subseteq Message
      /\ \A m \in acked' : \/ m \in acked \cup covered'
                           \/ \E c \in Batch(w) : call[c].msg = m /\ call[c].pc \in {"skipped", "handled"}
  <2>1. \A c \in Batch(w) : c \in Call /\ call[c].msg \in Message /\ call[c].pc \in Ended
    BY DEF Answer, Finish, Batch, InboundInv, CallsNamed, Ended
  <2>2. UNCHANGED <<event, lock, handled, slow, overrun, lost, torn, failed>>
    BY DEF Answer, Finish
  <2>3. acked \subseteq Message /\ covered \subseteq Message
    BY DEF InboundInv, InboundTypeOK
  <2>4. CASE UNCHANGED <<acked, covered>>
    BY <2>1, <2>2, <2>3, <2>4
  <2>5. CASE acked' = acked \cup Mates(w, Ended) /\ covered' = covered \cup Mates(w, {"retry"})
    <3>1. \A m \in Mates(w, Ended) : \E c \in Batch(w) : call[c].msg = m /\ call[c].pc \in Ended
      BY DEF Mates
    <3>2. \A c \in Batch(w) : call[c].pc = "retry" => call[c].msg \in Mates(w, {"retry"})
      BY DEF Mates
    <3>3. Mates(w, {"retry"}) \subseteq Message
      BY <2>1 DEF Mates
    <3> QED
      BY <2>1, <2>2, <2>3, <2>5, <3>1, <3>2, <3>3 DEF Ended
  <2> QED
    BY <2>4, <2>5 DEF Answer
<1>2. MoveAll(Batch(w), "done")
  BY BatchMoves DEF Answer, Finish, InboundInv, CallStage, CallState
<1>3. InboundTypeOK'
  BY <1>1, <1>2 DEF InboundInv, InboundTypeOK, MoveAll, CallStage, CallState
<1>4. CallsNamed'
  BY <1>1, <1>2 DEF InboundInv, CallsNamed, Settled, Owns, Early, Held, MoveAll
<1>5. ClaimsStale'
  <2>1. ClaimsAged'
    BY <1>1, <1>2 DEF InboundInv, CallsNamed, ClaimsStale, ClaimsAged, Owns, Early, MoveAll, Running,
         Ended
  <2>2. SeenStale'
    BY <1>1, <1>2 DEF InboundInv, CallsNamed, ClaimsStale, SeenStale, Owns, Early, MoveAll
  <2>3. HeldOwned' /\ HeldUnmarked'
    BY <1>1, <1>2 DEF InboundInv, CallsNamed, ClaimsStale, HeldOwned, HeldUnmarked, Owns, Held, MoveAll
  <2> QED
    BY <2>1, <2>2, <2>3 DEF ClaimsStale
<1>6. EffectMarked'
  BY <1>1, <1>2 DEF InboundInv, EffectMarked, MoveAll, Ended
<1>7. RowsCared'
  <2>1. \A m \in acked' : event'[m].exists \/ m \in covered'
    BY <1>1 DEF InboundInv, RowsCared, CallsNamed
  <2>2. \A m \in Message, c \in Batch(w) : Owns(c, m) => Settled(m) \/ m \in lost
    BY <1>1 DEF InboundInv, RowsCared, CallsNamed, Early, Ended
  <2>3. \A m \in Message : event[m].exists => Cared(m)'
    BY <1>1, <1>2, <2>2 DEF InboundInv, RowsCared, Cared, Settled, Owns, MoveAll
  <2>4. \A m \in Message, c \in Call : Owns(c, m) =>
           /\ call'[c].pc = "handled" => Settled(m)
           /\ call'[c].pc = "retry" => m \in lost
    BY <1>1, <1>2 DEF InboundInv, RowsCared, MoveAll
  <2> QED
    BY <1>1, <2>1, <2>3, <2>4 DEF InboundInv, RowsCared, Settled, Owns
<1>8. LockKept'
  BY <1>1, <1>2 DEF InboundInv, LockKept, Busy, MoveAll
<1> QED
  BY <1>3, <1>4, <1>5, <1>6, <1>7, <1>8 DEF InboundInv

LEMMA DieStep ==
    ASSUME InboundInv, NEW w \in Call, Die(w)
    PROVE  InboundInv'
<1>1. /\ \A c \in Batch(w) : c \in Call /\ call[c].msg \in Message
      /\ UNCHANGED <<event, lock, acked, handled, slow, overrun, failed, covered>>
      /\ lost \subseteq lost' /\ lost' \subseteq Message /\ torn \subseteq torn' /\ torn' \subseteq Message
      /\ \A c \in Batch(w) : /\ \A m \in Message : Owns(c, m) => m \in lost'
                             /\ call[c].pc = "mark" => call[c].msg \in torn'
  <2>1. \A c \in Batch(w) : c \in Call /\ call[c].msg \in Message
    BY CallAssumption DEF Batch, InboundInv, InboundTypeOK, CallsNamed
  <2>2. /\ UNCHANGED <<event, lock, acked, handled, slow, overrun, failed, covered>>
        /\ lost' = lost \cup {m \in Message : \E c \in Batch(w) : Owns(c, m)}
        /\ torn' = torn \cup Mates(w, {"mark"}) /\ lost \subseteq Message /\ torn \subseteq Message
    BY DEF Die, InboundInv, InboundTypeOK
  <2> QED
    BY <2>1, <2>2 DEF Mates
<1>2. MoveAll(Batch(w), "dead")
  BY BatchMoves DEF Die, InboundInv, CallStage, CallState
<1>3. InboundTypeOK'
  BY <1>1, <1>2 DEF InboundInv, InboundTypeOK, MoveAll, CallStage, CallState
<1>4. CallsNamed'
  BY <1>1, <1>2 DEF InboundInv, CallsNamed, Settled, Owns, Early, Held, MoveAll
<1>5. ClaimsStale'
  <2>1. ClaimsAged'
    BY <1>1, <1>2 DEF InboundInv, CallsNamed, ClaimsStale, ClaimsAged, Owns, Early, MoveAll, Running,
         Ended
  <2>2. SeenStale'
    BY <1>1, <1>2 DEF InboundInv, CallsNamed, ClaimsStale, SeenStale, Owns, Early, MoveAll
  <2>3. HeldOwned' /\ HeldUnmarked'
    BY <1>1, <1>2 DEF InboundInv, CallsNamed, ClaimsStale, HeldOwned, HeldUnmarked, Owns, Held, MoveAll
  <2> QED
    BY <2>1, <2>2, <2>3 DEF ClaimsStale
<1>6. EffectMarked'
  BY <1>1, <1>2 DEF InboundInv, EffectMarked, MoveAll
<1>7. RowsCared'
  BY <1>1, <1>2 DEF InboundInv, CallsNamed, RowsCared, Settled, Cared, Owns, MoveAll, Running, Ended
<1>8. LockKept'
  BY <1>1, <1>2 DEF InboundInv, LockKept, Busy, MoveAll
<1> QED
  BY <1>3, <1>4, <1>5, <1>6, <1>7, <1>8 DEF InboundInv

LEMMA TimePasses ==
    ASSUME InboundInv, LockLapses \/ \E m \in Message : ClaimAges(m)
    PROVE  InboundInv'
<1>1. CASE LockLapses
  <2>1. /\ lock # Nobody /\ overrun' = (overrun \/ call[lock].pc \in Running) /\ lock' = Nobody
        /\ UNCHANGED <<event, call, acked, handled, slow, lost, torn, failed, covered>> /\ lock \in Call
    BY <1>1 DEF LockLapses, InboundInv, InboundTypeOK
  <2>2. LockKept'
    BY <2>1 DEF InboundInv, LockKept, Busy, Running, Ended
  <2>3. InboundTypeOK'
    BY <2>1 DEF InboundInv, InboundTypeOK
  <2>4. CallsNamed' /\ ClaimsStale' /\ EffectMarked' /\ RowsCared'
    BY <2>1 DEF InboundInv, CallsNamed, ClaimsStale, ClaimsAged, SeenStale, HeldOwned,
         HeldUnmarked, EffectMarked, RowsCared, Settled, Cared, Owns
  <2> QED
    BY <2>2, <2>3, <2>4 DEF InboundInv
<1>2. ASSUME NEW m \in Message, ClaimAges(m)
      PROVE  InboundInv'
  <2>1. /\ event' = [event EXCEPT ![m].fresh = FALSE]
        /\ slow' = IF \E c \in Call : Owns(c, m) /\ call[c].pc \in Running THEN slow \cup {m} ELSE slow
        /\ UNCHANGED <<lock, call, acked, handled, overrun, lost, torn, failed, covered>>
    BY <1>2 DEF ClaimAges
  <2>2. /\ \A n \in Message : /\ event'[n].owner = event[n].owner /\ event'[n].exists = event[n].exists
                              /\ event'[n].processed = event[n].processed
                              /\ event'[n].fresh = (n # m /\ event[n].fresh)
        /\ slow \subseteq slow' /\ slow' \subseteq Message
        /\ event' \in [Message -> [exists : BOOLEAN, owner : Call \cup {Nobody},
                                   fresh : BOOLEAN, processed : BOOLEAN]]
        /\ \A c \in Call : Owns(c, m) => call[c].pc \notin Running \/ m \in slow'
    BY <2>1 DEF InboundInv, InboundTypeOK, Owns
  <2>3. InboundTypeOK'
    BY <2>1, <2>2 DEF InboundInv, InboundTypeOK
  <2>4. CallsNamed'
    BY <2>1, <2>2 DEF InboundInv, CallsNamed, Settled, Owns
  <2>5. ClaimsStale'
    BY <2>1, <2>2 DEF InboundInv, CallsNamed, ClaimsStale, ClaimsAged, SeenStale, HeldOwned,
         HeldUnmarked, Owns, Early, Held
  <2>6. EffectMarked' /\ RowsCared' /\ LockKept'
    BY <2>1, <2>2 DEF InboundInv, EffectMarked, RowsCared, Settled, Cared, Owns, LockKept, Busy
  <2> QED
    BY <2>3, <2>4, <2>5, <2>6 DEF InboundInv
<1> QED
  BY <1>1, <1>2

LEMMA InboundStep == InboundInv /\ [InboundNext]_inboundVars => InboundInv'
  BY InboundStutter, DeliverStep, ClaimSteps, AcquireStep, ReleaseStep, ProcessStep, MarkStep,
     AnswerStep, DieStep, TimePasses
  DEF InboundNext

LEMMA InboundFollows ==
    ASSUME InboundInv
    PROVE  InboundTypeOK /\ InboundOnce
<1>1. OneTransition
  BY DEF InboundInv, LockKept, OneTransition
<1>2. HandledOnce
  BY DEF InboundInv, InboundTypeOK, EffectMarked, HandledOnce
<1>3. NothingLost
  BY DEF InboundInv, InboundTypeOK, RowsCared, Settled, Cared, NothingLost
<1> QED
  BY <1>1, <1>2, <1>3 DEF InboundInv, InboundOnce

\* Event rows, deliveries and history keep their form (handle_incoming_webhook).
THEOREM InboundTyped == InboundSpec => []InboundTypeOK
  BY InboundBegins, InboundStep, InboundFollows, PTL DEF InboundSpec

\* However many deliveries of however many messages overlap: one transition at a
\* time, nothing takes effect twice and nothing is lost, but for the faults that
\* InboundOnce names (_claim_webhook_event, _acquire_conversation_lock).
THEOREM InboundTheorem == InboundSpec => []InboundOnce
  BY InboundBegins, InboundStep, InboundFollows, PTL DEF InboundSpec

-----------------------------------------------------------------------------
(* Notifications.                                                          *)

KindName == {"confirmation", "alert", "chat", "document", "queue"}
RecordStatus == {"QUEUED", "SENDING", "DELIVERED", "BYPASSED", "COMPLETED", "PENDING", "FAILED"}
Record == [status : RecordStatus, attempts : Nat, max : Nat, fresh : BOOLEAN, wamid : Nat, buried : BOOLEAN]
Fate == {"sent", "delivered", "failed"}
SenderState == [pc : {"ready", "claim", "task", "send", "record", "done"}, row : Nat,
                outcome : {"none", "accepted", "refused", "timeout", "bypassed"}, msg : Nat]
FaultName == {"commit", "lease", "buried", "unknown", "overlap", "retry", "unsaid"}

NoticeTyped ==
    /\ kind \in KindName /\ record \in Seq(Record) /\ outbox \in Seq(Fate)
    /\ sender \in [Sender -> SenderState] /\ fault \subseteq FaultName
    /\ \A r \in 1 .. Len(record) : record[r].wamid <= Len(outbox)
    /\ \A s \in Sender :
          /\ sender[s].row <= Len(record) /\ sender[s].msg <= Len(outbox)
          /\ sender[s].pc \in {"task", "send", "record"} => sender[s].row # 0
          /\ sender[s].pc = "claim" => kind # "queue"
          /\ sender[s].pc = "task" => kind = "queue"
          /\ kind = "queue" => sender[s].outcome # "bypassed"
          /\ sender[s].pc = "record" => sender[s].outcome # "none"

\* Without a fault there is one record, one sender at a time owns it, and who
\* sends knows that nothing is on its way.
Outgoing == {m \in DOMAIN outbox : outbox[m] # "failed"}
Engaged == {s \in Sender : sender[s].pc \in {"task", "send", "record"}}
Unsent(s) == \/ sender[s].outcome \in {"refused", "bypassed"}
             \/ sender[s].outcome = "timeout" /\ kind # "chat"
OneRow ==
    /\ Len(record) <= 1
    /\ Len(record) = 0 => Len(outbox) = 0 /\ Engaged = {}
    /\ Len(record) = 1 =>
          /\ record[1].fresh /\ ~record[1].buried
          /\ record[1].status \in {"QUEUED", "FAILED"} => Outgoing = {}
          /\ record[1].status = "SENDING" => record[1].wamid \notin Outgoing
          /\ kind = "queue" => record[1].status \notin {"COMPLETED", "PENDING", "BYPASSED"}
OneSender ==
    /\ \A s, t \in Engaged : s = t
    /\ \A s \in Engaged : /\ sender[s].row = 1
                          /\ record[1].status = IF sender[s].pc = "task" THEN "QUEUED" ELSE "SENDING"
    /\ \A s \in Sender : /\ sender[s].pc \in {"task", "send"} => Outgoing = {}
                         /\ sender[s].pc = "record" /\ Unsent(s) => Outgoing = {}
    /\ \A m, n \in Outgoing : m = n
NoticeInv == NoticeTyped /\ (fault = {} => OneRow /\ OneSender)

-----------------------------------------------------------------------------
LEMMA RecordRows ==
    ASSUME NoticeTyped
    PROVE  /\ Len(record) \in Nat /\ DOMAIN record = 1 .. Len(record)
           /\ \A r \in 1 .. Len(record) : record[r] \in Record
           /\ Len(outbox) \in Nat /\ DOMAIN outbox = 1 .. Len(outbox)
           /\ record = <<>> <=> Len(record) = 0
<1>1. record \in Seq(Record) /\ outbox \in Seq(Fate)
  BY DEF NoticeTyped
<1> QED
  BY <1>1, EmptySeq, LenProperties, ElementOfSeq

LEMMA RecordFields ==
    ASSUME NEW row \in Record
    PROVE  /\ row.status \in RecordStatus /\ row.attempts \in Nat /\ row.max \in Nat
           /\ row.fresh \in BOOLEAN /\ row.wamid \in Nat /\ row.buried \in BOOLEAN
  BY DEF Record

\* A commit rewrites one row.
LEMMA Committed ==
    ASSUME NoticeTyped, NEW r \in 1 .. Len(record), NEW row \in Record, Commit(r, row)
    PROVE  /\ record' \in Seq(Record) /\ Len(record') = Len(record)
           /\ \A q \in 1 .. Len(record) : record'[q] = IF q = r THEN row ELSE record[q]
<1>1. record \in Seq(Record) /\ record' = [record EXCEPT ![r] = row]
  BY DEF NoticeTyped, Commit
<1> QED
  BY <1>1, ExceptSeq

\* Of the rows of a set one is the newest.
LEMMA NewestRow ==
    ASSUME NoticeTyped, NEW S \in SUBSET (1 .. Len(record)), S # {}
    PROVE  Newest(S) \in S /\ \A q \in S : q <= Newest(S)
<1> DEFINE all == 1 .. Len(record)
           above(i) == {k \in S : k > i}
           T == {above(i) : i \in S}
           R == StrictSubsetOrdering(all)
<1>1. IsFiniteSet(all) /\ \A i \in S : i \in Nat
  BY RecordRows, FS_Interval
<1>2. IsWellFoundedOn(R, SUBSET all)
  BY <1>1, FS_StrictSubsetOrderingWellFounded, FS_FiniteSubsetsOfFinite
<1>3. T \subseteq SUBSET all /\ T # {}
  OBVIOUS
<1>4. PICK x \in T : \A y \in T : ~(<<y, x>> \in R)
  <2> HIDE DEF T, R
  <2> QED
    BY <1>2, <1>3, WFMin
<1>5. PICK i \in S : x = above(i)
  BY <1>4
<1>6. ASSUME NEW j \in S, ~(j <= i)
      PROVE  FALSE
  <2>1. j \in x /\ j \notin above(j) /\ above(j) \subseteq x
    BY <1>1, <1>5, <1>6
  <2>2. above(j) \in T /\ above(j) \in SUBSET all /\ x \in SUBSET all
    BY <1>3, <1>4
  <2> HIDE DEF above, T
  <2>3. <<above(j), x>> \in R
    BY <2>1, <2>2 DEF StrictSubsetOrdering
  <2> QED
    BY <1>4, <2>2, <2>3
<1>7. \E r \in S : \A q \in S : q <= r
  BY <1>5, <1>6
<1> QED
  BY <1>7 DEF Newest

LEMMA VisibleRows ==
    ASSUME NoticeTyped, NEW statuses
    PROVE  /\ Visible(statuses) \in SUBSET (1 .. Len(record))
           /\ \A r \in Visible(statuses) : record[r].status \in statuses
  BY RecordRows DEF Visible

\* One sender changes its stage, and no row or message changes.
LEMMA StageChanges ==
    ASSUME NoticeInv, NEW s \in Sender, NEW pc \in {"claim", "done"}, Stage(s, pc),
           pc = "claim" => kind # "queue", UNCHANGED <<kind, record, outbox>>,
           fault \subseteq fault', fault' \subseteq FaultName
    PROVE  NoticeInv'
<1>1. \A t \in Sender : /\ sender'[t].row = sender[t].row /\ sender'[t].msg = sender[t].msg
                        /\ sender'[t].outcome = sender[t].outcome
                        /\ sender'[t].pc = IF t = s THEN pc ELSE sender[t].pc
  BY DEF NoticeInv, NoticeTyped, SenderState, Stage
<1>2. sender' \in [Sender -> SenderState]
  BY DEF NoticeInv, NoticeTyped, SenderState, Stage
<1>3. NoticeTyped'
  BY <1>1, <1>2 DEF NoticeInv, NoticeTyped
<1>4. Engaged' \subseteq Engaged /\ Outgoing' = Outgoing
  BY <1>1 DEF Engaged, Outgoing
<1>5. fault' = {} => OneRow' /\ OneSender'
  BY <1>1, <1>4 DEF NoticeInv, OneRow, OneSender, Engaged, Unsent
<1> QED
  BY <1>3, <1>5 DEF NoticeInv

LEMMA NoticeStutter == NoticeInv /\ UNCHANGED notificationVars => NoticeInv'
  BY DEF NoticeInv, notificationVars, NoticeTyped, OneRow, OneSender, Engaged, Unsent, Outgoing

LEMMA NoticeBegins == NotificationsInit => NoticeInv
<1> SUFFICES ASSUME NotificationsInit
             PROVE  NoticeInv
  OBVIOUS
<1>1. record \in Seq(Record) /\ Len(record) = 0 /\ outbox \in Seq(Fate) /\ Len(outbox) = 0
  BY EmptySeq DEF NotificationsInit
<1>2. Resting \in SenderState /\ \A s \in Sender : sender[s] = Resting
  BY DEF Resting, SenderState, NotificationsInit
<1>3. sender \in [Sender -> SenderState]
  BY <1>2 DEF NotificationsInit
<1>4. NoticeTyped
  BY <1>1, <1>2, <1>3 DEF NotificationsInit, NoticeTyped, KindName, Resting
<1>5. Engaged = {} /\ Outgoing = {}
  BY <1>1, <1>2 DEF Engaged, Outgoing, Resting, NotificationsInit
<1>6. OneRow /\ OneSender
  BY <1>1, <1>2, <1>5 DEF OneRow, OneSender, Resting
<1> QED
  BY <1>4, <1>6 DEF NoticeInv

-----------------------------------------------------------------------------
(* Claims.                                                                 *)

\* A sender takes a row over, or would if its commit did not fail.
LEMMA RowTaken ==
    ASSUME NoticeInv, NEW s \in Sender, sender[s].pc = "claim", NEW r \in 1 .. Len(record),
           NEW row \in Record, row.wamid = record[r].wamid, row.status = "SENDING", row.fresh,
           row.buried = record[r].buried,
           fault = {} => record[r].status \in {"FAILED", "QUEUED"},
           SendAnyhow(s, r, row), UNCHANGED <<kind, outbox>>
    PROVE  NoticeInv'
<1>1. /\ sender' = [sender EXCEPT ![s].pc = "send", ![s].row = r]
      /\ (Commit(r, row) /\ fault' = fault) \/ (UNCHANGED record /\ fault' = fault \cup {"commit"})
  BY DEF SendAnyhow
<1>2. /\ record' \in Seq(Record) /\ Len(record') = Len(record)
      /\ \A q \in 1 .. Len(record) : record'[q].wamid = record[q].wamid
      /\ fault' = {} => record'[r] = row
  <2>1. CASE Commit(r, row)
    BY <1>1, <2>1, Committed DEF NoticeInv
  <2>2. CASE UNCHANGED record /\ fault' = fault \cup {"commit"}
    BY <2>2 DEF NoticeInv, NoticeTyped
  <2> QED
    BY <1>1, <2>1, <2>2
<1>3. r \in Nat /\ r # 0 /\ r <= Len(record)
  BY RecordRows DEF NoticeInv
<1>4. /\ sender' \in [Sender -> SenderState] /\ sender'[s].pc = "send" /\ sender'[s].row = r
      /\ sender'[s].msg = sender[s].msg /\ sender'[s].outcome = sender[s].outcome
      /\ \A t \in Sender : t # s => sender'[t] = sender[t]
  <2> DEFINE new == [sender[s] EXCEPT !.pc = "send", !.row = r]
  <2>1. sender[s] \in SenderState
    BY DEF NoticeInv, NoticeTyped
  <2>2. /\ new \in SenderState /\ new.pc = "send" /\ new.row = r
        /\ new.msg = sender[s].msg /\ new.outcome = sender[s].outcome
    BY <1>3, <2>1 DEF SenderState
  <2>3. sender' = [sender EXCEPT ![s] = new]
    BY <1>1
  <2> HIDE DEF new
  <2> QED
    BY <2>2, <2>3 DEF NoticeInv, NoticeTyped
<1>5. NoticeTyped'
  BY <1>1, <1>2, <1>3, <1>4 DEF NoticeInv, NoticeTyped, FaultName
<1>6. ASSUME fault' = {}
      PROVE  OneRow' /\ OneSender'
  <2>1. OneRow /\ OneSender /\ r = 1 /\ Len(record) = 1 /\ Outgoing = {} /\ Outgoing' = {}
    BY <1>1, <1>3, <1>6, RecordRows DEF NoticeInv, OneRow, Outgoing
  <2>2. Engaged = {}
    BY <1>1, <1>6, <2>1 DEF NoticeInv, NoticeTyped, OneSender, Engaged
  <2>3. Engaged' = {s}
    BY <1>4, <2>2 DEF Engaged
  <2>4. OneRow'
    BY <1>2, <1>6, <2>1 DEF OneRow
  <2>5. OneSender'
    BY <1>2, <1>4, <1>6, <2>1, <2>3 DEF OneSender
  <2> QED
    BY <2>4, <2>5
<1> QED
  BY <1>5, <1>6 DEF NoticeInv

LEMMA NewRow ==
    ASSUME NoticeInv, NEW s \in Sender, sender[s].pc = "claim", NewClaim(s),
           UNCHANGED <<kind, outbox>>, fault \subseteq fault', fault' \subseteq FaultName,
           fault' = {} => Visible(RecordStatus) = {}
    PROVE  NoticeInv'
<1> DEFINE n == Len(record) + 1
           row == Row("SENDING", 1)
<1>1. CASE UNCHANGED record /\ Stage(s, "done")
  BY <1>1, StageChanges
<1>2. CASE /\ record' = Append(record, row)
           /\ sender' = [sender EXCEPT ![s].pc = "send", ![s].row = n]
  <2>1. n \in Nat /\ Len(record) \in Nat /\ record \in Seq(Record)
    BY RecordRows DEF NoticeInv, NoticeTyped
  <2>2. row \in Record /\ row.wamid = 0 /\ row.status = "SENDING" /\ row.fresh /\ ~row.buried
    BY AttemptAssumption DEF Row, Record, RecordStatus
  <2> HIDE DEF row
  <2>3. /\ record' \in Seq(Record) /\ Len(record') = n /\ record'[n] = row
        /\ \A q \in 1 .. Len(record) : record'[q] = record[q]
    BY <1>2, <2>1, <2>2, AppendProperties
  <2>4. /\ sender' \in [Sender -> SenderState] /\ sender'[s].pc = "send" /\ sender'[s].row = n
        /\ sender'[s].msg = sender[s].msg /\ sender'[s].outcome = sender[s].outcome
        /\ \A t \in Sender : t # s => sender'[t] = sender[t]
    <3> DEFINE new == [sender[s] EXCEPT !.pc = "send", !.row = n]
    <3>1. sender[s] \in SenderState
      BY DEF NoticeInv, NoticeTyped
    <3>2. /\ new \in SenderState /\ new.pc = "send" /\ new.row = n
          /\ new.msg = sender[s].msg /\ new.outcome = sender[s].outcome
      BY <2>1, <3>1 DEF SenderState
    <3>3. sender' = [sender EXCEPT ![s] = new]
      BY <1>2
    <3> HIDE DEF new
    <3> QED
      BY <3>2, <3>3 DEF NoticeInv, NoticeTyped
  <2>5. \A q \in 1 .. n : q = n \/ q \in 1 .. Len(record)
    BY <2>1
  <2>6. \A t \in Sender : sender[t].row \in Nat /\ sender[t].row <= n
    BY <2>1 DEF NoticeInv, NoticeTyped, SenderState
  <2>7. NoticeTyped'
    <3>1. Len(outbox) \in Nat
      BY RecordRows DEF NoticeInv
    <3>2. \A r \in 1 .. Len(record') : record'[r].wamid <= Len(outbox')
      BY <2>2, <2>3, <2>5, <3>1 DEF NoticeInv, NoticeTyped
    <3> QED
      BY <2>1, <2>3, <2>4, <2>6, <3>2 DEF NoticeInv, NoticeTyped
  <2>8. ASSUME fault' = {}
        PROVE  OneRow' /\ OneSender'
    <3>1. OneRow /\ OneSender /\ fault = {}
      BY <2>8 DEF NoticeInv
    <3>2. Len(record) = 0
      <4>1. Len(record) = 1 => 1 \in Visible(RecordStatus)
        BY <3>1, RecordRows, RecordFields DEF NoticeInv, Visible, OneRow
      <4>2. Visible(RecordStatus) = {}
        BY <2>8
      <4>3. Len(record) <= 1
        BY <3>1 DEF OneRow
      <4>4. Len(record) # 1 /\ Len(record) \in Nat
        BY <2>1, <4>1, <4>2
      <4>5. \A k \in Nat : k <= 1 /\ k # 1 => k = 0
        OBVIOUS
      <4> QED
        BY <4>3, <4>4, <4>5
    <3>3. Len(outbox) = 0 /\ Engaged = {} /\ Outgoing = {} /\ Outgoing' = {}
      BY <3>1, <3>2, RecordRows DEF OneRow, Outgoing, NoticeInv
    <3>4. Engaged' = {s}
      BY <2>4, <3>3 DEF Engaged
    <3>5. OneRow'
      BY <2>2, <2>3, <3>2, <3>3 DEF OneRow
    <3>6. OneSender'
      BY <2>2, <2>3, <2>4, <3>2, <3>3, <3>4 DEF OneSender
    <3> QED
      BY <3>5, <3>6
  <2> QED
    BY <2>7, <2>8 DEF NoticeInv
<1> QED
  BY <1>1, <1>2 DEF NewClaim

LEMMA RowsToSend ==
    ASSUME NEW row \in Record
    PROVE  LET aged == [row EXCEPT !.attempts = @ + 1, !.fresh = TRUE] IN
           /\ aged \in Record /\ aged.wamid = row.wamid /\ aged.status = row.status /\ aged.fresh
           /\ aged.buried = row.buried
           /\ Again(row) \in Record /\ Again(row).wamid = row.wamid
           /\ Again(row).status = "SENDING" /\ Again(row).fresh /\ Again(row).buried = row.buried
<1>1. row.attempts + 1 \in Nat /\ row.attempts + 3 \in Nat /\ row.max \in Nat
  BY RecordFields
<1>2. (IF row.attempts + 1 > row.max THEN row.attempts + 3 ELSE row.max) \in Nat
  BY <1>1
<1> QED
  BY <1>1, <1>2 DEF Again, Record, RecordStatus

LEMMA ClaimStep ==
    ASSUME NoticeInv, NEW s \in Sender, ClaimToSend(s)
    PROVE  NoticeInv'
<1>1. sender[s].pc = "claim" /\ UNCHANGED <<kind, outbox>>
  BY DEF ClaimToSend
<1>2. CASE Stage(s, "done") /\ UNCHANGED <<record, fault>>
  BY <1>1, <1>2, StageChanges DEF NoticeInv, NoticeTyped
<1>3. ASSUME Visible({"SENDING"}) # {}, ~record[Newest(Visible({"SENDING"}))].fresh,
             SendAnyhow(s, Newest(Visible({"SENDING"})),
                [record[Newest(Visible({"SENDING"}))] EXCEPT !.attempts = @ + 1, !.fresh = TRUE])
      PROVE  NoticeInv'
  <2> DEFINE r == Newest(Visible({"SENDING"}))
             row == [record[r] EXCEPT !.attempts = @ + 1, !.fresh = TRUE]
  <2>1. r \in 1 .. Len(record) /\ record[r].status = "SENDING"
    BY <1>3, VisibleRows, NewestRow DEF NoticeInv
  <2>2. record[r] \in Record
    BY <2>1, RecordRows DEF NoticeInv
  <2>3. /\ row \in Record /\ row.wamid = record[r].wamid /\ row.status = "SENDING" /\ row.fresh
        /\ row.buried = record[r].buried
    BY <2>1, <2>2, RowsToSend
  <2>4. fault # {}
    BY <1>3, <2>1, RecordRows DEF NoticeInv, OneRow
  <2>5. SendAnyhow(s, r, row)
    BY <1>3
  <2> HIDE DEF r, row
  <2> QED
    BY <1>1, <2>1, <2>3, <2>4, <2>5, RowTaken
<1>4. ASSUME Visible({"FAILED", "QUEUED"}) # {},
             SendAnyhow(s, Newest(Visible({"FAILED", "QUEUED"})),
                        Again(record[Newest(Visible({"FAILED", "QUEUED"}))]))
      PROVE  NoticeInv'
  <2> DEFINE r == Newest(Visible({"FAILED", "QUEUED"}))
             row == Again(record[r])
  <2>1. r \in 1 .. Len(record) /\ record[r].status \in {"FAILED", "QUEUED"}
    BY <1>4, VisibleRows, NewestRow DEF NoticeInv
  <2>2. record[r] \in Record
    BY <2>1, RecordRows DEF NoticeInv
  <2>3. /\ row \in Record /\ row.wamid = record[r].wamid /\ row.status = "SENDING" /\ row.fresh
        /\ row.buried = record[r].buried
    BY <2>2, RowsToSend
  <2>4. SendAnyhow(s, r, row)
    BY <1>4
  <2> HIDE DEF r, row
  <2> QED
    BY <1>1, <2>1, <2>3, <2>4, RowTaken
<1>5. ASSUME Visible({"DELIVERED", "BYPASSED", "SENDING", "FAILED", "QUEUED"}) = {}, NewClaim(s),
             fault' = IF Visible({"COMPLETED", "PENDING"}) # {} THEN fault \cup {"overlap"} ELSE fault
      PROVE  NoticeInv'
  <2>1. fault \subseteq fault' /\ fault' \subseteq FaultName
    BY <1>5 DEF NoticeInv, NoticeTyped, FaultName
  <2>2. fault' = {} => Visible(RecordStatus) = {}
    BY <1>5 DEF Visible, RecordStatus
  <2> QED
    BY <1>1, <1>5, <2>1, <2>2, NewRow
<1> QED
  BY <1>2, <1>3, <1>4, <1>5 DEF ClaimToSend

-----------------------------------------------------------------------------
(* Messages and their results.                                             *)

\* A post that does not say what it made is a fault of its own.
LEMMA UnsaidStep ==
    ASSUME NoticeInv, NEW s \in Sender, PostUnsaid(s)
    PROVE  NoticeInv'
<1>1. /\ outbox' = Append(outbox, "sent") /\ fault' = fault \cup {"unsaid"}
      /\ UNCHANGED <<kind, record, sender>>
  BY DEF PostUnsaid
<1>2. /\ Len(outbox) \in Nat /\ outbox \in Seq(Fate) /\ Len(outbox') = Len(outbox) + 1
      /\ outbox' \in Seq(Fate)
  <2>1. outbox \in Seq(Fate) /\ "sent" \in Fate
    BY DEF NoticeInv, NoticeTyped, Fate
  <2> QED
    BY <1>1, <2>1, AppendProperties, LenProperties
<1>3. /\ \A r \in 1 .. Len(record) : record[r].wamid \in Nat /\ record[r].wamid <= Len(outbox)
      /\ \A t \in Sender : sender[t].msg \in Nat /\ sender[t].msg <= Len(outbox)
  BY RecordRows DEF NoticeInv, NoticeTyped, Record, SenderState
<1>4. NoticeTyped'
  <2>1. fault' \subseteq FaultName
    BY <1>1 DEF NoticeInv, NoticeTyped, FaultName
  <2>2. /\ \A r \in 1 .. Len(record) : record[r].wamid <= Len(outbox')
        /\ \A t \in Sender : sender[t].msg <= Len(outbox')
    BY <1>2, <1>3
  <2> QED
    BY <1>1, <1>2, <2>1, <2>2 DEF NoticeInv, NoticeTyped
<1>5. fault' # {}
  BY <1>1
<1> QED
  BY <1>4, <1>5 DEF NoticeInv

LEMMA SendStep ==
    ASSUME NoticeInv, NEW s \in Sender, SendMessage(s)
    PROVE  NoticeInv'
<1>1. PICK outcome \in {"accepted", "refused", "timeout"}
              \cup (IF kind \in {"confirmation", "alert"} THEN {"bypassed"} ELSE {}),
           made \in BOOLEAN :
          /\ outcome = "accepted" => made
          /\ outcome \in {"refused", "bypassed"} => ~made
          /\ sender' = [sender EXCEPT ![s].pc = "record", ![s].outcome = outcome,
                                      ![s].msg = IF outcome = "accepted" THEN Len(outbox) + 1 ELSE 0]
          /\ outbox' = IF made THEN Append(outbox, "sent") ELSE outbox
          /\ fault' = IF outcome = "timeout" /\ made /\ kind # "chat"
                      THEN fault \cup {"unknown"} ELSE fault
  BY DEF SendMessage
<1>2. /\ sender[s].pc = "send" /\ UNCHANGED <<kind, record>>
      /\ outcome \in {"accepted", "refused", "timeout", "bypassed"}
      /\ kind = "queue" => outcome # "bypassed"
  BY <1>1 DEF SendMessage
<1>3. /\ outbox' \in Seq(Fate) /\ Len(outbox') = Len(outbox) + (IF made THEN 1 ELSE 0)
      /\ \A m \in 1 .. Len(outbox) : outbox'[m] = outbox[m]
      /\ Len(outbox) \in Nat
  <2>1. outbox \in Seq(Fate) /\ Len(outbox) \in Nat /\ "sent" \in Fate
    BY RecordRows DEF NoticeInv, NoticeTyped, Fate
  <2>2. CASE made
    BY <1>1, <2>1, <2>2, AppendProperties
  <2>3. CASE ~made
    BY <1>1, <2>1, <2>3
  <2> QED
    BY <1>1, <2>2, <2>3
<1>4. /\ sender' \in [Sender -> SenderState] /\ sender'[s].pc = "record"
      /\ sender'[s].outcome = outcome /\ sender'[s].row = sender[s].row
      /\ sender'[s].msg <= Len(outbox')
      /\ \A t \in Sender : t # s => sender'[t] = sender[t]
  <2> DEFINE msg == IF outcome = "accepted" THEN Len(outbox) + 1 ELSE 0
             new == [sender[s] EXCEPT !.pc = "record", !.outcome = outcome, !.msg = msg]
  <2>1. sender[s] \in SenderState /\ msg \in Nat /\ msg <= Len(outbox')
    BY <1>1, <1>3 DEF NoticeInv, NoticeTyped
  <2>2. sender' = [sender EXCEPT ![s] = new]
    BY <1>1
  <2> HIDE DEF msg
  <2>3. /\ new \in SenderState /\ new.pc = "record" /\ new.outcome = outcome
        /\ new.row = sender[s].row /\ new.msg = msg
    BY <1>2, <2>1 DEF SenderState
  <2> HIDE DEF new
  <2> QED
    BY <2>1, <2>2, <2>3 DEF NoticeInv, NoticeTyped
<1>5. NoticeTyped'
  <2>1. \A t \in Sender : sender[t].msg <= Len(outbox')
    BY <1>3 DEF NoticeInv, NoticeTyped, SenderState
  <2>2. \A r \in 1 .. Len(record) : record[r].wamid <= Len(outbox')
    <3>1. \A r \in 1 .. Len(record) : record[r].wamid \in Nat
      BY RecordRows, RecordFields DEF NoticeInv
    <3> QED
      BY <1>3, <3>1 DEF NoticeInv, NoticeTyped
  <2>3. fault' \subseteq FaultName
    BY <1>1 DEF NoticeInv, NoticeTyped, FaultName
  <2> QED
    BY <1>2, <1>3, <1>4, <2>1, <2>2, <2>3 DEF NoticeInv, NoticeTyped
<1>6. ASSUME fault' = {}
      PROVE  OneRow' /\ OneSender'
  <2>1. OneRow /\ OneSender /\ (made => outcome = "accepted" \/ kind = "chat")
    BY <1>1, <1>2, <1>6 DEF NoticeInv
  <2>2. Outgoing = {} /\ Engaged = {s} /\ sender[s].row = 1 /\ record[1].status = "SENDING"
        /\ Len(record) = 1
    <3>1. s \in Engaged
      BY <1>2 DEF Engaged
    <3>2. Engaged = {s} /\ sender[s].row = 1 /\ record[1].status = "SENDING" /\ Outgoing = {}
      BY <1>2, <2>1, <3>1 DEF OneSender
    <3>3. Len(record) = 1
      BY <2>1, <3>1, RecordRows DEF OneRow, NoticeInv
    <3> QED
      BY <3>2, <3>3
  <2>3. Engaged' = {s}
    BY <1>2, <1>4, <2>2 DEF Engaged
  <2>4. Outgoing' \subseteq (IF made THEN {Len(outbox) + 1} ELSE {})
    <3>1. DOMAIN outbox' = 1 .. Len(outbox') /\ DOMAIN outbox = 1 .. Len(outbox)
      BY <1>3, RecordRows, LenProperties DEF NoticeInv
    <3> QED
      BY <1>3, <2>2, <3>1 DEF Outgoing
  <2>5. OneRow'
    <3>1. record[1].wamid <= Len(outbox)
      BY <2>2 DEF NoticeInv, NoticeTyped
    <3>2. record[1].wamid \in Nat
      BY <2>2, RecordRows, RecordFields DEF NoticeInv
    <3>3. record[1].wamid \notin Outgoing'
      BY <1>3, <2>4, <3>1, <3>2
    <3> QED
      BY <1>2, <2>1, <2>2, <3>3 DEF OneRow
  <2>6. made => ~Unsent(s)'
    <3> SUFFICES ASSUME made
                 PROVE  ~Unsent(s)'
      OBVIOUS
    <3>1. outcome \notin {"refused", "bypassed"}
      BY <1>1
    <3>2. outcome = "timeout" => kind' = "chat"
      BY <1>2, <2>1
    <3> QED
      BY <1>4, <3>1, <3>2 DEF Unsent
  <2>7. \A t \in Sender : t # s => t \notin Engaged
    BY <2>2
  <2>8. OneSender'
    BY <1>2, <1>4, <2>2, <2>3, <2>4, <2>6, <2>7 DEF OneSender, Engaged
  <2> QED
    BY <2>5, <2>8
<1> QED
  BY <1>5, <1>6 DEF NoticeInv

LEMMA ResultNames ==
    ASSUME NEW s \in Sender, sender[s].outcome \in {"accepted", "refused", "timeout", "bypassed"},
           kind = "queue" => sender[s].outcome # "bypassed"
    PROVE  /\ Result(s) \in {"COMPLETED", "DELIVERED", "BYPASSED", "PENDING", "QUEUED", "FAILED"}
           /\ Result(s) \in {"QUEUED", "FAILED"} => Unsent(s)
           /\ kind = "queue" => Result(s) \in {"DELIVERED", "QUEUED", "FAILED"}
<1>1. CASE sender[s].outcome = "accepted"
  BY <1>1 DEF Result
<1>2. CASE sender[s].outcome = "bypassed"
  BY <1>2 DEF Result
<1>3. CASE sender[s].outcome = "timeout" /\ kind = "chat"
  BY <1>3 DEF Result
<1>4. CASE /\ sender[s].outcome \in {"refused", "timeout"}
           /\ ~(sender[s].outcome = "timeout" /\ kind = "chat")
  <2>1. Unsent(s)
    BY <1>4 DEF Unsent
  <2>2. Result(s) \in {"QUEUED", "FAILED"}
    BY <1>4 DEF Result
  <2> QED
    BY <2>1, <2>2
<1> QED
  BY <1>1, <1>2, <1>3, <1>4

LEMMA ResultStep ==
    ASSUME NoticeInv, NEW s \in Sender, RecordResult(s)
    PROVE  NoticeInv'
<1> DEFINE r == sender[s].row
           m == IF sender[s].msg = 0 THEN record[r].wamid ELSE sender[s].msg
           row == [record[r] EXCEPT !.status = Result(s), !.wamid = m]
<1>1. /\ sender[s].pc = "record" /\ Stage(s, "done") /\ UNCHANGED <<kind, outbox>>
      /\ (Commit(r, row) /\ fault' = fault) \/ (UNCHANGED record /\ fault' = fault \cup {"commit"})
  BY DEF RecordResult
<1>2. sender[s] \in SenderState /\ r \in 1 .. Len(record)
  <2>1. sender[s] \in SenderState
    BY DEF NoticeInv, NoticeTyped
  <2>2. r \in Nat /\ r # 0 /\ r <= Len(record)
    BY <1>1, <2>1 DEF NoticeInv, NoticeTyped, SenderState
  <2> QED
    BY <2>1, <2>2, RecordRows DEF NoticeInv
<1>3. CASE UNCHANGED record /\ fault' = fault \cup {"commit"}
  <2>1. fault \subseteq fault' /\ fault' \subseteq FaultName
    BY <1>3 DEF NoticeInv, NoticeTyped, FaultName
  <2> QED
    BY <1>1, <1>3, <2>1, StageChanges
<1>4. CASE Commit(r, row) /\ fault' = fault
  <2>1. record[r] \in Record /\ m \in Nat /\ m <= Len(outbox)
    <3>1. record[r] \in Record /\ record[r].wamid \in Nat
      BY <1>2, RecordRows, RecordFields DEF NoticeInv
    <3>2. sender[s].msg \in Nat
      BY <1>2 DEF SenderState
    <3> QED
      BY <1>2, <3>1, <3>2 DEF NoticeInv, NoticeTyped
  <2>2. sender[s].outcome \in {"accepted", "refused", "timeout", "bypassed"}
    BY <1>1, <1>2 DEF NoticeInv, NoticeTyped, SenderState
  <2>3. /\ Result(s) \in {"COMPLETED", "DELIVERED", "BYPASSED", "PENDING", "QUEUED", "FAILED"}
        /\ Result(s) \in {"QUEUED", "FAILED"} => Unsent(s)
        /\ kind = "queue" => Result(s) \in {"DELIVERED", "QUEUED", "FAILED"}
    BY <1>1, <2>2, ResultNames DEF NoticeInv, NoticeTyped
  <2> HIDE DEF m
  <2>4. /\ row \in Record /\ row.status = Result(s) /\ row.wamid = m
        /\ row.buried = record[r].buried /\ row.fresh = record[r].fresh
    BY <2>1, <2>3 DEF Record, RecordStatus
  <2> HIDE DEF row, r
  <2>5. /\ record' \in Seq(Record) /\ Len(record') = Len(record)
        /\ \A q \in 1 .. Len(record) : record'[q] = IF q = r THEN row ELSE record[q]
    BY <1>2, <1>4, <2>4, Committed DEF NoticeInv
  <2>6. \A t \in Sender : /\ sender'[t].row = sender[t].row /\ sender'[t].msg = sender[t].msg
                          /\ sender'[t].outcome = sender[t].outcome
                          /\ sender'[t].pc = IF t = s THEN "done" ELSE sender[t].pc
    BY <1>1 DEF NoticeInv, NoticeTyped, SenderState, Stage
  <2>7. sender' \in [Sender -> SenderState]
    BY <1>1 DEF NoticeInv, NoticeTyped, SenderState, Stage
  <2>8. NoticeTyped'
    <3>1. /\ kind' = kind /\ outbox' = outbox /\ fault' = fault /\ NoticeTyped
      BY <1>1, <1>4 DEF NoticeInv
    <3>2. \A q \in 1 .. Len(record') : record'[q].wamid <= Len(outbox')
      BY <2>1, <2>4, <2>5, <3>1 DEF NoticeTyped
    <3>3. \A t \in Sender :
             /\ sender'[t].row <= Len(record') /\ sender'[t].msg <= Len(outbox')
             /\ sender'[t].pc \in {"task", "send", "record"} => sender'[t].row # 0
             /\ sender'[t].pc = "claim" => kind' # "queue"
             /\ sender'[t].pc = "task" => kind' = "queue"
             /\ kind' = "queue" => sender'[t].outcome # "bypassed"
             /\ sender'[t].pc = "record" => sender'[t].outcome # "none"
      BY <2>5, <2>6, <3>1 DEF NoticeTyped
    <3> QED
      BY <2>5, <2>7, <3>1, <3>2, <3>3 DEF NoticeTyped
  <2>9. ASSUME fault' = {}
        PROVE  OneRow' /\ OneSender'
    <3>1. OneRow /\ OneSender /\ s \in Engaged /\ Len(record) = 1 /\ r = 1
      BY <1>1, <1>2, <1>4, <2>9, RecordRows DEF NoticeInv, OneRow, OneSender, Engaged, r
    <3>2. Engaged' = {} /\ Outgoing' = Outgoing
      BY <1>1, <2>6, <3>1 DEF OneSender, Engaged, Outgoing
    <3>3. record'[1].status = Result(s) /\ record'[1].fresh /\ ~record'[1].buried
      BY <2>4, <2>5, <3>1 DEF OneRow
    <3>4. Unsent(s) => Outgoing = {}
      BY <1>1, <3>1 DEF OneSender
    <3>5. OneRow'
      BY <1>1, <2>3, <2>5, <3>1, <3>2, <3>3, <3>4 DEF OneRow
    <3>6. \A t \in Sender : t # s => t \notin Engaged
      BY <3>1 DEF OneSender
    <3>7. OneSender'
      BY <2>6, <3>1, <3>2, <3>6 DEF OneSender, Engaged
    <3> QED
      BY <3>5, <3>7
  <2> QED
    BY <2>8, <2>9 DEF NoticeInv
<1> QED
  BY <1>1, <1>3, <1>4

-----------------------------------------------------------------------------
(* The queue, delivery reports and time.                                   *)

LEMMA EnqueueStep ==
    ASSUME NoticeInv, NEW s \in Sender, Enqueue(s)
    PROVE  NoticeInv'
<1> DEFINE row == Row("QUEUED", 0)
           new == [sender[s] EXCEPT !.pc = "task", !.row = 1]
<1>1. /\ sender[s].pc = "ready" /\ kind = "queue" /\ record = <<>> /\ record' = <<row>>
      /\ sender' = [sender EXCEPT ![s] = new] /\ UNCHANGED <<kind, outbox, fault>>
  BY DEF Enqueue
<1>2. row \in Record /\ row.wamid = 0 /\ row.status = "QUEUED" /\ row.fresh /\ ~row.buried
  BY AttemptAssumption DEF Row, Record, RecordStatus
<1>3. sender[s] \in SenderState
  BY DEF NoticeInv, NoticeTyped
<1>4. new \in SenderState /\ new.pc = "task" /\ new.row = 1 /\ new.msg = sender[s].msg
      /\ new.outcome = sender[s].outcome
  BY <1>3 DEF SenderState
<1> HIDE DEF row, new
<1>5. Len(record) = 0 /\ Len(outbox) \in Nat
  BY <1>1, RecordRows DEF NoticeInv
<1>6. record' \in Seq(Record) /\ Len(record') = 1 /\ record'[1] = row
  BY <1>1, <1>2
<1>7. /\ sender' \in [Sender -> SenderState] /\ sender'[s] = new
      /\ \A t \in Sender : t # s => sender'[t] = sender[t]
  BY <1>1, <1>4 DEF NoticeInv, NoticeTyped
<1>8. \A t \in Sender : sender[t].row \in Nat /\ sender[t].row <= 1
  BY <1>5 DEF NoticeInv, NoticeTyped, SenderState
<1>9. NoticeTyped'
  BY <1>1, <1>2, <1>4, <1>5, <1>6, <1>7, <1>8 DEF NoticeInv, NoticeTyped
<1>10. ASSUME fault' = {}
       PROVE  OneRow' /\ OneSender'
  <2>1. Engaged = {} /\ Len(outbox) = 0
    BY <1>1, <1>5, <1>10 DEF NoticeInv, OneRow
  <2>2. Outgoing' = {} /\ Engaged' = {s}
    BY <1>1, <1>4, <1>7, <2>1, RecordRows DEF Outgoing, Engaged, NoticeInv
  <2>3. OneRow'
    BY <1>1, <1>2, <1>6, <2>2 DEF OneRow
  <2>4. OneSender'
    BY <1>2, <1>4, <1>6, <1>7, <2>2 DEF OneSender
  <2> QED
    BY <2>3, <2>4
<1> QED
  BY <1>9, <1>10 DEF NoticeInv

\* The task's row is set to a status that says who has it.
LEMMA TaskMoves ==
    ASSUME NoticeInv, kind = "queue", NEW s \in Sender, 1 \in 1 .. Len(record),
           NEW row \in Record, row.wamid = record[1].wamid, row.buried = record[1].buried,
           row.fresh = record[1].fresh, Commit(1, row),
           NEW pc \in {"task", "send"}, row.status = IF pc = "task" THEN "QUEUED" ELSE "SENDING",
           NEW new \in SenderState, new.pc = pc, new.row \in 1 .. Len(record),
           new.msg = sender[s].msg, new.outcome = sender[s].outcome,
           sender' = [sender EXCEPT ![s] = new],
           UNCHANGED <<kind, outbox>>, fault \subseteq fault', fault' \subseteq FaultName,
           fault' = {} => Outgoing = {} /\ Engaged \subseteq {s} /\ new.row = 1
    PROVE  NoticeInv'
<1>2. new.row \in Nat /\ new.row # 0 /\ new.row <= Len(record) /\ Len(record) \in Nat
  BY RecordRows DEF NoticeInv
<1>4. /\ sender' \in [Sender -> SenderState] /\ sender'[s] = new
      /\ \A t \in Sender : t # s => sender'[t] = sender[t]
  BY DEF NoticeInv, NoticeTyped
<1>5. /\ record' \in Seq(Record) /\ Len(record') = Len(record)
      /\ \A q \in 1 .. Len(record) : record'[q] = IF q = 1 THEN row ELSE record[q]
  BY Committed DEF NoticeInv
<1>6. \A q \in 1 .. Len(record) : record'[q].wamid = record[q].wamid
  BY <1>5
<1>7. NoticeTyped'
  BY <1>2, <1>4, <1>5, <1>6 DEF NoticeInv, NoticeTyped
<1>8. ASSUME fault' = {}
      PROVE  OneRow' /\ OneSender'
  <2>1. OneRow /\ OneSender /\ Outgoing' = {}
    BY <1>8 DEF NoticeInv, Outgoing
  <2>2. Engaged' = {s}
    BY <1>2, <1>4, <1>8 DEF Engaged
  <2>3. OneRow'
    BY <1>5, <1>8, <2>1, RecordRows DEF OneRow, NoticeInv
  <2>4. OneSender'
    BY <1>2, <1>4, <1>5, <1>8, <2>1, <2>2 DEF OneSender, Engaged
  <2> QED
    BY <2>3, <2>4
<1> QED
  BY <1>7, <1>8 DEF NoticeInv

LEMMA QueueSteps ==
    ASSUME NoticeInv, NEW s \in Sender, RetryQueued(s) \/ StartTask(s)
    PROVE  NoticeInv'
<1>1. CASE RetryQueued(s)
  <2> DEFINE row == [record[1] EXCEPT !.status = "QUEUED"]
  <2>1. /\ kind = "queue" /\ record # <<>> /\ Commit(1, row)
        /\ sender' = [sender EXCEPT ![s].pc = "task", ![s].row = 1]
        /\ fault' = IF record[1].status \in {"SENDING", "DELIVERED"}
                       \/ \E t \in Sender : sender[t].pc \in {"task", "send", "record"}
                    THEN fault \cup {"retry"} ELSE fault
        /\ UNCHANGED <<kind, outbox>>
    BY <1>1 DEF RetryQueued
  <2>2. 1 \in 1 .. Len(record) /\ record[1] \in Record
    BY <2>1, RecordRows DEF NoticeInv
  <2>3. /\ row \in Record /\ row.wamid = record[1].wamid /\ row.buried = record[1].buried
        /\ row.fresh = record[1].fresh /\ row.status = "QUEUED"
    BY <2>2 DEF Record, RecordStatus
  <2>4. fault \subseteq fault' /\ fault' \subseteq FaultName
    BY <2>1 DEF NoticeInv, NoticeTyped, FaultName
  <2>5. ASSUME fault' = {}
        PROVE  Outgoing = {} /\ Engaged = {}
    <3>1. record[1].status \notin {"SENDING", "DELIVERED"} /\ Engaged = {} /\ OneRow
      BY <2>1, <2>5 DEF NoticeInv, Engaged
    <3>2. record[1].status \in RecordStatus /\ Len(record) = 1
      BY <2>2, <3>1, RecordRows, RecordFields DEF NoticeInv, OneRow
    <3> QED
      BY <2>1, <3>1, <3>2 DEF OneRow, RecordStatus
  <2> DEFINE new == [sender[s] EXCEPT !.pc = "task", !.row = 1]
  <2>6. sender[s] \in SenderState
    BY DEF NoticeInv, NoticeTyped
  <2>7. /\ new \in SenderState /\ new.pc = "task" /\ new.row = 1 /\ new.msg = sender[s].msg
        /\ new.outcome = sender[s].outcome /\ sender' = [sender EXCEPT ![s] = new]
    BY <2>1, <2>6 DEF SenderState
  <2> HIDE DEF row, new
  <2> QED
    BY <2>1, <2>2, <2>3, <2>4, <2>5, <2>7, TaskMoves
<1>2. CASE StartTask(s)
  <2> DEFINE row == [record[1] EXCEPT !.status = "SENDING", !.attempts = @ + 1]
  <2>1. /\ sender[s].pc = "task" /\ Commit(1, row) /\ Stage(s, "send")
        /\ UNCHANGED <<kind, outbox, fault>> /\ kind = "queue"
    BY <1>2 DEF StartTask, NoticeInv, NoticeTyped
  <2>2. 1 \in 1 .. Len(record) /\ record[1] \in Record /\ sender[s].row \in 1 .. Len(record)
    <3>1. sender[s].row \in Nat /\ sender[s].row # 0 /\ sender[s].row <= Len(record)
      BY <2>1 DEF NoticeInv, NoticeTyped, SenderState
    <3> QED
      BY <3>1, RecordRows DEF NoticeInv
  <2>3. /\ row \in Record /\ row.wamid = record[1].wamid /\ row.buried = record[1].buried
        /\ row.fresh = record[1].fresh /\ row.status = "SENDING"
    <3>1. record[1].attempts + 1 \in Nat
      BY <2>2, RecordFields
    <3> QED
      BY <2>2, <3>1 DEF Record, RecordStatus
  <2> DEFINE new == [sender[s] EXCEPT !.pc = "send"]
  <2>4. sender[s] \in SenderState
    BY DEF NoticeInv, NoticeTyped
  <2>5. /\ new \in SenderState /\ new.pc = "send" /\ new.row = sender[s].row
        /\ new.msg = sender[s].msg /\ new.outcome = sender[s].outcome
        /\ sender' = [sender EXCEPT ![s] = new]
    BY <2>1, <2>4 DEF SenderState, Stage
  <2>6. fault' = {} => Outgoing = {} /\ Engaged \subseteq {s} /\ new.row = 1
    BY <2>1, <2>5 DEF NoticeInv, OneSender, Engaged
  <2>7. fault \subseteq fault' /\ fault' \subseteq FaultName
    BY <2>1 DEF NoticeInv, NoticeTyped
  <2> HIDE DEF row, new
  <2> QED
    BY <2>1, <2>2, <2>3, <2>5, <2>6, <2>7, TaskMoves
<1> QED
  BY <1>1, <1>2

LEMMA ReportStep ==
    ASSUME NoticeInv, NEW m \in DOMAIN outbox, NEW fate \in {"delivered", "failed"},
           DeliveryStatus(m, fate)
    PROVE  NoticeInv'
<1> DEFINE now == IF fate = "delivered" THEN "DELIVERED" ELSE "FAILED"
           told(r) == IF record[r].wamid # m THEN record[r] ELSE [record[r] EXCEPT !.status = now]
<1>1. /\ kind \in {"chat", "document", "queue"} /\ outbox[m] = "sent"
      /\ outbox' = [outbox EXCEPT ![m] = fate] /\ record' = [r \in DOMAIN record |-> told(r)]
      /\ UNCHANGED <<kind, sender, fault>>
  BY DEF DeliveryStatus
<1>2. /\ m \in 1 .. Len(outbox) /\ outbox \in Seq(Fate) /\ fate \in Fate
      /\ Len(record) \in Nat /\ DOMAIN record = 1 .. Len(record) /\ Len(outbox) \in Nat
      /\ \A r \in 1 .. Len(record) : record[r] \in Record
  BY RecordRows DEF NoticeInv, NoticeTyped, Fate
<1>3. /\ outbox' \in Seq(Fate) /\ Len(outbox') = Len(outbox)
      /\ \A n \in 1 .. Len(outbox) : outbox'[n] = IF n = m THEN fate ELSE outbox[n]
  BY <1>1, <1>2, ExceptSeq
<1>4. \A r \in 1 .. Len(record) :
         /\ told(r) \in Record /\ told(r).wamid = record[r].wamid
         /\ told(r).fresh = record[r].fresh /\ told(r).buried = record[r].buried
         /\ told(r).status = IF record[r].wamid = m THEN now ELSE record[r].status
  BY <1>2 DEF Record, RecordStatus
<1> HIDE DEF told
<1>5. record' \in [1 .. Len(record) -> Record]
  BY <1>1, <1>2, <1>4
<1>6. record' \in Seq(Record)
  BY <1>2, <1>5, SeqDef
<1>7. Len(record') = Len(record)
  BY <1>2, <1>5, <1>6, LenProperties
<1>8. \A r \in 1 .. Len(record) : record'[r] = told(r)
  BY <1>1, <1>2
<1>9. NoticeTyped'
  BY <1>1, <1>3, <1>4, <1>6, <1>7, <1>8 DEF NoticeInv, NoticeTyped
<1>10. ASSUME fault' = {}
       PROVE  OneRow' /\ OneSender'
  <2>1. OneRow /\ OneSender /\ m \in Outgoing
    BY <1>1, <1>10 DEF NoticeInv, Outgoing
  <2>2. Outgoing = {m} /\ Engaged' = Engaged
    BY <1>1, <2>1 DEF OneSender, Engaged
  <2>3. Outgoing' = (IF fate = "failed" THEN {} ELSE {m})
    <3>1. DOMAIN outbox' = 1 .. Len(outbox') /\ DOMAIN outbox = 1 .. Len(outbox)
      BY <1>3, RecordRows, LenProperties DEF NoticeInv
    <3> QED
      BY <1>2, <1>3, <2>2, <3>1 DEF Outgoing
  <2>4. Len(record) = 1
    BY <1>2, <2>1 DEF OneRow
  <2>5. OneRow'
    BY <1>1, <1>4, <1>7, <1>8, <2>1, <2>2, <2>3, <2>4 DEF OneRow
  <2>6. OneSender'
    BY <1>1, <1>4, <1>8, <2>1, <2>2, <2>3, <2>4 DEF OneRow, OneSender, Engaged, Unsent
  <2> QED
    BY <2>5, <2>6
<1> QED
  BY <1>9, <1>10 DEF NoticeInv

LEMMA RowsAge ==
    ASSUME NoticeInv, NEW r \in DOMAIN record, LeaseAges(r) \/ Bury(r)
    PROVE  NoticeInv'
<1>1. r \in 1 .. Len(record) /\ record[r] \in Record
  BY RecordRows DEF NoticeInv
<1>2. PICK row \in Record : Commit(r, row) /\ row.wamid = record[r].wamid
  <2>1. [record[r] EXCEPT !.fresh = FALSE] \in Record
        /\ [record[r] EXCEPT !.fresh = FALSE].wamid = record[r].wamid
    BY <1>1 DEF Record
  <2>2. [record[r] EXCEPT !.buried = TRUE] \in Record
        /\ [record[r] EXCEPT !.buried = TRUE].wamid = record[r].wamid
    BY <1>1 DEF Record
  <2> QED
    BY <2>1, <2>2 DEF LeaseAges, Bury
<1>3. /\ fault' # {} /\ fault' \subseteq FaultName /\ UNCHANGED <<kind, sender, outbox>>
  BY DEF LeaseAges, Bury, NoticeInv, NoticeTyped, FaultName
<1>4. /\ record' \in Seq(Record) /\ Len(record') = Len(record)
      /\ \A q \in 1 .. Len(record) : record'[q].wamid = record[q].wamid
  BY <1>1, <1>2, Committed DEF NoticeInv
<1>5. NoticeTyped'
  BY <1>3, <1>4 DEF NoticeInv, NoticeTyped
<1> QED
  BY <1>3, <1>5 DEF NoticeInv

LEMMA NoticeStep == NoticeInv /\ [NotificationsNext]_notificationVars => NoticeInv'
<1> SUFFICES ASSUME NoticeInv, [NotificationsNext]_notificationVars
             PROVE  NoticeInv'
  OBVIOUS
<1>1. ASSUME NEW s \in Sender, Ask(s) \/ StopSender(s)
      PROVE  NoticeInv'
  <2>1. /\ Stage(s, "done") \/ (Stage(s, "claim") /\ kind # "queue")
        /\ UNCHANGED <<kind, record, outbox>> /\ fault' = fault /\ fault \subseteq FaultName
    BY <1>1 DEF Ask, StopSender, NoticeInv, NoticeTyped
  <2> QED
    BY <2>1, StageChanges
<1> QED
  BY <1>1, NoticeStutter, ClaimStep, UnsaidStep, SendStep, ResultStep, EnqueueStep, QueueSteps, ReportStep, RowsAge
  DEF NotificationsNext

LEMMA NoticeFollows ==
    ASSUME NoticeInv
    PROVE  NotificationsTypeOK /\ SentOnce
<1> DEFINE T == [status : RecordStatus, attempts : Nat, max : Nat, fresh : BOOLEAN,
                 wamid : DOMAIN outbox \cup {0}, buried : BOOLEAN]
<1>1. /\ \A r \in 1 .. Len(record) : record[r] \in Record /\ record[r].wamid \in 0 .. Len(outbox)
      /\ record \in Seq(Record) /\ DOMAIN outbox = 1 .. Len(outbox) /\ Len(outbox) \in Nat
      /\ DOMAIN record = 1 .. Len(record) /\ Len(record) \in Nat
  BY RecordRows, RecordFields DEF NoticeInv, NoticeTyped
<1>2. \A k \in 0 .. Len(outbox) : k \in DOMAIN outbox \cup {0}
  BY <1>1
<1>3. \A r \in 1 .. Len(record) : record[r] \in T
  BY <1>1, <1>2 DEF Record
<1>4. record \in [1 .. Len(record) -> T]
  <2>1. record \in [1 .. Len(record) -> Record]
    BY <1>1, LenProperties
  <2> HIDE DEF T
  <2> QED
    BY <1>3, <2>1
<1>5. record \in Seq(T)
  <2> HIDE DEF T
  <2> QED
    BY <1>1, <1>4, SeqDef
<1>6. \A s \in Sender : /\ sender[s] \in SenderState /\ sender[s].row \in DOMAIN record \cup {0}
                        /\ sender[s].msg \in DOMAIN outbox \cup {0}
  <2>1. \A s \in Sender : /\ sender[s] \in SenderState /\ sender[s].row \in Nat /\ sender[s].msg \in Nat
                          /\ sender[s].row <= Len(record) /\ sender[s].msg <= Len(outbox)
    BY DEF NoticeInv, NoticeTyped, SenderState
  <2>2. \A k \in Nat : k <= Len(record) => k \in DOMAIN record \cup {0}
    BY <1>1
  <2>3. \A k \in Nat : k <= Len(outbox) => k \in DOMAIN outbox \cup {0}
    BY <1>1
  <2> QED
    BY <2>1, <2>2, <2>3
<1>7. NotificationsTypeOK
  BY <1>5, <1>6 DEF NotificationsTypeOK, NoticeInv, NoticeTyped, SenderState, RecordStatus, KindName,
                    Fate, FaultName
<1>8. SentOnce
  BY DEF NoticeInv, OneSender, Outgoing, SentOnce
<1> QED
  BY <1>7, <1>8

\* Notification records, senders and messages keep their form (retry_notification,
\* send_and_log).
THEOREM NotificationsTyped == NotificationsSpec => []NotificationsTypeOK
  BY NoticeBegins, NoticeStep, NoticeFollows, PTL DEF NotificationsSpec

\* Whatever kind of notification it is and however many senders try: the customer
\* gets it once, but for the faults that SentOnce names (_claim_notification).
THEOREM SentOnceTheorem == NotificationsSpec => []SentOnce
  BY NoticeBegins, NoticeStep, NoticeFollows, PTL DEF NotificationsSpec

-----------------------------------------------------------------------------
(* Alerts.                                                                 *)

MessageState == {"accepted", "delivered", "failed"}
Messages == UNION {[M -> MessageState] : M \in SUBSET Nat}
AlertRow == [recent : BOOLEAN, status : {"COMPLETED", "DELIVERED", "PENDING", "FAILED"},
             messages : Messages]
MailRow == [to : Recipient, fate : {"sent", "delivered", "failed"}]
DispatcherState ==
    [pc : Active \cup {"ready", "done"}, proc : Server, todo : SUBSET Recipient,
     result : [Recipient -> {"none", "ACCEPTED", "UNKNOWN", "FAILED"}], msgs : SUBSET Nat]

AlertsTyped ==
    /\ redis \in KeyState /\ memory \in [Server -> KeyState] /\ away \in BOOLEAN
    /\ alert \in Seq(AlertRow) /\ mail \in Seq(MailRow)
    /\ dispatcher \in [Dispatcher -> DispatcherState]
    /\ mishap \subseteq {"running", "unknown", "key", "row", "unsaid"}
    /\ \A i \in DOMAIN alert : DOMAIN alert[i].messages \subseteq DOMAIN mail
    /\ \A d \in Dispatcher : dispatcher[d].msgs \subseteq DOMAIN mail

Excused == "running" \in mishap \/ "unknown" \in mishap \/ "unsaid" \in mishap \/ ("key" \in mishap /\ "row" \in mishap)

\* The key has one holder, and what is on its way was accepted in its dispatch.
Delivering == {m \in DOMAIN mail : mail[m].fate # "failed"}
Holds(d) == dispatcher[d].pc \in {"send", "finalize"}
OneHolder ==
    /\ \A d \in Dispatcher : Holds(d) => redis = "in_progress" /\ ~away
    /\ \A c, d \in Dispatcher : Holds(c) /\ Holds(d) => c = d
    /\ \A d \in Dispatcher : Holds(d) => \A m \in Delivering :
          mail[m].to \notin dispatcher[d].todo /\ dispatcher[d].result[mail[m].to] = "ACCEPTED"
    /\ \A m, n \in Delivering : mail[m].to = mail[n].to => m = n

\* While a message is on its way the key stands, or it lapsed when the row was
\* there and nobody had looked for the row before.
RowStands == \E i \in DOMAIN alert : Durable(alert[i])
LayersHold ==
    /\ Delivering # {} =>
          \/ redis \in {"in_progress", "dispatched"}
          \/ /\ "key" \in mishap /\ RowStands
             /\ \A d \in Dispatcher : dispatcher[d].pc \notin {"key", "send", "finalize"}
    /\ redis = "dispatched" /\ "row" \notin mishap =>
          RowStands \/ \E d \in Dispatcher : dispatcher[d].pc = "row" /\ Outcome(d) = "accepted"
    /\ "row" \notin mishap =>
          \A i \in DOMAIN alert : \A m \in DOMAIN alert[i].messages : alert[i].messages[m] # "failed"

AlertInv == AlertsTyped /\ (~Excused => OneHolder /\ LayersHold)

-----------------------------------------------------------------------------
LEMMA MailRows ==
    ASSUME AlertsTyped
    PROVE  /\ Len(mail) \in Nat /\ DOMAIN mail = 1 .. Len(mail)
           /\ \A m \in DOMAIN mail : mail[m] \in MailRow
           /\ Len(alert) \in Nat /\ DOMAIN alert = 1 .. Len(alert)
           /\ \A i \in DOMAIN alert : alert[i] \in AlertRow
<1>1. alert \in Seq(AlertRow) /\ mail \in Seq(MailRow)
  BY DEF AlertsTyped
<1> QED
  BY <1>1, LenProperties, ElementOfSeq

\* What a dispatcher came to follows from its recipients' results.
LEMMA SameOutcome ==
    ASSUME NEW d \in Dispatcher, dispatcher'[d].result = dispatcher[d].result
    PROVE  Outcome(d)' = Outcome(d)
  BY DEF Outcome

LEMMA Accepted ==
    ASSUME NEW d \in Dispatcher, NEW r \in Recipient, dispatcher[d].result[r] = "ACCEPTED"
    PROVE  Outcome(d) = "accepted"
  BY DEF Outcome

\* A dispatcher moves and keeps what it knows.
LEMMA Continues ==
    ASSUME AlertsTyped, NEW d \in Dispatcher, NEW pc \in Active \cup {"done"}, Continue(d, pc)
    PROVE  /\ dispatcher' \in [Dispatcher -> DispatcherState]
           /\ \A c \in Dispatcher :
                 /\ dispatcher'[c].todo = dispatcher[c].todo /\ dispatcher'[c].msgs = dispatcher[c].msgs
                 /\ dispatcher'[c].result = dispatcher[c].result /\ Outcome(c)' = Outcome(c)
                 /\ dispatcher'[c].pc = IF c = d THEN pc ELSE dispatcher[c].pc
<1>1. dispatcher' \in [Dispatcher -> DispatcherState]
  BY DEF AlertsTyped, DispatcherState, Continue
<1>2. \A c \in Dispatcher :
         /\ dispatcher'[c].todo = dispatcher[c].todo /\ dispatcher'[c].msgs = dispatcher[c].msgs
         /\ dispatcher'[c].result = dispatcher[c].result
         /\ dispatcher'[c].pc = IF c = d THEN pc ELSE dispatcher[c].pc
  BY DEF AlertsTyped, DispatcherState, Continue
<1> QED
  BY <1>1, <1>2, SameOutcome

LEMMA AlertBegins == OpsInit => AlertInv
<1> SUFFICES ASSUME OpsInit
             PROVE  AlertInv
  OBVIOUS
<1>1. PICK p \in [Dispatcher -> Server] : dispatcher = [d \in Dispatcher |-> NewDispatcher(p[d])]
  BY DEF OpsInit
<1>2. \A d \in Dispatcher : NewDispatcher(p[d]) \in DispatcherState
  BY DEF NewDispatcher, DispatcherState
<1>3. \A d \in Dispatcher : dispatcher[d].pc = "ready" /\ dispatcher[d].msgs = {}
  BY <1>1 DEF NewDispatcher
<1>4. DOMAIN mail = {} /\ DOMAIN alert = {} /\ alert \in Seq(AlertRow) /\ mail \in Seq(MailRow)
  BY EmptySeq DEF OpsInit
<1>5. dispatcher \in [Dispatcher -> DispatcherState]
  BY <1>1, <1>2
<1>6. AlertsTyped
  BY <1>3, <1>4, <1>5 DEF AlertsTyped, OpsInit, KeyState
<1>7. OneHolder /\ LayersHold
  BY <1>3, <1>4 DEF OneHolder, LayersHold, Holds, Delivering, OpsInit
<1> QED
  BY <1>6, <1>7 DEF AlertInv

LEMMA AlertStutter == AlertInv /\ UNCHANGED opsVars => AlertInv'
  BY DEF AlertInv, opsVars, AlertsTyped, Excused, OneHolder, LayersHold, Holds, Delivering, RowStands,
         Durable, Outcome

LEMMA CheckStep ==
    ASSUME AlertInv, NEW d \in Dispatcher, CheckRow(d)
    PROVE  AlertInv'
<1>1. PICK next \in {"done", "key"} :
         /\ dispatcher[d].pc = "ready" /\ Continue(d, next)
         /\ UNCHANGED <<redis, away, memory, alert, mail>>
         /\ mishap' = mishap \/ mishap' = mishap \cup {"row"}
         /\ next = "key" /\ RowStands => mishap' = mishap \cup {"row"}
  BY DEF CheckRow, RowStands
<1>2. next \in Active \cup {"done"} /\ next \notin {"send", "finalize", "row"}
  BY <1>1 DEF Active
<1>3. /\ dispatcher' \in [Dispatcher -> DispatcherState]
      /\ \A c \in Dispatcher :
            /\ dispatcher'[c].todo = dispatcher[c].todo /\ dispatcher'[c].msgs = dispatcher[c].msgs
            /\ dispatcher'[c].result = dispatcher[c].result /\ Outcome(c)' = Outcome(c)
            /\ dispatcher'[c].pc = IF c = d THEN next ELSE dispatcher[c].pc
  BY <1>1, <1>2, Continues DEF AlertInv
<1>4. AlertsTyped'
  BY <1>1, <1>3 DEF AlertInv, AlertsTyped
<1>5. Delivering' = Delivering /\ RowStands' = RowStands /\ (Excused => Excused')
  BY <1>1 DEF Delivering, RowStands, Excused, Durable
<1>6. ~Excused' => OneHolder'
  BY <1>1, <1>2, <1>3, <1>5 DEF AlertInv, OneHolder, Holds
<1>7. ~Excused' => LayersHold'
  <2>1. ASSUME ~Excused', "key" \in mishap
        PROVE  mishap' = mishap /\ (next = "key" => ~RowStands)
    BY <1>1, <2>1 DEF Excused
  <2> QED
    BY <1>1, <1>2, <1>3, <1>5, <2>1 DEF AlertInv, LayersHold
<1> QED
  BY <1>4, <1>6, <1>7 DEF AlertInv

LEMMA TakeStep ==
    ASSUME AlertInv, NEW d \in Dispatcher, TakeKey(d)
    PROVE  AlertInv'
<1> DEFINE held == IF away THEN memory[dispatcher[d].proc] ELSE redis
           next == IF held # "none" THEN "done" ELSE "send"
<1>1. /\ dispatcher[d].pc = "key" /\ Continue(d, next) /\ UNCHANGED <<away, alert, mail>>
      /\ mishap' = IF away THEN mishap \cup {"running"} ELSE mishap
      /\ ~away => redis' = IF held = "none" THEN "in_progress" ELSE redis
      /\ \/ UNCHANGED <<redis, memory>>
         \/ /\ redis' = IF away THEN redis ELSE "in_progress"
            /\ memory' = IF away THEN [memory EXCEPT ![dispatcher[d].proc] = "in_progress"] ELSE memory
  BY DEF TakeKey
<1>2. next \in Active \cup {"done"} /\ next \in {"send", "done"} /\ (~away /\ next = "send" <=> ~away /\ redis = "none")
  BY DEF Active
<1>3. /\ dispatcher' \in [Dispatcher -> DispatcherState]
      /\ \A c \in Dispatcher :
            /\ dispatcher'[c].todo = dispatcher[c].todo /\ dispatcher'[c].msgs = dispatcher[c].msgs
            /\ dispatcher'[c].result = dispatcher[c].result /\ Outcome(c)' = Outcome(c)
            /\ dispatcher'[c].pc = IF c = d THEN next ELSE dispatcher[c].pc
  BY <1>1, <1>2, Continues DEF AlertInv
<1>4. redis' \in KeyState /\ memory' \in [Server -> KeyState] /\ mishap' \subseteq {"running", "unknown", "key", "row", "unsaid"}
  BY <1>1 DEF AlertInv, AlertsTyped, KeyState
<1>5. AlertsTyped'
  BY <1>1, <1>3, <1>4 DEF AlertInv, AlertsTyped
<1>6. ASSUME ~Excused'
      PROVE  OneHolder' /\ LayersHold'
  <2>1. ~away /\ mishap' = mishap /\ OneHolder /\ LayersHold
        /\ redis' = IF redis = "none" THEN "in_progress" ELSE redis
    BY <1>1, <1>6 DEF AlertInv, Excused
  <2>2. Delivering' = Delivering /\ RowStands' = RowStands
    BY <1>1 DEF Delivering, RowStands, Durable
  <2> HIDE DEF next, held
  <2>3. CASE redis = "none"
    <3>1. Delivering = {} /\ \A c \in Dispatcher : ~Holds(c)
      BY <1>1, <2>1, <2>3 DEF LayersHold, OneHolder
    <3>2. OneHolder'
      BY <1>1, <1>2, <1>3, <2>1, <2>2, <2>3, <3>1 DEF OneHolder, Holds
    <3>3. LayersHold'
      BY <1>1, <2>1, <2>2, <2>3, <3>1 DEF LayersHold
    <3> QED
      BY <3>2, <3>3
  <2>4. CASE redis # "none"
    <3>1. next = "done" /\ redis' = redis
      BY <1>2, <2>1, <2>4
    <3>2. OneHolder'
      BY <1>1, <1>3, <2>1, <2>2, <3>1 DEF OneHolder, Holds
    <3>3. LayersHold'
      BY <1>1, <1>3, <2>1, <2>2, <3>1 DEF LayersHold
    <3> QED
      BY <3>2, <3>3
  <2> QED
    BY <2>3, <2>4
<1> QED
  BY <1>5, <1>6 DEF AlertInv

\* A post that does not say what it made is a mishap of its own.
LEMMA AlertUnsaidStep ==
    ASSUME AlertInv, NEW d \in Dispatcher, NEW r \in Recipient, AlertUnsaid(d, r)
    PROVE  AlertInv'
<1>1. /\ mail' = Append(mail, [to |-> r, fate |-> "sent"]) /\ mishap' = mishap \cup {"unsaid"}
      /\ UNCHANGED <<redis, away, memory, alert, dispatcher>>
  BY DEF AlertUnsaid
<1>2. mail' \in Seq(MailRow) /\ DOMAIN mail \subseteq DOMAIN mail'
  <2>1. mail \in Seq(MailRow) /\ [to |-> r, fate |-> "sent"] \in MailRow /\ Len(mail) \in Nat
        /\ DOMAIN mail = 1 .. Len(mail)
    BY MailRows DEF AlertInv, AlertsTyped, MailRow
  <2>2. mail' \in Seq(MailRow) /\ Len(mail') = Len(mail) + 1
    BY <1>1, <2>1, AppendProperties
  <2>3. DOMAIN mail' = 1 .. Len(mail) + 1
    BY <2>2, LenProperties
  <2> QED
    BY <2>1, <2>2, <2>3
<1>3. AlertsTyped'
  BY <1>1, <1>2 DEF AlertInv, AlertsTyped
<1>4. Excused'
  BY <1>1 DEF Excused
<1> QED
  BY <1>3, <1>4 DEF AlertInv

LEMMA AlertSent ==
    ASSUME AlertInv, NEW d \in Dispatcher, NEW r \in Recipient, SendAlert(d, r)
    PROVE  AlertInv'
<1>1. PICK result \in {"ACCEPTED", "UNKNOWN", "FAILED"}, made \in BOOLEAN :
          /\ result = "ACCEPTED" => made
          /\ result = "FAILED" => ~made
          /\ dispatcher' = [dispatcher EXCEPT
                ![d].todo = @ \ {r},
                ![d].result[r] = result,
                ![d].msgs = IF result = "ACCEPTED" THEN @ \cup {Len(mail) + 1} ELSE @,
                ![d].pc = IF dispatcher[d].todo = {r} THEN "finalize" ELSE @]
          /\ mail' = IF made THEN Append(mail, [to |-> r, fate |-> "sent"]) ELSE mail
          /\ mishap' = IF result = "UNKNOWN" /\ made THEN mishap \cup {"unknown"} ELSE mishap
  BY DEF SendAlert
<1> DEFINE n == Len(mail) + 1
           new == [dispatcher[d] EXCEPT
                     !.todo = @ \ {r}, !.result = [@ EXCEPT ![r] = result],
                     !.msgs = IF result = "ACCEPTED" THEN @ \cup {n} ELSE @,
                     !.pc = IF dispatcher[d].todo = {r} THEN "finalize" ELSE @]
<1>2. /\ dispatcher[d].pc = "send" /\ r \in dispatcher[d].todo
      /\ UNCHANGED <<redis, away, memory, alert>>
  BY DEF SendAlert
<1>3. /\ n \in Nat /\ Len(mail) \in Nat /\ mail \in Seq(MailRow) /\ DOMAIN mail = 1 .. Len(mail)
      /\ dispatcher[d] \in DispatcherState
  BY MailRows DEF AlertInv, AlertsTyped
<1>4. /\ mail' \in Seq(MailRow) /\ DOMAIN mail' = DOMAIN mail \cup (IF made THEN {n} ELSE {})
      /\ \A m \in DOMAIN mail : mail'[m] = mail[m]
      /\ made => mail'[n].to = r
  <2>1. [to |-> r, fate |-> "sent"] \in MailRow
    BY DEF MailRow
  <2>2. CASE made
    <3>1. mail' = Append(mail, [to |-> r, fate |-> "sent"])
      BY <1>1, <2>2
    <3>2. /\ mail' \in Seq(MailRow) /\ Len(mail') = n /\ \A m \in 1 .. Len(mail) : mail'[m] = mail[m]
          /\ mail'[n] = [to |-> r, fate |-> "sent"]
      BY <1>3, <2>1, <3>1, AppendProperties
    <3>3. DOMAIN mail' = 1 .. n
      BY <3>2, LenProperties
    <3>4. 1 .. n = (1 .. Len(mail)) \cup {n}
      BY <1>3
    <3> QED
      BY <1>3, <2>2, <3>2, <3>3, <3>4
  <2>3. CASE ~made
    BY <1>1, <1>3, <2>3
  <2> QED
    BY <2>2, <2>3
<1>5. dispatcher' = [dispatcher EXCEPT ![d] = new]
  BY <1>1
<1>6. /\ new \in DispatcherState /\ new.todo = dispatcher[d].todo \ {r}
      /\ \A q \in Recipient : new.result[q] = IF q = r THEN result ELSE dispatcher[d].result[q]
      /\ new.msgs \subseteq DOMAIN mail' /\ new.pc \in {"send", "finalize"}
  <2>1. [dispatcher[d].result EXCEPT ![r] = result] \in [Recipient -> {"none", "ACCEPTED", "UNKNOWN", "FAILED"}]
        /\ \A q \in Recipient : [dispatcher[d].result EXCEPT ![r] = result][q] =
                                   IF q = r THEN result ELSE dispatcher[d].result[q]
    BY <1>3 DEF DispatcherState
  <2>2. dispatcher[d].msgs \subseteq DOMAIN mail
    BY DEF AlertInv, AlertsTyped
  <2> QED
    BY <1>1, <1>2, <1>3, <1>4, <2>1, <2>2 DEF DispatcherState, Active
<1> HIDE DEF new
<1>7. /\ dispatcher' \in [Dispatcher -> DispatcherState] /\ dispatcher'[d] = new
      /\ \A c \in Dispatcher : c # d => dispatcher'[c] = dispatcher[c]
  BY <1>5, <1>6 DEF AlertInv, AlertsTyped
<1>8. AlertsTyped'
  BY <1>1, <1>2, <1>4, <1>6, <1>7 DEF AlertInv, AlertsTyped
<1>9. ASSUME ~Excused'
      PROVE  OneHolder' /\ LayersHold'
  <2>1. /\ OneHolder /\ LayersHold /\ mishap' = mishap /\ (made <=> result = "ACCEPTED")
    BY <1>1, <1>9 DEF AlertInv, Excused
  <2>2. Holds(d) /\ redis = "in_progress" /\ ~away /\ \A c \in Dispatcher : Holds(c) => c = d
    BY <1>2, <2>1 DEF OneHolder, Holds
  <2>3. /\ \A c \in Dispatcher : Holds(c)' => c = d
        /\ \A m \in Delivering' : m \in Delivering \/ (made /\ m = n)
        /\ \A m \in Delivering : mail'[m] = mail[m] /\ mail[m].to # r /\ mail[m].to \in Recipient
    <3>1. \A c \in Dispatcher : Holds(c)' => c = d
      BY <1>7, <2>2 DEF Holds
    <3>2. \A m \in Delivering' : m \in Delivering \/ (made /\ m = n)
      BY <1>4 DEF Delivering
    <3>3. \A m \in Delivering : mail'[m] = mail[m] /\ mail[m].to # r /\ mail[m].to \in Recipient
      BY <1>2, <1>4, <2>1, <2>2, MailRows DEF Delivering, OneHolder, AlertInv, MailRow
    <3> QED
      BY <3>1, <3>2, <3>3
  <2>4. \A m \in Delivering' : mail'[m].to \notin new.todo /\ new.result[mail'[m].to] = "ACCEPTED"
    BY <1>4, <1>6, <2>1, <2>2, <2>3 DEF OneHolder
  <2>5. \A m, k \in Delivering' : mail'[m].to = mail'[k].to => m = k
    BY <1>4, <2>1, <2>3 DEF OneHolder
  <2>6. OneHolder'
    BY <1>2, <1>7, <2>2, <2>3, <2>4, <2>5 DEF OneHolder
  <2>7. LayersHold'
    BY <1>2, <2>1, <2>2 DEF LayersHold
  <2> QED
    BY <2>6, <2>7
<1> QED
  BY <1>8, <1>9 DEF AlertInv

LEMMA KeyStep ==
    ASSUME AlertInv, NEW d \in Dispatcher, FinalizeKey(d)
    PROVE  AlertInv'
<1>1. /\ dispatcher[d].pc = "finalize" /\ Continue(d, "row")
      /\ redis' = IF away THEN redis ELSE KeyAfter(d)
      /\ memory' = [memory EXCEPT ![dispatcher[d].proc] = KeyAfter(d)]
      /\ UNCHANGED <<away, alert, mail, mishap>>
  BY DEF FinalizeKey
<1>2. /\ dispatcher' \in [Dispatcher -> DispatcherState]
      /\ \A c \in Dispatcher :
            /\ dispatcher'[c].todo = dispatcher[c].todo /\ dispatcher'[c].msgs = dispatcher[c].msgs
            /\ dispatcher'[c].result = dispatcher[c].result /\ Outcome(c)' = Outcome(c)
            /\ dispatcher'[c].pc = IF c = d THEN "row" ELSE dispatcher[c].pc
  BY <1>1, Continues DEF AlertInv, Active
<1>3. /\ KeyAfter(d) \in KeyState
      /\ Outcome(d) = "accepted" => KeyAfter(d) = "dispatched"
      /\ KeyAfter(d) = "dispatched" => Outcome(d) = "accepted"
  BY DEF KeyAfter, KeyState
<1>4. AlertsTyped'
  BY <1>1, <1>2, <1>3 DEF AlertInv, AlertsTyped
<1>5. ASSUME ~Excused'
      PROVE  OneHolder' /\ LayersHold'
  <2>1. OneHolder /\ LayersHold /\ mishap' = mishap
    BY <1>1, <1>5 DEF AlertInv, Excused
  <2>2. Holds(d) /\ ~away /\ redis' = KeyAfter(d) /\ \A c \in Dispatcher : Holds(c) => c = d
    BY <1>1, <2>1 DEF OneHolder, Holds
  <2>3. \A c \in Dispatcher : ~Holds(c)'
    BY <1>2, <2>2 DEF Holds
  <2>4. Delivering' = Delivering /\ RowStands' = RowStands
    BY <1>1 DEF Delivering, RowStands, Durable
  <2>5. OneHolder'
    BY <1>1, <2>1, <2>3, <2>4 DEF OneHolder
  <2>6. Delivering # {} => Outcome(d) = "accepted"
    <3> SUFFICES ASSUME NEW m \in Delivering
                 PROVE  Outcome(d) = "accepted"
      OBVIOUS
    <3>1. mail[m].to \in Recipient
      BY MailRows DEF AlertInv, MailRow, Delivering
    <3>2. dispatcher[d].result[mail[m].to] = "ACCEPTED"
      BY <2>1, <2>2 DEF OneHolder
    <3> QED
      BY <3>1, <3>2, Accepted
  <2>7. LayersHold'
    <3>1. Delivering' # {} => redis' = "dispatched"
      BY <1>3, <2>2, <2>4, <2>6
    <3>2. redis' = "dispatched" => dispatcher'[d].pc = "row" /\ Outcome(d)' = "accepted"
      BY <1>2, <1>3, <2>2
    <3>3. "row" \notin mishap' =>
             \A i \in DOMAIN alert' : \A m \in DOMAIN alert'[i].messages : alert'[i].messages[m] # "failed"
      BY <1>1, <2>1 DEF LayersHold
    <3> QED
      BY <3>1, <3>2, <3>3 DEF LayersHold
  <2> QED
    BY <2>5, <2>7
<1> QED
  BY <1>4, <1>5 DEF AlertInv

LEMMA AlertRowStep ==
    ASSUME AlertInv, NEW d \in Dispatcher, FinalizeRow(d)
    PROVE  AlertInv'
<1> DEFINE status == CASE Outcome(d) = "accepted" -> "COMPLETED"
                       [] Outcome(d) = "unknown" -> "PENDING"
                       [] OTHER -> "FAILED"
           row == [recent |-> TRUE, status |-> status, messages |-> [m \in dispatcher[d].msgs |-> "accepted"]]
<1>1. /\ dispatcher[d].pc = "row" /\ Continue(d, "done")
      /\ UNCHANGED <<redis, away, memory, mail>>
      /\ \/ alert' = Append(alert, row) /\ mishap' = mishap
         \/ alert' = alert /\ mishap' = mishap \cup {"row"}
  BY DEF FinalizeRow
<1>2. /\ dispatcher' \in [Dispatcher -> DispatcherState]
      /\ \A c \in Dispatcher :
            /\ dispatcher'[c].todo = dispatcher[c].todo /\ dispatcher'[c].msgs = dispatcher[c].msgs
            /\ dispatcher'[c].result = dispatcher[c].result /\ Outcome(c)' = Outcome(c)
            /\ dispatcher'[c].pc = IF c = d THEN "done" ELSE dispatcher[c].pc
  BY <1>1, Continues DEF AlertInv, Active
<1>3. /\ row \in AlertRow /\ DOMAIN row.messages = dispatcher[d].msgs
      /\ \A m \in DOMAIN row.messages : row.messages[m] # "failed"
      /\ Outcome(d) = "accepted" => Durable(row)
  <2>1. dispatcher[d].msgs \in SUBSET Nat
    BY DEF AlertInv, AlertsTyped, DispatcherState
  <2>2. [m \in dispatcher[d].msgs |-> "accepted"] \in Messages
    BY <2>1 DEF Messages, MessageState
  <2>3. status \in {"COMPLETED", "PENDING", "FAILED"}
    OBVIOUS
  <2>4. row \in AlertRow
    BY <2>2, <2>3 DEF AlertRow
  <2> QED
    BY <2>4 DEF Durable
<1> HIDE DEF row
<1>4. \A c \in Dispatcher : Holds(c)' = Holds(c)
  BY <1>1, <1>2 DEF Holds
<1>5. /\ Delivering' = Delivering
      /\ OneHolder => OneHolder'
  <2>1. Delivering' = Delivering
    BY <1>1 DEF Delivering
  <2> QED
    BY <1>1, <1>2, <1>4, <2>1 DEF OneHolder
<1>6. CASE alert' = Append(alert, row) /\ mishap' = mishap
  <2>1. /\ alert' \in Seq(AlertRow) /\ DOMAIN alert' = DOMAIN alert \cup {Len(alert) + 1}
        /\ \A i \in DOMAIN alert : alert'[i] = alert[i]
        /\ alert'[Len(alert) + 1] = row
    <3>1. Len(alert) \in Nat /\ alert \in Seq(AlertRow) /\ DOMAIN alert = 1 .. Len(alert)
      BY MailRows DEF AlertInv, AlertsTyped
    <3>2. /\ alert' \in Seq(AlertRow) /\ Len(alert') = Len(alert) + 1
          /\ \A i \in 1 .. Len(alert) : alert'[i] = alert[i]
          /\ alert'[Len(alert) + 1] = row
      BY <1>3, <1>6, <3>1, AppendProperties
    <3>3. DOMAIN alert' = 1 .. (Len(alert) + 1)
      BY <3>2, LenProperties
    <3>4. 1 .. (Len(alert) + 1) = (1 .. Len(alert)) \cup {Len(alert) + 1}
      BY <3>1
    <3> QED
      BY <3>1, <3>2, <3>3, <3>4
  <2>2. AlertsTyped'
    <3>1. dispatcher[d].msgs \subseteq DOMAIN mail
      BY DEF AlertInv, AlertsTyped
    <3>2. \A i \in DOMAIN alert' : DOMAIN alert'[i].messages \subseteq DOMAIN mail'
      BY <1>1, <1>3, <2>1, <3>1 DEF AlertInv, AlertsTyped
    <3> QED
      BY <1>1, <1>2, <1>6, <2>1, <3>2 DEF AlertInv, AlertsTyped
  <2>3. (RowStands => RowStands') /\ (Outcome(d) = "accepted" => RowStands')
    BY <1>3, <2>1 DEF RowStands, Durable
  <2>4. ASSUME ~Excused'
        PROVE  OneHolder' /\ LayersHold'
    <3>1. OneHolder /\ LayersHold
      BY <1>6, <2>4 DEF AlertInv, Excused
    <3>2. Delivering' # {} =>
             \/ redis' \in {"in_progress", "dispatched"}
             \/ /\ "key" \in mishap' /\ RowStands'
                /\ \A c \in Dispatcher : dispatcher'[c].pc \notin {"key", "send", "finalize"}
      BY <1>1, <1>2, <1>5, <1>6, <2>3, <3>1 DEF LayersHold
    <3>3. redis' = "dispatched" /\ "row" \notin mishap' =>
             RowStands' \/ \E c \in Dispatcher : dispatcher'[c].pc = "row" /\ Outcome(c)' = "accepted"
      BY <1>1, <1>2, <1>6, <2>3, <3>1 DEF LayersHold
    <3>4. "row" \notin mishap' =>
             \A i \in DOMAIN alert' : \A m \in DOMAIN alert'[i].messages : alert'[i].messages[m] # "failed"
      BY <1>3, <1>6, <2>1, <3>1 DEF LayersHold
    <3> QED
      BY <1>5, <3>1, <3>2, <3>3, <3>4 DEF LayersHold
  <2> QED
    BY <2>2, <2>4 DEF AlertInv
<1>7. CASE alert' = alert /\ mishap' = mishap \cup {"row"}
  <2>1. AlertsTyped'
    BY <1>1, <1>2, <1>7 DEF AlertInv, AlertsTyped
  <2>2. ~Excused' => ~Excused /\ "key" \notin mishap /\ "row" \in mishap'
    BY <1>7 DEF Excused
  <2>3. ~Excused' => LayersHold'
    BY <1>1, <1>5, <2>2 DEF AlertInv, LayersHold
  <2> QED
    BY <1>5, <2>1, <2>2, <2>3 DEF AlertInv
<1> QED
  BY <1>1, <1>6, <1>7

LEMMA StatusStep ==
    ASSUME AlertInv, NEW m \in DOMAIN mail, NEW fate \in {"delivered", "failed"}, Report(m, fate)
    PROVE  AlertInv'
<1>1. /\ mail[m].fate = "sent" /\ mail' = [mail EXCEPT ![m].fate = fate]
      /\ alert' = [i \in DOMAIN alert |-> IF m \in DOMAIN alert[i].messages
                                          THEN Reported(alert[i], m, fate) ELSE alert[i]]
      /\ mishap' = IF fate = "failed" THEN mishap \cup {"row"} ELSE mishap
      /\ UNCHANGED <<redis, away, memory, dispatcher>>
  BY DEF Report
<1>2. \A i \in DOMAIN alert : m \in DOMAIN alert[i].messages =>
         /\ Reported(alert[i], m, fate) \in AlertRow
         /\ Reported(alert[i], m, fate).recent = alert[i].recent
         /\ DOMAIN Reported(alert[i], m, fate).messages = DOMAIN alert[i].messages
         /\ fate = "delivered" /\ (\A n \in DOMAIN alert[i].messages : alert[i].messages[n] # "failed") =>
               /\ Reported(alert[i], m, fate).status \in {"COMPLETED", "DELIVERED"}
               /\ \A n \in DOMAIN alert[i].messages : Reported(alert[i], m, fate).messages[n] # "failed"
  <2> SUFFICES ASSUME NEW i \in DOMAIN alert, m \in DOMAIN alert[i].messages
               PROVE  /\ Reported(alert[i], m, fate) \in AlertRow
                      /\ Reported(alert[i], m, fate).recent = alert[i].recent
                      /\ DOMAIN Reported(alert[i], m, fate).messages = DOMAIN alert[i].messages
                      /\ fate = "delivered" /\ (\A n \in DOMAIN alert[i].messages : alert[i].messages[n] # "failed") =>
                            /\ Reported(alert[i], m, fate).status \in {"COMPLETED", "DELIVERED"}
                            /\ \A n \in DOMAIN alert[i].messages : Reported(alert[i], m, fate).messages[n] # "failed"
    OBVIOUS
  <2> DEFINE a == alert[i]
             messages == [a.messages EXCEPT ![m] = fate]
             states == {messages[n] : n \in DOMAIN messages}
             status == IF "failed" \in states THEN "FAILED"
                       ELSE IF states = {"delivered"} THEN "DELIVERED" ELSE "COMPLETED"
  <2>1. Reported(a, m, fate) = [a EXCEPT !.messages = messages, !.status = status]
    BY DEF Reported
  <2>2. a \in AlertRow
    BY MailRows DEF AlertInv
  <2>3. PICK M \in SUBSET Nat : a.messages \in [M -> MessageState]
    BY <2>2 DEF AlertRow, Messages
  <2>4. /\ messages \in [M -> MessageState] /\ m \in M
        /\ \A n \in M : messages[n] = IF n = m THEN fate ELSE a.messages[n]
    BY <2>3 DEF MessageState
  <2>5. messages \in Messages
    BY <2>4 DEF Messages
  <2>6. status \in {"COMPLETED", "DELIVERED", "FAILED"}
    OBVIOUS
  <2>7. fate = "delivered" /\ (\A n \in M : a.messages[n] # "failed") =>
           (\A n \in M : messages[n] # "failed") /\ status # "FAILED"
    BY <2>4
  <2>8. DOMAIN a.messages = M /\ DOMAIN messages = M
    BY <2>3, <2>4
  <2> HIDE DEF messages, status
  <2>9. /\ Reported(a, m, fate) \in AlertRow /\ Reported(a, m, fate).recent = a.recent
        /\ Reported(a, m, fate).messages = messages /\ Reported(a, m, fate).status = status
    BY <2>1, <2>2, <2>5, <2>6 DEF AlertRow
  <2> QED
    BY <2>6, <2>7, <2>8, <2>9
<1>3. /\ alert' \in Seq(AlertRow) /\ DOMAIN alert' = DOMAIN alert
      /\ \A i \in DOMAIN alert : alert'[i] = IF m \in DOMAIN alert[i].messages
                                             THEN Reported(alert[i], m, fate) ELSE alert[i]
  <2>1. Len(alert) \in Nat /\ DOMAIN alert = 1 .. Len(alert) /\ \A i \in DOMAIN alert : alert[i] \in AlertRow
    BY MailRows DEF AlertInv
  <2>2. \A i \in DOMAIN alert : (IF m \in DOMAIN alert[i].messages
                                 THEN Reported(alert[i], m, fate) ELSE alert[i]) \in AlertRow
    BY <1>2, <2>1
  <2>3. alert' \in [1 .. Len(alert) -> AlertRow]
    BY <1>1, <2>1, <2>2
  <2>4. alert' \in Seq(AlertRow)
    BY <2>1, <2>3, SeqDef
  <2> QED
    BY <1>1, <2>4
<1>4. /\ mail' \in Seq(MailRow) /\ DOMAIN mail' = DOMAIN mail
      /\ \A n \in DOMAIN mail : /\ mail'[n].to = mail[n].to
                                /\ mail'[n].fate = IF n = m THEN fate ELSE mail[n].fate
  <2>1. Len(mail) \in Nat /\ DOMAIN mail = 1 .. Len(mail) /\ \A n \in DOMAIN mail : mail[n] \in MailRow
    BY MailRows DEF AlertInv
  <2>2. /\ mail' \in [1 .. Len(mail) -> MailRow]
        /\ \A n \in DOMAIN mail : /\ mail'[n].to = mail[n].to
                                  /\ mail'[n].fate = IF n = m THEN fate ELSE mail[n].fate
    <3>1. mail \in [1 .. Len(mail) -> MailRow]
      BY SeqDef, LenProperties DEF AlertInv, AlertsTyped
    <3> QED
      BY <1>1, <2>1, <3>1 DEF MailRow
  <2>3. mail' \in Seq(MailRow)
    BY <2>1, <2>2, SeqDef
  <2> QED
    BY <2>1, <2>2, <2>3
<1>5. AlertsTyped'
  <2>1. \A i \in DOMAIN alert' : DOMAIN alert'[i].messages \subseteq DOMAIN mail'
    BY <1>2, <1>3, <1>4 DEF AlertInv, AlertsTyped
  <2> QED
    BY <1>1, <1>3, <1>4, <2>1 DEF AlertInv, AlertsTyped
<1>6. ASSUME ~Excused'
      PROVE  OneHolder' /\ LayersHold'
  <2>1. OneHolder /\ LayersHold
    BY <1>1, <1>6 DEF AlertInv, Excused
  <2>2. Delivering' \subseteq Delivering /\ (Delivering' # {} => Delivering # {})
    <3>1. \A n \in DOMAIN mail : mail'[n].fate # "failed" => mail[n].fate # "failed"
      BY <1>1, <1>4
    <3>2. Delivering' \subseteq Delivering
      BY <1>4, <3>1 DEF Delivering
    <3> QED
      BY <3>2
  <2>3. OneHolder'
    BY <1>1, <1>4, <2>1, <2>2 DEF OneHolder, Holds, Delivering
  <2>4. CASE "row" \in mishap'
    <3>1. "key" \notin mishap
      BY <1>1, <1>6, <2>4 DEF Excused
    <3>2. Delivering' # {} => redis' \in {"in_progress", "dispatched"}
      BY <1>1, <2>1, <2>2, <3>1 DEF LayersHold
    <3> QED
      BY <2>3, <2>4, <3>2 DEF LayersHold
  <2>5. CASE "row" \notin mishap'
    <3>1. fate = "delivered" /\ mishap' = mishap
      BY <1>1, <2>5
    <3>2. \A i \in DOMAIN alert : \A n \in DOMAIN alert[i].messages : alert[i].messages[n] # "failed"
      BY <2>1, <2>5, <3>1 DEF LayersHold
    <3>3. \A i \in DOMAIN alert' : \A n \in DOMAIN alert'[i].messages : alert'[i].messages[n] # "failed"
      BY <1>2, <1>3, <3>1, <3>2
    <3>4. \A i \in DOMAIN alert : Durable(alert[i]) => Durable(alert'[i])
      BY <1>2, <1>3, <3>1, <3>2 DEF Durable
    <3>5. RowStands => RowStands'
      BY <1>3, <3>4 DEF RowStands, Durable
    <3>6. \A c \in Dispatcher : Outcome(c)' = Outcome(c)
      BY <1>1 DEF Outcome
    <3>7. Delivering' # {} =>
             \/ redis' \in {"in_progress", "dispatched"}
             \/ /\ "key" \in mishap' /\ RowStands'
                /\ \A c \in Dispatcher : dispatcher'[c].pc \notin {"key", "send", "finalize"}
      BY <1>1, <2>1, <2>2, <3>1, <3>5 DEF LayersHold
    <3>8. redis' = "dispatched" /\ "row" \notin mishap' =>
             RowStands' \/ \E c \in Dispatcher : dispatcher'[c].pc = "row" /\ Outcome(c)' = "accepted"
      BY <1>1, <2>1, <3>1, <3>5, <3>6 DEF LayersHold
    <3> QED
      BY <2>3, <3>3, <3>7, <3>8 DEF LayersHold
  <2> QED
    BY <2>3, <2>4, <2>5
<1> QED
  BY <1>5, <1>6 DEF AlertInv

\* A key lapses: while the dispatch runs, or after it.
LEMMA RedisLapse ==
    ASSUME AlertInv, RedisExpires
    PROVE  AlertInv'
<1>1. /\ Over(redis) /\ redis' = "none" /\ mishap' = mishap \cup Lapse(redis)
      /\ UNCHANGED <<away, memory, alert, dispatcher, mail>>
  BY DEF RedisExpires
<1>2. redis \in {"in_progress", "dispatched", "unknown_timeout"} /\ Lapse(redis) \subseteq {"running", "unknown", "key"}
  BY <1>1 DEF Over, Lapse, AlertInv, AlertsTyped, KeyState
<1>3. AlertsTyped'
  BY <1>1, <1>2 DEF AlertInv, AlertsTyped, KeyState
<1>4. ASSUME ~Excused'
      PROVE  OneHolder' /\ LayersHold'
  <2>1. ~Excused /\ OneHolder /\ LayersHold
    BY <1>1, <1>4 DEF AlertInv, Excused
  <2>2. redis = "dispatched" /\ "key" \in mishap' /\ "row" \notin mishap /\ "row" \notin mishap'
    BY <1>1, <1>2, <1>4 DEF Lapse, Excused
  <2>3. \A c \in Dispatcher : dispatcher[c].pc \notin {"key", "send", "finalize", "row"}
    BY <1>1, <2>2 DEF Over, Dispatching, Active
  <2>4. RowStands
    BY <2>1, <2>2, <2>3 DEF LayersHold
  <2>5. Delivering' = Delivering /\ RowStands'
    BY <1>1, <2>4 DEF Delivering, RowStands, Durable
  <2>6. OneHolder'
    BY <1>1, <2>1, <2>3, <2>5 DEF OneHolder, Holds
  <2>7. LayersHold'
    BY <1>1, <2>1, <2>2, <2>3, <2>5 DEF LayersHold
  <2> QED
    BY <2>6, <2>7
<1> QED
  BY <1>3, <1>4 DEF AlertInv

LEMMA MemoryLapse ==
    ASSUME AlertInv, NEW p \in Server, MemoryExpires(p)
    PROVE  AlertInv'
<1>1. /\ memory' = [memory EXCEPT ![p] = "none"] /\ mishap' = mishap \cup Lapse(memory[p])
      /\ UNCHANGED <<redis, away, alert, dispatcher, mail>>
  BY DEF MemoryExpires
<1>2. Lapse(memory[p]) \subseteq {"running", "unknown", "key"}
  BY DEF Lapse
<1>3. AlertsTyped'
  BY <1>1, <1>2 DEF AlertInv, AlertsTyped, KeyState
<1>4. ASSUME ~Excused'
      PROVE  OneHolder' /\ LayersHold'
  <2>1. /\ OneHolder /\ LayersHold /\ "key" \in mishap => "key" \in mishap'
        /\ "row" \in mishap <=> "row" \in mishap'
    BY <1>1, <1>2, <1>4 DEF AlertInv, Excused
  <2>2. Delivering' = Delivering /\ RowStands' = RowStands
        /\ \A c \in Dispatcher : Outcome(c)' = Outcome(c) /\ Holds(c)' = Holds(c)
    BY <1>1 DEF Delivering, RowStands, Durable, Outcome, Holds
  <2>3. OneHolder'
    BY <1>1, <1>4, <2>1, <2>2 DEF AlertInv, Excused, OneHolder
  <2>4. LayersHold'
    BY <1>1, <1>2, <1>4, <2>1, <2>2 DEF AlertInv, Excused, LayersHold
  <2> QED
    BY <2>3, <2>4
<1> QED
  BY <1>3, <1>4 DEF AlertInv

LEMMA RowLapse ==
    ASSUME AlertInv, NEW i \in DOMAIN alert, RowAges(i)
    PROVE  AlertInv'
<1>1. /\ alert' = [alert EXCEPT ![i].recent = FALSE] /\ mishap' = mishap \cup {"row"}
      /\ UNCHANGED <<redis, away, memory, dispatcher, mail>>
  BY DEF RowAges
<1>2. /\ alert' \in Seq(AlertRow) /\ DOMAIN alert' = DOMAIN alert
      /\ \A k \in DOMAIN alert : alert'[k].messages = alert[k].messages
  <2>1. /\ Len(alert) \in Nat /\ DOMAIN alert = 1 .. Len(alert)
        /\ alert \in [1 .. Len(alert) -> AlertRow]
    BY MailRows, SeqDef, LenProperties DEF AlertInv, AlertsTyped
  <2>2. /\ alert' \in [1 .. Len(alert) -> AlertRow]
        /\ \A k \in DOMAIN alert : alert'[k].messages = alert[k].messages
    BY <1>1, <2>1 DEF AlertRow
  <2> QED
    BY <2>1, <2>2, SeqDef
<1>3. AlertsTyped'
  BY <1>1, <1>2 DEF AlertInv, AlertsTyped
<1>4. ASSUME ~Excused'
      PROVE  OneHolder' /\ LayersHold'
  <2>1. OneHolder /\ LayersHold /\ "key" \notin mishap /\ "row" \in mishap'
    BY <1>1, <1>4 DEF AlertInv, Excused
  <2>2. Delivering' = Delivering
    BY <1>1 DEF Delivering
  <2> QED
    BY <1>1, <2>1, <2>2 DEF OneHolder, Holds, LayersHold
<1> QED
  BY <1>3, <1>4 DEF AlertInv

LEMMA FlapStep ==
    ASSUME AlertInv, RedisFlaps
    PROVE  AlertInv'
<1>1. /\ away' = ~away
      /\ mishap' = mishap \cup (IF \E d \in Dispatcher : Dispatching(d) THEN {"running", "key"} ELSE {"key"})
      /\ UNCHANGED <<redis, memory, alert, dispatcher, mail>>
  BY DEF RedisFlaps
<1>2. away' \in BOOLEAN
  BY <1>1
<1>3. AlertsTyped'
  BY <1>1, <1>2 DEF AlertInv, AlertsTyped
<1>4. ASSUME ~Excused'
      PROVE  OneHolder' /\ LayersHold'
  <2>1. /\ OneHolder /\ LayersHold /\ "row" \notin mishap /\ "row" \notin mishap'
        /\ \A d \in Dispatcher : ~Dispatching(d)
    BY <1>1, <1>4 DEF AlertInv, Excused
  <2>2. \A d \in Dispatcher : dispatcher[d].pc \notin {"key", "send", "finalize", "row"}
    BY <2>1 DEF Dispatching, Active
  <2>3. Delivering' = Delivering /\ RowStands' = RowStands
    BY <1>1 DEF Delivering, RowStands, Durable
  <2>4. OneHolder'
    BY <1>1, <2>1, <2>2, <2>3 DEF OneHolder, Holds
  <2>5. LayersHold'
    BY <1>1, <2>1, <2>2, <2>3 DEF LayersHold
  <2> QED
    BY <2>4, <2>5
<1> QED
  BY <1>3, <1>4 DEF AlertInv

\* A restart ends dispatches; the key in Redis outlives the process.
LEMMA RestartStep ==
    ASSUME AlertInv, NEW p \in Server, Restart(p)
    PROVE  AlertInv'
<1>1. /\ memory' = [memory EXCEPT ![p] = "none"]
      /\ dispatcher' = [d \in Dispatcher |-> IF Dispatching(d) /\ dispatcher[d].proc = p
                                             THEN [dispatcher[d] EXCEPT !.pc = "done"] ELSE dispatcher[d]]
      /\ mishap' = mishap \cup {"row"}
      /\ UNCHANGED <<redis, away, alert, mail>>
  BY DEF Restart
<1>2. \A d \in Dispatcher : dispatcher[d] \in DispatcherState
  BY DEF AlertInv, AlertsTyped
<1>3. /\ dispatcher' \in [Dispatcher -> DispatcherState]
      /\ \A c \in Dispatcher :
            /\ dispatcher'[c].todo = dispatcher[c].todo /\ dispatcher'[c].msgs = dispatcher[c].msgs
            /\ dispatcher'[c].result = dispatcher[c].result
            /\ dispatcher'[c].pc = dispatcher[c].pc \/ dispatcher'[c].pc = "done"
  BY <1>1, <1>2 DEF DispatcherState
<1>4. AlertsTyped'
  BY <1>1, <1>3 DEF AlertInv, AlertsTyped, KeyState
<1>5. ASSUME ~Excused'
      PROVE  OneHolder' /\ LayersHold'
  <2>1. OneHolder /\ LayersHold /\ "key" \notin mishap /\ "row" \in mishap'
    BY <1>1, <1>5 DEF AlertInv, Excused
  <2>2. Delivering' = Delivering
    BY <1>1 DEF Delivering
  <2>3. \A c \in Dispatcher : Holds(c)' => Holds(c)
    BY <1>3 DEF Holds
  <2> QED
    BY <1>1, <1>3, <2>1, <2>2, <2>3 DEF OneHolder, LayersHold
<1> QED
  BY <1>4, <1>5 DEF AlertInv

LEMMA AlertStep == AlertInv /\ [OpsNext]_opsVars => AlertInv'
<1> SUFFICES ASSUME AlertInv, [OpsNext]_opsVars
             PROVE  AlertInv'
  OBVIOUS
<1>1. CASE \E d \in Dispatcher : CheckRow(d) \/ TakeKey(d) \/ FinalizeKey(d) \/ FinalizeRow(d)
  BY <1>1, CheckStep, TakeStep, KeyStep, AlertRowStep
<1>2. CASE \E d \in Dispatcher, r \in Recipient : AlertUnsaid(d, r) \/ SendAlert(d, r)
  BY <1>2, AlertUnsaidStep, AlertSent
<1>3. CASE \E m \in DOMAIN mail, fate \in {"delivered", "failed"} : Report(m, fate)
  BY <1>3, StatusStep
<1>4. CASE \E p \in Server : MemoryExpires(p) \/ Restart(p)
  BY <1>4, MemoryLapse, RestartStep
<1>5. CASE \E i \in DOMAIN alert : RowAges(i)
  BY <1>5, RowLapse
<1>6. CASE RedisExpires \/ RedisFlaps
  BY <1>6, RedisLapse, FlapStep
<1>7. CASE UNCHANGED opsVars
  BY <1>7, AlertStutter
<1> QED
  BY <1>1, <1>2, <1>3, <1>4, <1>5, <1>6, <1>7 DEF OpsNext

LEMMA AlertFollows == AlertInv => OpsTypeOK /\ AlertOnce
<1> SUFFICES ASSUME AlertInv
             PROVE  OpsTypeOK /\ AlertOnce
  OBVIOUS
<1>1. OpsTypeOK
  <2>1. \A i \in DOMAIN alert : alert[i] \in AlertRow
    BY MailRows DEF AlertInv
  <2>2. \A d \in Dispatcher : dispatcher[d] \in DispatcherState
    BY DEF AlertInv, AlertsTyped
  <2> QED
    BY <2>1, <2>2 DEF AlertInv, AlertsTyped, OpsTypeOK, AlertRow, DispatcherState
<1>2. AlertOnce
  BY DEF AlertInv, AlertOnce, Excused, OneHolder, Delivering
<1> QED
  BY <1>1, <1>2

\* Keys, rows and dispatchers keep their form (claim_idempotency,
\* finalize_idempotency, apply_delivery_status).
THEOREM AlertsTypeCorrect == OpsSpec => []OpsTypeOK
<1>1. OpsSpec => []AlertInv
  BY AlertBegins, AlertStep, PTL DEF OpsSpec
<1> QED
  BY <1>1, AlertFollows, PTL

\* However many requests in however many processes dispatch an event: no
\* recipient gets a second alert unless a dispatch outran its key, a timeout's
\* hold lapsed, or both layers were lost (claim_idempotency).
THEOREM AlertOnceTheorem == OpsSpec => []AlertOnce
<1>1. OpsSpec => []AlertInv
  BY AlertBegins, AlertStep, PTL DEF OpsSpec
<1> QED
  BY <1>1, AlertFollows, PTL
=============================================================================
