-------------------------- MODULE InboundMessages --------------------------
(***************************************************************************)
(* The webhook messages of one customer.  Meta sends a message again until *)
(* it is answered with 200.  A webhook carries one message or several,     *)
(* handles one after the other and has one answer for all of them.  Each   *)
(* message of each webhook is a call with a worker id of its own: it       *)
(* claims the event row, takes the customer's conversation lock, runs the  *)
(* state machine and marks the row, each in a transaction of its own.  A   *)
(* claim goes stale and a lock lapses after 120 s each, whether their      *)
(* owner is slow, dead or done.                                            *)
(***************************************************************************)
EXTENDS Naturals, FiniteSets

CONSTANTS
    Message, Call,  \* Call bounds the deliveries; a webhook is named by its first
    Nobody

ASSUME CallAssumption == Nobody \notin Call

VARIABLES
    event,      \* whatsapp_webhook_events: the row of each message
    lock,       \* holder of the conversation lock
    call,       \* the deliveries
    acked,      \* messages Meta was answered 200 for
    handled,    \* how often the state machine ran for a message
    slow,       \* history: messages whose claim outlived 120 s with its owner alive
    overrun,    \* history: a call that still ran lost the lock
    lost,       \* history: messages whose owner died, or gave up waiting for the lock
    torn,       \* history: messages that took effect and were not marked
    failed,     \* history: messages whose failure the state machine swallowed
    covered     \* history: messages to be sent again, answered 200 with a handled one

inboundVars == <<event, lock, call, acked, handled, slow, overrun, lost, torn, failed, covered>>

NoRow == [exists |-> FALSE, owner |-> Nobody, fresh |-> FALSE, processed |-> FALSE]
Idle == [pc |-> "unused", msg |-> Nobody, old |-> Nobody, web |-> Nobody]

\* What became of a message of a webhook, and where a call may stand.
Ended == {"skipped", "handled", "retry"}
Running == {"claim", "check", "reclaim", "lock", "process", "mark", "release"} \cup Ended

InboundInit ==
    /\ event = [m \in Message |-> NoRow]
    /\ lock = Nobody
    /\ call = [c \in Call |-> Idle]
    /\ acked = {}
    /\ handled = [m \in Message |-> 0]
    /\ slow = {} /\ overrun = FALSE /\ lost = {} /\ torn = {} /\ failed = {} /\ covered = {}

Goto(c, pc) == call' = [call EXCEPT ![c].pc = pc]
At(c, pc) == call[c].pc = pc
Owns(c, m) == event[m].owner = c

\* The messages of a webhook.
Batch(w) == {c \in Call : call[c].web = w}

-----------------------------------------------------------------------------
\* Meta sends what was not answered, again while an earlier call still runs:
\* in a webhook of its own, or with the messages of w.
Deliver(c, m, w) ==
    /\ At(c, "unused") /\ m \notin acked
    /\ \/ w = c
       \/ /\ Batch(w) # {}
          /\ \A d \in Batch(w) : At(d, "claim") /\ call[d].msg # m
    /\ call' = [call EXCEPT ![c] = [pc |-> "claim", msg |-> m, old |-> Nobody, web |-> w]]
    /\ UNCHANGED <<event, lock, acked, handled, slow, overrun, lost, torn, failed, covered>>

Claimed(c) == [exists |-> TRUE, owner |-> c, fresh |-> TRUE, processed |-> FALSE]

\* _claim_webhook_event: the insert, which the unique event_id or the database
\* refuses.  The messages of a webhook have their turns in some order.
Claim(c) ==
    /\ At(c, "claim")
    /\ \A d \in Batch(call[c].web) : call[d].pc \in {"claim"} \cup Ended
    /\ LET m == call[c].msg IN
       \/ ~event[m].exists /\ event' = [event EXCEPT ![m] = Claimed(c)] /\ Goto(c, "lock")
       \/ event[m].exists /\ Goto(c, "check") /\ UNCHANGED event
       \/ Goto(c, "retry") /\ UNCHANGED event
    /\ UNCHANGED <<lock, acked, handled, slow, overrun, lost, torn, failed, covered>>

\* The row that is there: processed, freshly owned, or to be had.
Check(c) ==
    /\ At(c, "check")
    /\ LET row == event[call[c].msg] IN
       IF row.processed \/ (row.fresh /\ row.owner # Nobody)
       THEN Goto(c, "skipped")
       ELSE call' = [call EXCEPT ![c].pc = "reclaim", ![c].old = row.owner]
    /\ UNCHANGED <<event, lock, acked, handled, slow, overrun, lost, torn, failed, covered>>

\* The conditional update; rowcount tells who won.
Reclaim(c) ==
    /\ At(c, "reclaim")
    /\ LET m == call[c].msg IN
       IF ~event[m].processed /\ event[m].owner = call[c].old
       THEN event' = [event EXCEPT ![m] = Claimed(c)] /\ Goto(c, "lock")
       ELSE Goto(c, "skipped") /\ UNCHANGED event
    /\ UNCHANGED <<lock, acked, handled, slow, overrun, lost, torn, failed, covered>>

\* _acquire_conversation_lock, for 15 s.
Acquire(c) ==
    /\ At(c, "lock")
    /\ \/ lock = Nobody /\ lock' = c /\ Goto(c, "process")
       \/ lock # Nobody /\ Goto(c, "release") /\ UNCHANGED lock
    /\ UNCHANGED <<event, acked, handled, slow, overrun, lost, torn, failed, covered>>

\* _release_event_claim, whose failure is ignored; Meta is asked to send the
\* message again.
Release(c) ==
    /\ At(c, "release")
    /\ LET m == call[c].msg IN
       /\ \/ /\ Owns(c, m) /\ ~event[m].processed
             /\ event' = [event EXCEPT ![m].owner = Nobody, ![m].fresh = FALSE]
          \/ UNCHANGED event
       /\ lost' = lost \cup {m}
    /\ Goto(c, "retry")
    /\ UNCHANGED <<lock, acked, handled, slow, overrun, torn, failed, covered>>

\* process_incoming_event commits, or swallows its own failure, before it
\* committed anything or after: the webhook does not tell.
Process(c) ==
    /\ At(c, "process")
    /\ LET m == call[c].msg IN
       \/ handled' = [handled EXCEPT ![m] = @ + 1] /\ UNCHANGED failed
       \/ failed' = failed \cup {m} /\ UNCHANGED handled
    /\ Goto(c, "mark")
    /\ UNCHANGED <<event, lock, acked, slow, overrun, lost, torn, covered>>

\* _mark_event_processed, whose failure is ignored, and _release_conversation_lock,
\* each for its owner.
Mark(c) ==
    /\ At(c, "mark")
    /\ LET m == call[c].msg IN
       \/ Owns(c, m) /\ event' = [event EXCEPT ![m].processed = TRUE] /\ UNCHANGED torn
       \/ ~Owns(c, m) /\ UNCHANGED <<event, torn>>
       \/ torn' = torn \cup {m} /\ UNCHANGED event
    /\ lock' = IF lock = c THEN Nobody ELSE lock
    /\ Goto(c, "handled")
    /\ UNCHANGED <<acked, handled, slow, overrun, lost, failed, covered>>

\* The messages of a webhook that came so far; all of them came to an end.
Mates(w, stages) == {call[c].msg : c \in {c \in Batch(w) : call[c].pc \in stages}}
Finish(w) ==
    /\ Batch(w) # {} /\ \A c \in Batch(w) : call[c].pc \in Ended
    /\ call' = [c \in Call |-> IF c \in Batch(w) THEN [call[c] EXCEPT !.pc = "done"] ELSE call[c]]
    /\ UNCHANGED <<event, lock, handled, slow, overrun, lost, torn, failed>>

\* Faulty: every webhook is answered 200.
AnswerAll(w) ==
    /\ Finish(w)
    /\ acked' = acked \cup Mates(w, Ended)
    /\ UNCHANGED covered

\* The router: 200, or 503 when a message is to be sent again and none was
\* handled; one that was handled covers the others.
Answer(w) ==
    /\ Finish(w)
    /\ IF Mates(w, {"handled"}) = {} /\ Mates(w, {"retry"}) # {}
       THEN UNCHANGED <<acked, covered>>
       ELSE acked' = acked \cup Mates(w, Ended) /\ covered' = covered \cup Mates(w, {"retry"})

-----------------------------------------------------------------------------
\* A worker dies in a webhook; what it answered before has done its part.
Die(w) ==
    /\ \E c \in Batch(w) : call[c].pc \in Running
    /\ call' = [c \in Call |-> IF c \in Batch(w) THEN [call[c] EXCEPT !.pc = "dead"] ELSE call[c]]
    /\ lost' = lost \cup {m \in Message : \E c \in Batch(w) : Owns(c, m)}
    /\ torn' = torn \cup Mates(w, {"mark"})
    /\ UNCHANGED <<event, lock, acked, handled, slow, overrun, failed, covered>>

ClaimAges(m) ==
    /\ event[m].fresh
    /\ event' = [event EXCEPT ![m].fresh = FALSE]
    /\ slow' = IF \E c \in Call : Owns(c, m) /\ call[c].pc \in Running THEN slow \cup {m} ELSE slow
    /\ UNCHANGED <<lock, call, acked, handled, overrun, lost, torn, failed, covered>>

\* The lock's time is over; or Redis goes away and the calls fall back to the
\* memory of their processes.
LockLapses ==
    /\ lock # Nobody
    /\ overrun' = (overrun \/ call[lock].pc \in Running)
    /\ lock' = Nobody
    /\ UNCHANGED <<event, call, acked, handled, slow, lost, torn, failed, covered>>

InboundNext ==
    \/ \E c \in Call : \/ Claim(c) \/ Check(c) \/ Reclaim(c) \/ Acquire(c) \/ Release(c)
                       \/ Process(c) \/ Mark(c) \/ Answer(c) \/ Die(c)
    \/ \E c, w \in Call, m \in Message : Deliver(c, m, w)
    \/ \E m \in Message : ClaimAges(m)
    \/ LockLapses

InboundSpec == InboundInit /\ [][InboundNext]_inboundVars

-----------------------------------------------------------------------------
InboundTypeOK ==
    /\ event \in [Message -> [exists : BOOLEAN, owner : Call \cup {Nobody},
                              fresh : BOOLEAN, processed : BOOLEAN]]
    /\ lock \in Call \cup {Nobody}
    /\ call \in [Call -> [pc : Running \cup {"unused", "done", "dead"},
                          msg : Message \cup {Nobody}, old : Call \cup {Nobody},
                          web : Call \cup {Nobody}]]
    /\ acked \subseteq Message /\ slow \subseteq Message /\ lost \subseteq Message
    /\ torn \subseteq Message /\ failed \subseteq Message /\ covered \subseteq Message
    /\ handled \in [Message -> Nat] /\ overrun \in BOOLEAN

\* "one customer = one active state transition at a time across workers"
\* (_acquire_conversation_lock), as long as no call outlived its lock or lost it
\* with Redis.
Busy(c) == call[c].pc \in {"process", "mark"}
OneTransition == ~overrun => \A c, d \in Call : Busy(c) /\ Busy(d) => c = d

\* A message takes effect twice only if its claim outlived 120 s with its owner
\* alive, or its owner died or failed between the effect and the mark, however
\* often and at whatever moment Meta sends it again and whoever died before
\* (_claim_webhook_event).
HandledOnce == \A m \in Message : handled[m] > 1 => m \in slow \cup torn

\* A message Meta will not send again took effect, is in the hands of a call,
\* lost its owner to a crash or to the wait for the lock, failed where nobody
\* heard of it, or was answered 200 because another of its webhook was handled
\* (handle_whatsapp_webhook_event).
NothingLost == \A m \in acked :
    \/ handled[m] > 0 \/ m \in lost \cup failed \cup covered
    \/ \E c \in Call : Owns(c, m) /\ call[c].pc \in Running

\* Every message Meta will not send again is handled exactly once, one at a time
\* per customer, but for these faults (handle_incoming_webhook).
InboundOnce == OneTransition /\ HandledOnce /\ NothingLost
=============================================================================
