----------------------------- MODULE OpsAlerts -----------------------------
(***************************************************************************)
(* The WhatsApp alert of one booking or enquiry to the operations team:    *)
(* the same event may be dispatched by several requests in several         *)
(* processes.  Two layers keep the team from a second alert: a key in      *)
(* Redis, with a copy in each process, and a row in PostgreSQL that        *)
(* delivery reports rewrite.                                               *)
(***************************************************************************)
EXTENDS Naturals, Sequences, FiniteSets

CONSTANTS
    Dispatcher,     \* calls to dispatch the event
    Server,
    Recipient

VARIABLES
    redis,      \* the key in Redis
    away,       \* Redis cannot be reached
    memory,     \* the key in each process
    alert,      \* notification_records of the event
    dispatcher,
    mail,       \* messages Meta made
    mishap      \* history: what happened to the two layers

opsVars == <<redis, away, memory, alert, dispatcher, mail, mishap>>

KeyState == {"none", "in_progress", "dispatched", "unknown_timeout"}
NewDispatcher(p) == [pc |-> "ready", proc |-> p, todo |-> Recipient,
                     result |-> [r \in Recipient |-> "none"], msgs |-> {}]
Active == {"key", "send", "finalize", "row"}

OpsInit ==
    /\ redis = "none" /\ away = FALSE
    /\ memory = [p \in Server |-> "none"]
    /\ alert = <<>>
    /\ \E p \in [Dispatcher -> Server] : dispatcher = [d \in Dispatcher |-> NewDispatcher(p[d])]
    /\ mail = <<>>
    /\ mishap = {}

Continue(d, pc) == dispatcher' = [dispatcher EXCEPT ![d].pc = pc]
Dispatching(d) == dispatcher[d].pc \in Active

-----------------------------------------------------------------------------
(* claim_idempotency.                                                      *)

\* The durable record: COMPLETED or DELIVERED within 24 hours.  It is not seen
\* while the database is away or behind a thousand newer ones.
Durable(a) == a.recent /\ a.status \in {"COMPLETED", "DELIVERED"}
CheckRow(d) ==
    /\ dispatcher[d].pc = "ready"
    /\ LET stands == \E i \in DOMAIN alert : Durable(alert[i]) IN
       \/ stands /\ Continue(d, "done") /\ UNCHANGED mishap
       \/ stands /\ Continue(d, "key") /\ mishap' = mishap \cup {"row"}
       \/ ~stands /\ Continue(d, "key") /\ UNCHANGED mishap
    /\ UNCHANGED <<redis, away, memory, alert, mail>>

\* The key in Redis or, without Redis, in the process: taken only if absent.
TakeKey(d) ==
    /\ dispatcher[d].pc = "key"
    /\ LET p == dispatcher[d].proc
           held == IF away THEN memory[p] ELSE redis IN
       IF held # "none" THEN Continue(d, "done") /\ UNCHANGED <<redis, memory>>
       ELSE /\ Continue(d, "send")
            /\ redis' = IF away THEN redis ELSE "in_progress"
            /\ memory' = IF away THEN [memory EXCEPT ![p] = "in_progress"] ELSE memory
    /\ mishap' = IF away THEN mishap \cup {"running"} ELSE mishap
    /\ UNCHANGED <<away, alert, mail>>

-----------------------------------------------------------------------------
\* A post that made its message and is answered with an error or with a broken
\* connection: _dispatch_http posts again or reports a failure.
AlertUnsaid(d, r) ==
    /\ dispatcher[d].pc = "send" /\ r \in dispatcher[d].todo
    /\ mail' = Append(mail, [to |-> r, fate |-> "sent"]) /\ mishap' = mishap \cup {"unsaid"}
    /\ UNCHANGED <<redis, away, memory, alert, dispatcher>>

\* One recipient after the other, here by its last post; _describe_send_result
\* tells the answers apart.  After a timeout the message may exist.
SendAlert(d, r) ==
    /\ dispatcher[d].pc = "send" /\ r \in dispatcher[d].todo
    /\ \E result \in {"ACCEPTED", "UNKNOWN", "FAILED"}, made \in BOOLEAN :
          /\ result = "ACCEPTED" => made
          /\ result = "FAILED" => ~made
          /\ dispatcher' = [dispatcher EXCEPT
                ![d].todo = @ \ {r},
                ![d].result[r] = result,
                ![d].msgs = IF result = "ACCEPTED" THEN @ \cup {Len(mail) + 1} ELSE @,
                ![d].pc = IF dispatcher[d].todo = {r} THEN "finalize" ELSE @]
          /\ mail' = IF made THEN Append(mail, [to |-> r, fate |-> "sent"]) ELSE mail
          /\ mishap' = IF result = "UNKNOWN" /\ made THEN mishap \cup {"unknown"} ELSE mishap
    /\ UNCHANGED <<redis, away, memory, alert>>

\* ACCEPTED and PARTIALLY_ACCEPTED are treated alike: who was left out stays so.
Outcome(d) ==
    LET results == {dispatcher[d].result[r] : r \in Recipient} IN
    IF "ACCEPTED" \in results THEN "accepted" ELSE IF "UNKNOWN" \in results THEN "unknown" ELSE "failed"

KeyAfter(d) ==
    CASE Outcome(d) = "accepted" -> "dispatched"
      [] Outcome(d) = "unknown" -> "unknown_timeout"
      [] OTHER -> "none"

\* Faulty: the key is given back after every dispatch.
FinalizeAndForget(d) ==
    /\ dispatcher[d].pc = "finalize"
    /\ redis' = IF away THEN redis ELSE "none"
    /\ memory' = [memory EXCEPT ![dispatcher[d].proc] = "none"]
    /\ Continue(d, "row")
    /\ UNCHANGED <<away, alert, mail, mishap>>

\* finalize_idempotency: the key in Redis and in the process, ...
FinalizeKey(d) ==
    /\ dispatcher[d].pc = "finalize"
    /\ redis' = IF away THEN redis ELSE KeyAfter(d)
    /\ memory' = [memory EXCEPT ![dispatcher[d].proc] = KeyAfter(d)]
    /\ Continue(d, "row")
    /\ UNCHANGED <<away, alert, mail, mishap>>

\* ... and a new row with the messages that were accepted, whose commit may fail.
FinalizeRow(d) ==
    /\ dispatcher[d].pc = "row"
    /\ Continue(d, "done")
    /\ \/ /\ alert' = Append(alert, [recent |-> TRUE,
                status |-> CASE Outcome(d) = "accepted" -> "COMPLETED"
                             [] Outcome(d) = "unknown" -> "PENDING"
                             [] OTHER -> "FAILED",
                messages |-> [m \in dispatcher[d].msgs |-> "accepted"]])
          /\ UNCHANGED mishap
       \/ UNCHANGED alert /\ mishap' = mishap \cup {"row"}
    /\ UNCHANGED <<redis, away, memory, mail>>

-----------------------------------------------------------------------------
\* apply_delivery_status: the row's status follows from all its messages.
Reported(a, m, fate) ==
    LET messages == [a.messages EXCEPT ![m] = fate]
        states == {messages[n] : n \in DOMAIN messages} IN
    [a EXCEPT !.messages = messages,
              !.status = IF "failed" \in states THEN "FAILED"
                         ELSE IF states = {"delivered"} THEN "DELIVERED" ELSE "COMPLETED"]

\* A report that comes before the row is lost.
Report(m, fate) ==
    /\ mail[m].fate = "sent"
    /\ mail' = [mail EXCEPT ![m].fate = fate]
    /\ alert' = [i \in DOMAIN alert |-> IF m \in DOMAIN alert[i].messages
                                        THEN Reported(alert[i], m, fate) ELSE alert[i]]
    /\ mishap' = IF fate = "failed" THEN mishap \cup {"row"} ELSE mishap
    /\ UNCHANGED <<redis, away, memory, dispatcher>>

\* The key's time is over: 120 s, 300 s or, longer than any call, 24 hours.
Over(state) == state # "none" /\ (state = "dispatched" => \A d \in Dispatcher : ~Dispatching(d))
Lapse(state) == CASE state = "in_progress" -> {"running"}
                  [] state = "unknown_timeout" -> {"unknown"}
                  [] OTHER -> {"key"}
RedisExpires ==
    /\ Over(redis) /\ ~away
    /\ redis' = "none" /\ mishap' = mishap \cup Lapse(redis)
    /\ UNCHANGED <<away, memory, alert, dispatcher, mail>>
MemoryExpires(p) ==
    /\ Over(memory[p])
    /\ memory' = [memory EXCEPT ![p] = "none"] /\ mishap' = mishap \cup Lapse(memory[p])
    /\ UNCHANGED <<redis, away, alert, dispatcher, mail>>
RowAges(i) ==
    /\ alert[i].recent /\ \A d \in Dispatcher : ~Dispatching(d)
    /\ alert' = [alert EXCEPT ![i].recent = FALSE] /\ mishap' = mishap \cup {"row"}
    /\ UNCHANGED <<redis, away, memory, dispatcher, mail>>

\* Redis comes and goes.
RedisFlaps ==
    /\ away' = ~away
    /\ mishap' = mishap \cup (IF \E d \in Dispatcher : Dispatching(d) THEN {"running", "key"} ELSE {"key"})
    /\ UNCHANGED <<redis, memory, alert, dispatcher, mail>>

\* A process restarts: its calls and its copy of the key are gone.
Restart(p) ==
    /\ \E d \in Dispatcher : Dispatching(d) /\ dispatcher[d].proc = p
    /\ memory' = [memory EXCEPT ![p] = "none"]
    /\ dispatcher' = [d \in Dispatcher |-> IF Dispatching(d) /\ dispatcher[d].proc = p
                                           THEN [dispatcher[d] EXCEPT !.pc = "done"] ELSE dispatcher[d]]
    /\ mishap' = mishap \cup {"row"}
    /\ UNCHANGED <<redis, away, alert, mail>>

OpsNext ==
    \/ \E d \in Dispatcher : CheckRow(d) \/ TakeKey(d) \/ FinalizeKey(d) \/ FinalizeRow(d)
    \/ \E d \in Dispatcher, r \in Recipient : AlertUnsaid(d, r) \/ SendAlert(d, r)
    \/ \E m \in DOMAIN mail, fate \in {"delivered", "failed"} : Report(m, fate)
    \/ \E p \in Server : MemoryExpires(p) \/ Restart(p)
    \/ \E i \in DOMAIN alert : RowAges(i)
    \/ RedisExpires \/ RedisFlaps

OpsSpec == OpsInit /\ [][OpsNext]_opsVars

-----------------------------------------------------------------------------
OpsTypeOK ==
    /\ redis \in KeyState /\ memory \in [Server -> KeyState] /\ away \in BOOLEAN
    /\ \A i \in DOMAIN alert :
          /\ alert[i].status \in {"COMPLETED", "DELIVERED", "PENDING", "FAILED"}
          /\ DOMAIN alert[i].messages \subseteq DOMAIN mail
    /\ \A d \in Dispatcher :
          /\ dispatcher[d].pc \in Active \cup {"ready", "done"}
          /\ dispatcher[d].msgs \subseteq DOMAIN mail
    /\ mishap \subseteq {"running", "unknown", "key", "row", "unsaid"}

\* The team gets an alert once: a recipient with two messages that did not fail
\* was served by dispatchers that overlapped without the lock (Redis away, or
\* the lock expired), after a timeout whose hold expired, by a post that made its
\* message and was reported as failed, or after both the key and the row had been
\* lost or the row could not be looked up; one of the two is enough ("DUPLICATE:
\* Event was already successfully dispatched within 24 hours", claim_idempotency).
AlertOnce ==
    (\E m, n \in DOMAIN mail : m # n /\ mail[m].to = mail[n].to
                               /\ mail[m].fate # "failed" /\ mail[n].fate # "failed")
    => \/ "running" \in mishap \/ "unknown" \in mishap \/ "unsaid" \in mishap
       \/ {"key", "row"} \subseteq mishap
=============================================================================
