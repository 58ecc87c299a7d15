--------------------------- MODULE Notifications ---------------------------
(***************************************************************************)
(* One notification: the same template, booking and recipient, asked for   *)
(* by several requests and workers.  A claim row in SENDING with a lease   *)
(* of 300 s keeps all but one of them from sending; the send itself and    *)
(* the record of its result come after the claim's commit.  kind tells the *)
(* callers apart: the confirmation and the alert go by e-mail, chat and    *)
(* document to the customer's WhatsApp, queue through a background task.   *)
(***************************************************************************)
EXTENDS Naturals, Sequences

CONSTANTS
    Sender,         \* requests and tasks
    MaxAttempts     \* max_attempts of a new record

ASSUME AttemptAssumption == MaxAttempts \in Nat \ {0}

VARIABLES
    kind,
    record,     \* notification_records, oldest first
    sender,     \* the requests
    outbox,     \* messages the provider made, whether or not it said so
    fault       \* history: what went wrong that may make a message go out twice

notificationVars == <<kind, record, sender, outbox, fault>>

\* wamid names a message of the outbox.  A record is buried when fifty newer
\* ones share its template.
Row(status, attempts) == [status |-> status, attempts |-> attempts, max |-> MaxAttempts,
                          fresh |-> TRUE, wamid |-> 0, buried |-> FALSE]
Resting == [pc |-> "ready", row |-> 0, outcome |-> "none", msg |-> 0]

NotificationsInit ==
    /\ kind \in {"confirmation", "alert", "chat", "document", "queue"}
    /\ record = <<>>
    /\ sender = [s \in Sender |-> Resting]
    /\ outbox = <<>>
    /\ fault = {}

Visible(statuses) == {r \in DOMAIN record : record[r].status \in statuses /\ ~record[r].buried}
Newest(S) == CHOOSE r \in S : \A q \in S : q <= r
Stage(s, pc) == sender' = [sender EXCEPT ![s].pc = pc]
Commit(r, row) == record' = [record EXCEPT ![r] = row]

-----------------------------------------------------------------------------
\* _customer_notification_already_handled, in the customer's chat only, before
\* the advisory lock.
Ask(s) ==
    /\ sender[s].pc = "ready" /\ kind # "queue"
    /\ IF kind = "chat" /\ Visible({"DELIVERED", "BYPASSED", "COMPLETED", "PENDING"}) # {}
       THEN Stage(s, "done") ELSE Stage(s, "claim")
    /\ UNCHANGED <<kind, record, outbox, fault>>

\* The caller sends although the commit of its claim may have failed.
SendAnyhow(s, r, row) ==
    /\ sender' = [sender EXCEPT ![s].pc = "send", ![s].row = r]
    /\ \/ Commit(r, row) /\ UNCHANGED fault
       \/ UNCHANGED record /\ fault' = fault \cup {"commit"}

Again(row) == [row EXCEPT !.status = "SENDING", !.attempts = @ + 1, !.fresh = TRUE,
                          !.max = IF row.attempts + 1 > @ THEN row.attempts + 3 ELSE @]

\* A new row; while it is not committed nobody sends.
NewClaim(s) ==
    \/ /\ record' = Append(record, Row("SENDING", 1))
       /\ sender' = [sender EXCEPT ![s].pc = "send", ![s].row = Len(record) + 1]
    \/ UNCHANGED record /\ Stage(s, "done")

\* Faulty: whoever is not told the result takes the row over.
ClaimAnyway(s) ==
    /\ sender[s].pc = "claim"
    /\ IF Visible({"DELIVERED", "BYPASSED"}) # {} THEN Stage(s, "done") /\ UNCHANGED <<record, fault>>
       ELSE IF Visible({"SENDING", "FAILED", "QUEUED"}) # {}
       THEN LET r == Newest(Visible({"SENDING", "FAILED", "QUEUED"})) IN SendAnyhow(s, r, Again(record[r]))
       ELSE NewClaim(s) /\ UNCHANGED fault
    /\ UNCHANGED <<kind, outbox>>

\* _acquire_notification_claim, serialised by its advisory lock up to its
\* commit.  A row whose outcome is COMPLETED or PENDING is no obstacle here.
ClaimToSend(s) ==
    /\ sender[s].pc = "claim"
    /\ LET sending == Visible({"SENDING"})
           failed == Visible({"FAILED", "QUEUED"}) IN
       \/ /\ Visible({"DELIVERED", "BYPASSED"}) # {}
          /\ Stage(s, "done") /\ UNCHANGED <<record, fault>>
       \/ /\ Visible({"DELIVERED", "BYPASSED"}) = {} /\ sending # {}
          /\ LET r == Newest(sending) IN
             IF record[r].fresh THEN Stage(s, "done") /\ UNCHANGED <<record, fault>>
             ELSE SendAnyhow(s, r, [record[r] EXCEPT !.attempts = @ + 1, !.fresh = TRUE])
       \/ /\ Visible({"DELIVERED", "BYPASSED", "SENDING"}) = {} /\ failed # {}
          /\ LET r == Newest(failed) IN
             IF record[r].attempts < record[r].max \/ kind = "confirmation"
             THEN SendAnyhow(s, r, Again(record[r]))
             ELSE Stage(s, "done") /\ UNCHANGED <<record, fault>>
       \/ /\ Visible({"DELIVERED", "BYPASSED", "SENDING", "FAILED", "QUEUED"}) = {}
          /\ NewClaim(s)
          /\ fault' = IF Visible({"COMPLETED", "PENDING"}) # {} THEN fault \cup {"overlap"} ELSE fault
    /\ UNCHANGED <<kind, outbox>>

-----------------------------------------------------------------------------
\* A post that made its message and does not say so: the provider answers with an
\* error, and _dispatch_http posts again or gives up; the connection breaks, which
\* it reports as a failure; SMTP fails late, and Resend is asked next.
PostUnsaid(s) ==
    /\ sender[s].pc = "send"
    /\ outbox' = Append(outbox, "sent") /\ fault' = fault \cup {"unsaid"}
    /\ UNCHANGED <<kind, record, sender>>

\* The last post: the provider answers, refuses, or leaves the caller without an
\* answer.
SendMessage(s) ==
    /\ sender[s].pc = "send"
    /\ \E outcome \in {"accepted", "refused", "timeout"}
              \cup (IF kind \in {"confirmation", "alert"} THEN {"bypassed"} ELSE {}) :
       \E made \in BOOLEAN :
          /\ outcome = "accepted" => made
          /\ outcome \in {"refused", "bypassed"} => ~made
          /\ sender' = [sender EXCEPT ![s].pc = "record", ![s].outcome = outcome,
                                      ![s].msg = IF outcome = "accepted" THEN Len(outbox) + 1 ELSE 0]
          /\ outbox' = IF made THEN Append(outbox, "sent") ELSE outbox
          /\ fault' = IF outcome = "timeout" /\ made /\ kind # "chat"
                      THEN fault \cup {"unknown"} ELSE fault
    /\ UNCHANGED <<kind, record>>

\* What a caller records: the chat keeps an unknown outcome apart from a
\* failure, the others do not.
Result(s) ==
    LET row == record[sender[s].row] IN
    CASE sender[s].outcome = "accepted" -> IF kind = "chat" THEN "COMPLETED" ELSE "DELIVERED"
      [] sender[s].outcome = "bypassed" -> "BYPASSED"
      [] sender[s].outcome = "timeout" /\ kind = "chat" -> "PENDING"
      [] sender[s].outcome # "accepted" /\ kind = "queue" /\ row.attempts < row.max -> "QUEUED"
      [] OTHER -> "FAILED"

\* _record_and_send, _dispatch_customer_whatsapp, send_whatsapp_invoice_document
\* and process_single_notification after the send.  The row takes the result
\* whatever became of it meanwhile.
RecordResult(s) ==
    /\ sender[s].pc = "record"
    /\ Stage(s, "done")
    /\ LET r == sender[s].row
           m == IF sender[s].msg = 0 THEN record[r].wamid ELSE sender[s].msg IN
       \/ /\ Commit(r, [record[r] EXCEPT !.status = Result(s), !.wamid = m])
          /\ UNCHANGED fault
       \/ UNCHANGED record /\ fault' = fault \cup {"commit"}
    /\ UNCHANGED <<kind, outbox>>

-----------------------------------------------------------------------------
\* enqueue_notification: one record and one background task.
Enqueue(s) ==
    /\ sender[s].pc = "ready" /\ kind = "queue" /\ record = <<>>
    /\ record' = <<Row("QUEUED", 0)>>
    /\ sender' = [sender EXCEPT ![s].pc = "task", ![s].row = 1]
    /\ UNCHANGED <<kind, outbox, fault>>

\* retry_notification asks nothing of the record's status.
RetryQueued(s) ==
    /\ sender[s].pc = "ready" /\ kind = "queue" /\ record # <<>>
    /\ Commit(1, [record[1] EXCEPT !.status = "QUEUED"])
    /\ sender' = [sender EXCEPT ![s].pc = "task", ![s].row = 1]
    /\ fault' = IF record[1].status \in {"SENDING", "DELIVERED"}
                   \/ \E t \in Sender : sender[t].pc \in {"task", "send", "record"}
                THEN fault \cup {"retry"} ELSE fault
    /\ UNCHANGED <<kind, outbox>>

\* process_single_notification up to its first commit.
StartTask(s) ==
    /\ sender[s].pc = "task"
    /\ Commit(1, [record[1] EXCEPT !.status = "SENDING", !.attempts = @ + 1])
    /\ Stage(s, "send")
    /\ UNCHANGED <<kind, outbox, fault>>

-----------------------------------------------------------------------------
\* A delivery status for a WhatsApp message: handle_incoming_webhook looks its
\* record up and apply_delivery_status notes it; one that comes before the
\* record names the message is lost.
DeliveryStatus(m, fate) ==
    /\ kind \in {"chat", "document", "queue"} /\ outbox[m] = "sent"
    /\ outbox' = [outbox EXCEPT ![m] = fate]
    /\ record' = [r \in DOMAIN record |->
           IF record[r].wamid # m THEN record[r]
           ELSE [record[r] EXCEPT !.status = IF fate = "delivered" THEN "DELIVERED" ELSE "FAILED"]]
    /\ UNCHANGED <<kind, sender, fault>>

StopSender(s) ==
    /\ sender[s].pc \in {"claim", "task", "send", "record"}
    /\ Stage(s, "done")
    /\ UNCHANGED <<kind, record, outbox, fault>>

LeaseAges(r) ==
    /\ record[r].status = "SENDING" /\ record[r].fresh
    /\ Commit(r, [record[r] EXCEPT !.fresh = FALSE])
    /\ fault' = fault \cup {"lease"}
    /\ UNCHANGED <<kind, sender, outbox>>

Bury(r) ==
    /\ ~record[r].buried /\ kind # "queue"
    /\ Commit(r, [record[r] EXCEPT !.buried = TRUE])
    /\ fault' = fault \cup {"buried"}
    /\ UNCHANGED <<kind, sender, outbox>>

NotificationsNext ==
    \/ \E s \in Sender : \/ Ask(s) \/ ClaimToSend(s) \/ PostUnsaid(s) \/ SendMessage(s) \/ RecordResult(s)
                         \/ Enqueue(s) \/ RetryQueued(s) \/ StartTask(s) \/ StopSender(s)
    \/ \E m \in DOMAIN outbox, fate \in {"delivered", "failed"} : DeliveryStatus(m, fate)
    \/ \E r \in DOMAIN record : LeaseAges(r) \/ Bury(r)

NotificationsSpec == NotificationsInit /\ [][NotificationsNext]_notificationVars

-----------------------------------------------------------------------------
NotificationsTypeOK ==
    /\ kind \in {"confirmation", "alert", "chat", "document", "queue"}
    /\ record \in Seq([status : {"QUEUED", "SENDING", "DELIVERED", "BYPASSED", "COMPLETED",
                                 "PENDING", "FAILED"},
                       attempts : Nat, max : Nat, fresh : BOOLEAN,
                       wamid : DOMAIN outbox \cup {0}, buried : BOOLEAN])
    /\ sender \in [Sender -> [pc : {"ready", "claim", "task", "send", "record", "done"},
                              row : DOMAIN record \cup {0},
                              outcome : {"none", "accepted", "refused", "timeout", "bypassed"},
                              msg : DOMAIN outbox \cup {0}]]
    /\ \A s \in Sender : sender[s].pc \in {"send", "record"} => sender[s].row # 0
    /\ outbox \in Seq({"sent", "delivered", "failed"})
    /\ fault \subseteq {"commit", "lease", "buried", "unknown", "overlap", "retry", "unsaid"}

\* A notification goes out once, however many requests, retries and delivery
\* reports ask for it, as long as the provider did not report its failure
\* ("Atomically claims or checks the right to send", _acquire_notification_claim;
\* "Neither may be re-sent blindly", _customer_notification_already_handled).
\* Named in fault is what breaks the promise: a commit that failed, a lease that
\* ended before the result was known, fifty newer records of the template, an
\* e-mail or a document that timed out but went out, a message that was made by a
\* post reported as failed, a chat whose first result arrived between another
\* caller's check and its claim, a retry of a queued notification that was not
\* known to have failed.
SentOnce == fault = {} =>
    \A m, n \in DOMAIN outbox : outbox[m] # "failed" /\ outbox[n] # "failed" => m = n
=============================================================================
