----------------------------- MODULE BookingNews -----------------------------
(***************************************************************************)
(* Who hears of a booking: the request that created it alerts the desks    *)
(* (OpsAlerts), acknowledges it in the customer's chat and puts it on the  *)
(* dashboards (AdminFeed); what confirmed it mails the customer, writes to *)
(* the chat and mails operations.  Each does so one after the other, after *)
(* its commit, while the booking moves on.  One mail or message is a step  *)
(* here; how its record is claimed is in Notifications.                    *)
(***************************************************************************)
CONSTANT Teller     \* requests and threads that tell

VARIABLES
    standing,   \* the booking's status
    language,   \* WHATSAPP_CUSTOMER_TEMPLATE_LANG: of the approved template, or regional
    told,       \* notification_records: of the chat by wording, whether there is one of a mail
    chat,       \* history: the last message in the chat for which the booking had not moved
    teller,
    slip        \* history: what went wrong

newsVars == <<standing, language, told, chat, teller, slip>>

Wording == {"ack", "confirm"}
Silent == [pc |-> "off", about |-> "created", read |-> "none"]

NewsInit ==
    /\ standing = "none"
    /\ language \in {"base", "regional"}
    /\ told = [ack |-> "none", confirm |-> "none", customer |-> FALSE, ops |-> FALSE, feed |-> FALSE]
    /\ chat = [wording |-> "ack", status |-> "PENDING"]
    /\ teller = [t \in Teller |-> Silent]
    /\ slip = {}

Onto(t, pc) == teller' = [teller EXCEPT ![t].pc = pc]
Quiet(t) == teller' = [teller EXCEPT ![t] = Silent]
StartTelling(t, about, pc) ==
    /\ teller[t].pc = "off"
    /\ teller' = [teller EXCEPT ![t] = [Silent EXCEPT !.about = about, !.pc = pc]]

-----------------------------------------------------------------------------
(* The booking                                                             *)

\* A booking or an enquiry is committed; notify_booking_created follows.
Created(t) ==
    /\ standing = "none" /\ standing' = "PENDING"
    /\ \E about \in {"created", "enquiry"} : StartTelling(t, about, "ask")
    /\ UNCHANGED <<language, told, chat, slip>>

\* A payment or the desk confirms it; notify_booking_confirmed follows.
Confirmed(t) ==
    /\ standing = "PENDING" /\ standing' = "CONFIRMED"
    /\ StartTelling(t, "confirmed", "mail")
    /\ UNCHANGED <<language, told, chat, slip>>

\* An administrator sends the notices of a confirmed booking again.
Resend(t) ==
    /\ standing = "CONFIRMED"
    /\ StartTelling(t, "confirmed", "mail")
    /\ UNCHANGED <<standing, language, told, chat, slip>>

CancelOrReopen ==
    /\ standing \in {"PENDING", "CONFIRMED", "CANCELLED"}
    /\ standing' \in {"PENDING", "CANCELLED"} \ {standing}
    /\ UNCHANGED <<language, told, chat, teller, slip>>

-----------------------------------------------------------------------------
(* Dashboards and mails                                                      *)

\* An enquiry's request acknowledges it once more.
ToDashboards(t) ==
    /\ teller[t].pc = "feed"
    /\ told' = [told EXCEPT !.feed = TRUE]
    /\ IF teller[t].about = "enquiry"
       THEN teller' = [teller EXCEPT ![t] = [pc |-> "ask", about |-> "again", read |-> "none"]]
       ELSE Quiet(t)
    /\ UNCHANGED <<standing, language, chat, slip>>

\* _record_and_send; without a look at the booking.
MailCustomer(t) ==
    /\ teller[t].pc = "mail"
    /\ told' = [told EXCEPT !.customer = TRUE]
    /\ Onto(t, "ask")
    /\ UNCHANGED <<standing, language, chat, slip>>

MailOperations(t) ==
    /\ teller[t].pc = "ops"
    /\ told' = [told EXCEPT !.ops = TRUE]
    /\ Quiet(t)
    /\ UNCHANGED <<standing, language, chat, slip>>

-----------------------------------------------------------------------------
(* The customer's chat                                                     *)

WordingOf(t) == IF teller[t].about = "confirmed" THEN "confirm" ELSE "ack"
AfterChat(t) == CASE teller[t].about = "confirmed" -> Onto(t, "ops")
                  [] teller[t].about \in {"created", "enquiry"} -> Onto(t, "feed")
                  [] OTHER -> Quiet(t)

\* An acknowledgement is for an open booking.  A confirmation is withheld from a
\* cancelled one only: its callers say themselves that it is CONFIRMED.
Due(wording, status) == IF wording = "ack" THEN status = "PENDING" ELSE status # "CANCELLED"

\* Faulty: the booking is not looked at.
AskNothing(t) ==
    /\ teller[t].pc = "ask"
    /\ IF told[WordingOf(t)] \notin {"COMPLETED", "PENDING", "SENDING"}
       THEN teller' = [teller EXCEPT ![t].pc = "send", ![t].read = standing]
       ELSE AfterChat(t)
    /\ UNCHANGED <<standing, language, told, chat, slip>>

\* The booking and the records are read, ...
AskBooking(t) ==
    /\ teller[t].pc = "ask"
    /\ IF Due(WordingOf(t), standing) /\ told[WordingOf(t)] \notin {"COMPLETED", "PENDING", "SENDING"}
       THEN teller' = [teller EXCEPT ![t].pc = "send", ![t].read = standing]
       ELSE AfterChat(t)
    /\ UNCHANGED <<standing, language, told, chat, slip>>

\* What the provider answers: text in any form only while the customer's 24 hours
\* last, the template only in the language it was approved in.
Template(lang) == IF lang = "regional" THEN "132001" ELSE "ok"
ProviderReply(believed, open, lang) ==
    IF believed THEN (IF open THEN "ok" ELSE "131047") ELSE Template(lang)

\* A text refused for the window goes out as the template.  A template refused for
\* its language is sent again in the base language - or the text again, when the
\* customer was believed to be in the window.
AfterWindow(reply, lang) == IF reply = "131047" THEN Template(lang) ELSE reply
AfterLanguage(reply, believed, open) ==
    IF reply = "132001" /\ ProviderReply(believed, open, "base") = "ok" THEN "ok" ELSE reply
ChatOutcome(believed, open) ==
    AfterLanguage(AfterWindow(ProviderReply(believed, open, language), language), believed, open)

\* ... and the message is made, whatever became of the booking.
\* believed: _customer_service_window_open; open: what the provider thinks.
SendChat(t) ==
    /\ teller[t].pc = "send"
    /\ \E believed, open \in BOOLEAN, fate \in {"answered", "timeout", "refused"} :
       LET wording == WordingOf(t)
           result == CASE fate = "timeout" -> "PENDING"
                       [] fate = "answered" /\ ChatOutcome(believed, open) = "ok" -> "COMPLETED"
                       [] OTHER -> "FAILED" IN
       /\ told' = [told EXCEPT ![wording] = result]
       /\ chat' = IF result = "FAILED" \/ teller[t].read # standing THEN chat
                  ELSE [wording |-> wording, status |-> standing]
       /\ slip' = slip \cup (IF fate = "refused" THEN {"refused"} ELSE {})
                       \cup (IF believed /\ ~open THEN {"window"} ELSE {})
    /\ AfterChat(t)
    /\ UNCHANGED <<standing, language>>

\* A step raises: the chat's error is caught where it happens, one of a mail's
\* database access ends the whole notification.
Raises(t) ==
    /\ teller[t].pc \in {"ask", "send", "mail", "ops"}
    /\ IF teller[t].pc \in {"ask", "send"} THEN AfterChat(t) ELSE Quiet(t)
    /\ slip' = slip \cup {"broken"}
    /\ UNCHANGED <<standing, language, told, chat>>

TellerDies(t) ==
    /\ teller[t].pc # "off"
    /\ Quiet(t)
    /\ slip' = slip \cup {"broken"}
    /\ UNCHANGED <<standing, language, told, chat>>

NewsNext ==
    \/ \E t \in Teller : \/ Created(t) \/ Confirmed(t) \/ Resend(t)
                         \/ ToDashboards(t) \/ MailCustomer(t) \/ MailOperations(t)
                         \/ AskBooking(t) \/ SendChat(t) \/ Raises(t) \/ TellerDies(t)
    \/ CancelOrReopen

NewsSpec == NewsInit /\ [][NewsNext]_newsVars

-----------------------------------------------------------------------------
NewsTypeOK ==
    /\ standing \in {"none", "PENDING", "CONFIRMED", "CANCELLED"}
    /\ \A w \in Wording : told[w] \in {"none", "COMPLETED", "PENDING", "FAILED"}
    /\ chat.wording \in Wording
    /\ slip \subseteq {"refused", "window", "broken"}

Telling(about) == \E t \in Teller : teller[t].pc # "off" /\ teller[t].about \in about

\* "They must never receive the 'Booking Confirmed' wording": no confirmation of a
\* cancelled booking and no "quotation to follow" for one that is settled, unless
\* the booking moved between the look at it and the message.
NewsTrue ==
    IF chat.wording = "ack" THEN chat.status = "PENDING" ELSE chat.status # "CANCELLED"

\* A message that fails was refused by the provider for a reason of its own: the
\* closed window and the wrong language are each got over.  Both at once are not:
\* the retry in the base language sends the text again.
NewsReaches ==
    (\E w \in Wording : told[w] = "FAILED") =>
        "refused" \in slip \/ (language = "regional" /\ "window" \in slip)

\* No channel keeps the others from theirs: once the notices of a confirmed booking
\* are through, customer, chat and operations were each tried, unless a mail raised
\* or the process died.
EveryoneTold ==
    standing = "CONFIRMED" /\ ~Telling({"confirmed"}) /\ "broken" \notin slip =>
        told.customer /\ told.ops /\ told.confirm # "none"

\* The news of a booking is true and gets through.
NewsTold == NewsTrue /\ NewsReaches /\ EveryoneTold
=============================================================================
