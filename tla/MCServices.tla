----------------------------- MODULE MCServices -----------------------------
(***************************************************************************)
(* The services around bookings and payments for TLC.  They share no state *)
(* in the model, so each initial state opens one of them and the others    *)
(* rest: their state spaces add up instead of multiplying.                 *)
(***************************************************************************)
EXTENDS TravelEnquiry, InboundMessages, Sessions, Notifications, OpsAlerts, WorkflowInstance,
        Bookings, SharedDomain, ServiceEnquiries, TLC

VARIABLE focus

TwoApplicants == <<"applicant_1", "applicant_2">>

\* The configuration gives several sets the same values: a permutation of them
\* serves every part, as only one part leaves its initial state.
Identical == Permutations(Request) \cup Permutations(Sender)

Part == {"enquiry", "inbound", "sessions", "notifications", "alerts", "workflow", "bookings",
         "shared", "desks"}

ServicesInit ==
    /\ focus \in Part
    /\ FormInit /\ InboundInit /\ WorkflowInit /\ BookingsInit /\ SessionsInit
    /\ NotificationsInit /\ OpsInit /\ SharedInit /\ EnquiriesInit
    \* The choices of a part that rests do not matter.
    /\ focus # "notifications" => kind = "confirmation"
    /\ focus # "sessions" => \A v \in Visit : visit[v].device = CHOOSE d \in Device : TRUE
    /\ focus # "shared" => table = "notes"
    /\ focus # "desks" => trade = "lounge"
    /\ focus # "alerts" => \A d \in Dispatcher : dispatcher[d].proc = CHOOSE p \in Server : TRUE

\* One thing may go wrong with a notification, and one with an alert; every
\* fault occurs in some behaviour, and the behaviour ends where the property no
\* longer speaks of what follows.
FewFaults == fault = {}
FewMishaps == Cardinality(mishap') <= 1 /\ mishap \cap {"running", "unknown", "unsaid"} = {}
\* Each inbound fault occurs, alone or with any other.
FewTroubles == Cardinality(slow') + Cardinality(lost') + Cardinality(torn') + Cardinality(failed')
               + Cardinality(covered') <= 2
\* One booking of tickets: its bookings do not meet.
OneTicket == trade = "ticketing" => filed'[2].status = "none"

Rests(part, vars) == IF focus = part THEN TRUE ELSE UNCHANGED vars

ServicesNext ==
    /\ \/ focus = "enquiry" /\ FormNext
       \/ focus = "inbound" /\ InboundNext /\ FewTroubles
       \/ focus = "sessions" /\ SessionsNext
       \/ focus = "notifications" /\ NotificationsNext /\ FewFaults
       \/ focus = "alerts" /\ OpsNext /\ FewMishaps
       \/ focus = "workflow" /\ WorkflowNext
       \/ focus = "bookings" /\ BookingsNext
       \/ focus = "shared" /\ SharedNext
       \/ focus = "desks" /\ EnquiriesNext /\ OneTicket
    /\ Rests("enquiry", form) /\ Rests("inbound", inboundVars) /\ Rests("sessions", sessionVars)
    /\ Rests("notifications", notificationVars) /\ Rests("alerts", opsVars)
    /\ Rests("workflow", workflowVars) /\ Rests("bookings", bookingVars)
    /\ Rests("shared", sharedVars) /\ Rests("desks", enquiryVars)
    /\ UNCHANGED focus

ServicesVars == <<form, inboundVars, sessionVars, notificationVars, opsVars, workflowVars,
                  bookingVars, sharedVars, enquiryVars, focus>>
ServicesSpec == ServicesInit /\ [][ServicesNext]_ServicesVars

\* The variables of each part keep to their types.
ServicesTypeOK ==
    /\ FormTypeOK /\ InboundTypeOK /\ SessionsTypeOK /\ NotificationsTypeOK
    /\ OpsTypeOK /\ WorkflowTypeOK /\ BookingsTypeOK /\ SharedTypeOK /\ EnquiriesTypeOK

\* What the desk keeps beside the bookings, and the desks that quote, lose nothing
\* but what a crossing request or a crash takes.
DesksKept == DeskTold /\ DesksServe
=============================================================================
