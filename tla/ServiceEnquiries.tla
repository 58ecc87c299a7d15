-------------------------- MODULE ServiceEnquiries --------------------------
(***************************************************************************)
(* The desks that quote: lounges, private charters, air tickets.  A        *)
(* customer files a request on the website, the request's worker tells the *)
(* desk and the customer after the commit, and the desk moves it on.       *)
(* Workers of several processes cross; a worker may die between commits,   *)
(* and the customer who got no answer files the request again.             *)
(***************************************************************************)
EXTENDS Naturals, FiniteSets

CONSTANTS
    Agent,          \* requests of one customer and of the desk
    MaxFiled,       \* bound: rows filed
    MaxPassenger    \* bound: rows of passengers
ASSUME EnquiriesAssumption == {MaxFiled, MaxPassenger} \subseteq Nat \ {0}

VARIABLES
    trade,      \* which desk
    filed,      \* lounge_enquiries, private_charter_requests or air_ticket_bookings
    agent

enquiryVars == <<trade, filed, agent>>

Trade == {"lounge", "charter", "ticketing"}
Progress == {"new", "closed"}

\* told: the status the newest timeline entry about it names.  mishaps: what happened to the
\* row that excuses it.
NotFiled == [status |-> "none", fresh |-> FALSE, passengers |-> 0, count |-> 0, told |-> "none",
             desk |-> FALSE, customer |-> FALSE, mishaps |-> {}]
\* read: the status or the passengers it read.  to: the status it writes or tells.
Waiting == [pc |-> "off", on |-> 0, read |-> "none", passengers |-> 0, count |-> 0, to |-> "none"]
Slot == 1 .. MaxFiled

EnquiriesInit ==
    /\ trade \in Trade
    /\ filed = [e \in Slot |-> NotFiled]
    /\ agent = [a \in Agent |-> Waiting]

Exists(e) == filed[e].status # "none"
Step(a, pc) == agent' = [agent EXCEPT ![a].pc = pc]
Stop(a) == agent' = [agent EXCEPT ![a] = Waiting]

-----------------------------------------------------------------------------
(* Filing                                                                  *)

Hours == 0 .. 25
Notice(category) == IF category = "Domestic" THEN 12 ELSE 24
\* check_eligibility, in whole hours before the travel time; the hour after the
\* cutoff still counts.
Eligible(category, lead) == lead > 0 /\ lead >= Notice(category) - 1

\* Faulty: nobody looks for an enquiry filed just before.
FileAgain(a) ==
    /\ agent[a].pc = "off"
    /\ Step(a, "insert")
    /\ UNCHANGED <<trade, filed>>

\* create_enquiry refuses a late lounge enquiry, and answers one that repeats
\* another of the last ten minutes with that one; the other desks look for
\* nothing.
File(a) ==
    /\ agent[a].pc = "off"
    /\ trade = "lounge" =>
          /\ \E category \in {"Domestic", "International"}, lead \in Hours : Eligible(category, lead)
          /\ ~\E e \in Slot : Exists(e) /\ filed[e].fresh
    /\ Step(a, "insert")
    /\ UNCHANGED <<trade, filed>>

Unfiled == {e \in Slot : ~Exists(e)}
Recent == {e \in Slot : Exists(e) /\ filed[e].fresh}

\* The commit, with its passengers where it names any; a booking without any
\* counts one.  One that another fresh one crossed is a twin.
Insert(a) ==
    /\ agent[a].pc = "insert" /\ Unfiled # {}
    /\ \E named \in IF trade = "ticketing" THEN {0, 1} ELSE {0} :
       LET e == CHOOSE e \in Unfiled : \A f \in Unfiled : e <= f
           twin == IF Recent = {} THEN {} ELSE {"twin"} IN
       /\ filed' = [filed EXCEPT ![e] =
              [NotFiled EXCEPT !.status = "new", !.fresh = (trade = "lounge"), !.passengers = named, !.count = 1,
                               !.told = IF trade = "ticketing" THEN "none" ELSE "new",
                               !.mishaps = twin]]
       /\ agent' = [agent EXCEPT ![a] = [Waiting EXCEPT !.pc = "desk", !.on = e]]
    /\ UNCHANGED trade

\* The desk is told; ticketing first writes the timeline and the audit.
TellDesk(a) ==
    /\ agent[a].pc = "desk"
    /\ LET e == agent[a].on IN
       \/ /\ filed' = [filed EXCEPT ![e].desk = TRUE,
                                    ![e].told = IF @ = "none" THEN "new" ELSE @]
          /\ Step(a, "customer")
       \* The lounge's two messages share one try: the second falls with the first.
       \/ /\ trade = "lounge"
          /\ filed' = [filed EXCEPT ![e].mishaps = @ \cup {"unsent"}]
          /\ Stop(a)
    /\ UNCHANGED trade

\* The customer gets an acknowledgement; for tickets only while it is new.
TellCustomer(a) ==
    /\ agent[a].pc = "customer"
    /\ LET e == agent[a].on IN
       filed' = IF trade = "ticketing" /\ filed[e].status # "new" THEN filed
                ELSE [filed EXCEPT ![e].customer = TRUE]
    /\ Stop(a)
    /\ UNCHANGED trade

TenMinutes(e) ==
    /\ Exists(e) /\ filed[e].fresh
    /\ filed' = [filed EXCEPT ![e].fresh = FALSE]
    /\ UNCHANGED <<trade, agent>>

-----------------------------------------------------------------------------
(* The desk                                                                *)

\* update_enquiry and update_charter_request: any status after any other; the
\* commit writes it whatever the row says by then.
UpdateFiled(e) ==
    /\ trade # "ticketing" /\ Exists(e)
    /\ \E status \in Progress : filed' = [filed EXCEPT ![e].status = status]
    /\ UNCHANGED <<trade, agent>>

\* transition_booking: any status after any other, ...
OpenTicket(a, e) ==
    /\ agent[a].pc = "off" /\ trade = "ticketing" /\ Exists(e)
    /\ \E status \in Progress :
          agent' = [agent EXCEPT ![a] = [Waiting EXCEPT !.pc = "move", !.on = e,
                                                        !.read = filed[e].status, !.to = status]]
    /\ UNCHANGED <<trade, filed>>

\* ... which is written unless it is the one it read ...
MoveTicket(a) ==
    /\ agent[a].pc = "move"
    /\ LET e == agent[a].on IN
       /\ filed' = [filed EXCEPT ![e].status = IF agent[a].to = agent[a].read THEN @ ELSE agent[a].to]
       /\ Step(a, "reread")
    /\ UNCHANGED trade

\* ... and the timeline tells the status the row is found in after the commit.
RereadTicket(a) ==
    /\ agent[a].pc = "reread"
    /\ agent' = [agent EXCEPT ![a].pc = "tell", ![a].to = filed[agent[a].on].status]
    /\ UNCHANGED <<trade, filed>>

\* Faulty: the entry tells where the booking came from.
TellOldStatus(a) ==
    /\ agent[a].pc = "tell"
    /\ filed' = [filed EXCEPT ![agent[a].on].told = agent[a].read]
    /\ Stop(a)
    /\ UNCHANGED trade

TellStatus(a) ==
    /\ agent[a].pc = "tell"
    /\ LET e == agent[a].on IN
       filed' = [filed EXCEPT ![e].told = agent[a].to,
                              ![e].mishaps = IF agent[a].to # filed[e].status
                                             THEN @ \cup {"overtaken"} ELSE @]
    /\ Stop(a)
    /\ UNCHANGED trade

\* add_passenger counts the rows it read and its own.
OpenRoster(a, e) ==
    /\ agent[a].pc = "off" /\ trade = "ticketing" /\ Exists(e)
    /\ agent' = [agent EXCEPT ![a] = [Waiting EXCEPT !.pc = "roster", !.on = e,
                        !.passengers = filed[e].passengers, !.count = filed[e].count]]
    /\ UNCHANGED <<trade, filed>>

AddPassenger(a) ==
    /\ agent[a].pc = "roster"
    /\ LET e == agent[a].on
           read == agent[a] IN
       /\ filed[e].passengers < MaxPassenger
       /\ filed' = [filed EXCEPT ![e].passengers = @ + 1,
                        ![e].count = IF read.passengers + 1 = read.count THEN @ ELSE read.passengers + 1,
                        ![e].mishaps = IF read.passengers # filed[e].passengers
                                       THEN @ \cup {"miscounted"} ELSE @ \ {"miscounted"}]
    /\ Stop(a)
    /\ UNCHANGED trade

\* A worker dies: what follows its last commit never comes.
AgentDies(a) ==
    /\ agent[a].pc # "off"
    /\ filed' = IF agent[a].pc \in {"desk", "customer", "reread", "tell"}
                THEN [filed EXCEPT ![agent[a].on].mishaps = @ \cup {"died"}] ELSE filed
    /\ Stop(a)
    /\ UNCHANGED trade

EnquiriesNext ==
    \/ \E a \in Agent : \/ File(a) \/ Insert(a) \/ TellDesk(a) \/ TellCustomer(a)
                        \/ MoveTicket(a) \/ RereadTicket(a) \/ TellStatus(a)
                        \/ AddPassenger(a) \/ AgentDies(a)
    \/ \E a \in Agent, e \in Slot : OpenTicket(a, e) \/ OpenRoster(a, e)
    \/ \E e \in Slot : TenMinutes(e) \/ UpdateFiled(e)

EnquiriesSpec == EnquiriesInit /\ [][EnquiriesNext]_enquiryVars

-----------------------------------------------------------------------------
EnquiriesTypeOK ==
    /\ trade \in Trade
    /\ \A e \in Slot : /\ filed[e].status \in Progress \cup {"none"}
                       /\ filed[e].told \in Progress \cup {"none"}
                       /\ filed[e].passengers \in 0 .. MaxPassenger
                       /\ filed[e].mishaps \subseteq {"twin", "unsent", "overtaken", "miscounted", "died"}
    /\ \A a \in Agent : agent[a].on \in 0 .. MaxFiled

Handled(e) == \E a \in Agent : agent[a].on = e
Suffered(e, mishap) == mishap \in filed[e].mishaps

\* "Duplicate submission check within 10 minutes": one lounge request is one
\* enquiry, unless two were checked before either was filed (create_enquiry).
OneEnquiry ==
    trade = "lounge" => \A d, e \in Slot :
        d # e /\ filed[d].fresh /\ filed[e].fresh => Suffered(d, "twin") \/ Suffered(e, "twin")

\* What was filed was told: the desk hears of it and the customer is acknowledged,
\* unless the worker died after the commit (the customer's repetition is then
\* answered as a duplicate and tells nobody), the lounge's first message failed or
\* the ticket desk had moved the booking on before.
FiledTold ==
    \A e \in Slot : Exists(e) /\ ~Handled(e) /\ ~Suffered(e, "died") /\ ~Suffered(e, "unsent") =>
        filed[e].desk /\ (filed[e].customer \/ trade = "ticketing")

\* The newest entry about the status of a ticket booking tells it, unless another
\* transition committed between the second read and the entry.
TicketTold ==
    trade = "ticketing" => \A e \in Slot :
        Exists(e) /\ ~Handled(e) /\ ~Suffered(e, "died") /\ ~Suffered(e, "overtaken")
            => filed[e].told = filed[e].status

\* The passengers are as many as the booking says, unless two were added at once;
\* the next one sets it right (add_passenger).
RosterCounted ==
    trade = "ticketing" => \A e \in Slot :
        filed[e].passengers > 0 /\ ~Suffered(e, "miscounted") => filed[e].count = filed[e].passengers

\* The desks that quote lose nothing.
DesksServe == OneEnquiry /\ FiledTold /\ TicketTold /\ RosterCounted
=============================================================================
