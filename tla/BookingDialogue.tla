-------------------------- MODULE BookingDialogue --------------------------
(***************************************************************************)
(* One customer books over WhatsApp: the conversation row, the bookings it *)
(* makes and their payment links.  Every inbound message is one step: the  *)
(* state machine reads the conversation, handles the message and commits.  *)
(* Between two messages the gateway's events, the expiry of the session    *)
(* and the cleanup job may change the same rows.                           *)
(*                                                                         *)
(* A handler is a function of the world [conv, book, tx, link], because    *)
(* one message may cancel one booking, create another and issue its link.  *)
(* Messages a state does not understand change nothing and are left out.   *)
(***************************************************************************)
EXTENDS PaymentLinks

CONSTANTS
    Airport, NoAirport,
    Flight, NoFlight,
    Unverified,     \* a flight number the lookup does not know
    International,  \* flights whose route is international
    Hub, HubFlight, \* airports and flights of one network: a flight serves its own
    DomesticOnly,   \* airports that sell no international package
    MultiTerminal,  \* airports with two terminals for domestic travel
    MaxBooking      \* bound: bookings and requests

ASSUME CatalogueAssumption ==
    /\ NoAirport \notin Airport /\ NoFlight \notin Flight /\ Unverified \notin Flight
    /\ Hub \cup DomesticOnly \cup MultiTerminal \subseteq Airport
    /\ International \cup HubFlight \subseteq Flight
    /\ MaxBooking \in Nat \ {0}

VARIABLE conv   \* whatsapp_conversations: the customer's row

dialogueVars == <<book, tx, link, conv>>
world == [conv |-> conv, book |-> book, tx |-> tx, link |-> link]

\* The number of ledger rows is bounded; only a settlement may exceed it.
Become(w) ==
    /\ Len(w.tx) <= MaxTx \/ Len(w.tx) = Len(tx)
    /\ conv' = w.conv /\ book' = w.book /\ tx' = w.tx /\ link' = w.link
Speak(c) == conv' = c /\ UNCHANGED deskVars

-----------------------------------------------------------------------------
(* The catalogue.                                                          *)

\* derive_flight_type_from_route.
RouteType(f) == IF f \in International THEN "intl" ELSE "dom"
Serves(f, a) == f \in HubFlight <=> a \in Hub
Sold(a, t) == a # NoAirport /\ (a \in DomesticOnly => t = "dom")
TwoTerminals(a, t) == a \in MultiTerminal /\ t = "dom"

\* A unit price is known by where it comes from.
Priced(a, t) == [at |-> a, type |-> t]
NoPrice == Priced(NoAirport, "none")
OnRequest == Priced(NoAirport, "zero")      \* a charter without a price
Listed == Priced(NoAirport, "listed")       \* another service's price
UnitPrice == [at : Airport, type : {"dom", "intl"}] \cup {NoPrice, OnRequest, Listed}
Times(unit, n) == [unit |-> unit, pax |-> n]
NoTotal == Times(NoPrice, 0)
Positive(total) == total.unit \notin {NoPrice, OnRequest}

-----------------------------------------------------------------------------
(* The conversation.                                                       *)

States == {"START", "CANCELLED", "COMPLETED", "WAITING_PAYMENT", "AWAITING_QUOTE",
    "CATEGORY_SELECTION", "JOURNEY_TYPE_SELECTION", "AIRPORT_TRAVEL_TYPE",
    "AIRPORT_TRANSIT_TYPE", "AIRPORT_SELECTION", "TERMINAL_SELECTION", "SERVICE_SELECTION",
    "TRAVEL_SERVICE_SELECTION", "TRAVEL_ENQUIRY", "HOTEL_TRANSPORT_SUBMENU", "HOTEL_CITY",
    "HOTEL_NIGHTS", "TRANSPORT_PICKUP", "TRANSPORT_DROPOFF", "CHARTER_ORIGIN",
    "CHARTER_DESTINATION", "FLIGHT_INPUT", "FLIGHT_CONFIRMATION", "FLIGHT_TYPE_MISMATCH",
    "DATE_SELECTION", "PASSENGER_COUNT", "CUSTOMER_NAME", "CUSTOMER_EMAIL", "CUSTOMER_PHONE",
    "COMPANION_NAMES", "ADDITIONAL_REQUIREMENTS", "BOOKING_REVIEW"}
Protected == {"START", "CANCELLED", "COMPLETED", "WAITING_PAYMENT", "AWAITING_QUOTE"}

\* flight_details_json.  check is verification_status, where every status that
\* neither confirms nor waits is "none"; manual tells that an unverified number
\* is kept aside.
Details == [journey : {"none", "direct", "transit"}, type : {"none", "dom", "intl"},
            unit : UnitPrice, check : {"none", "pending", "verified", "override"},
            later : BOOLEAN, manual : BOOLEAN,
            route : Flight \cup {NoFlight}, pending : Flight \cup {NoFlight},
            mismatch : Flight \cup {NoFlight}]
NoDetails == [journey |-> "none", type |-> "none", unit |-> NoPrice, check |-> "none",
              later |-> FALSE, manual |-> FALSE,
              route |-> NoFlight, pending |-> NoFlight, mismatch |-> NoFlight]

\* ref is booking_ref, draft booking_id (0: none), pay payment_status.
Conversation == [state : States, category : {"none", "airport", "travel", "charter", "hotel"},
                 meta : Details, airport : Airport \cup {NoAirport},
                 total : [unit : UnitPrice, pax : 0 .. 2], pax : 1 .. 2,
                 flight : Flight \cup {NoFlight, Unverified},
                 ref : 0 .. MaxBooking, draft : 0 .. MaxBooking,
                 pay : {"PENDING", "SUCCESSFUL", "QUOTE", "EXPIRED", "CANCELLED"}]
Fresh == [state |-> "START", category |-> "none", meta |-> NoDetails, airport |-> NoAirport,
          total |-> NoTotal, pax |-> 1, flight |-> NoFlight, ref |-> 0, draft |-> 0,
          pay |-> "PENDING"]

DialogueTypeOK ==
    /\ conv \in Conversation
    /\ book \in Seq(BookingRow) /\ Len(book) <= MaxBooking
    /\ tx \in Seq(LinkTx) /\ Len(tx) <= MaxTx + MaxLink
    /\ link \in Seq(GatewayLink) /\ Len(link) <= MaxLink

DialogueInit ==
    /\ book = <<>> /\ tx = <<>> /\ link = <<>>
    /\ conv = Fresh

-----------------------------------------------------------------------------
(* Interrupts.                                                             *)

Cancelled(w, b) == IF BookingIs(w, b, "PENDING") THEN [w EXCEPT !.book[b].status = "CANCELLED"] ELSE w

\* Faulty: the draft of the session stays.
ResetFieldsOnly(w, s) == [w EXCEPT !.conv = [Fresh EXCEPT !.state = s]]

\* Faulty: a paid booking is withdrawn as well.
ResetConfirmedToo(w, s) ==
    [w EXCEPT !.conv = [Fresh EXCEPT !.state = s],
              !.book = IF IsBooking(w, w.conv.draft)
                       THEN [@ EXCEPT ![w.conv.draft].status = "CANCELLED"] ELSE @]

\* The cleanup job took the conversation: it has been idle for longer than the
\* inactivity limit, so its next message finds the session expired.
Swept(c) == c.state = "CATEGORY_SELECTION" /\ c.pay = "EXPIRED"

\* _reset_conversation_fields, and the state the caller goes on with.
Reset(w, s) == [Cancelled(w, w.conv.draft) EXCEPT !.conv = [Fresh EXCEPT !.state = s]]

\* Hi, or Cancel & Start New while a payment is awaited.
Restart == Become(Reset(world, "CATEGORY_SELECTION"))
Cancel == ~Swept(conv) /\ Become(Reset(world, "CANCELLED"))

\* The first message after the inactivity limit, whatever it says; only Hi opens
\* the menu.
SessionExpires ==
    /\ conv.state \notin Protected
    /\ \E s \in {"START", "CATEGORY_SELECTION"} : Become(Reset(world, s))

\* _handle_pending_payment_restart, Hi after the payment session has expired; an
\* older booking is kept when it is confirmed.
RestartExpired ==
    /\ conv.state = "WAITING_PAYMENT"
    /\ Become(Reset(Cancelled(world, conv.ref), "CATEGORY_SELECTION"))

-----------------------------------------------------------------------------
(* Category, airport and package.                                          *)

Move(c, s) == [c EXCEPT !.state = s]

\* _authoritative_catalog_travel_type.
Derived(m) ==
    IF m.journey = "direct" /\ m.route # NoFlight THEN [m EXCEPT !.type = RouteType(m.route)] ELSE m
Forget(m) == [m EXCEPT !.pending = NoFlight, !.mismatch = NoFlight]

CategoryState == [airport |-> "JOURNEY_TYPE_SELECTION", travel |-> "TRAVEL_SERVICE_SELECTION",
                  charter |-> "SERVICE_SELECTION", hotel |-> "HOTEL_TRANSPORT_SUBMENU"]
ChooseCategory ==
    /\ conv.state = "CATEGORY_SELECTION" /\ ~Swept(conv)
    /\ \E k \in DOMAIN CategoryState :
          Speak(Move([conv EXCEPT !.category = k], CategoryState[k]))

ChooseJourney ==
    /\ conv.state = "JOURNEY_TYPE_SELECTION"
    /\ \E j \in {"direct", "transit"} :
          Speak(Move([conv EXCEPT !.meta = [NoDetails EXCEPT !.journey = j]],
                     IF j = "transit" THEN "AIRPORT_TRANSIT_TYPE" ELSE "AIRPORT_TRAVEL_TYPE"))

ChooseTravelType ==
    /\ conv.state \in {"AIRPORT_TRAVEL_TYPE", "AIRPORT_TRANSIT_TYPE"}
    /\ \E t \in {"dom", "intl"} :
          Speak(Move([conv EXCEPT !.meta = [NoDetails EXCEPT !.type = t, !.journey =
                          IF conv.state = "AIRPORT_TRANSIT_TYPE" THEN "transit" ELSE conv.meta.journey]],
                     "AIRPORT_SELECTION"))

\* _state_airport_selection.
ChooseAirport ==
    /\ conv.state = "AIRPORT_SELECTION"
    /\ \E a \in Airport :
          LET m == Derived(conv.meta) IN
          Speak(Move([conv EXCEPT !.airport = a, !.meta = m],
                     IF TwoTerminals(a, m.type) THEN "TERMINAL_SELECTION" ELSE "SERVICE_SELECTION"))

ChooseTerminal ==
    /\ conv.state = "TERMINAL_SELECTION"
    /\ Speak(Move([conv EXCEPT !.meta = Derived(@)], "SERVICE_SELECTION"))

-----------------------------------------------------------------------------
(* Flights.                                                                *)

\* Faulty: the price of the package stays when the travel type follows the flight.
CommitOldPrice(c, f, check) ==
    LET m == Derived([Forget(c.meta) EXCEPT !.route = f, !.check = check]) IN
    [c EXCEPT !.state = "DATE_SELECTION", !.flight = f, !.meta = m]

\* _commit_accepted_flight: the type follows the route, the price the type.
Commit(c, f, check) ==
    LET m == Derived([Forget(c.meta) EXCEPT !.route = f, !.check = check])
        unit == IF Sold(c.airport, m.type) THEN Priced(c.airport, m.type) ELSE m.unit
    IN [c EXCEPT !.state = "DATE_SELECTION", !.flight = f, !.meta = [m EXCEPT !.unit = unit],
                 !.total = IF unit = NoPrice THEN @ ELSE Times(unit, c.pax)]

\* _state_service_selection, Airport Services: a flight that waits for a
\* package of its type is accepted with the pick.
PickPackage ==
    /\ conv.state = "SERVICE_SELECTION" /\ conv.category = "airport"
    /\ LET m == Derived(conv.meta)
           unit == Priced(conv.airport, m.type)
           c == [conv EXCEPT !.meta = [m EXCEPT !.unit = unit], !.total = Times(unit, conv.pax)] IN
       /\ Sold(conv.airport, m.type)
       /\ IF m.journey = "direct" /\ m.pending # NoFlight /\ RouteType(m.pending) = m.type
          THEN Speak(Commit(c, m.pending, "verified"))
          ELSE Speak(Move(c, "FLIGHT_INPUT"))

\* The other categories: a charter may have no price, the others fall back to
\* the legacy default.
PickService ==
    /\ conv.state = "SERVICE_SELECTION" /\ conv.category \in {"charter", "hotel"}
    /\ \E unit \in IF conv.category = "charter" THEN {OnRequest, Listed} ELSE {Listed} :
          Speak([conv EXCEPT !.meta.unit = unit, !.total = Times(unit, conv.pax),
                    !.state = IF conv.category = "charter" THEN "CHARTER_ORIGIN" ELSE "DATE_SELECTION"])

\* DOMESTIC or INTERNATIONAL typed at the package menu, or the menu sent again.
RetypeAtMenu ==
    /\ conv.state = "SERVICE_SELECTION" /\ conv.category = "airport"
    /\ \E t \in {conv.meta.type, "dom", "intl"} :
          Speak([conv EXCEPT !.meta = Derived([@ EXCEPT !.type = t])])

LeaveMenu ==
    /\ conv.state = "SERVICE_SELECTION"
    /\ \E s \in {"AIRPORT_SELECTION", IF conv.meta.journey = "transit" THEN "AIRPORT_TRANSIT_TYPE"
                                      ELSE "AIRPORT_TRAVEL_TYPE"} : Speak(Move(conv, s))

\* _prompt_change_airport_from_flight.
ChangeAirport ==
    /\ conv.state \in {"FLIGHT_INPUT", "FLIGHT_CONFIRMATION", "FLIGHT_TYPE_MISMATCH"}
    /\ Speak([conv EXCEPT !.state = "AIRPORT_SELECTION", !.meta = Forget(@),
                          !.airport = NoAirport, !.flight = NoFlight])

ReenterFlight ==
    \/ conv.state = "FLIGHT_INPUT" /\ Speak([conv EXCEPT !.meta = Forget(@)])
    \/ /\ conv.state \in {"FLIGHT_CONFIRMATION", "FLIGHT_TYPE_MISMATCH"}
       /\ Speak([conv EXCEPT !.state = "FLIGHT_INPUT", !.flight = NoFlight,
                             !.meta = [Forget(@) EXCEPT !.check = "none"]])

\* Flight not confirmed yet, or a number kept although the lookup failed.
FlightLater ==
    /\ conv.state = "FLIGHT_INPUT"
    /\ \/ Speak([conv EXCEPT !.state = "DATE_SELECTION", !.flight = NoFlight,
                    !.meta = [Forget(@) EXCEPT !.check = "none", !.later = TRUE]])
       \/ /\ conv.meta.manual
          /\ Speak([conv EXCEPT !.state = "DATE_SELECTION", !.flight = Unverified,
                       !.meta = [@ EXCEPT !.check = "none", !.later = TRUE, !.manual = FALSE]])

\* _continue_mismatch_override.
OverrideMismatch ==
    /\ conv.state = "FLIGHT_INPUT" /\ conv.meta.mismatch # NoFlight
    /\ Speak(Commit(conv, conv.meta.mismatch, "override"))

\* _state_flight_input: what the lookup of flight f leads to.
LookUp(c, f) ==
    LET m == c.meta
        clean == [Forget(m) EXCEPT !.check = "none"]
        with(new, s) == [c EXCEPT !.flight = NoFlight, !.meta = new, !.state = s] IN
    {with([clean EXCEPT !.manual = TRUE], "FLIGHT_INPUT")} \cup
    (IF ~Serves(f, c.airport)
     THEN {with(clean, "FLIGHT_INPUT"), with([clean EXCEPT !.mismatch = f], "FLIGHT_INPUT")}
     ELSE {with(m, "FLIGHT_INPUT")} \cup
          (IF m.journey = "direct" /\ RouteType(f) # m.type
           THEN {with([clean EXCEPT !.mismatch = f], "FLIGHT_TYPE_MISMATCH")}
           ELSE {with([clean EXCEPT !.check = "pending", !.route = NoFlight, !.pending = f],
                      "FLIGHT_CONFIRMATION")}))
EnterFlight ==
    /\ conv.state = "FLIGHT_INPUT"
    /\ \E f \in Flight : \E c \in LookUp(conv, f) : Speak(c)

ConfirmFlight ==
    /\ conv.state = "FLIGHT_CONFIRMATION"
    /\ IF conv.meta.pending # NoFlight /\ conv.meta.check = "pending"
       THEN Speak(Commit(conv, conv.meta.pending, "verified"))
       ELSE Speak([conv EXCEPT !.state = "FLIGHT_INPUT", !.flight = NoFlight])

ChangePackage ==
    /\ conv.state = "FLIGHT_CONFIRMATION"
    /\ Speak(Move([conv EXCEPT !.meta = Derived(@)], "SERVICE_SELECTION"))

\* _state_flight_type_mismatch, option 1.  The flight's own terminal may decide
\* among two.
SwitchType ==
    /\ conv.state = "FLIGHT_TYPE_MISMATCH"
    /\ LET f == conv.meta.mismatch
           m == [conv.meta EXCEPT !.type = RouteType(f), !.pending = f, !.mismatch = NoFlight,
                                  !.check = "pending", !.unit = NoPrice]
           c == [conv EXCEPT !.meta = m, !.total = NoTotal] IN
       IF f = NoFlight THEN Speak([conv EXCEPT !.state = "FLIGHT_INPUT", !.flight = NoFlight])
       ELSE \/ Speak([c EXCEPT !.state = "SERVICE_SELECTION", !.meta = Derived(@)])
            \/ TwoTerminals(conv.airport, m.type) /\ Speak(Move(c, "TERMINAL_SELECTION"))

-----------------------------------------------------------------------------
(* The customer's details.                                                 *)

\* The states that only take an answer and go on.
Following == [HOTEL_CITY |-> "HOTEL_NIGHTS", HOTEL_NIGHTS |-> "DATE_SELECTION",
    TRANSPORT_PICKUP |-> "TRANSPORT_DROPOFF", TRANSPORT_DROPOFF |-> "DATE_SELECTION",
    CHARTER_ORIGIN |-> "CHARTER_DESTINATION", CHARTER_DESTINATION |-> "DATE_SELECTION",
    CUSTOMER_NAME |-> "CUSTOMER_EMAIL",
    CUSTOMER_EMAIL |-> "CUSTOMER_PHONE", COMPANION_NAMES |-> "ADDITIONAL_REQUIREMENTS",
    BOOKING_REVIEW |-> "CUSTOMER_NAME"]     \* Change Details
Answer == conv.state \in DOMAIN Following /\ Speak(Move(conv, Following[conv.state]))

\* A date that is refused, past or too soon for its notice, is asked for again.
DateSelection == conv.state = "DATE_SELECTION" /\ Speak(Move(conv, "PASSENGER_COUNT"))

HotelOrTransport ==
    /\ conv.state = "HOTEL_TRANSPORT_SUBMENU"
    /\ \E s \in {"HOTEL_CITY", "TRANSPORT_PICKUP"} : Speak(Move(conv, s))

\* Faulty: nobody travels.
PassengerCountZero ==
    /\ conv.state = "PASSENGER_COUNT"
    /\ Speak([conv EXCEPT !.state = "CUSTOMER_NAME", !.pax = 0])

PassengerCount ==
    /\ conv.state = "PASSENGER_COUNT"
    /\ \E n \in 1 .. 2 :
          Speak([conv EXCEPT !.state = "CUSTOMER_NAME", !.pax = n,
                    !.total = IF conv.meta.unit = NoPrice THEN @ ELSE Times(conv.meta.unit, n)])

CustomerPhone ==
    /\ conv.state = "CUSTOMER_PHONE"
    /\ Speak(Move(conv, IF conv.pax > 1 THEN "COMPANION_NAMES" ELSE "ADDITIONAL_REQUIREMENTS"))

\* The catalogue's type when none was chosen.
TypeOf(m) == IF m.type = "none" THEN "dom" ELSE m.type

\* _send_booking_summary looks a missing price up and multiplies it again.
Summary ==
    /\ conv.state = "ADDITIONAL_REQUIREMENTS"
    /\ LET m == conv.meta
           missing == m.unit = NoPrice \/ ~Positive(conv.total)
           unit == IF missing /\ Sold(conv.airport, TypeOf(m)) THEN Priced(conv.airport, TypeOf(m))
                                                              ELSE m.unit IN
       Speak([conv EXCEPT !.state = "BOOKING_REVIEW", !.meta.unit = unit,
                          !.total = IF unit = NoPrice THEN @ ELSE Times(unit, conv.pax)])

-----------------------------------------------------------------------------
(* _handle_back_action.                                                    *)

Preceding == [AIRPORT_TRAVEL_TYPE |-> "JOURNEY_TYPE_SELECTION",
    AIRPORT_TRANSIT_TYPE |-> "JOURNEY_TYPE_SELECTION", CUSTOMER_NAME |-> "PASSENGER_COUNT",
    CUSTOMER_EMAIL |-> "CUSTOMER_NAME", CUSTOMER_PHONE |-> "CUSTOMER_EMAIL",
    COMPANION_NAMES |-> "CUSTOMER_PHONE", BOOKING_REVIEW |-> "ADDITIONAL_REQUIREMENTS",
    TRAVEL_ENQUIRY |-> "TRAVEL_SERVICE_SELECTION"]

\* Where Back sends the category menu and clears nothing.
ToMenu == {"TRAVEL_SERVICE_SELECTION", "COMPLETED", "CANCELLED", "HOTEL_TRANSPORT_SUBMENU",
    "HOTEL_CITY", "HOTEL_NIGHTS", "TRANSPORT_PICKUP", "TRANSPORT_DROPOFF", "CHARTER_ORIGIN",
    "CHARTER_DESTINATION"}

TypeSelection(m) == IF m.journey = "transit" THEN "AIRPORT_TRANSIT_TYPE" ELSE "AIRPORT_TRAVEL_TYPE"

BackTo(c) ==
    LET unsold == [c EXCEPT !.total = NoTotal]
        nowhere == [unsold EXCEPT !.airport = NoAirport]
        m == Derived(c.meta) IN
    CASE c.state \in DOMAIN Preceding -> Move(c, Preceding[c.state])
      [] c.state \in ToMenu -> Move(c, "CATEGORY_SELECTION")
      [] c.state = "JOURNEY_TYPE_SELECTION" -> Move(nowhere, "CATEGORY_SELECTION")
      [] c.state = "AIRPORT_SELECTION" -> Move(nowhere, TypeSelection(c.meta))
      [] c.state = "TERMINAL_SELECTION" -> Move(unsold, "AIRPORT_SELECTION")
      [] c.state = "SERVICE_SELECTION" /\ c.category # "airport" -> Move(unsold, "CATEGORY_SELECTION")
      [] c.state = "SERVICE_SELECTION" /\ c.category = "airport" ->
            Move([unsold EXCEPT !.meta = m], IF TwoTerminals(c.airport, m.type) THEN "TERMINAL_SELECTION"
                                             ELSE "AIRPORT_SELECTION")
      [] c.state \in {"FLIGHT_INPUT", "FLIGHT_CONFIRMATION", "FLIGHT_TYPE_MISMATCH"} ->
            [c EXCEPT !.state = "SERVICE_SELECTION", !.flight = NoFlight,
                      !.meta = [NoDetails EXCEPT !.journey = m.journey, !.type = c.meta.type]]
      [] c.state = "DATE_SELECTION" ->
            Move(c, IF c.category = "airport" THEN "FLIGHT_INPUT" ELSE "SERVICE_SELECTION")
      [] c.state = "PASSENGER_COUNT" -> [unsold EXCEPT !.state = "DATE_SELECTION", !.pax = 1]
      [] c.state = "ADDITIONAL_REQUIREMENTS" ->
            Move(c, IF c.pax > 1 THEN "COMPANION_NAMES" ELSE "CUSTOMER_PHONE")

Back ==
    \/ /\ conv.state \in {"START", "CATEGORY_SELECTION"}
       /\ Become(Reset(world, "CATEGORY_SELECTION"))
    \/ /\ conv.state \notin {"START", "CATEGORY_SELECTION", "WAITING_PAYMENT", "AWAITING_QUOTE"}
       /\ Speak(BackTo(conv))

-----------------------------------------------------------------------------
(* Confirming, and the payment link.                                       *)

\* The conversation of booking b learns that it is paid.
Paid(w) == [w EXCEPT !.conv.state = "COMPLETED", !.conv.pay = "SUCCESSFUL"]
Linked(b) == conv.ref = b \/ conv.draft = b
Synced(w, b) == IF Linked(b) /\ ~BookingIs(world, b, "CONFIRMED") THEN Paid(w) ELSE w

\* Faulty: an unpriced booking is sent to the gateway.
IssueUnpriced(w, force) ==
    LET b == w.conv.ref IN
    IF b = 0 THEN {w}
    ELSE IF BookingIs(w, b, "CONFIRMED") THEN {Paid(w)}
    ELSE {IF r.cutoff THEN r.desk
          ELSE [r.desk EXCEPT !.conv.state = "WAITING_PAYMENT", !.conv.pay = "PENDING"] :
             r \in IF force THEN Replace(w, b) ELSE Initiate(w, b)}

\* _issue_or_resend_payment_link: a confirmed booking is done, a closed notice
\* window stops it, a request without a price waits for a quote.
Issue(w, force) ==
    LET b == w.conv.ref
        tooLate == IF w.conv.category = "airport" /\ ~w.conv.meta.later /\ IsBooking(w, b)
                   THEN {w} ELSE {} IN
    IF b = 0 THEN {w}
    ELSE IF BookingIs(w, b, "CONFIRMED") THEN {Paid(w)}
    ELSE tooLate \cup
         IF ~Positive(w.conv.total) /\ ~(IsBooking(w, b) /\ w.book[b].priced)
         THEN {[w EXCEPT !.conv.state = "AWAITING_QUOTE", !.conv.pay = "QUOTE"]}
         ELSE {IF r.cutoff THEN r.desk
               ELSE [r.desk EXCEPT !.conv.state = "WAITING_PAYMENT", !.conv.pay = "PENDING"] :
                  r \in IF force THEN Replace(w, b) ELSE Initiate(w, b)}

\* The flight is verified or was confirmed against the lookup, with its route.
Accepted(c) ==
    c.meta.check \in {"verified", "override"} /\ c.flight # NoFlight /\ c.meta.route # NoFlight
Consistent(c) == c.meta.journey = "direct" => RouteType(c.meta.route) = c.meta.type

\* An amount that is missing is looked up for the type the route stands for.
Quoted(c) ==
    LET t == TypeOf(Derived(c.meta)) IN
    IF ~Positive(c.total) /\ Sold(c.airport, t) THEN Times(Priced(c.airport, t), c.pax) ELSE c.total

\* The customer's earlier drafts without a payment under way.
Stale(d) ==
    {b \in DOMAIN d.book : BookingIs(d, b, "PENDING") /\
        ~\E t \in DOMAIN d.tx : d.tx[t].of = b /\ d.tx[t].status \in {"SUCCESSFUL"} \cup Open}

\* _create_booking_request up to its commit; a PENDING draft is used again.
Created(w) ==
    LET c == w.conv
        row == [kind |-> "booking", status |-> "PENDING", priced |-> Positive(Quoted(c)),
                later |-> c.meta.later]
        reuse == BookingIs(w, c.draft, "PENDING")
        b == IF reuse THEN c.draft ELSE Len(w.book) + 1 IN
    [w EXCEPT !.book = IF reuse THEN [@ EXCEPT ![b] = row]
                       ELSE Append([k \in DOMAIN @ |-> IF k \in Stale(w)
                                       THEN [@[k] EXCEPT !.status = "CANCELLED"] ELSE @[k]], row),
              !.conv = [@ EXCEPT !.ref = b, !.draft = b, !.total = Quoted(c), !.pay = "PENDING",
                                 !.state = "WAITING_PAYMENT"]]

\* Confirm Booking.
Confirm ==
    /\ conv.state = "BOOKING_REVIEW" /\ conv.category # "charter"
    /\ LET flown == conv.category = "airport" /\ ~conv.meta.later IN
       \/ conv.ref # 0 /\ \E w \in Issue(world, FALSE) : Become(w)
       \/ /\ conv.ref = 0 /\ flown /\ ~(Accepted(conv) /\ Consistent(conv))
          /\ Speak([conv EXCEPT !.state = "FLIGHT_INPUT", !.flight = NoFlight])
       \/ /\ conv.ref = 0 /\ (flown => Accepted(conv) /\ Consistent(conv))
          /\ Len(book) < MaxBooking
          /\ \E w \in Issue(Created(world), FALSE) : Become(w)

\* _submit_charter_enquiry.
SubmitCharter ==
    /\ conv.state = "BOOKING_REVIEW" /\ conv.category = "charter"
    /\ Len(book) < MaxBooking
    /\ Become([world EXCEPT !.book = Append(@, [kind |-> "charter", status |-> "PENDING",
                                                priced |-> FALSE, later |-> FALSE]),
                             !.conv = [@ EXCEPT !.ref = Len(book) + 1, !.pay = "QUOTE",
                                                !.state = "AWAITING_QUOTE"]])

\* _start_travel_enquiry.
TravelStart ==
    /\ conv.state = "TRAVEL_SERVICE_SELECTION"
    /\ Speak([conv EXCEPT !.state = "TRAVEL_ENQUIRY", !.category = "travel", !.pax = 1,
                          !.total = NoTotal, !.ref = 0, !.draft = 0, !.pay = "PENDING"])

\* _submit_travel_enquiry, at the review of a complete form (module TravelEnquiry).
TravelSubmit ==
    /\ conv.state = "TRAVEL_ENQUIRY" /\ Len(book) < MaxBooking
    /\ LET b == Len(book) + 1 IN
       Become([world EXCEPT !.book = Append(@, [kind |-> "booking", status |-> "PENDING",
                                               priced |-> FALSE, later |-> FALSE]),
                            !.conv = [@ EXCEPT !.ref = b, !.draft = b, !.pay = "QUOTE",
                                               !.total = NoTotal, !.state = "AWAITING_QUOTE"]])

\* Faulty: the customer's word is enough.
WaitingTrusted ==
    /\ conv.state = "WAITING_PAYMENT"
    /\ \/ \E w \in Issue(world, conv.pay \in {"EXPIRED", "CANCELLED"}) : Become(w)
       \/ Become(Paid(world))

\* _state_waiting_payment: "I paid" asks the gateway first.
WaitingMessage ==
    /\ conv.state = "WAITING_PAYMENT"
    /\ \/ \E w \in Issue(world, conv.pay \in {"EXPIRED", "CANCELLED"}) : Become(w)
       \/ \E d \in Reconcile(world, conv.ref) :
             IF BookingIs(d, conv.ref, "CONFIRMED") THEN Become(Paid(d))
             ELSE \E w \in Issue(d, FALSE) : Become(w)

-----------------------------------------------------------------------------
(* The gateway, its events and the cleanup job.                            *)

PayLink == \E l \in DOMAIN link :
    /\ link[l].st = "created" /\ ~link[l].due
    /\ link' = [link EXCEPT ![l].st = "paid"] /\ UNCHANGED <<conv, book, tx>>

LinkLapses == \E l \in DOMAIN link :
    /\ link[l].st = "created" /\ ~link[l].due
    /\ link' \in {[link EXCEPT ![l].due = TRUE], [link EXCEPT ![l].st = "cancelled"]}
    /\ UNCHANGED <<conv, book, tx>>

PaidEvent(l) ==
    /\ l \in DOMAIN link /\ link[l].st = "paid"
    /\ LET w == Synced(Settle(world, l), link[l].of) IN
       conv' = w.conv /\ book' = w.book /\ tx' = w.tx
    /\ UNCHANGED link

EndedEvent(l) ==
    /\ l \in DOMAIN link /\ Ended(world, l) /\ ~link[l].told
    /\ LET w == End([world EXCEPT !.link[l].told = TRUE], l, EndStatus(world, l)) IN
       Become(IF Linked(link[l].of)
              THEN [w EXCEPT !.conv.state = "WAITING_PAYMENT", !.conv.pay = EndStatus(world, l)]
              ELSE w)

\* expire_stale_transactions: the old rows whose link the gateway does not
\* report paid, and the conversation if it has waited for as long (an hour at
\* least); the booking keeps its reference until the next message.
Sweep ==
    /\ \E S \in SUBSET {t \in DOMAIN tx : tx[t].status = "PENDING" /\ link[tx[t].link].st # "paid"} :
          tx' = [t \in DOMAIN tx |-> IF t \in S THEN [tx[t] EXCEPT !.status = "EXPIRED"] ELSE tx[t]]
    /\ \/ UNCHANGED conv
       \/ /\ conv.state = "WAITING_PAYMENT"
          /\ conv' = [conv EXCEPT !.state = "CATEGORY_SELECTION", !.pay = "EXPIRED"]
    /\ UNCHANGED <<book, link>>

-----------------------------------------------------------------------------
Catalogue == ChooseCategory \/ ChooseJourney \/ ChooseTravelType \/ ChooseAirport \/ ChooseTerminal
             \/ PickPackage \/ PickService \/ RetypeAtMenu \/ LeaveMenu
Flights == ChangeAirport \/ ReenterFlight \/ FlightLater \/ OverrideMismatch \/ EnterFlight
           \/ ConfirmFlight \/ ChangePackage \/ SwitchType
DetailsGiven == Answer \/ DateSelection \/ HotelOrTransport \/ PassengerCount \/ CustomerPhone \/ Summary
Interrupt == Restart \/ Cancel \/ SessionExpires \/ RestartExpired \/ Back
Requests == Confirm \/ SubmitCharter \/ TravelStart \/ TravelSubmit \/ WaitingMessage
Events == PayLink \/ LinkLapses \/ Sweep \/ \E l \in 1 .. MaxLink : PaidEvent(l) \/ EndedEvent(l)

DialogueNext == Catalogue \/ Flights \/ DetailsGiven \/ Interrupt \/ Requests \/ Events
DialogueSpec == DialogueInit /\ [][DialogueNext]_dialogueVars

-----------------------------------------------------------------------------
(* Properties.                                                             *)

\* A booking of this step by which the conversation of an airport service ends.
Booked == Len(book') = Len(book) + 1 /\ conv.category = "airport" /\ conv.state = "BOOKING_REVIEW"

\* The amount a booking is made for is the price of the chosen airport for the
\* booking's travel type, times its passengers, however the customer moved back
\* and forth between airport, package, flight and passengers (_commit_accepted_flight,
\* _state_passenger_count, _send_booking_summary).
PriceStep == Booked => LET t == conv'.meta.type IN
    Sold(conv'.airport, t) => conv'.total = Times(Priced(conv'.airport, t), conv'.pax)
PriceMatches == [][PriceStep]_dialogueVars

\* A booking with a flight is made for the flight whose route was accepted, and
\* for a direct journey its travel type is the one of that route
\* (_create_booking_request).
FlightStep == Booked /\ ~conv.meta.later =>
    /\ conv'.flight = conv'.meta.route /\ conv'.flight # NoFlight
    /\ conv'.meta.check \in {"verified", "override"}
    /\ conv'.meta.journey = "direct" => conv'.meta.type = RouteType(conv'.flight)
FlightConsistent == [][FlightStep]_dialogueVars

\* A confirmed summary is booked with the price, the flight and the type of its
\* last choices (_create_booking_request).
SummaryHolds == PriceMatches /\ FlightConsistent

\* No PENDING booking lingers that the conversation does not know ("Resetting
\* also cancels the orphaned PENDING draft", whatsapp/service.py).
NoOrphanDraft ==
    \A b \in DOMAIN book : BookingIs(world, b, "PENDING") => b = conv.draft

\* The customer is told that a booking is complete only when it is confirmed
\* (_issue_or_resend_payment_link, sync_whatsapp_conversation_on_payment).
CompletedConfirmed == conv.state = "COMPLETED" =>
    BookingIs(world, conv.ref, "CONFIRMED") \/ BookingIs(world, conv.draft, "CONFIRMED")

\* Money is asked for only when the booking has a price ("a zero-amount link
\* always fails", _issue_or_resend_payment_link).
QuoteHasNoLink == \A l \in DOMAIN link : book[link[l].of].priced

\* What the conversation keeps about its bookings is true of them.
BookingsInHand == NoOrphanDraft /\ CompletedConfirmed /\ QuoteHasNoLink

\* A paid link confirms its booking, whatever the customer, the expiry and the
\* cleanup did to the booking, its row and its conversation meanwhile: again and
\* again there is no paid link, and they stay paid, whose booking is not confirmed.
PaidConfirmed == []<>(\A l \in DOMAIN link :
    link[l].st = "paid" => BookingIs(world, link[l].of, "CONFIRMED"))

\* The requests of the conversation keep the promise of Reservations.
Promise == INSTANCE Reservations WITH
    request <- [b \in DOMAIN book |-> book[b].status],
    paid <- {link[l].of : l \in {k \in DOMAIN link : link[k].st = "paid"}}
KeepsReservations == Promise!Spec

\* "Creates the Booking as PENDING, then creates/reuses a Razorpay Payment
\* Link": a confirmed summary that leads on makes a booking.
LinkStep == Confirm /\ conv'.state \notin {"BOOKING_REVIEW", "FLIGHT_INPUT"} =>
    Len(book') = Len(book) + 1
LinkMatchesReview == [][LinkStep]_dialogueVars
=============================================================================
