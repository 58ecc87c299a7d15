--------------------------- MODULE DialogueProofs ---------------------------
(***************************************************************************)
(* The conversation with a customer, for any catalogue and any number of   *)
(* bookings and links.  The invariant ties its choices to the price it     *)
(* shows, its bookings to the one it has in hand, and every link to a      *)
(* booking that has a price.                                               *)
(***************************************************************************)
EXTENDS BookingDialogue, SequenceTheorems, FiniteSetTheorems,
        WellFoundedInduction, TLAPS

-----------------------------------------------------------------------------
(* What the choices of a conversation keep.                                *)

FlightStates == {"FLIGHT_INPUT", "FLIGHT_CONFIRMATION", "FLIGHT_TYPE_MISMATCH"}
OtherStates == {"TRAVEL_SERVICE_SELECTION", "TRAVEL_ENQUIRY", "HOTEL_TRANSPORT_SUBMENU",
    "HOTEL_CITY", "HOTEL_NIGHTS", "TRANSPORT_PICKUP", "TRANSPORT_DROPOFF", "CHARTER_ORIGIN",
    "CHARTER_DESTINATION"}
PackageKnown == FlightStates \cup {"DATE_SELECTION", "PASSENGER_COUNT", "CUSTOMER_NAME",
    "CUSTOMER_EMAIL", "CUSTOMER_PHONE", "COMPANION_NAMES", "ADDITIONAL_REQUIREMENTS",
    "BOOKING_REVIEW"}
TypeKnown == PackageKnown \cup {"AIRPORT_SELECTION", "TERMINAL_SELECTION", "SERVICE_SELECTION"}
Waiting == {"WAITING_PAYMENT", "AWAITING_QUOTE"}

\* The price of the package follows the travel type and the airport.
PackagePriced(m, a) ==
    /\ m.unit \notin {NoPrice, OnRequest}
    /\ Sold(a, m.type) => m.unit = Priced(a, m.type)

\* The choices: state, category, details, airport, amount, passengers and flight.
Chosen(s, k, m, a, t, n, f) ==
    /\ s \in FlightStates => k = "airport"
    /\ s \in OtherStates => k # "airport"
    /\ k = "airport" => /\ s \in TypeKnown => m.type # "none"
                        /\ s \in PackageKnown => PackagePriced(m, a)
                        /\ s = "BOOKING_REVIEW" => t = Times(m.unit, n)
    \* An accepted flight is the one whose route is known.
    /\ m.check \in {"verified", "override"} => f \in {NoFlight, m.route} \/ m.route = NoFlight
ChoiceOK(c) == Chosen(c.state, c.category, c.meta, c.airport, c.total, c.pax, c.flight)

\* A message that only moves the conversation.
Spoken ==
    /\ UNCHANGED deskVars
    /\ conv' \in Conversation /\ ChoiceOK(conv')
    /\ conv'.ref = conv.ref /\ conv'.draft = conv.draft
    /\ conv.state \notin Waiting /\ conv'.state # "COMPLETED"

\* A package has a price, and the two ways of having none are prices too.
LEMMA Prices ==
    /\ \A a \in Airport, t \in {"dom", "intl"} :
          Priced(a, t) \in UnitPrice /\ Priced(a, t) \notin {NoPrice, OnRequest}
    /\ {NoPrice, OnRequest, Listed} \subseteq UnitPrice
<1>1. \A a \in Airport, t \in {"dom", "intl"} : Priced(a, t) \in UnitPrice
  BY DEF Priced, UnitPrice
<1>2. \A a \in Airport, t \in {"dom", "intl"} : Priced(a, t) \notin {NoPrice, OnRequest}
  BY CatalogueAssumption DEF Priced, NoPrice, OnRequest
<1> QED
  BY <1>1, <1>2 DEF UnitPrice

Total == [unit : UnitPrice, pax : 0 .. 2]

\* A total is positive exactly when the package has a price.
LEMMA Amounts ==
    /\ \A u \in UnitPrice, n \in 0 .. 2 :
          /\ Times(u, n) \in Total
          /\ Positive(Times(u, n)) <=> u \notin {NoPrice, OnRequest}
    /\ NoTotal \in Total
BY Prices DEF Total, Times, Positive, NoTotal

\* Reading the travel type off the route changes the type and nothing else.
LEMMA DerivedKeeps ==
    ASSUME NEW m \in Details
    PROVE  /\ Derived(m) \in Details
           /\ Derived(m).type = IF m.journey = "direct" /\ m.route # NoFlight
                                THEN RouteType(m.route) ELSE m.type
           /\ Derived(m).unit = m.unit /\ Derived(m).check = m.check /\ Derived(m).route = m.route
           /\ Derived(m).journey = m.journey /\ Derived(m).later = m.later
           /\ Derived(m).pending = m.pending /\ Derived(m).mismatch = m.mismatch
           /\ m.type # "none" => Derived(m).type # "none"
BY DEF Derived, Details, RouteType

\* The details of a new conversation are details.
LEMMA NoDetailsOK == NoDetails \in Details
BY Prices DEF NoDetails, Details

\* A conversation's fields, one by one.
LEMMA ConversationOK ==
    \A c \in Conversation :
        /\ c.state \in States /\ c.category \in {"none", "airport", "travel", "charter", "hotel"}
        /\ c.meta \in Details /\ c.airport \in Airport \cup {NoAirport}
        /\ c.total \in Total /\ c.pax \in 1 .. 2 /\ c.flight \in Flight \cup {NoFlight, Unverified}
        /\ c.meta.unit \in UnitPrice /\ c.meta.route \in Flight \cup {NoFlight}
        /\ c.meta.pending \in Flight \cup {NoFlight} /\ c.meta.mismatch \in Flight \cup {NoFlight}
BY DEF Conversation, Details, Total

Category == {"none", "airport", "travel", "charter", "hotel"}
Route == Flight \cup {NoFlight}
Typed(s, k, m, a, t, n, f) ==
    /\ s \in States /\ k \in Category /\ m \in Details /\ a \in Airport \cup {NoAirport}
    /\ t \in Total /\ n \in 1 .. 2 /\ f \in Flight \cup {NoFlight, Unverified}

\* The conversation with other choices.
With(c, s, k, m, a, t, n, f) ==
    [c EXCEPT !.state = s, !.category = k, !.meta = m, !.airport = a, !.total = t, !.pax = n,
              !.flight = f]

\* A conversation with other choices is one, with the same bookings.
LEMMA WithOK ==
    ASSUME NEW c \in Conversation, NEW s, NEW k, NEW m, NEW a, NEW t, NEW n, NEW f,
           Typed(s, k, m, a, t, n, f)
    PROVE  LET e == With(c, s, k, m, a, t, n, f) IN
           /\ e \in Conversation
           /\ e.state = s /\ e.category = k /\ e.meta = m /\ e.airport = a /\ e.total = t
           /\ e.pax = n /\ e.flight = f /\ e.ref = c.ref /\ e.draft = c.draft /\ e.pay = c.pay
<1> DEFINE e == With(c, s, k, m, a, t, n, f)
<1>1. e \in Conversation
  BY DEF With, Typed, Conversation, Total, Category
<1>2. /\ e.state = s /\ e.category = k /\ e.meta = m /\ e.airport = a /\ e.total = t
      /\ e.pax = n /\ e.flight = f /\ e.ref = c.ref /\ e.draft = c.draft /\ e.pay = c.pay
  BY DEF With, Conversation
<1> QED
  BY <1>1, <1>2

\* Choices that fit their state are spoken.
LEMMA SpokenWith ==
    ASSUME conv \in Conversation, conv.state \notin Waiting,
           NEW s, NEW k, NEW m, NEW a, NEW t, NEW n, NEW f,
           Typed(s, k, m, a, t, n, f), Chosen(s, k, m, a, t, n, f), s # "COMPLETED",
           Speak(With(conv, s, k, m, a, t, n, f))
    PROVE  Spoken
<1> DEFINE e == With(conv, s, k, m, a, t, n, f)
<1>1. /\ e \in Conversation
      /\ e.state = s /\ e.category = k /\ e.meta = m /\ e.airport = a /\ e.total = t
      /\ e.pax = n /\ e.flight = f /\ e.ref = conv.ref /\ e.draft = conv.draft
  BY WithOK
<1>2. conv' = e /\ UNCHANGED deskVars
  BY DEF Speak
<1> HIDE DEF e
<1> QED
  BY <1>1, <1>2 DEF Spoken, ChoiceOK

\* To move on is to speak where the next state asks for no more than this one.
LEMMA SpokenMove ==
    ASSUME conv \in Conversation, ChoiceOK(conv), conv.state \notin Waiting,
           NEW s \in States \ {"COMPLETED", "BOOKING_REVIEW"}, Speak(Move(conv, s)),
           s \in FlightStates => conv.category = "airport",
           s \in OtherStates => conv.category # "airport",
           conv.category = "airport" => /\ s \in TypeKnown => conv.state \in TypeKnown
                                        /\ s \in PackageKnown => conv.state \in PackageKnown
    PROVE  Spoken
<1>1. Typed(s, conv.category, conv.meta, conv.airport, conv.total, conv.pax, conv.flight)
  BY ConversationOK DEF Typed, Category
<1>2. Chosen(s, conv.category, conv.meta, conv.airport, conv.total, conv.pax, conv.flight)
  BY DEF ChoiceOK, Chosen
<1>3. Move(conv, s) = With(conv, s, conv.category, conv.meta, conv.airport, conv.total, conv.pax, conv.flight)
  BY DEF Move, With, Conversation
<1> QED
  BY <1>1, <1>2, <1>3, SpokenWith

-----------------------------------------------------------------------------
(* The messages that only move the conversation.                           *)

\* One lemma for each message of the customer: the category ...
LEMMA SpokenCategory == conv \in Conversation /\ ChoiceOK(conv) /\ ChooseCategory => Spoken
<1> SUFFICES ASSUME conv \in Conversation, ChoiceOK(conv), ChooseCategory PROVE Spoken
  OBVIOUS
<1>1. PICK k \in {"airport", "travel", "charter", "hotel"} :
         Speak(Move([conv EXCEPT !.category = k], CategoryState[k]))
  BY DEF ChooseCategory, CategoryState
<1>2. conv.state = "CATEGORY_SELECTION"
  BY DEF ChooseCategory
<1> DEFINE s == CategoryState[k]
<1>3. /\ s \in {"JOURNEY_TYPE_SELECTION", "TRAVEL_SERVICE_SELECTION", "SERVICE_SELECTION", "HOTEL_TRANSPORT_SUBMENU"}
      /\ k = "airport" <=> s = "JOURNEY_TYPE_SELECTION"
  BY DEF CategoryState
<1> HIDE DEF s
<1>4. Typed(s, k, conv.meta, conv.airport, conv.total, conv.pax, conv.flight)
  BY <1>3, ConversationOK DEF Typed, Category, States
<1>5. Chosen(s, k, conv.meta, conv.airport, conv.total, conv.pax, conv.flight)
  BY <1>3 DEF ChoiceOK, Chosen, FlightStates, OtherStates, PackageKnown, TypeKnown
<1>6. Move([conv EXCEPT !.category = k], s)
      = With(conv, s, k, conv.meta, conv.airport, conv.total, conv.pax, conv.flight)
  BY DEF Move, With, Conversation
<1> QED
  BY <1>1, <1>2, <1>3, <1>4, <1>5, <1>6, SpokenWith DEF Waiting, s

\* ... direct or transit,
LEMMA SpokenJourney == conv \in Conversation /\ ChoiceOK(conv) /\ ChooseJourney => Spoken
<1> SUFFICES ASSUME conv \in Conversation, ChoiceOK(conv), ChooseJourney PROVE Spoken
  OBVIOUS
<1>1. PICK j \in {"direct", "transit"} :
          Speak(Move([conv EXCEPT !.meta = [NoDetails EXCEPT !.journey = j]],
                     IF j = "transit" THEN "AIRPORT_TRANSIT_TYPE" ELSE "AIRPORT_TRAVEL_TYPE"))
  BY DEF ChooseJourney
<1>2. conv.state = "JOURNEY_TYPE_SELECTION"
  BY DEF ChooseJourney
<1> DEFINE s == IF j = "transit" THEN "AIRPORT_TRANSIT_TYPE" ELSE "AIRPORT_TRAVEL_TYPE"
           m == [NoDetails EXCEPT !.journey = j]
<1>3. /\ s \in {"AIRPORT_TRAVEL_TYPE", "AIRPORT_TRANSIT_TYPE"}
      /\ m \in Details /\ m.check = "none"
  BY NoDetailsOK DEF Details, NoDetails
<1> HIDE DEF s, m
<1>4. Typed(s, conv.category, m, conv.airport, conv.total, conv.pax, conv.flight)
  BY <1>3, ConversationOK DEF Typed, Category, States
<1>5. Chosen(s, conv.category, m, conv.airport, conv.total, conv.pax, conv.flight)
  BY <1>3 DEF ChoiceOK, Chosen, FlightStates, OtherStates, PackageKnown, TypeKnown
<1>6. Move([conv EXCEPT !.meta = m], s)
      = With(conv, s, conv.category, m, conv.airport, conv.total, conv.pax, conv.flight)
  BY DEF Move, With, Conversation
<1> QED
  BY <1>1, <1>2, <1>3, <1>4, <1>5, <1>6, SpokenWith DEF Waiting, s, m

\* ... domestic or international,
LEMMA SpokenTravelType == conv \in Conversation /\ ChoiceOK(conv) /\ ChooseTravelType => Spoken
<1> SUFFICES ASSUME conv \in Conversation, ChoiceOK(conv), ChooseTravelType PROVE Spoken
  OBVIOUS
<1> DEFINE j == IF conv.state = "AIRPORT_TRANSIT_TYPE" THEN "transit" ELSE conv.meta.journey
<1>1. PICK t \in {"dom", "intl"} :
          Speak(Move([conv EXCEPT !.meta = [NoDetails EXCEPT !.type = t, !.journey = j]],
                     "AIRPORT_SELECTION"))
  BY DEF ChooseTravelType
<1>2. conv.state \in {"AIRPORT_TRAVEL_TYPE", "AIRPORT_TRANSIT_TYPE"}
  BY DEF ChooseTravelType
<1> DEFINE s == "AIRPORT_SELECTION"
           m == [NoDetails EXCEPT !.type = t, !.journey = j]
<1>3. m \in Details /\ m.check = "none" /\ m.type = t
  <2>1. j \in {"none", "direct", "transit"}
    BY DEF Conversation, Details
  <2> HIDE DEF j
  <2> QED
    BY <2>1, NoDetailsOK DEF Details, NoDetails
<1> HIDE DEF m, j
<1>4. Typed(s, conv.category, m, conv.airport, conv.total, conv.pax, conv.flight)
  BY <1>3, ConversationOK DEF Typed, Category, States
<1>5. Chosen(s, conv.category, m, conv.airport, conv.total, conv.pax, conv.flight)
  BY <1>3 DEF ChoiceOK, Chosen, FlightStates, OtherStates, PackageKnown, TypeKnown
<1>6. Move([conv EXCEPT !.meta = m], s)
      = With(conv, s, conv.category, m, conv.airport, conv.total, conv.pax, conv.flight)
  BY DEF Move, With, Conversation
<1> QED
  BY <1>1, <1>2, <1>3, <1>4, <1>5, <1>6, SpokenWith DEF Waiting, m

\* ... the airport,
LEMMA SpokenAirport == conv \in Conversation /\ ChoiceOK(conv) /\ ChooseAirport => Spoken
<1> SUFFICES ASSUME conv \in Conversation, ChoiceOK(conv), ChooseAirport PROVE Spoken
  OBVIOUS
<1> DEFINE m == Derived(conv.meta)
<1>1. PICK a \in Airport :
          Speak(Move([conv EXCEPT !.airport = a, !.meta = m],
                     IF TwoTerminals(a, m.type) THEN "TERMINAL_SELECTION" ELSE "SERVICE_SELECTION"))
  BY DEF ChooseAirport
<1>2. conv.state = "AIRPORT_SELECTION"
  BY DEF ChooseAirport
<1> DEFINE s == IF TwoTerminals(a, m.type) THEN "TERMINAL_SELECTION" ELSE "SERVICE_SELECTION"
<1>3. /\ m \in Details /\ m.check = conv.meta.check /\ m.route = conv.meta.route
      /\ conv.meta.type # "none" => m.type # "none"
      /\ s \in {"TERMINAL_SELECTION", "SERVICE_SELECTION"}
  BY DerivedKeeps, ConversationOK
<1> HIDE DEF m, s
<1>4. Typed(s, conv.category, m, a, conv.total, conv.pax, conv.flight)
  BY <1>3, ConversationOK DEF Typed, Category, States
<1>5. Chosen(s, conv.category, m, a, conv.total, conv.pax, conv.flight)
  BY <1>2, <1>3 DEF ChoiceOK, Chosen, FlightStates, OtherStates, PackageKnown, TypeKnown
<1>6. Move([conv EXCEPT !.airport = a, !.meta = m], s)
      = With(conv, s, conv.category, m, a, conv.total, conv.pax, conv.flight)
  BY DEF Move, With, Conversation
<1> QED
  BY <1>1, <1>2, <1>3, <1>4, <1>5, <1>6, SpokenWith DEF Waiting, s

\* ... the terminal,
LEMMA SpokenTerminal == conv \in Conversation /\ ChoiceOK(conv) /\ ChooseTerminal => Spoken
<1> SUFFICES ASSUME conv \in Conversation, ChoiceOK(conv), ChooseTerminal PROVE Spoken
  OBVIOUS
<1> DEFINE m == Derived(conv.meta)
           s == "SERVICE_SELECTION"
<1>1. Speak(Move([conv EXCEPT !.meta = m], s)) /\ conv.state = "TERMINAL_SELECTION"
  BY DEF ChooseTerminal
<1>3. /\ m \in Details /\ m.check = conv.meta.check /\ m.route = conv.meta.route
      /\ conv.meta.type # "none" => m.type # "none"
  BY DerivedKeeps, ConversationOK
<1> HIDE DEF m
<1>4. Typed(s, conv.category, m, conv.airport, conv.total, conv.pax, conv.flight)
  BY <1>3, ConversationOK DEF Typed, Category, States
<1>5. Chosen(s, conv.category, m, conv.airport, conv.total, conv.pax, conv.flight)
  BY <1>1, <1>3 DEF ChoiceOK, Chosen, FlightStates, OtherStates, PackageKnown, TypeKnown
<1>6. Move([conv EXCEPT !.meta = m], s)
      = With(conv, s, conv.category, m, conv.airport, conv.total, conv.pax, conv.flight)
  BY DEF Move, With, Conversation
<1> QED
  BY <1>1, <1>4, <1>5, <1>6, SpokenWith DEF Waiting

\* ... the travel type chosen again at the menu of packages,
LEMMA SpokenRetype == conv \in Conversation /\ ChoiceOK(conv) /\ RetypeAtMenu => Spoken
<1> SUFFICES ASSUME conv \in Conversation, ChoiceOK(conv), RetypeAtMenu PROVE Spoken
  OBVIOUS
<1>1. PICK t \in {conv.meta.type, "dom", "intl"} :
          Speak([conv EXCEPT !.meta = Derived([conv.meta EXCEPT !.type = t])])
  BY DEF RetypeAtMenu
<1>2. conv.state = "SERVICE_SELECTION" /\ conv.category = "airport"
  BY DEF RetypeAtMenu
<1> DEFINE o == [conv.meta EXCEPT !.type = t]
           m == Derived(o)
<1>7. o \in Details /\ o.check = conv.meta.check /\ o.route = conv.meta.route /\ o.type = t
  BY ConversationOK DEF Details
<1>8. conv.meta.type # "none"
  BY <1>2 DEF ChoiceOK, Chosen, TypeKnown
<1> HIDE DEF o
<1>3. /\ m \in Details /\ m.check = conv.meta.check /\ m.route = conv.meta.route
      /\ m.type # "none"
  BY <1>7, <1>8, DerivedKeeps
<1> HIDE DEF m
<1>4. Typed(conv.state, conv.category, m, conv.airport, conv.total, conv.pax, conv.flight)
  BY <1>3, ConversationOK DEF Typed, Category, States
<1>5. Chosen(conv.state, conv.category, m, conv.airport, conv.total, conv.pax, conv.flight)
  BY <1>2, <1>3 DEF ChoiceOK, Chosen, FlightStates, OtherStates, PackageKnown, TypeKnown
<1>6. [conv EXCEPT !.meta = m]
      = With(conv, conv.state, conv.category, m, conv.airport, conv.total, conv.pax, conv.flight)
  BY DEF With, Conversation
<1> QED
  BY <1>1, <1>2, <1>4, <1>5, <1>6, SpokenWith DEF Waiting, m, o

\* ... that menu left,
LEMMA SpokenLeave == conv \in Conversation /\ ChoiceOK(conv) /\ LeaveMenu => Spoken
<1> SUFFICES ASSUME conv \in Conversation, ChoiceOK(conv), LeaveMenu PROVE Spoken
  OBVIOUS
<1>1. PICK s \in {"AIRPORT_SELECTION", "AIRPORT_TRANSIT_TYPE", "AIRPORT_TRAVEL_TYPE"} :
         Speak(Move(conv, s)) /\ conv.state = "SERVICE_SELECTION"
  BY DEF LeaveMenu
<1> QED
  BY <1>1, SpokenMove DEF States, FlightStates, OtherStates, PackageKnown, TypeKnown, Waiting

\* ... a service without an airport,
LEMMA SpokenService == conv \in Conversation /\ ChoiceOK(conv) /\ PickService => Spoken
<1> SUFFICES ASSUME conv \in Conversation, ChoiceOK(conv), PickService PROVE Spoken
  OBVIOUS
<1> DEFINE s == IF conv.category = "charter" THEN "CHARTER_ORIGIN" ELSE "DATE_SELECTION"
<1>1. PICK u \in {OnRequest, Listed} :
          Speak([conv EXCEPT !.meta.unit = u, !.total = Times(u, conv.pax), !.state = s])
  BY DEF PickService
<1>2. conv.state = "SERVICE_SELECTION" /\ conv.category \in {"charter", "hotel"}
  BY DEF PickService
<1> DEFINE m == [conv.meta EXCEPT !.unit = u]
           t == Times(u, conv.pax)
<1>3. /\ m \in Details /\ m.check = conv.meta.check /\ m.route = conv.meta.route
      /\ s \in {"CHARTER_ORIGIN", "DATE_SELECTION"}
  BY Prices, ConversationOK DEF Details
<1>7. t \in Total
  BY Prices, Amounts, ConversationOK
<1> HIDE DEF m, s, t
<1>4. Typed(s, conv.category, m, conv.airport, t, conv.pax, conv.flight)
  BY <1>3, <1>7, ConversationOK DEF Typed, Category, States
<1>5. Chosen(s, conv.category, m, conv.airport, t, conv.pax, conv.flight)
  BY <1>2, <1>3 DEF ChoiceOK, Chosen, FlightStates, OtherStates, PackageKnown, TypeKnown
<1>6. [conv EXCEPT !.meta.unit = u, !.total = t, !.state = s]
      = With(conv, s, conv.category, m, conv.airport, t, conv.pax, conv.flight)
  BY DEF With, Conversation, m
<1> QED
  BY <1>1, <1>2, <1>3, <1>4, <1>5, <1>6, SpokenWith DEF Waiting, t

-----------------------------------------------------------------------------
(* Flights.                                                                *)

\* To forget the flight is to keep the type, the price and the route.
LEMMA ForgetKeeps ==
    ASSUME NEW m \in Details
    PROVE  /\ Forget(m) \in Details
           /\ Forget(m).type = m.type /\ Forget(m).unit = m.unit /\ Forget(m).check = m.check
           /\ Forget(m).route = m.route /\ Forget(m).journey = m.journey
           /\ Forget(m).pending = NoFlight /\ Forget(m).mismatch = NoFlight
BY DEF Forget, Details

\* An accepted flight: the travel type follows it, and the price the type.
LEMMA CommitChosen ==
    ASSUME NEW c \in Conversation, c.category = "airport", NEW f \in Flight,
           NEW check \in {"verified", "override"},
           c.meta.type # "none", c.meta.unit \notin {NoPrice, OnRequest}
    PROVE  \E m \in Details, t \in Total :
              /\ Commit(c, f, check)
                 = With(c, "DATE_SELECTION", c.category, m, c.airport, t, c.pax, f)
              /\ Chosen("DATE_SELECTION", c.category, m, c.airport, t, c.pax, f)
<1> DEFINE o == [Forget(c.meta) EXCEPT !.route = f, !.check = check]
           d == Derived(o)
           u == IF Sold(c.airport, d.type) THEN Priced(c.airport, d.type) ELSE d.unit
           m == [d EXCEPT !.unit = u]
           t == IF u = NoPrice THEN c.total ELSE Times(u, c.pax)
<1>1. c.meta \in Details /\ c.airport \in Airport \cup {NoAirport} /\ c.pax \in 1 .. 2 /\ c.total \in Total
  BY ConversationOK
<1>2. o \in Details /\ o.route = f /\ o.type = c.meta.type /\ o.unit = c.meta.unit
  <2> DEFINE g == Forget(c.meta)
  <2>1. g \in Details /\ g.type = c.meta.type /\ g.unit = c.meta.unit
    BY <1>1, ForgetKeeps
  <2> HIDE DEF g
  <2>2. o = [g EXCEPT !.route = f, !.check = check]
    BY DEF g
  <2> HIDE DEF o
  <2> QED
    BY <2>1, <2>2 DEF Details
<1> HIDE DEF o
<1>3. d \in Details /\ d.route = f /\ d.type # "none" /\ d.unit = c.meta.unit
  BY <1>2, DerivedKeeps
<1> HIDE DEF d
<1>4. d.type \in {"dom", "intl"}
  BY <1>3 DEF Details
<1>5. Sold(c.airport, d.type) => c.airport \in Airport
  BY <1>1 DEF Sold
<1>6. u \in UnitPrice /\ u \notin {NoPrice, OnRequest}
  BY <1>1, <1>3, <1>4, <1>5, Prices, ConversationOK
<1>7. Sold(c.airport, d.type) => u = Priced(c.airport, d.type)
  OBVIOUS
<1> HIDE DEF u
<1>8. m \in Details /\ m.type = d.type /\ m.route = f /\ m.unit = u
  BY <1>3, <1>6 DEF Details
<1>9. t \in Total
  BY <1>1, <1>6, Amounts
<1>10. Commit(c, f, check) = With(c, "DATE_SELECTION", c.category, m, c.airport, t, c.pax, f)
  <2>1. Commit(c, f, check) = [c EXCEPT !.state = "DATE_SELECTION", !.flight = f, !.meta = m, !.total = t]
    BY DEF Commit, o, d, u
  <2> HIDE DEF m, t
  <2> QED
    BY <2>1 DEF With, Conversation
<1> HIDE DEF m, t
<1>11. Chosen("DATE_SELECTION", c.category, m, c.airport, t, c.pax, f)
  BY <1>3, <1>6, <1>7, <1>8 DEF Chosen, PackagePriced, FlightStates, OtherStates, TypeKnown
<1> QED
  BY <1>8, <1>9, <1>10, <1>11

\* A flight accepted in a conversation with a package is spoken.
LEMMA SpokenCommit ==
    ASSUME conv \in Conversation, conv.state \notin Waiting,
           NEW m \in Details, NEW t \in Total, NEW c, NEW f \in Flight,
           NEW check \in {"verified", "override"},
           c = With(conv, conv.state, conv.category, m, conv.airport, t, conv.pax, conv.flight),
           conv.category = "airport", m.type # "none", m.unit \notin {NoPrice, OnRequest},
           Speak(Commit(c, f, check))
    PROVE  Spoken
<1>1. Typed(conv.state, conv.category, m, conv.airport, t, conv.pax, conv.flight)
  BY ConversationOK DEF Typed, Category
<1>2. /\ c \in Conversation /\ c.category = conv.category /\ c.meta = m /\ c.airport = conv.airport
      /\ c.pax = conv.pax
  BY <1>1, WithOK
<1>3. PICK x \in Details, y \in Total :
         /\ Commit(c, f, check) = With(c, "DATE_SELECTION", c.category, x, c.airport, y, c.pax, f)
         /\ Chosen("DATE_SELECTION", c.category, x, c.airport, y, c.pax, f)
  BY <1>2, CommitChosen
<1>4. With(c, "DATE_SELECTION", c.category, x, c.airport, y, c.pax, f)
      = With(conv, "DATE_SELECTION", conv.category, x, conv.airport, y, conv.pax, f)
  BY <1>2 DEF With, Conversation
<1>5. Typed("DATE_SELECTION", conv.category, x, conv.airport, y, conv.pax, f)
  BY <1>1 DEF Typed, States
<1> QED
  BY <1>2, <1>3, <1>4, <1>5, SpokenWith

\* What holds of a conversation about an airport service whose package is known.
LEMMA PackageChosen ==
    ASSUME conv \in Conversation, ChoiceOK(conv), conv.state \in FlightStates
    PROVE  /\ conv.category = "airport" /\ conv.meta.type # "none"
           /\ conv.meta.unit \notin {NoPrice, OnRequest} /\ PackagePriced(conv.meta, conv.airport)
           /\ conv.state \notin Waiting /\ conv.state \in PackageKnown
BY DEF ChoiceOK, Chosen, PackagePriced, PackageKnown, TypeKnown, FlightStates, Waiting

\* A conversation is its own choices.
LEMMA SameConversation ==
    ASSUME conv \in Conversation
    PROVE  conv = With(conv, conv.state, conv.category, conv.meta, conv.airport, conv.total,
                       conv.pax, conv.flight)
BY DEF With, Conversation

\* ... the package, whose price is that of the airport and the type,
LEMMA SpokenPackage == conv \in Conversation /\ ChoiceOK(conv) /\ PickPackage => Spoken
<1> SUFFICES ASSUME conv \in Conversation, ChoiceOK(conv), PickPackage PROVE Spoken
  OBVIOUS
<1> DEFINE d == Derived(conv.meta)
           u == Priced(conv.airport, d.type)
           m == [d EXCEPT !.unit = u]
           t == Times(u, conv.pax)
           c == [conv EXCEPT !.meta = m, !.total = t]
<1>1. /\ conv.state = "SERVICE_SELECTION" /\ conv.category = "airport"
      /\ Sold(conv.airport, d.type)
      /\ \/ /\ m.pending # NoFlight /\ Speak(Commit(c, m.pending, "verified"))
         \/ Speak(Move(c, "FLIGHT_INPUT"))
  <2>1. d \in Details
    BY DerivedKeeps, ConversationOK
  <2>2. m.pending = d.pending
    <3> HIDE DEF d, u
    <3> QED
      BY <2>1 DEF Details
  <2>3. /\ conv.state = "SERVICE_SELECTION" /\ conv.category = "airport"
        /\ Sold(conv.airport, d.type)
        /\ IF d.journey = "direct" /\ d.pending # NoFlight /\ RouteType(d.pending) = d.type
           THEN Speak(Commit(c, d.pending, "verified"))
           ELSE Speak(Move(c, "FLIGHT_INPUT"))
    BY DEF PickPackage
  <2> HIDE DEF d, m, c
  <2> QED
    BY <2>2, <2>3
<1>2. /\ conv.meta \in Details /\ conv.airport \in Airport \cup {NoAirport} /\ conv.pax \in 1 .. 2
      /\ conv.flight \in Flight \cup {NoFlight, Unverified} /\ conv.meta.type # "none"
  BY <1>1, ConversationOK DEF ChoiceOK, Chosen, TypeKnown
<1>3. /\ d \in Details /\ d.type # "none" /\ d.route = conv.meta.route /\ d.check = conv.meta.check
  BY <1>2, DerivedKeeps
<1>4. d.type \in {"dom", "intl"} /\ conv.airport \in Airport
  BY <1>1, <1>2, <1>3 DEF Details, Sold
<1>5. u \in UnitPrice /\ u \notin {NoPrice, OnRequest}
  <2> HIDE DEF d
  <2> QED
    BY <1>4, Prices
<1>6. /\ m \in Details /\ m.type = d.type /\ m.route = conv.meta.route /\ m.check = conv.meta.check
      /\ m.unit = u /\ m.pending \in Route
  <2> HIDE DEF d, u
  <2> QED
    BY <1>3, <1>5 DEF Details, Route
<1>7. t \in Total
  <2> HIDE DEF u
  <2> QED
    BY <1>2, <1>5, Amounts
<1>8. PackagePriced(m, conv.airport)
  BY <1>5, <1>6 DEF PackagePriced
<1> HIDE DEF m, t, u, d
<1>9. c = With(conv, conv.state, conv.category, m, conv.airport, t, conv.pax, conv.flight)
  BY DEF With, Conversation
<1>10. Move(c, "FLIGHT_INPUT")
       = With(conv, "FLIGHT_INPUT", conv.category, m, conv.airport, t, conv.pax, conv.flight)
  BY DEF Move, With, Conversation
<1> HIDE DEF c
<1>11. CASE m.pending # NoFlight /\ Speak(Commit(c, m.pending, "verified"))
  <2>1. m.pending \in Flight
    BY <1>6, <1>11 DEF Route
  <2> QED
    BY <1>1, <1>3, <1>5, <1>6, <1>7, <1>9, <1>11, <2>1, SpokenCommit DEF Waiting
<1>12. CASE Speak(Move(c, "FLIGHT_INPUT"))
  <2>1. Typed("FLIGHT_INPUT", conv.category, m, conv.airport, t, conv.pax, conv.flight)
    BY <1>1, <1>2, <1>6, <1>7 DEF Typed, Category, States
  <2>2. Chosen("FLIGHT_INPUT", conv.category, m, conv.airport, t, conv.pax, conv.flight)
    BY <1>1, <1>3, <1>6, <1>8 DEF ChoiceOK, Chosen, FlightStates, OtherStates
  <2> QED
    BY <1>1, <1>10, <1>12, <2>1, <2>2, SpokenWith DEF Waiting
<1> QED
  BY <1>1, <1>11, <1>12

\* ... the flight that was found,
LEMMA SpokenConfirmFlight == conv \in Conversation /\ ChoiceOK(conv) /\ ConfirmFlight => Spoken
<1> SUFFICES ASSUME conv \in Conversation, ChoiceOK(conv), ConfirmFlight PROVE Spoken
  OBVIOUS
<1>1. /\ conv.state = "FLIGHT_CONFIRMATION"
      /\ \/ conv.meta.pending # NoFlight /\ Speak(Commit(conv, conv.meta.pending, "verified"))
         \/ Speak([conv EXCEPT !.state = "FLIGHT_INPUT", !.flight = NoFlight])
  BY DEF ConfirmFlight
<1>2. conv.state \in FlightStates
  BY <1>1 DEF FlightStates
<1>3. CASE conv.meta.pending # NoFlight /\ Speak(Commit(conv, conv.meta.pending, "verified"))
  <2>1. conv.meta.pending \in Flight /\ conv.meta \in Details /\ conv.total \in Total
    BY <1>3, ConversationOK
  <2> QED
    BY <1>2, <1>3, <2>1, PackageChosen, SameConversation, SpokenCommit
<1>4. CASE Speak([conv EXCEPT !.state = "FLIGHT_INPUT", !.flight = NoFlight])
  <2>1. Typed("FLIGHT_INPUT", conv.category, conv.meta, conv.airport, conv.total, conv.pax, NoFlight)
    BY ConversationOK DEF Typed, Category, States
  <2>2. Chosen("FLIGHT_INPUT", conv.category, conv.meta, conv.airport, conv.total, conv.pax, NoFlight)
    BY <1>2, PackageChosen DEF ChoiceOK, Chosen, FlightStates, OtherStates
  <2>3. [conv EXCEPT !.state = "FLIGHT_INPUT", !.flight = NoFlight]
        = With(conv, "FLIGHT_INPUT", conv.category, conv.meta, conv.airport, conv.total, conv.pax, NoFlight)
    BY DEF With, Conversation
  <2> QED
    BY <1>2, <1>4, <2>1, <2>2, <2>3, PackageChosen, SpokenWith
<1> QED
  BY <1>1, <1>3, <1>4

\* ... a flight of the other type, kept all the same,
LEMMA SpokenOverride == conv \in Conversation /\ ChoiceOK(conv) /\ OverrideMismatch => Spoken
<1> SUFFICES ASSUME conv \in Conversation, ChoiceOK(conv), OverrideMismatch PROVE Spoken
  OBVIOUS
<1>1. /\ conv.state \in FlightStates /\ conv.meta.mismatch \in Flight
      /\ Speak(Commit(conv, conv.meta.mismatch, "override"))
  BY ConversationOK DEF OverrideMismatch, FlightStates
<1>2. conv.meta \in Details /\ conv.total \in Total
  BY ConversationOK
<1> QED
  BY <1>1, <1>2, PackageChosen, SameConversation, SpokenCommit

\* Another flight is asked for, or the service is booked without it.
LEMMA SpokenFlight ==
    ASSUME conv \in Conversation, ChoiceOK(conv), conv.state \in FlightStates,
           NEW s \in FlightStates \cup {"DATE_SELECTION"}, NEW m \in Details,
           NEW f \in Flight \cup {NoFlight, Unverified},
           m.type = conv.meta.type, m.unit = conv.meta.unit,
           \/ f = NoFlight
           \/ m.check = "none"
           \/ f = conv.flight /\ m.route = conv.meta.route /\ m.check = conv.meta.check,
           Speak([conv EXCEPT !.state = s, !.meta = m, !.flight = f])
    PROVE  Spoken
<1>1. Typed(s, conv.category, m, conv.airport, conv.total, conv.pax, f)
  BY ConversationOK DEF Typed, Category, States, FlightStates
<1>2. Chosen(s, conv.category, m, conv.airport, conv.total, conv.pax, f)
  <2>1. s # "BOOKING_REVIEW" /\ s \notin OtherStates
    BY DEF FlightStates, OtherStates
  <2>2. PackagePriced(m, conv.airport)
    BY PackageChosen DEF PackagePriced
  <2>3. m.check \in {"verified", "override"} => f \in {NoFlight, m.route} \/ m.route = NoFlight
    BY DEF ChoiceOK, Chosen
  <2> QED
    BY <2>1, <2>2, <2>3, PackageChosen DEF Chosen
<1>3. [conv EXCEPT !.state = s, !.meta = m, !.flight = f]
      = With(conv, s, conv.category, m, conv.airport, conv.total, conv.pax, f)
  BY DEF With, Conversation
<1> QED
  BY <1>1, <1>2, <1>3, PackageChosen, SpokenWith DEF FlightStates

\* ... another airport,
LEMMA SpokenChangeAirport == conv \in Conversation /\ ChoiceOK(conv) /\ ChangeAirport => Spoken
<1> SUFFICES ASSUME conv \in Conversation, ChoiceOK(conv), ChangeAirport PROVE Spoken
  OBVIOUS
<1> DEFINE m == Forget(conv.meta)
           s == "AIRPORT_SELECTION"
<1>1. /\ conv.state \in FlightStates
      /\ Speak([conv EXCEPT !.state = s, !.meta = m, !.airport = NoAirport, !.flight = NoFlight])
  BY DEF ChangeAirport, FlightStates
<1>2. m \in Details /\ m.type = conv.meta.type
  BY ForgetKeeps, ConversationOK
<1> HIDE DEF m
<1>3. Typed(s, conv.category, m, NoAirport, conv.total, conv.pax, NoFlight)
  BY <1>2, ConversationOK DEF Typed, Category, States
<1>4. Chosen(s, conv.category, m, NoAirport, conv.total, conv.pax, NoFlight)
  BY <1>1, <1>2, PackageChosen DEF Chosen, FlightStates, OtherStates, PackageKnown
<1>5. [conv EXCEPT !.state = s, !.meta = m, !.airport = NoAirport, !.flight = NoFlight]
      = With(conv, s, conv.category, m, NoAirport, conv.total, conv.pax, NoFlight)
  BY DEF With, Conversation
<1> QED
  BY <1>1, <1>3, <1>4, <1>5, PackageChosen, SpokenWith

\* ... another flight number,
LEMMA SpokenReenter == conv \in Conversation /\ ChoiceOK(conv) /\ ReenterFlight => Spoken
<1> SUFFICES ASSUME conv \in Conversation, ChoiceOK(conv), ReenterFlight PROVE Spoken
  OBVIOUS
<1> DEFINE g == Forget(conv.meta)
           m == [g EXCEPT !.check = "none"]
<1>1. g \in Details /\ g.type = conv.meta.type /\ g.unit = conv.meta.unit
      /\ g.route = conv.meta.route /\ g.check = conv.meta.check
  BY ForgetKeeps, ConversationOK
<1>2. m \in Details /\ m.type = conv.meta.type /\ m.unit = conv.meta.unit
  <2> HIDE DEF g
  <2> QED
    BY <1>1 DEF Details
<1>3. CASE conv.state = "FLIGHT_INPUT" /\ Speak([conv EXCEPT !.meta = g])
  <2>1. conv.state \in FlightStates /\ conv.flight \in Flight \cup {NoFlight, Unverified}
    BY <1>3, ConversationOK DEF FlightStates
  <2> HIDE DEF g
  <2>2. [conv EXCEPT !.meta = g] = [conv EXCEPT !.state = conv.state, !.meta = g, !.flight = conv.flight]
    BY DEF Conversation
  <2>3. Speak([conv EXCEPT !.state = conv.state, !.meta = g, !.flight = conv.flight])
    BY <1>3, <2>2
  <2> QED
    BY <1>1, <2>1, <2>3, SpokenFlight
<1>4. CASE /\ conv.state \in {"FLIGHT_CONFIRMATION", "FLIGHT_TYPE_MISMATCH"}
           /\ Speak([conv EXCEPT !.state = "FLIGHT_INPUT", !.flight = NoFlight, !.meta = m])
  <2>1. conv.state \in FlightStates /\ "FLIGHT_INPUT" \in FlightStates
    BY <1>4 DEF FlightStates
  <2> HIDE DEF m
  <2>2. [conv EXCEPT !.state = "FLIGHT_INPUT", !.flight = NoFlight, !.meta = m]
        = [conv EXCEPT !.state = "FLIGHT_INPUT", !.meta = m, !.flight = NoFlight]
    BY DEF Conversation
  <2> QED
    BY <1>2, <1>4, <2>1, <2>2, SpokenFlight
<1> QED
  BY <1>3, <1>4 DEF ReenterFlight

\* ... the flight left for later,
LEMMA SpokenLater == conv \in Conversation /\ ChoiceOK(conv) /\ FlightLater => Spoken
<1> SUFFICES ASSUME conv \in Conversation, ChoiceOK(conv), FlightLater PROVE Spoken
  OBVIOUS
<1> DEFINE g == Forget(conv.meta)
           m == [g EXCEPT !.check = "none", !.later = TRUE]
           o == [conv.meta EXCEPT !.check = "none", !.later = TRUE, !.manual = FALSE]
<1>1. g \in Details /\ g.type = conv.meta.type /\ g.unit = conv.meta.unit
  BY ForgetKeeps, ConversationOK
<1>2. m \in Details /\ m.type = conv.meta.type /\ m.unit = conv.meta.unit /\ m.check = "none"
  <2> HIDE DEF g
  <2> QED
    BY <1>1 DEF Details
<1>3. o \in Details /\ o.type = conv.meta.type /\ o.unit = conv.meta.unit /\ o.check = "none"
  BY ConversationOK DEF Details
<1>4. conv.state \in FlightStates
  BY DEF FlightLater, FlightStates
<1>5. \/ Speak([conv EXCEPT !.state = "DATE_SELECTION", !.flight = NoFlight, !.meta = m])
      \/ Speak([conv EXCEPT !.state = "DATE_SELECTION", !.flight = Unverified, !.meta = o])
  BY DEF FlightLater
<1> HIDE DEF m, o
<1>6. /\ [conv EXCEPT !.state = "DATE_SELECTION", !.flight = NoFlight, !.meta = m]
         = [conv EXCEPT !.state = "DATE_SELECTION", !.meta = m, !.flight = NoFlight]
      /\ [conv EXCEPT !.state = "DATE_SELECTION", !.flight = Unverified, !.meta = o]
         = [conv EXCEPT !.state = "DATE_SELECTION", !.meta = o, !.flight = Unverified]
  BY DEF Conversation
<1> QED
  BY <1>2, <1>3, <1>4, <1>5, <1>6, SpokenFlight

\* ... a flight number, with whatever the lookup answers,
LEMMA SpokenEnter == conv \in Conversation /\ ChoiceOK(conv) /\ EnterFlight => Spoken
<1> SUFFICES ASSUME conv \in Conversation, ChoiceOK(conv), EnterFlight PROVE Spoken
  OBVIOUS
<1>1. conv.state \in FlightStates
  BY DEF EnterFlight, FlightStates
<1>2. PICK f \in Flight : \E c \in LookUp(conv, f) : Speak(c)
  BY DEF EnterFlight
<1>9. PICK c \in LookUp(conv, f) : Speak(c)
  BY <1>2
<1> DEFINE g == Forget(conv.meta)
           clean == [g EXCEPT !.check = "none"]
           Same(m) == m \in Details /\ m.type = conv.meta.type /\ m.unit = conv.meta.unit
<1>3. Same(g)
  BY ForgetKeeps, ConversationOK
<1> HIDE DEF g
<1>4. Same(clean)
  BY <1>3 DEF Details
<1> DEFINE m1 == [clean EXCEPT !.manual = TRUE]
           m2 == [clean EXCEPT !.mismatch = f]
           m3 == [clean EXCEPT !.check = "pending", !.route = NoFlight, !.pending = f]
           to(m, s) == [conv EXCEPT !.flight = NoFlight, !.meta = m, !.state = s]
<1>5. c \in {to(m1, "FLIGHT_INPUT"), to(clean, "FLIGHT_INPUT"), to(m2, "FLIGHT_INPUT"),
             to(conv.meta, "FLIGHT_INPUT"), to(m2, "FLIGHT_TYPE_MISMATCH"), to(m3, "FLIGHT_CONFIRMATION")}
  BY <1>9 DEF LookUp, g
<1> HIDE DEF clean
<1>10. Same(m1) /\ Same(m2) /\ Same(m3) /\ Same(clean) /\ Same(conv.meta)
  BY <1>4, ConversationOK DEF Details
<1> HIDE DEF m1, m2, m3, Same
<1>6. PICK m \in {m1, m2, m3, clean, conv.meta}, s \in FlightStates : Same(m) /\ c = to(m, s)
  BY <1>5, <1>10 DEF FlightStates
<1>7. m \in Details /\ m.type = conv.meta.type /\ m.unit = conv.meta.unit
  BY <1>6 DEF Same
<1>8. [conv EXCEPT !.flight = NoFlight, !.meta = m, !.state = s]
      = [conv EXCEPT !.state = s, !.meta = m, !.flight = NoFlight]
  BY DEF Conversation
<1> QED
  BY <1>1, <1>9, <1>6, <1>7, <1>8, SpokenFlight

\* ... another package,
LEMMA SpokenChangePackage == conv \in Conversation /\ ChoiceOK(conv) /\ ChangePackage => Spoken
<1> SUFFICES ASSUME conv \in Conversation, ChoiceOK(conv), ChangePackage PROVE Spoken
  OBVIOUS
<1> DEFINE m == Derived(conv.meta)
           s == "SERVICE_SELECTION"
<1>1. Speak(Move([conv EXCEPT !.meta = m], s)) /\ conv.state \in FlightStates
  BY DEF ChangePackage, FlightStates
<1>2. m \in Details /\ m.check = conv.meta.check /\ m.route = conv.meta.route /\ m.type # "none"
  BY <1>1, DerivedKeeps, ConversationOK, PackageChosen
<1> HIDE DEF m
<1>3. Typed(s, conv.category, m, conv.airport, conv.total, conv.pax, conv.flight)
  BY <1>2, ConversationOK DEF Typed, Category, States
<1>4. Chosen(s, conv.category, m, conv.airport, conv.total, conv.pax, conv.flight)
  BY <1>2 DEF ChoiceOK, Chosen, FlightStates, OtherStates, PackageKnown
<1>5. Move([conv EXCEPT !.meta = m], s)
      = With(conv, s, conv.category, m, conv.airport, conv.total, conv.pax, conv.flight)
  BY DEF Move, With, Conversation
<1> QED
  BY <1>1, <1>3, <1>4, <1>5, PackageChosen, SpokenWith

\* ... the type of the flight taken over, and the package priced again,
LEMMA SpokenSwitch == conv \in Conversation /\ ChoiceOK(conv) /\ SwitchType => Spoken
<1> SUFFICES ASSUME conv \in Conversation, ChoiceOK(conv), SwitchType PROVE Spoken
  OBVIOUS
<1> DEFINE f == conv.meta.mismatch
           o == [conv.meta EXCEPT !.type = RouteType(f), !.pending = f, !.mismatch = NoFlight,
                                  !.check = "pending", !.unit = NoPrice]
           c == [conv EXCEPT !.meta = o, !.total = NoTotal]
           d == Derived(o)
<1>1. /\ conv.state \in FlightStates
      /\ \/ Speak([conv EXCEPT !.state = "FLIGHT_INPUT", !.flight = NoFlight])
         \/ Speak([c EXCEPT !.state = "SERVICE_SELECTION", !.meta = Derived(@)])
         \/ Speak(Move(c, "TERMINAL_SELECTION"))
  BY DEF SwitchType, FlightStates
<1>2. /\ o \in Details /\ o.type \in {"dom", "intl"} /\ o.check = "pending"
  <2>1. RouteType(f) \in {"dom", "intl"}
    BY DEF RouteType
  <2>2. f \in Flight \cup {NoFlight} /\ conv.meta \in Details
    BY ConversationOK
  <2> HIDE DEF f
  <2> QED
    BY <2>1, <2>2, Prices DEF Details
<1> HIDE DEF o
<1>3. d \in Details /\ d.type # "none" /\ d.check = "pending"
  BY <1>2, DerivedKeeps
<1> HIDE DEF d
<1>4. CASE Speak([conv EXCEPT !.state = "FLIGHT_INPUT", !.flight = NoFlight])
  <2>1. [conv EXCEPT !.state = "FLIGHT_INPUT", !.flight = NoFlight]
        = [conv EXCEPT !.state = "FLIGHT_INPUT", !.meta = conv.meta, !.flight = NoFlight]
    BY DEF Conversation
  <2>2. "FLIGHT_INPUT" \in FlightStates /\ conv.meta \in Details
    BY ConversationOK DEF FlightStates
  <2> QED
    BY <1>1, <1>4, <2>1, <2>2, SpokenFlight
<1>5. CASE Speak([c EXCEPT !.state = "SERVICE_SELECTION", !.meta = Derived(@)])
  <2>1. [c EXCEPT !.state = "SERVICE_SELECTION", !.meta = Derived(@)]
        = With(conv, "SERVICE_SELECTION", conv.category, d, conv.airport, NoTotal, conv.pax, conv.flight)
    <3>1. c.meta = o
      BY DEF Conversation
    <3>2. [c EXCEPT !.state = "SERVICE_SELECTION", !.meta = Derived(@)]
          = [c EXCEPT !.state = "SERVICE_SELECTION", !.meta = d]
      BY <3>1 DEF d
    <3> QED
      BY <3>2 DEF With, Conversation
  <2>2. Typed("SERVICE_SELECTION", conv.category, d, conv.airport, NoTotal, conv.pax, conv.flight)
    BY <1>3, Amounts, ConversationOK DEF Typed, Category, States
  <2>3. Chosen("SERVICE_SELECTION", conv.category, d, conv.airport, NoTotal, conv.pax, conv.flight)
    BY <1>3 DEF Chosen, FlightStates, OtherStates, PackageKnown
  <2> QED
    BY <1>1, <1>5, <2>1, <2>2, <2>3, PackageChosen, SpokenWith
<1>6. CASE Speak(Move(c, "TERMINAL_SELECTION"))
  <2>1. Move(c, "TERMINAL_SELECTION")
        = With(conv, "TERMINAL_SELECTION", conv.category, o, conv.airport, NoTotal, conv.pax, conv.flight)
    BY DEF Move, With, Conversation
  <2>2. Typed("TERMINAL_SELECTION", conv.category, o, conv.airport, NoTotal, conv.pax, conv.flight)
    BY <1>2, Amounts, ConversationOK DEF Typed, Category, States
  <2>3. Chosen("TERMINAL_SELECTION", conv.category, o, conv.airport, NoTotal, conv.pax, conv.flight)
    BY <1>2 DEF Chosen, FlightStates, OtherStates, PackageKnown
  <2> QED
    BY <1>1, <1>6, <2>1, <2>2, <2>3, PackageChosen, SpokenWith
<1> QED
  BY <1>1, <1>4, <1>5, <1>6

-----------------------------------------------------------------------------
(* The customer's details.                                                 *)

\* ... an answer that only moves on,
LEMMA SpokenAnswer == conv \in Conversation /\ ChoiceOK(conv) /\ Answer => Spoken
<1> SUFFICES ASSUME conv \in Conversation, ChoiceOK(conv), Answer PROVE Spoken
  OBVIOUS
<1> DEFINE s == Following[conv.state]
<1>1. conv.state \in DOMAIN Following /\ Speak(Move(conv, s))
  BY DEF Answer
<1>2. \/ conv.state \in OtherStates /\ s \in OtherStates
      \/ conv.state \in OtherStates /\ s = "DATE_SELECTION"
      \/ /\ conv.state \in {"CUSTOMER_NAME", "CUSTOMER_EMAIL", "COMPANION_NAMES", "BOOKING_REVIEW"}
         /\ s \in {"CUSTOMER_NAME", "CUSTOMER_EMAIL", "CUSTOMER_PHONE", "ADDITIONAL_REQUIREMENTS"}
  BY <1>1 DEF Following, OtherStates
<1> HIDE DEF s
<1>3. CASE conv.state \in OtherStates /\ s \in OtherStates
  <2>1. conv.category # "airport"
    BY <1>3 DEF ChoiceOK, Chosen
  <2>2. /\ s \in States \ {"COMPLETED", "BOOKING_REVIEW"} /\ conv.state \notin Waiting
        /\ s \notin FlightStates
    BY <1>3 DEF OtherStates, States, FlightStates, Waiting
  <2> QED
    BY <1>1, <2>1, <2>2, SpokenMove
<1>4. CASE conv.state \in OtherStates /\ s = "DATE_SELECTION"
  <2>1. conv.category # "airport"
    BY <1>4 DEF ChoiceOK, Chosen
  <2>2. /\ s \in States \ {"COMPLETED", "BOOKING_REVIEW"} /\ conv.state \notin Waiting
        /\ s \notin FlightStates
    BY <1>4 DEF OtherStates, States, FlightStates, Waiting
  <2> QED
    BY <1>1, <2>1, <2>2, SpokenMove
<1>5. CASE /\ conv.state \in {"CUSTOMER_NAME", "CUSTOMER_EMAIL", "COMPANION_NAMES", "BOOKING_REVIEW"}
           /\ s \in {"CUSTOMER_NAME", "CUSTOMER_EMAIL", "CUSTOMER_PHONE", "ADDITIONAL_REQUIREMENTS"}
  <2>1. /\ s \in States \ {"COMPLETED", "BOOKING_REVIEW"} /\ conv.state \notin Waiting
        /\ s \notin FlightStates /\ s \notin OtherStates
        /\ conv.state \in PackageKnown /\ conv.state \in TypeKnown
    BY <1>5 DEF OtherStates, States, FlightStates, Waiting, PackageKnown, TypeKnown
  <2> QED
    BY <1>1, <2>1, SpokenMove
<1> QED
  BY <1>2, <1>3, <1>4, <1>5

\* ... the date, hotel or transport, and the phone number,
LEMMA SpokenDetails ==
    conv \in Conversation /\ ChoiceOK(conv) /\ (DateSelection \/ HotelOrTransport \/ CustomerPhone)
        => Spoken
<1> SUFFICES ASSUME conv \in Conversation, ChoiceOK(conv),
                    DateSelection \/ HotelOrTransport \/ CustomerPhone
             PROVE  Spoken
  OBVIOUS
<1>1. CASE DateSelection
  BY <1>1, SpokenMove
     DEF DateSelection, OtherStates, States, FlightStates, Waiting, PackageKnown, TypeKnown
<1>2. CASE HotelOrTransport
  <2>1. PICK s \in {"HOTEL_CITY", "TRANSPORT_PICKUP"} :
           Speak(Move(conv, s)) /\ conv.state = "HOTEL_TRANSPORT_SUBMENU"
    BY <1>2 DEF HotelOrTransport
  <2>2. conv.category # "airport"
    BY <2>1 DEF ChoiceOK, Chosen, OtherStates
  <2> QED
    BY <2>1, <2>2, SpokenMove DEF States, FlightStates, Waiting
<1>3. CASE CustomerPhone
  <2>1. PICK s \in {"COMPANION_NAMES", "ADDITIONAL_REQUIREMENTS"} :
           Speak(Move(conv, s)) /\ conv.state = "CUSTOMER_PHONE"
    BY <1>3 DEF CustomerPhone
  <2> QED
    BY <2>1, SpokenMove DEF OtherStates, States, FlightStates, Waiting, PackageKnown, TypeKnown
<1> QED
  BY <1>1, <1>2, <1>3

\* ... the number of passengers, which the total follows,
LEMMA SpokenPassengers == conv \in Conversation /\ ChoiceOK(conv) /\ PassengerCount => Spoken
<1> SUFFICES ASSUME conv \in Conversation, ChoiceOK(conv), PassengerCount PROVE Spoken
  OBVIOUS
<1>1. PICK n \in 1 .. 2 :
          Speak([conv EXCEPT !.state = "CUSTOMER_NAME", !.pax = n,
                    !.total = IF conv.meta.unit = NoPrice THEN @ ELSE Times(conv.meta.unit, n)])
  BY DEF PassengerCount
<1>2. conv.state = "PASSENGER_COUNT"
  BY DEF PassengerCount
<1> DEFINE t == IF conv.meta.unit = NoPrice THEN conv.total ELSE Times(conv.meta.unit, n)
<1>3. t \in Total
  BY Amounts, ConversationOK
<1> HIDE DEF t
<1>4. Typed("CUSTOMER_NAME", conv.category, conv.meta, conv.airport, t, n, conv.flight)
  BY <1>3, ConversationOK DEF Typed, Category, States
<1>5. Chosen("CUSTOMER_NAME", conv.category, conv.meta, conv.airport, t, n, conv.flight)
  BY <1>2 DEF ChoiceOK, Chosen, FlightStates, OtherStates, PackageKnown, TypeKnown
<1>6. [conv EXCEPT !.state = "CUSTOMER_NAME", !.pax = n, !.total = t]
      = With(conv, "CUSTOMER_NAME", conv.category, conv.meta, conv.airport, t, n, conv.flight)
  BY DEF With, Conversation
<1>7. Speak([conv EXCEPT !.state = "CUSTOMER_NAME", !.pax = n, !.total = t])
  BY <1>1 DEF t
<1> QED
  BY <1>2, <1>4, <1>5, <1>6, <1>7, SpokenWith DEF Waiting

\* ... the summary, whose total is computed again,
LEMMA SpokenSummary == conv \in Conversation /\ ChoiceOK(conv) /\ Summary => Spoken
<1> SUFFICES ASSUME conv \in Conversation, ChoiceOK(conv), Summary PROVE Spoken
  OBVIOUS
<1> DEFINE missing == conv.meta.unit = NoPrice \/ ~Positive(conv.total)
           u == IF missing /\ Sold(conv.airport, TypeOf(conv.meta))
                THEN Priced(conv.airport, TypeOf(conv.meta)) ELSE conv.meta.unit
           m == [conv.meta EXCEPT !.unit = u]
           t == IF u = NoPrice THEN conv.total ELSE Times(u, conv.pax)
<1>1. conv.state = "ADDITIONAL_REQUIREMENTS"
  BY DEF Summary
<1>2. Speak([conv EXCEPT !.state = "BOOKING_REVIEW", !.meta.unit = u, !.total = t])
  BY DEF Summary
<1>3. /\ conv.meta \in Details /\ conv.airport \in Airport \cup {NoAirport} /\ conv.pax \in 1 .. 2
      /\ conv.total \in Total /\ conv.meta.unit \in UnitPrice
  BY ConversationOK
<1>4. TypeOf(conv.meta) \in {"dom", "intl"}
      /\ (conv.meta.type # "none" => TypeOf(conv.meta) = conv.meta.type)
  BY <1>3 DEF TypeOf, Details
<1>5. Sold(conv.airport, TypeOf(conv.meta)) => conv.airport \in Airport
  BY <1>3 DEF Sold
<1>6. u \in UnitPrice
  BY <1>3, <1>4, <1>5, Prices
<1>7. conv.category = "airport" => /\ conv.meta.type # "none" /\ PackagePriced(conv.meta, conv.airport)
                                   /\ u \notin {NoPrice, OnRequest}
                                   /\ Sold(conv.airport, conv.meta.type) => u = Priced(conv.airport, conv.meta.type)
  <2> SUFFICES ASSUME conv.category = "airport"
               PROVE  /\ conv.meta.type # "none" /\ PackagePriced(conv.meta, conv.airport)
                      /\ u \notin {NoPrice, OnRequest}
                      /\ Sold(conv.airport, conv.meta.type) => u = Priced(conv.airport, conv.meta.type)
    OBVIOUS
  <2>1. conv.meta.type # "none" /\ PackagePriced(conv.meta, conv.airport)
    BY <1>1 DEF ChoiceOK, Chosen, PackageKnown, TypeKnown
  <2>2. u \notin {NoPrice, OnRequest}
    BY <2>1, <1>4, <1>5, Prices DEF PackagePriced
  <2>3. Sold(conv.airport, conv.meta.type) => u = Priced(conv.airport, conv.meta.type)
    BY <2>1, <1>4 DEF PackagePriced
  <2> QED
    BY <2>1, <2>2, <2>3
<1> HIDE DEF u
<1>8. m \in Details /\ m.unit = u /\ m.type = conv.meta.type /\ m.check = conv.meta.check
      /\ m.route = conv.meta.route
  BY <1>3, <1>6 DEF Details
<1>9. t \in Total /\ (u # NoPrice => t = Times(u, conv.pax))
  BY <1>3, <1>6, Amounts
<1> HIDE DEF m, t
<1>10. Typed("BOOKING_REVIEW", conv.category, m, conv.airport, t, conv.pax, conv.flight)
  BY <1>8, <1>9, ConversationOK DEF Typed, Category, States
<1>11. Chosen("BOOKING_REVIEW", conv.category, m, conv.airport, t, conv.pax, conv.flight)
  <2>1. m.check \in {"verified", "override"} => conv.flight \in {NoFlight, m.route} \/ m.route = NoFlight
    BY <1>8 DEF ChoiceOK, Chosen
  <2>2. conv.category = "airport" => /\ m.type # "none" /\ PackagePriced(m, conv.airport)
                                     /\ t = Times(m.unit, conv.pax)
    BY <1>7, <1>8, <1>9 DEF PackagePriced
  <2> QED
    BY <2>1, <2>2 DEF Chosen, FlightStates, OtherStates
<1>12. [conv EXCEPT !.state = "BOOKING_REVIEW", !.meta.unit = u, !.total = t]
       = With(conv, "BOOKING_REVIEW", conv.category, m, conv.airport, t, conv.pax, conv.flight)
  BY DEF With, Conversation, m
<1> QED
  BY <1>1, <1>2, <1>10, <1>11, <1>12, SpokenWith DEF Waiting

-----------------------------------------------------------------------------
(* Back.                                                                   *)

\* Back to a state before the summary, which needs no amount.
LEMMA SpokenBackward ==
    ASSUME conv \in Conversation, ChoiceOK(conv), conv.state \notin Waiting,
           NEW s \in States \ (OtherStates \cup {"COMPLETED", "BOOKING_REVIEW"}), NEW m \in Details,
           NEW a \in Airport \cup {NoAirport}, NEW t \in Total, NEW n \in 1 .. 2,
           NEW f \in {NoFlight, conv.flight},
           s \in FlightStates => conv.category = "airport",
           conv.category = "airport" => /\ s \in TypeKnown => m.type # "none"
                                        /\ s \in PackageKnown => PackagePriced(m, a),
           f = NoFlight \/ m.check = "none" \/ (m.check = conv.meta.check /\ m.route = conv.meta.route),
           Speak(With(conv, s, conv.category, m, a, t, n, f))
    PROVE  Spoken
<1>1. Typed(s, conv.category, m, a, t, n, f)
  BY ConversationOK DEF Typed, Category
<1>2. Chosen(s, conv.category, m, a, t, n, f)
  BY DEF ChoiceOK, Chosen
<1> QED
  BY <1>1, <1>2, SpokenWith

\* ... and the way back.
LEMMA SpokenBack ==
    ASSUME conv \in Conversation, ChoiceOK(conv), Speak(BackTo(conv)),
           conv.state \notin {"START", "CATEGORY_SELECTION", "WAITING_PAYMENT", "AWAITING_QUOTE"}
    PROVE  Spoken
<1>0. conv.state \notin Waiting /\ conv.state \in States
  BY ConversationOK DEF Waiting
<1>f. /\ conv.meta \in Details /\ conv.airport \in Airport \cup {NoAirport} /\ conv.total \in Total
      /\ conv.pax \in 1 .. 2 /\ 1 \in 1 .. 2 /\ NoTotal \in Total /\ NoAirport \in Airport \cup {NoAirport}
  BY Amounts, ConversationOK
<1> DEFINE m == Derived(conv.meta)
<1>m. /\ m \in Details /\ m.check = conv.meta.check /\ m.route = conv.meta.route
      /\ conv.meta.type # "none" => m.type # "none"
  BY <1>f, DerivedKeeps
<1>1. CASE conv.state \in DOMAIN Preceding
  <2> DEFINE s == Preceding[conv.state]
  <2>1. BackTo(conv) = Move(conv, s)
    <3>1. PICK r : r = conv.state
      OBVIOUS
    <3>2. \/ r = "AIRPORT_TRAVEL_TYPE" \/ r = "AIRPORT_TRANSIT_TYPE" \/ r = "CUSTOMER_NAME"
          \/ r = "CUSTOMER_EMAIL" \/ r = "CUSTOMER_PHONE" \/ r = "COMPANION_NAMES"
          \/ r = "BOOKING_REVIEW" \/ r = "TRAVEL_ENQUIRY"
      BY <1>1, <3>1 DEF Preceding
    <3> QED
      BY <3>1, <3>2 DEF BackTo, Preceding, ToMenu
  <2>2. \/ conv.state \in {"AIRPORT_TRAVEL_TYPE", "AIRPORT_TRANSIT_TYPE"} /\ s = "JOURNEY_TYPE_SELECTION"
        \/ conv.state = "TRAVEL_ENQUIRY" /\ s = "TRAVEL_SERVICE_SELECTION"
        \/ conv.state \in PackageKnown
           /\ s \in {"PASSENGER_COUNT", "CUSTOMER_NAME", "CUSTOMER_EMAIL", "CUSTOMER_PHONE",
                     "ADDITIONAL_REQUIREMENTS"}
    BY <1>1 DEF Preceding, PackageKnown
  <2> HIDE DEF s
  <2>3. CASE conv.state = "TRAVEL_ENQUIRY" /\ s = "TRAVEL_SERVICE_SELECTION"
    <3>1. conv.category # "airport"
      BY <2>3 DEF ChoiceOK, Chosen, OtherStates
    <3> QED
      BY <1>0, <2>1, <2>3, <3>1, SpokenMove DEF States, FlightStates
  <2>4. CASE conv.state \in {"AIRPORT_TRAVEL_TYPE", "AIRPORT_TRANSIT_TYPE"} /\ s = "JOURNEY_TYPE_SELECTION"
    BY <1>0, <2>1, <2>4, SpokenMove DEF States, FlightStates, OtherStates, PackageKnown, TypeKnown
  <2>5. CASE conv.state \in PackageKnown
             /\ s \in {"PASSENGER_COUNT", "CUSTOMER_NAME", "CUSTOMER_EMAIL", "CUSTOMER_PHONE",
                       "ADDITIONAL_REQUIREMENTS"}
    <3>1. /\ s \in States \ {"COMPLETED", "BOOKING_REVIEW"} /\ s \notin FlightStates
          /\ s \notin OtherStates /\ conv.state \in TypeKnown
      BY <2>5 DEF States, FlightStates, OtherStates, TypeKnown
    <3> QED
      BY <1>0, <2>1, <2>5, <3>1, SpokenMove
  <2> QED
    BY <2>2, <2>3, <2>4, <2>5
<1>2. CASE conv.state \in ToMenu
  <2>1. BackTo(conv) = Move(conv, "CATEGORY_SELECTION")
    BY <1>2 DEF BackTo, Preceding, ToMenu
  <2> QED
    BY <1>0, <2>1, SpokenMove DEF States, FlightStates, OtherStates, PackageKnown, TypeKnown
<1>3. CASE conv.state \in {"JOURNEY_TYPE_SELECTION", "AIRPORT_SELECTION"}
  <2>1. PICK s \in {"CATEGORY_SELECTION", "AIRPORT_TRANSIT_TYPE", "AIRPORT_TRAVEL_TYPE"} :
           BackTo(conv) = Move([conv EXCEPT !.total = NoTotal, !.airport = NoAirport], s)
    <3>1. CASE conv.state = "JOURNEY_TYPE_SELECTION"
      BY <3>1 DEF BackTo, Preceding, ToMenu
    <3>2. CASE conv.state = "AIRPORT_SELECTION"
      BY <3>2 DEF BackTo, Preceding, ToMenu, TypeSelection
    <3> QED
      BY <1>3, <3>1, <3>2
  <2>2. BackTo(conv) = With(conv, s, conv.category, conv.meta, NoAirport, NoTotal, conv.pax, conv.flight)
    BY <2>1 DEF Move, With, Conversation
  <2>3. /\ s \in States \ (OtherStates \cup {"COMPLETED", "BOOKING_REVIEW"})
        /\ s \notin FlightStates /\ s \notin TypeKnown /\ s \notin PackageKnown
    BY <2>1 DEF States, OtherStates, FlightStates, TypeKnown, PackageKnown
  <2> QED
    BY <1>0, <1>f, <2>2, <2>3, SpokenBackward
<1>4. CASE conv.state = "TERMINAL_SELECTION"
  <2>1. BackTo(conv) = Move([conv EXCEPT !.total = NoTotal], "AIRPORT_SELECTION")
    BY <1>4 DEF BackTo, Preceding, ToMenu
  <2>2. BackTo(conv) = With(conv, "AIRPORT_SELECTION", conv.category, conv.meta, conv.airport, NoTotal,
                            conv.pax, conv.flight)
    BY <2>1 DEF Move, With, Conversation
  <2>3. /\ "AIRPORT_SELECTION" \in States \ (OtherStates \cup {"COMPLETED", "BOOKING_REVIEW"})
        /\ "AIRPORT_SELECTION" \notin FlightStates /\ "AIRPORT_SELECTION" \notin PackageKnown
    BY DEF States, OtherStates, FlightStates, PackageKnown
  <2>4. conv.category = "airport" => conv.meta.type # "none"
    BY <1>4 DEF ChoiceOK, Chosen, TypeKnown
  <2> QED
    BY <1>0, <1>f, <2>2, <2>3, <2>4, SpokenBackward
<1>5. CASE conv.state = "SERVICE_SELECTION" /\ conv.category # "airport"
  <2>1. BackTo(conv) = Move([conv EXCEPT !.total = NoTotal], "CATEGORY_SELECTION")
    BY <1>5 DEF BackTo, Preceding, ToMenu
  <2>2. BackTo(conv) = With(conv, "CATEGORY_SELECTION", conv.category, conv.meta, conv.airport, NoTotal,
                            conv.pax, conv.flight)
    BY <2>1 DEF Move, With, Conversation
  <2>3. /\ "CATEGORY_SELECTION" \in States \ (OtherStates \cup {"COMPLETED", "BOOKING_REVIEW"})
        /\ "CATEGORY_SELECTION" \notin FlightStates
    BY DEF States, OtherStates, FlightStates
  <2> QED
    BY <1>0, <1>f, <1>5, <2>2, <2>3, SpokenBackward
<1>6. CASE conv.state = "SERVICE_SELECTION" /\ conv.category = "airport"
  <2>1. PICK s \in {"TERMINAL_SELECTION", "AIRPORT_SELECTION"} :
           BackTo(conv) = Move([[conv EXCEPT !.total = NoTotal] EXCEPT !.meta = m], s)
    <3> HIDE DEF m
    <3> QED
      BY <1>6 DEF BackTo, Preceding, ToMenu, m
  <2> HIDE DEF m
  <2>2. BackTo(conv) = With(conv, s, conv.category, m, conv.airport, NoTotal, conv.pax, conv.flight)
    BY <2>1 DEF Move, With, Conversation
  <2>3. /\ s \in States \ (OtherStates \cup {"COMPLETED", "BOOKING_REVIEW"})
        /\ s \notin FlightStates /\ s \notin PackageKnown
    BY <2>1 DEF States, OtherStates, FlightStates, PackageKnown
  <2>4. m.type # "none"
    BY <1>6, <1>m DEF ChoiceOK, Chosen, TypeKnown
  <2> QED
    BY <1>0, <1>f, <1>m, <2>2, <2>3, <2>4, SpokenBackward
<1>7. CASE conv.state \in FlightStates
  <2> DEFINE o == [NoDetails EXCEPT !.journey = m.journey, !.type = conv.meta.type]
  <2>1. BackTo(conv) = [conv EXCEPT !.state = "SERVICE_SELECTION", !.flight = NoFlight, !.meta = o]
    BY <1>7 DEF BackTo, Preceding, ToMenu, FlightStates
  <2>2. o \in Details /\ o.type = conv.meta.type
    <3>1. m.journey \in {"none", "direct", "transit"} /\ conv.meta.type \in {"none", "dom", "intl"}
      BY <1>f, <1>m DEF Details
    <3> HIDE DEF m
    <3> QED
      BY <3>1, NoDetailsOK DEF Details
  <2> HIDE DEF o
  <2>3. BackTo(conv) = With(conv, "SERVICE_SELECTION", conv.category, o, conv.airport, conv.total,
                            conv.pax, NoFlight)
    BY <2>1 DEF With, Conversation
  <2>4. /\ "SERVICE_SELECTION" \in States \ (OtherStates \cup {"COMPLETED", "BOOKING_REVIEW"})
        /\ "SERVICE_SELECTION" \notin FlightStates /\ "SERVICE_SELECTION" \notin PackageKnown
    BY DEF States, OtherStates, FlightStates, PackageKnown
  <2> QED
    BY <1>0, <1>f, <1>7, <2>2, <2>3, <2>4, PackageChosen, SpokenBackward
<1>8. CASE conv.state = "DATE_SELECTION"
  <2>1. BackTo(conv) = Move(conv, IF conv.category = "airport" THEN "FLIGHT_INPUT" ELSE "SERVICE_SELECTION")
    BY <1>8 DEF BackTo, Preceding, ToMenu
  <2>2. CASE conv.category = "airport"
    BY <1>0, <1>8, <2>1, <2>2, SpokenMove
       DEF States, FlightStates, OtherStates, PackageKnown, TypeKnown
  <2>3. CASE conv.category # "airport"
    BY <1>0, <1>8, <2>1, <2>3, SpokenMove DEF States, FlightStates, OtherStates
  <2> QED
    BY <2>2, <2>3
<1>9. CASE conv.state = "PASSENGER_COUNT"
  <2>1. BackTo(conv) = [[conv EXCEPT !.total = NoTotal] EXCEPT !.state = "DATE_SELECTION", !.pax = 1]
    BY <1>9 DEF BackTo, Preceding, ToMenu
  <2>2. BackTo(conv) = With(conv, "DATE_SELECTION", conv.category, conv.meta, conv.airport, NoTotal, 1,
                            conv.flight)
    BY <2>1 DEF With, Conversation
  <2>3. /\ "DATE_SELECTION" \in States \ (OtherStates \cup {"COMPLETED", "BOOKING_REVIEW"})
        /\ "DATE_SELECTION" \notin FlightStates
    BY DEF States, OtherStates, FlightStates
  <2>4. conv.category = "airport" => conv.meta.type # "none" /\ PackagePriced(conv.meta, conv.airport)
    BY <1>9 DEF ChoiceOK, Chosen, TypeKnown, PackageKnown
  <2> QED
    BY <1>0, <1>f, <2>2, <2>3, <2>4, SpokenBackward
<1>10. CASE conv.state = "ADDITIONAL_REQUIREMENTS"
  <2>1. PICK s \in {"COMPANION_NAMES", "CUSTOMER_PHONE"} : BackTo(conv) = Move(conv, s)
    BY <1>10 DEF BackTo, Preceding, ToMenu
  <2> QED
    BY <1>0, <1>10, <2>1, SpokenMove
       DEF States, FlightStates, OtherStates, PackageKnown, TypeKnown
<1>11. conv.state \in DOMAIN Preceding \cup ToMenu \cup FlightStates
          \cup {"JOURNEY_TYPE_SELECTION", "AIRPORT_SELECTION", "TERMINAL_SELECTION", "SERVICE_SELECTION",
                "DATE_SELECTION", "PASSENGER_COUNT", "ADDITIONAL_REQUIREMENTS"}
  BY <1>0 DEF Preceding, ToMenu, FlightStates, States
<1> QED
  BY <1>1, <1>2, <1>3, <1>4, <1>5, <1>6, <1>7, <1>8, <1>9, <1>10, <1>11

-----------------------------------------------------------------------------
(* The bookings, ledger rows and links of a world.                         *)

World == [conv : Conversation, book : Seq(BookingRow), tx : Seq(LinkTx), link : Seq(GatewayLink)]

\* Every row names a link, and every link belongs to a booking with a price.
DeskOK(w) ==
    /\ w \in World
    /\ \A t \in DOMAIN w.tx : w.tx[t].link \in DOMAIN w.link
    /\ \A l \in DOMAIN w.link : IsBooking(w, w.link[l].of) /\ w.book[w.link[l].of].priced

\* The payment link operations leave conversation, bookings and earlier links
\* alone; a link they make is not paid.
LinksKept(w, e) ==
    /\ e.book = w.book
    /\ DOMAIN w.link \subseteq DOMAIN e.link
    /\ \A l \in DOMAIN w.link : e.link[l] = w.link[l]
    /\ \A l \in DOMAIN e.link \ DOMAIN w.link : e.link[l].st = "created"
DeskKept(w, e) == e.conv = w.conv /\ LinksKept(w, e)

\* What two steps of the desk keep, they keep together;
LEMMA KeptTrans == \A u, v, w : DeskKept(u, v) /\ DeskKept(v, w) => DeskKept(u, w)
BY DEF DeskKept, LinksKept

\* ... and what does nothing keeps everything.
LEMMA KeptSame == \A w : DeskKept(w, w)
BY DEF DeskKept, LinksKept

\* Only the rows change, and each keeps its link.
LEMMA RowsOnly ==
    ASSUME NEW w, DeskOK(w), NEW s \in Seq(LinkTx),
           \A t \in DOMAIN s : s[t].link \in DOMAIN w.link
    PROVE  LET e == [w EXCEPT !.tx = s] IN DeskOK(e) /\ DeskKept(w, e)
<1> DEFINE e == [w EXCEPT !.tx = s]
<1>1. w \in World
  BY DEF DeskOK
<1>2. e \in World /\ e.conv = w.conv /\ e.book = w.book /\ e.link = w.link /\ e.tx = s
  BY <1>1 DEF World
<1> HIDE DEF e
<1>3. \A l \in DOMAIN e.link : IsBooking(e, e.link[l].of) /\ e.book[e.link[l].of].priced
  BY <1>2 DEF DeskOK, IsBooking
<1>4. DeskOK(e)
  BY <1>2, <1>3 DEF DeskOK
<1>5. DeskKept(w, e)
  BY <1>2 DEF DeskKept, LinksKept
<1> QED
  BY <1>4, <1>5 DEF e

\* A row of the ledger marked with a status names the same link.
LEMMA RowMarked ==
    ASSUME NEW w, DeskOK(w), NEW t, NEW status \in TxStatus
    PROVE  LET s == [w.tx EXCEPT ![t].status = status] IN
           /\ s \in Seq(LinkTx) /\ DOMAIN s = DOMAIN w.tx
           /\ \A u \in DOMAIN s : s[u].link \in DOMAIN w.link
<1> DEFINE s == [w.tx EXCEPT ![t].status = status]
<1>1. w.tx \in Seq(LinkTx)
  BY DEF DeskOK, World
<1>2. DOMAIN s = DOMAIN w.tx
  OBVIOUS
<1>3. \A u \in DOMAIN w.tx : s[u] \in LinkTx /\ s[u].link = w.tx[u].link
  <2> SUFFICES ASSUME NEW u \in DOMAIN w.tx
               PROVE  s[u] \in LinkTx /\ s[u].link = w.tx[u].link
    OBVIOUS
  <2>1. w.tx[u] \in LinkTx
    BY <1>1, ElementOfSeq
  <2>2. CASE u = t
    BY <2>1, <2>2 DEF LinkTx
  <2>3. CASE u # t
    BY <2>1, <2>3
  <2> QED
    BY <2>2, <2>3
<1>4. s \in Seq(LinkTx)
  <2>1. DOMAIN s = 1 .. Len(w.tx) /\ Len(w.tx) \in Nat
    BY <1>1, LenProperties
  <2>2. s = [u \in 1 .. Len(w.tx) |-> s[u]]
    BY <2>1
  <2>3. \A u \in 1 .. Len(w.tx) : s[u] \in LinkTx
    BY <1>3, <2>1
  <2> HIDE DEF s
  <2> QED
    BY <2>1, <2>2, <2>3, IsASeq
<1>5. \A u \in DOMAIN s : s[u].link \in DOMAIN w.link
  BY <1>2, <1>3 DEF DeskOK
<1> QED
  BY <1>2, <1>4, <1>5

\* A link marked as ended (_mark_link_terminal) leaves the desk in order,
LEMMA MarkTerminalOK ==
    ASSUME NEW w, DeskOK(w), NEW t, NEW status \in {"EXPIRED", "CANCELLED"}
    PROVE  LET e == MarkTerminal(w, t, status) IN
           /\ DeskOK(e) /\ DeskKept(w, e)
           /\ DOMAIN e.tx = DOMAIN w.tx
<1>1. status \in TxStatus
  BY DEF TxStatus
<1> DEFINE s == [w.tx EXCEPT ![t].status = status]
           e == [w EXCEPT !.tx = s]
<1>2. /\ s \in Seq(LinkTx) /\ DOMAIN s = DOMAIN w.tx
      /\ \A u \in DOMAIN s : s[u].link \in DOMAIN w.link
  BY <1>1, RowMarked
<1>3. [w EXCEPT !.tx[t].status = status] = e
  BY DEF DeskOK, World
<1>4. e.tx = s
  BY DEF DeskOK, World
<1> HIDE DEF s
<1>5. DeskOK(e) /\ DeskKept(w, e)
  BY <1>2, RowsOnly
<1> HIDE DEF e
<1> QED
  BY <1>2, <1>3, <1>4, <1>5, KeptSame DEF MarkTerminal

\* ... so does the latest link closed,
LEMMA CloseLatestOK ==
    ASSUME NEW w, DeskOK(w), NEW b
    PROVE  LET e == CloseLatest(w, b) IN DeskOK(e) /\ DeskKept(w, e)
BY MarkTerminalOK, KeptSame DEF CloseLatest

\* A row closed on the way keeps its link.
LEMMA MarkedRow ==
    ASSUME NEW w, DeskOK(w), NEW t \in DOMAIN w.tx
    PROVE  LET r == MarkTerminal(w, t, "EXPIRED").tx[t] IN
           r \in LinkTx /\ r.link \in DOMAIN w.link
<1> DEFINE e == MarkTerminal(w, t, "EXPIRED")
<1>1. DeskOK(e) /\ DOMAIN e.tx = DOMAIN w.tx /\ e.link = w.link
  <2>1. DeskOK(e) /\ DOMAIN e.tx = DOMAIN w.tx
    BY MarkTerminalOK
  <2>2. e.link = w.link
    BY DEF MarkTerminal, DeskOK, World
  <2> QED
    BY <2>1, <2>2
<1> HIDE DEF e
<1>2. e.tx \in Seq(LinkTx)
  BY <1>1 DEF DeskOK, World
<1>3. e.tx[t] \in LinkTx /\ e.tx[t].link \in DOMAIN w.link
  BY <1>1, <1>2, ElementOfSeq DEF DeskOK
<1> QED
  BY <1>3 DEF e

\* ... every link that is due closed,
LEMMA CloseDueOK ==
    ASSUME NEW w, DeskOK(w), NEW b
    PROVE  LET e == CloseDue(w, b) IN DeskOK(e) /\ DeskKept(w, e)
<1> DEFINE Given(t) == t \in OpenTxs(w, b) \ Usable(w, b) /\ \A u \in Usable(w, b) : u < t
           s == [t \in DOMAIN w.tx |-> IF Given(t) THEN MarkTerminal(w, t, "EXPIRED").tx[t] ELSE w.tx[t]]
<1>1. w.tx \in Seq(LinkTx)
  BY DEF DeskOK, World
<1>2. \A t \in DOMAIN w.tx : s[t] \in LinkTx /\ s[t].link \in DOMAIN w.link
  <2> SUFFICES ASSUME NEW t \in DOMAIN w.tx
               PROVE  s[t] \in LinkTx /\ s[t].link \in DOMAIN w.link
    OBVIOUS
  <2>1. w.tx[t] \in LinkTx /\ w.tx[t].link \in DOMAIN w.link
    BY <1>1, ElementOfSeq DEF DeskOK
  <2>2. s[t] = MarkTerminal(w, t, "EXPIRED").tx[t] \/ s[t] = w.tx[t]
    <3> HIDE DEF Given
    <3> QED
      OBVIOUS
  <2> HIDE DEF s
  <2> QED
    BY <2>1, <2>2, MarkedRow
<1>3. DOMAIN s = 1 .. Len(w.tx) /\ Len(w.tx) \in Nat /\ s = [t \in 1 .. Len(w.tx) |-> s[t]]
  BY <1>1, LenProperties
<1>4. CloseDue(w, b) = [w EXCEPT !.tx = s]
  BY DEF CloseDue, DeskOK, World
<1> HIDE DEF s
<1>5. s \in Seq(LinkTx)
  BY <1>1, <1>2, <1>3, LenProperties, IsASeq
<1>6. \A t \in DOMAIN s : s[t].link \in DOMAIN w.link
  BY <1>1, <1>2, <1>3, LenProperties
<1> QED
  BY <1>4, <1>5, <1>6, RowsOnly

\* ... and a new link recorded.
LEMMA PersistOK ==
    ASSUME NEW w, DeskOK(w), NEW b \in Nat, NEW l \in DOMAIN w.link
    PROVE  LET e == Persist(w, b, l) IN DeskOK(e) /\ DeskKept(w, e)
<1> DEFINE c == CloseLatest(w, b)
           row == [of |-> b, link |-> l, status |-> "PENDING", dup |-> FALSE]
           s == Append(c.tx, row)
<1>1. DeskOK(c) /\ DeskKept(w, c)
  BY CloseLatestOK
<1>2. c \in World /\ c.tx \in Seq(LinkTx)
  BY <1>1 DEF DeskOK, World
<1>3. w.link \in Seq(GatewayLink)
  BY DEF DeskOK, World
<1>4. row \in LinkTx /\ row.link = l
  BY <1>3, LenProperties DEF LinkTx, TxStatus
<1>5. l \in DOMAIN c.link
  BY <1>1 DEF DeskKept, LinksKept
<1>6. Persist(w, b, l) = w \/ Persist(w, b, l) = [c EXCEPT !.tx = s]
  <2>1. [c EXCEPT !.tx = Append(@, row)] = [c EXCEPT !.tx = s]
    BY <1>2 DEF World
  <2> HIDE DEF c
  <2> QED
    BY <2>1 DEF Persist, c
<1> HIDE DEF c, row
<1>7. s \in Seq(LinkTx) /\ \A t \in DOMAIN s : s[t].link \in DOMAIN c.link
  <2>1. /\ s \in Seq(LinkTx) /\ DOMAIN s = 1 .. Len(c.tx) + 1 /\ Len(c.tx) \in Nat
        /\ DOMAIN c.tx = 1 .. Len(c.tx)
        /\ \A t \in 1 .. Len(c.tx) : s[t] = c.tx[t]
        /\ s[Len(c.tx) + 1] = row
    BY <1>2, <1>4, AppendProperties, LenProperties
  <2>2. \A t \in DOMAIN s : t \in DOMAIN c.tx \/ t = Len(c.tx) + 1
    BY <2>1
  <2> HIDE DEF s
  <2>3. \A t \in DOMAIN c.tx : s[t].link \in DOMAIN c.link
    BY <1>1, <2>1 DEF DeskOK
  <2>4. s[Len(c.tx) + 1].link \in DOMAIN c.link
    BY <1>4, <1>5, <2>1
  <2> QED
    BY <2>1, <2>2, <2>3, <2>4
<1> HIDE DEF s
<1>8. DeskOK([c EXCEPT !.tx = s]) /\ DeskKept(c, [c EXCEPT !.tx = s])
  BY <1>1, <1>7, RowsOnly
<1> QED
  BY <1>1, <1>6, <1>8, KeptTrans, KeptSame

\* A result of an operation on w.
ResultOK(w, r) == DeskOK(r.desk) /\ DeskKept(w, r.desk)

\* A result of a kept desk is one of the desk before.
LEMMA ResultTrans == \A w, d, r : DeskKept(w, d) /\ ResultOK(d, r) => ResultOK(w, r)
BY KeptTrans DEF ResultOK

\* A failed creation that looks the link up again.
LEMMA RecoverOK ==
    ASSUME NEW w, DeskOK(w), NEW b \in Nat, NEW o, ResultOK(w, o), NEW r \in Recover(w, b, o)
    PROVE  ResultOK(w, r)
<1>1. CASE r = o
  BY <1>1
<1>2. CASE r # o
  <2>1. PICK l \in LiveLinks(w, b) : r = Result(Persist(w, b, l), l)
    BY <1>2 DEF Recover
  <2>2. l \in DOMAIN w.link
    BY DEF LiveLinks
  <2>3. r.desk = Persist(w, b, l)
    BY <2>1 DEF Result
  <2> QED
    BY <2>2, <2>3, PersistOK DEF ResultOK
<1> QED
  BY <1>1, <1>2

\* No link, or a refusal, changes nothing.
LEMMA NothingSent == \A w : DeskOK(w) => ResultOK(w, NoLink(w)) /\ ResultOK(w, Refused(w))
BY KeptSame DEF ResultOK, NoLink, Result, Refused

\* A new link belongs to a booking with a price.
LEMMA LinkMade ==
    ASSUME NEW w, DeskOK(w), NEW b \in Nat, IsBooking(w, b), w.book[b].priced
    PROVE  LET e == [w EXCEPT !.link = Append(@, FreshLink(b))] IN
           /\ DeskOK(e) /\ DeskKept(w, e)
           /\ Len(w.link) + 1 \in DOMAIN e.link
<1> DEFINE s == Append(w.link, FreshLink(b))
           e == [w EXCEPT !.link = s]
<1>1. w \in World /\ w.link \in Seq(GatewayLink)
  BY DEF DeskOK, World
<1>2. FreshLink(b) \in GatewayLink /\ FreshLink(b).of = b /\ FreshLink(b).st = "created"
  BY DEF FreshLink, GatewayLink
<1>3. /\ s \in Seq(GatewayLink) /\ DOMAIN s = 1 .. Len(w.link) + 1 /\ Len(w.link) \in Nat
      /\ DOMAIN w.link = 1 .. Len(w.link)
      /\ \A l \in 1 .. Len(w.link) : s[l] = w.link[l]
      /\ s[Len(w.link) + 1] = FreshLink(b)
  BY <1>1, <1>2, AppendProperties, LenProperties
<1>4. [w EXCEPT !.link = Append(@, FreshLink(b))] = e
  BY <1>1 DEF World
<1>5. \A l \in DOMAIN s : l \in DOMAIN w.link \/ l = Len(w.link) + 1
  BY <1>3
<1> HIDE DEF s
<1>6. e \in World /\ e.conv = w.conv /\ e.book = w.book /\ e.link = s /\ e.tx = w.tx
  BY <1>1, <1>3 DEF World
<1> HIDE DEF e
<1>7. \A l \in DOMAIN s : IsBooking(e, s[l].of) /\ e.book[s[l].of].priced
  <2>1. IsBooking(e, b) /\ e.book[b].priced
    BY <1>6 DEF IsBooking
  <2>2. \A l \in DOMAIN w.link : IsBooking(e, s[l].of) /\ e.book[s[l].of].priced
    BY <1>3, <1>6 DEF DeskOK, IsBooking
  <2>3. s[Len(w.link) + 1].of = b
    BY <1>2, <1>3
  <2> QED
    BY <1>5, <2>1, <2>2, <2>3
<1>8. \A t \in DOMAIN e.tx : e.tx[t].link \in DOMAIN e.link
  <2>1. DOMAIN w.link \subseteq DOMAIN s
    BY <1>3
  <2> QED
    BY <1>6, <2>1 DEF DeskOK
<1>9. DeskOK(e)
  BY <1>6, <1>7, <1>8 DEF DeskOK
<1>10. DeskKept(w, e)
  <2>1. \A l \in DOMAIN w.link : s[l] = w.link[l]
    BY <1>3
  <2>2. DOMAIN w.link \subseteq DOMAIN s
    BY <1>3
  <2>3. \A l \in DOMAIN s \ DOMAIN w.link : s[l].st = "created"
    BY <1>2, <1>3, <1>5
  <2> QED
    BY <1>6, <2>1, <2>2, <2>3 DEF DeskKept, LinksKept
<1>11. Len(w.link) + 1 \in DOMAIN e.link
  BY <1>3, <1>6
<1> QED
  BY <1>4, <1>9, <1>10, <1>11 DEF e

\* The creation of a link for a priced booking.
LEMMA CreateLinkOK ==
    ASSUME NEW w, DeskOK(w), NEW b \in Nat, IsBooking(w, b), w.book[b].priced,
           NEW r \in CreateLink(w, b)
    PROVE  ResultOK(w, r)
<1> DEFINE l == Len(w.link) + 1
           made == [w EXCEPT !.link = Append(@, FreshLink(b))]
<1>1. ResultOK(w, NoLink(w))
  BY NothingSent
<1>2. DeskOK(made) /\ DeskKept(w, made) /\ l \in DOMAIN made.link
  BY LinkMade
<1>3. \/ r \in Recover(w, b, NoLink(w)) \/ r = NoLink(w)
      \/ r = Result(Persist(made, b, l), l) \/ r \in Recover(made, b, NoLink(made))
  BY DEF CreateLink
<1> HIDE DEF made, l
<1>4. CASE r \in Recover(w, b, NoLink(w))
  BY <1>1, <1>4, RecoverOK
<1>5. CASE r = Result(Persist(made, b, l), l)
  <2>1. r.desk = Persist(made, b, l)
    BY <1>5 DEF Result
  <2> QED
    BY <1>2, <2>1, PersistOK, KeptTrans DEF ResultOK
<1>6. CASE r \in Recover(made, b, NoLink(made))
  <2>1. ResultOK(made, r)
    BY <1>2, <1>6, NothingSent, RecoverOK
  <2> QED
    BY <1>2, <2>1, ResultTrans
<1> QED
  BY <1>1, <1>3, <1>4, <1>5, <1>6

\* A payment initiated: a booking that waits for it has its price.
LEMMA InitiateOK ==
    ASSUME NEW w, DeskOK(w), NEW b \in Nat, BookingIs(w, b, "PENDING") => w.book[b].priced,
           NEW r \in Initiate(w, b)
    PROVE  ResultOK(w, r)
<1> DEFINE c == CloseDue(w, b)
<1>1. ResultOK(w, NoLink(w)) /\ ResultOK(w, Refused(w))
  BY NothingSent
<1>2. DeskOK(c) /\ DeskKept(w, c) /\ c.book = w.book
  BY CloseDueOK DEF DeskKept, LinksKept
<1>3. ASSUME BookingIs(w, b, "PENDING")
      PROVE  IsBooking(c, b) /\ c.book[b].priced
  BY <1>2, <1>3 DEF BookingIs, IsBooking
<1>4. \/ r = NoLink(w) \/ r = Refused(w)
      \/ \E s : r = Result(c, s)
      \/ BookingIs(w, b, "PENDING") /\ r \in Recover(c, b, NoLink(c)) \cup CreateLink(c, b)
  <2>1. CASE ~BookingIs(w, b, "PENDING")
    BY <2>1 DEF Initiate
  <2>2. CASE BookingIs(w, b, "PENDING") /\ Usable(w, b) # {}
    BY <2>2 DEF Initiate
  <2>3. CASE BookingIs(w, b, "PENDING") /\ Usable(w, b) = {}
    BY <2>3 DEF Initiate
  <2> QED
    BY <2>1, <2>2, <2>3
<1> HIDE DEF c
<1>5. ASSUME NEW s, r = Result(c, s)
      PROVE  ResultOK(w, r)
  BY <1>2, <1>5 DEF Result, ResultOK
<1>6. CASE BookingIs(w, b, "PENDING") /\ r \in Recover(c, b, NoLink(c)) \cup CreateLink(c, b)
  <2>1. ResultOK(c, r)
    BY <1>2, <1>3, <1>6, NothingSent, RecoverOK, CreateLinkOK
  <2> QED
    BY <1>2, <2>1, ResultTrans
<1> QED
  BY <1>1, <1>4, <1>5, <1>6

\* A link replaced, likewise.
LEMMA ReplaceOK ==
    ASSUME NEW w, DeskOK(w), NEW b \in Nat, BookingIs(w, b, "PENDING") => w.book[b].priced,
           NEW r \in Replace(w, b)
    PROVE  ResultOK(w, r)
<1> DEFINE c == CloseLatest(w, b)
<1>1. DeskOK(c) /\ DeskKept(w, c) /\ c.book = w.book
  BY CloseLatestOK DEF DeskKept, LinksKept
<1>2. BookingIs(c, b, "PENDING") => c.book[b].priced
  BY <1>1 DEF BookingIs, IsBooking
<1>3. r = NoLink(w) \/ r \in Initiate(c, b)
  BY DEF Replace
<1> HIDE DEF c
<1>4. ASSUME r \in Initiate(c, b)
      PROVE  ResultOK(w, r)
  BY <1>1, <1>2, <1>4, InitiateOK, ResultTrans
<1> QED
  BY <1>3, <1>4, NothingSent

\* Of the rows of a set one is the newest.
LEMMA LargestRow ==
    ASSUME NEW n \in Nat, NEW S \in SUBSET (1 .. n), S # {}
    PROVE  Largest(S) \in S
<1> DEFINE all == 1 .. n
           above(i) == {k \in S : k > i}
           T == {above(i) : i \in S}
           R == StrictSubsetOrdering(all)
<1>1. IsFiniteSet(all) /\ \A i \in S : i \in Nat
  BY FS_Interval
<1>2. IsWellFoundedOn(R, SUBSET all)
  BY <1>1, FS_StrictSubsetOrderingWellFounded, FS_FiniteSubsetsOfFinite
<1>3. T \subseteq SUBSET all /\ T # {}
  OBVIOUS
<1>4. PICK x \in T : \A y \in T : ~(<<y, x>> \in R)
  <2> HIDE DEF T, R
  <2> QED
    BY <1>2, <1>3, WFMin
<1>5. PICK i \in S : x = above(i)
  BY <1>4
<1>6. ASSUME NEW j \in S, ~(j <= i)
      PROVE  FALSE
  <2>0. i \in Nat /\ j \in Nat /\ j > i /\ \A k \in S : k \in Nat
    BY <1>1, <1>6
  <2>1. j \in x /\ j \notin above(j) /\ above(j) \subseteq x
    <3>1. \A k \in S : k > j => k > i
      BY <2>0
    <3>2. j \in x
      BY <1>5, <2>0
    <3>3. j \notin above(j)
      BY <2>0
    <3> QED
      BY <1>5, <3>1, <3>2, <3>3
  <2>2. above(j) \in T /\ above(j) \in SUBSET all /\ x \in SUBSET all
    BY <1>3, <1>4
  <2> HIDE DEF above, T
  <2>3. <<above(j), x>> \in R
    BY <2>1, <2>2 DEF StrictSubsetOrdering
  <2> QED
    BY <1>4, <2>2, <2>3
<1>7. \E r \in S : \A q \in S : q <= r
  BY <1>5, <1>6
<1> QED
  BY <1>7 DEF Largest

\* The row of an operation on links is one of the ledger.
LEMMA LedgerRow ==
    ASSUME NEW w, DeskOK(w), NEW b, TxsOf(w, b) # {}
    PROVE  Largest(TxsOf(w, b)) \in DOMAIN w.tx
<1>1. w.tx \in Seq(LinkTx)
  BY DEF DeskOK, World
<1>2. DOMAIN w.tx = 1 .. Len(w.tx) /\ Len(w.tx) \in Nat
  BY <1>1, LenProperties
<1>3. TxsOf(w, b) \in SUBSET (1 .. Len(w.tx))
  BY <1>2 DEF TxsOf
<1> QED
  BY <1>2, <1>3, LargestRow

-----------------------------------------------------------------------------
(* Changes of the bookings and of the conversation.                        *)

\* Bookings keep their kind and price.
SameShape(s, z) ==
    /\ z \in Seq(BookingRow) /\ DOMAIN s \subseteq DOMAIN z
    /\ \A k \in DOMAIN s : z[k].kind = s[k].kind /\ z[k].priced = s[k].priced

\* Another status of the bookings leaves the desk in order;
LEMMA BooksOnly ==
    ASSUME NEW w, DeskOK(w), NEW z, SameShape(w.book, z)
    PROVE  LET e == [w EXCEPT !.book = z] IN
           DeskOK(e) /\ e.conv = w.conv /\ e.tx = w.tx /\ e.link = w.link /\ e.book = z
<1> DEFINE e == [w EXCEPT !.book = z]
<1>1. /\ e \in World /\ e.conv = w.conv /\ e.tx = w.tx /\ e.link = w.link /\ e.book = z
  BY DEF DeskOK, World, SameShape
<1> HIDE DEF e
<1>2. \A l \in DOMAIN e.link : IsBooking(e, e.link[l].of) /\ e.book[e.link[l].of].priced
  BY <1>1 DEF DeskOK, IsBooking, SameShape
<1>3. DeskOK(e)
  BY <1>1, <1>2 DEF DeskOK
<1> QED
  BY <1>1, <1>3 DEF e

\* ... and so does another conversation.
LEMMA ConvOnly ==
    ASSUME NEW w, DeskOK(w), NEW c \in Conversation
    PROVE  LET e == [w EXCEPT !.conv = c] IN
           DeskOK(e) /\ e.conv = c /\ e.tx = w.tx /\ e.link = w.link /\ e.book = w.book
<1> DEFINE e == [w EXCEPT !.conv = c]
<1>1. /\ e \in World /\ e.conv = c /\ e.tx = w.tx /\ e.link = w.link /\ e.book = w.book
  BY DEF DeskOK, World
<1> HIDE DEF e
<1>2. DeskOK(e)
  BY <1>1 DEF DeskOK, IsBooking
<1> QED
  BY <1>1, <1>2 DEF e

Marked(s, b, status) == [s EXCEPT ![b].status = status]

\* One booking marked with a status, and no other.
LEMMA BookMarked ==
    ASSUME NEW s \in Seq(BookingRow), NEW b, NEW status \in BookingStatus
    PROVE  LET z == Marked(s, b, status) IN
           /\ SameShape(s, z) /\ DOMAIN z = DOMAIN s
           /\ \A k \in DOMAIN s : z[k].status = IF k = b THEN status ELSE s[k].status
<1> DEFINE z == Marked(s, b, status)
<1>1. DOMAIN z = DOMAIN s /\ DOMAIN s = 1 .. Len(s) /\ Len(s) \in Nat
  BY LenProperties DEF Marked
<1>2. \A k \in DOMAIN s : /\ z[k] \in BookingRow /\ z[k].kind = s[k].kind /\ z[k].priced = s[k].priced
                          /\ z[k].status = IF k = b THEN status ELSE s[k].status
  <2> SUFFICES ASSUME NEW k \in DOMAIN s
               PROVE  /\ z[k] \in BookingRow /\ z[k].kind = s[k].kind /\ z[k].priced = s[k].priced
                      /\ z[k].status = IF k = b THEN status ELSE s[k].status
    OBVIOUS
  <2>1. s[k] \in BookingRow
    BY ElementOfSeq
  <2>2. CASE k = b
    BY <2>1, <2>2 DEF BookingRow, Marked
  <2>3. CASE k # b
    BY <2>1, <2>3 DEF Marked
  <2> QED
    BY <2>2, <2>3
<1>3. z = [k \in 1 .. Len(s) |-> z[k]]
  BY <1>1 DEF Marked
<1> HIDE DEF z
<1>4. z \in Seq(BookingRow)
  BY <1>1, <1>2, <1>3, IsASeq
<1> QED
  BY <1>1, <1>2, <1>4 DEF SameShape, z

\* Cancelling a booking.
LEMMA CancelledOK ==
    ASSUME NEW w, DeskOK(w), NEW b
    PROVE  LET e == Cancelled(w, b) IN
           /\ DeskOK(e) /\ e.conv = w.conv /\ e.tx = w.tx /\ e.link = w.link
           /\ \/ BookingIs(w, b, "PENDING") /\ e.book = Marked(w.book, b, "CANCELLED")
              \/ ~BookingIs(w, b, "PENDING") /\ e.book = w.book
<1> DEFINE z == Marked(w.book, b, "CANCELLED")
<1>1. w \in World /\ w.book \in Seq(BookingRow) /\ "CANCELLED" \in BookingStatus
  BY DEF DeskOK, World, BookingStatus
<1>2. SameShape(w.book, z)
  BY <1>1, BookMarked
<1>3. [w EXCEPT !.book[b].status = "CANCELLED"] = [w EXCEPT !.book = z]
  BY <1>1 DEF World, Marked
<1> HIDE DEF z
<1>4. CASE BookingIs(w, b, "PENDING")
  <2>1. Cancelled(w, b) = [w EXCEPT !.book = z]
    BY <1>3, <1>4 DEF Cancelled
  <2> QED
    BY <1>2, <1>4, <2>1, BooksOnly DEF z
<1>5. CASE ~BookingIs(w, b, "PENDING")
  BY <1>5 DEF Cancelled
<1> QED
  BY <1>4, <1>5

\* A new conversation is one, whatever its state.
LEMMA FreshOK == \A s \in States : [Fresh EXCEPT !.state = s] \in Conversation
BY Amounts, NoDetailsOK, CatalogueAssumption DEF Fresh, Conversation, Total

\* A conversation that starts anew withdraws its draft and nothing else.
LEMMA ResetOK ==
    ASSUME NEW w, DeskOK(w), NEW s \in States
    PROVE  LET e == Reset(w, s) IN
           /\ DeskOK(e) /\ e.conv = [Fresh EXCEPT !.state = s] /\ e.tx = w.tx /\ e.link = w.link
           /\ e.book = Cancelled(w, w.conv.draft).book
<1> DEFINE c == Cancelled(w, w.conv.draft)
<1>1. DeskOK(c) /\ c.tx = w.tx /\ c.link = w.link
  BY CancelledOK
<1>2. Reset(w, s) = [c EXCEPT !.conv = [Fresh EXCEPT !.state = s]]
  BY DEF Reset
<1> HIDE DEF c
<1>3. [Fresh EXCEPT !.state = s] \in Conversation
  BY FreshOK
<1> QED
  BY <1>1, <1>2, <1>3, ConvOnly DEF c

-----------------------------------------------------------------------------
(* Events.                                                                 *)

\* A settlement confirms the booking and leaves conversation and links alone.
LEMMA SettleOK ==
    ASSUME NEW w, DeskOK(w), NEW l \in DOMAIN w.link
    PROVE  LET e == Settle(w, l)
               b == w.link[l].of IN
           /\ DeskOK(e) /\ e.conv = w.conv /\ e.link = w.link
           /\ \/ BookingIs(w, b, "CONFIRMED") /\ e.book = w.book
              \/ e.book = Marked(w.book, b, "CONFIRMED")
           /\ BookingIs(e, b, "CONFIRMED")
<1> DEFINE b == w.link[l].of
           z == Marked(w.book, b, "CONFIRMED")
           paid == [w EXCEPT !.book = z]
           dupRow == Append(w.tx, Succeeded(b, l, TRUE))
           newRow == Append(w.tx, Succeeded(b, l, FALSE))
<1>1. /\ w \in World /\ w.book \in Seq(BookingRow) /\ w.tx \in Seq(LinkTx) /\ w.link \in Seq(GatewayLink)
      /\ "CONFIRMED" \in BookingStatus /\ "SUCCESSFUL" \in TxStatus
  BY DEF DeskOK, World, BookingStatus, TxStatus
<1>2. IsBooking(w, b) /\ b \in Nat /\ l \in Nat
  <2>1. w.link[l] \in GatewayLink /\ l \in Nat
    BY <1>1, ElementOfSeq, LenProperties
  <2> QED
    BY <2>1 DEF GatewayLink, DeskOK
<1>3. /\ DeskOK(paid) /\ paid.conv = w.conv /\ paid.tx = w.tx /\ paid.link = w.link /\ paid.book = z
      /\ BookingIs(paid, b, "CONFIRMED")
  <2>1. /\ SameShape(w.book, z) /\ DOMAIN z = DOMAIN w.book
        /\ \A k \in DOMAIN w.book : z[k].status = IF k = b THEN "CONFIRMED" ELSE w.book[k].status
    BY <1>1, BookMarked
  <2> HIDE DEF z, b
  <2>2. DeskOK(paid) /\ paid.conv = w.conv /\ paid.tx = w.tx /\ paid.link = w.link /\ paid.book = z
    BY <2>1, BooksOnly
  <2> HIDE DEF paid
  <2>3. BookingIs(paid, b, "CONFIRMED")
    BY <1>2, <2>1, <2>2 DEF BookingIs, IsBooking, SameShape
  <2> QED
    BY <2>2, <2>3
<1>4. ASSUME NEW dup \in BOOLEAN
      PROVE  LET s == Append(w.tx, Succeeded(b, l, dup)) IN
             s \in Seq(LinkTx) /\ \A t \in DOMAIN s : s[t].link \in DOMAIN w.link
  <2> DEFINE r == Succeeded(b, l, dup)
             s == Append(w.tx, r)
  <2>1. r \in LinkTx /\ r.link = l
    BY <1>1, <1>2 DEF Succeeded, LinkTx
  <2> HIDE DEF r
  <2>2. /\ s \in Seq(LinkTx) /\ DOMAIN s = 1 .. Len(w.tx) + 1 /\ Len(w.tx) \in Nat
        /\ DOMAIN w.tx = 1 .. Len(w.tx)
        /\ \A t \in 1 .. Len(w.tx) : s[t] = w.tx[t]
        /\ s[Len(w.tx) + 1] = r
    BY <1>1, <2>1, AppendProperties, LenProperties
  <2>3. \A t \in DOMAIN s : t \in DOMAIN w.tx \/ t = Len(w.tx) + 1
    BY <2>2
  <2> HIDE DEF s
  <2>4. \A t \in DOMAIN w.tx : s[t].link \in DOMAIN w.link
    BY <2>2 DEF DeskOK
  <2>5. s[Len(w.tx) + 1].link \in DOMAIN w.link
    BY <2>1, <2>2
  <2>6. s \in Seq(LinkTx) /\ \A t \in DOMAIN s : s[t].link \in DOMAIN w.link
    BY <2>2, <2>3, <2>4, <2>5
  <2> QED
    BY <2>6 DEF s, r
<1>5. \/ Settle(w, l) = w /\ BookingIs(w, b, "CONFIRMED")
      \/ Settle(w, l) = [w EXCEPT !.tx = dupRow] /\ BookingIs(w, b, "CONFIRMED")
      \/ Settle(w, l) = [paid EXCEPT !.tx = newRow]
      \/ \E t : Settle(w, l) = [paid EXCEPT !.tx = [w.tx EXCEPT ![t].status = "SUCCESSFUL"]]
  <2>1. CASE BookingIs(w, b, "CONFIRMED")
    BY <1>1, <2>1 DEF Settle, World
  <2>2. CASE ~BookingIs(w, b, "CONFIRMED") /\ RowOf(w, l) = {}
    <3>1. Settle(w, l) = [w EXCEPT !.book[b].status = "CONFIRMED", !.tx = Append(@, Succeeded(b, l, FALSE))]
      BY <2>2 DEF Settle
    <3> QED
      BY <1>1, <3>1 DEF World, Marked
  <2>3. CASE ~BookingIs(w, b, "CONFIRMED") /\ RowOf(w, l) # {}
    <3> DEFINE t == CHOOSE u \in RowOf(w, l) : TRUE
    <3>1. Settle(w, l) = [w EXCEPT !.book[b].status = "CONFIRMED", !.tx[t].status = "SUCCESSFUL"]
      BY <2>3 DEF Settle
    <3> HIDE DEF t
    <3>2. Settle(w, l) = [paid EXCEPT !.tx = [w.tx EXCEPT ![t].status = "SUCCESSFUL"]]
      BY <1>1, <3>1 DEF World, Marked
    <3> QED
      BY <3>2
  <2> QED
    BY <2>1, <2>2, <2>3
<1> HIDE DEF paid
<1>6. CASE Settle(w, l) = w /\ BookingIs(w, b, "CONFIRMED")
  BY <1>6
<1>7. CASE Settle(w, l) = [w EXCEPT !.tx = dupRow] /\ BookingIs(w, b, "CONFIRMED")
  <2>1. dupRow \in Seq(LinkTx) /\ \A t \in DOMAIN dupRow : dupRow[t].link \in DOMAIN w.link
    BY <1>4
  <2> DEFINE e == [w EXCEPT !.tx = dupRow]
  <2> HIDE DEF dupRow
  <2>2. DeskOK(e) /\ DeskKept(w, e) /\ e.link = w.link
    BY <1>1, <2>1, RowsOnly DEF World
  <2> HIDE DEF e
  <2>3. BookingIs(e, b, "CONFIRMED")
    BY <1>7, <2>2 DEF BookingIs, IsBooking, DeskKept, LinksKept
  <2>4. Settle(w, l) = e
    BY <1>7 DEF e
  <2> QED
    BY <1>7, <2>2, <2>3, <2>4 DEF DeskKept, LinksKept
<1>8. ASSUME NEW s \in Seq(LinkTx), \A t \in DOMAIN s : s[t].link \in DOMAIN w.link,
             Settle(w, l) = [paid EXCEPT !.tx = s]
      PROVE  LET e == Settle(w, l) IN
             /\ DeskOK(e) /\ e.conv = w.conv /\ e.link = w.link /\ e.book = z
             /\ BookingIs(e, b, "CONFIRMED")
  <2> DEFINE e == [paid EXCEPT !.tx = s]
  <2>1. DeskOK(e) /\ DeskKept(paid, e) /\ e.link = paid.link
    <3>1. paid \in World
      BY <1>3 DEF DeskOK
    <3>2. \A t \in DOMAIN s : s[t].link \in DOMAIN paid.link
      BY <1>3, <1>8
    <3> QED
      BY <1>3, <3>1, <3>2, RowsOnly DEF World
  <2> HIDE DEF e
  <2>2. e.conv = w.conv /\ e.book = z /\ e.link = w.link
    BY <1>3, <2>1 DEF DeskKept, LinksKept
  <2>3. BookingIs(e, b, "CONFIRMED")
    BY <1>3, <2>2 DEF BookingIs, IsBooking
  <2> QED
    BY <1>8, <2>1, <2>2, <2>3 DEF e
<1>9. CASE Settle(w, l) = [paid EXCEPT !.tx = newRow]
  <2>1. newRow \in Seq(LinkTx) /\ \A t \in DOMAIN newRow : newRow[t].link \in DOMAIN w.link
    BY <1>4
  <2> HIDE DEF newRow, z, b
  <2> QED
    BY <1>8, <1>9, <2>1 DEF z, b
<1>10. CASE \E t : Settle(w, l) = [paid EXCEPT !.tx = [w.tx EXCEPT ![t].status = "SUCCESSFUL"]]
  <2>1. PICK t : Settle(w, l) = [paid EXCEPT !.tx = [w.tx EXCEPT ![t].status = "SUCCESSFUL"]]
    BY <1>10
  <2> DEFINE s == [w.tx EXCEPT ![t].status = "SUCCESSFUL"]
  <2>2. s \in Seq(LinkTx) /\ \A u \in DOMAIN s : s[u].link \in DOMAIN w.link
    BY <1>1, RowMarked
  <2> HIDE DEF s, z, b
  <2>3. Settle(w, l) = [paid EXCEPT !.tx = s]
    BY <2>1 DEF s
  <2> QED
    BY <1>8, <2>2, <2>3 DEF z, b
<1> QED
  BY <1>5, <1>6, <1>7, <1>9, <1>10

-----------------------------------------------------------------------------
\* The settlement of link l, which was paid.
PaidFor(w, e, l) ==
    LET b == w.link[l].of IN
    /\ l \in DOMAIN w.link /\ w.link[l].st = "paid"
    /\ DeskOK(e) /\ e.conv = w.conv /\ e.link = w.link
    /\ \/ BookingIs(w, b, "CONFIRMED") /\ e.book = w.book
       \/ e.book = Marked(w.book, b, "CONFIRMED")
    /\ BookingIs(e, b, "CONFIRMED")

\* A link that ended leaves the desk in order.
LEMMA EndOK ==
    ASSUME NEW w, DeskOK(w), NEW l, NEW status \in {"EXPIRED", "CANCELLED"}
    PROVE  ResultOK(w, Result(End(w, l, status), 0))
BY MarkTerminalOK, KeptSame DEF End, ResultOK, Result

\* A reconciliation finds nothing paid, or settles a link that is.
LEMMA ReconcileOK ==
    ASSUME NEW w, DeskOK(w), NEW b, NEW e \in Reconcile(w, b)
    PROVE  \/ DeskOK(e) /\ DeskKept(w, e)
           \/ \E l \in DOMAIN w.link : PaidFor(w, e, l)
<1> DEFINE t == Largest(TxsOf(w, b))
           l == w.tx[t].link
<1>1. \/ e = w
      \/ TxsOf(w, b) # {} /\ w.link[l].st = "paid" /\ e = Settle(w, l)
      \/ e = MarkTerminal(w, t, EndStatus(w, l))
  <2>1. CASE ~IsBooking(w, b) \/ BookingIs(w, b, "CONFIRMED") \/ TxsOf(w, b) = {}
    BY <2>1 DEF Reconcile
  <2>2. CASE ~(~IsBooking(w, b) \/ BookingIs(w, b, "CONFIRMED") \/ TxsOf(w, b) = {})
    BY <2>2 DEF Reconcile
  <2> QED
    BY <2>1, <2>2
<1>2. CASE e = w
  BY <1>2, KeptSame
<1>3. CASE TxsOf(w, b) # {} /\ w.link[l].st = "paid" /\ e = Settle(w, l)
  <2>1. t \in DOMAIN w.tx
    BY <1>3, LedgerRow
  <2>2. l \in DOMAIN w.link
    BY <2>1 DEF DeskOK
  <2> HIDE DEF l
  <2>3. PaidFor(w, e, l)
    BY <1>3, <2>2, SettleOK DEF PaidFor
  <2> QED
    BY <2>2, <2>3
<1>4. CASE e = MarkTerminal(w, t, EndStatus(w, l))
  <2>1. EndStatus(w, l) \in {"EXPIRED", "CANCELLED"}
    BY DEF EndStatus
  <2> HIDE DEF t, l
  <2> QED
    BY <1>4, <2>1, MarkTerminalOK
<1> QED
  BY <1>1, <1>2, <1>3, <1>4

-----------------------------------------------------------------------------
(* The conversation and its bookings.                                      *)

\* What the conversation knows of its bookings.
Tracked(w) ==
    /\ w.conv.ref \in 0 .. Len(w.book) /\ w.conv.draft \in 0 .. Len(w.book)
    /\ w.conv.ref = 0 => w.conv.draft = 0
    /\ w.conv.draft = w.conv.ref \/ (w.conv.ref # 0 /\ w.book[w.conv.ref].kind = "charter")
    /\ w.conv.state \notin Waiting /\ ~Swept(w.conv) => ~BookingIs(w, w.conv.draft, "PENDING")
    /\ \A b \in DOMAIN w.book : BookingIs(w, b, "PENDING") => b = w.conv.draft
    /\ w.conv.state = "COMPLETED" =>
          BookingIs(w, w.conv.ref, "CONFIRMED") \/ BookingIs(w, w.conv.draft, "CONFIRMED")

\* A request without a price waits for its quote.
QuoteAwaited(w) ==
    BookingIs(w, w.conv.ref, "PENDING") /\ ~w.book[w.conv.ref].priced => w.conv.state = "AWAITING_QUOTE"

HandOK(w) == DeskOK(w) /\ ChoiceOK(w.conv) /\ Tracked(w) /\ QuoteAwaited(w)

Stated(c, s, p) == [c EXCEPT !.state = s, !.pay = p]

\* States that ask nothing of the choices but what holds of the flight.
Parked == {"START", "CANCELLED", "COMPLETED", "WAITING_PAYMENT", "AWAITING_QUOTE",
    "CATEGORY_SELECTION", "JOURNEY_TYPE_SELECTION"}
PayStatus == {"PENDING", "SUCCESSFUL", "QUOTE", "EXPIRED", "CANCELLED"}

\* A parked state asks nothing of the choices but what holds of the flight.
LEMMA ParkedChosen ==
    \A s \in Parked : \A k, m, a, t, n, f :
        (m.check \in {"verified", "override"} => f \in {NoFlight, m.route} \/ m.route = NoFlight)
            => Chosen(s, k, m, a, t, n, f)
BY DEF Parked, Chosen, FlightStates, OtherStates, PackageKnown, TypeKnown

\* A conversation that is parked keeps its choices and its bookings.
LEMMA StatedOK ==
    ASSUME NEW c \in Conversation, ChoiceOK(c), NEW s \in Parked, NEW p \in PayStatus
    PROVE  LET e == Stated(c, s, p) IN
           /\ e \in Conversation /\ ChoiceOK(e)
           /\ e.state = s /\ e.ref = c.ref /\ e.draft = c.draft /\ e.category = c.category
           /\ e.meta = c.meta /\ e.airport = c.airport /\ e.total = c.total /\ e.pax = c.pax
           /\ e.flight = c.flight
<1> DEFINE e == Stated(c, s, p)
<1>1. s \in States
  BY DEF Parked, States
<1>2. /\ e.state = s /\ e.ref = c.ref /\ e.draft = c.draft /\ e.category = c.category
      /\ e.meta = c.meta /\ e.airport = c.airport /\ e.total = c.total /\ e.pax = c.pax
      /\ e.flight = c.flight
  BY DEF Stated, Conversation
<1>3. e \in Conversation
  BY <1>1 DEF Stated, Conversation, PayStatus
<1> HIDE DEF e
<1>4. ChoiceOK(e)
  <2>1. e.meta.check \in {"verified", "override"} =>
           e.flight \in {NoFlight, e.meta.route} \/ e.meta.route = NoFlight
    BY <1>2 DEF ChoiceOK, Chosen
  <2>2. Chosen(e.state, e.category, e.meta, e.airport, e.total, e.pax, e.flight)
    BY <1>2, <2>1, ParkedChosen
  <2> QED
    BY <2>2 DEF ChoiceOK
<1> QED
  BY <1>2, <1>3, <1>4 DEF e

\* Two worlds with the same bookings whose conversations know the same ones.
LEMMA SameHand ==
    ASSUME NEW w, NEW e, e.book = w.book
    PROVE  \A b, status : BookingIs(e, b, status) <=> BookingIs(w, b, status)
BY DEF BookingIs, IsBooking

-----------------------------------------------------------------------------
(* Issuing a link.                                                         *)

\* An unpriced request of this conversation is not sold for the amount it shows.
Unsold(w) ==
    BookingIs(w, w.conv.ref, "PENDING") /\ ~w.book[w.conv.ref].priced =>
        w.conv.category # "airport" /\ ~Positive(w.conv.total)

Restates(w, e) ==
    \/ e.conv = w.conv /\ (BookingIs(w, w.conv.ref, "PENDING") => w.book[w.conv.ref].priced)
    \/ e.conv = Stated(w.conv, "COMPLETED", "SUCCESSFUL") /\ BookingIs(w, w.conv.ref, "CONFIRMED")
    \/ e.conv = Stated(w.conv, "AWAITING_QUOTE", "QUOTE")
    \/ e.conv = Stated(w.conv, "WAITING_PAYMENT", "PENDING")
       /\ (BookingIs(w, w.conv.ref, "PENDING") => w.book[w.conv.ref].priced)

\* No booking has the number 0.
LEMMA NobodysBooking == \A w, status : DeskOK(w) => ~BookingIs(w, 0, status)
<1>1. \A w : DeskOK(w) => DOMAIN w.book = 1 .. Len(w.book)
  BY LenProperties DEF DeskOK, World
<1> QED
  BY <1>1 DEF BookingIs, IsBooking

\* A link issued from a request that is not unsold: what the conversation then says.
LEMMA IssueOK ==
    ASSUME NEW w, DeskOK(w), ChoiceOK(w.conv), Unsold(w), NEW force \in BOOLEAN,
           NEW e \in Issue(w, force)
    PROVE  DeskOK(e) /\ LinksKept(w, e) /\ Restates(w, e)
<1> DEFINE b == w.conv.ref
           Sellable == BookingIs(w, b, "PENDING") => w.book[b].priced
<1>1. /\ b \in Nat /\ w.conv \in Conversation
      /\ "COMPLETED" \in Parked /\ "AWAITING_QUOTE" \in Parked /\ "WAITING_PAYMENT" \in Parked
      /\ {"PENDING", "SUCCESSFUL", "QUOTE"} \subseteq PayStatus
  BY CatalogueAssumption DEF DeskOK, World, Conversation, Parked, PayStatus
<1>2. LinksKept(w, w)
  BY DEF LinksKept
<1>3. ASSUME NEW s \in Parked, NEW p \in PayStatus, NEW d, ResultOK(w, Result(d, 0))
      PROVE  LET x == [d EXCEPT !.conv.state = s, !.conv.pay = p] IN
             DeskOK(x) /\ LinksKept(w, x) /\ x.conv = Stated(w.conv, s, p)
  <2> DEFINE c == Stated(w.conv, s, p)
             x == [d EXCEPT !.conv = c]
  <2>1. DeskOK(d) /\ DeskKept(w, d)
    BY <1>3 DEF ResultOK, Result
  <2>2. [d EXCEPT !.conv.state = s, !.conv.pay = p] = x
    <3>1. d.conv = w.conv
      BY <2>1 DEF DeskKept
    <3> QED
      BY <2>1, <3>1 DEF DeskOK, World, Stated
  <2>3. c \in Conversation
    BY <1>1, StatedOK
  <2> HIDE DEF c
  <2>4. DeskOK(x) /\ x.conv = c /\ x.link = d.link /\ x.book = d.book
    BY <2>1, <2>3, ConvOnly
  <2> HIDE DEF x
  <2> QED
    BY <2>1, <2>2, <2>4 DEF DeskKept, LinksKept, c
<1>4. CASE b = 0
  <2>1. e = w
    BY <1>4 DEF Issue
  <2> QED
    BY <1>2, <1>4, <2>1, NobodysBooking DEF Restates
<1>5. CASE b # 0 /\ BookingIs(w, b, "CONFIRMED")
  <2>1. e = Paid(w)
    BY <1>5 DEF Issue
  <2>2. e = [w EXCEPT !.conv.state = "COMPLETED", !.conv.pay = "SUCCESSFUL"]
    BY <2>1 DEF Paid
  <2>3. ResultOK(w, Result(w, 0))
    BY KeptSame DEF ResultOK, Result
  <2> QED
    BY <1>1, <1>3, <1>5, <2>2, <2>3 DEF Restates
<1>6. CASE b # 0 /\ ~BookingIs(w, b, "CONFIRMED")
  <2>1. \/ e = w /\ w.conv.category = "airport"
        \/ /\ ~Positive(w.conv.total) /\ ~(IsBooking(w, b) /\ w.book[b].priced)
           /\ e = [w EXCEPT !.conv.state = "AWAITING_QUOTE", !.conv.pay = "QUOTE"]
        \/ /\ Positive(w.conv.total) \/ (IsBooking(w, b) /\ w.book[b].priced)
           /\ \E r \in IF force THEN Replace(w, b) ELSE Initiate(w, b) :
                 e = IF r.cutoff THEN r.desk
                     ELSE [r.desk EXCEPT !.conv.state = "WAITING_PAYMENT", !.conv.pay = "PENDING"]
    <3> DEFINE quote == [w EXCEPT !.conv.state = "AWAITING_QUOTE", !.conv.pay = "QUOTE"]
               sent == {IF r.cutoff THEN r.desk
                        ELSE [r.desk EXCEPT !.conv.state = "WAITING_PAYMENT", !.conv.pay = "PENDING"] :
                           r \in IF force THEN Replace(w, b) ELSE Initiate(w, b)}
               late == w.conv.category = "airport" /\ ~w.conv.meta.later /\ IsBooking(w, b)
               free == ~Positive(w.conv.total) /\ ~(IsBooking(w, b) /\ w.book[b].priced)
    <3>1. e \in (IF late THEN {w} ELSE {}) \cup (IF free THEN {quote} ELSE sent)
      BY <1>6 DEF Issue
    <3>2. (late /\ e = w) \/ (free /\ e = quote) \/ (~free /\ e \in sent)
      <4> HIDE DEF quote, sent
      <4> QED
        BY <3>1
    <3>3. CASE late /\ e = w
      BY <3>3
    <3>4. CASE free /\ e = quote
      BY <3>4
    <3>5. CASE ~free /\ e \in sent
      BY <3>5
    <3> QED
      BY <3>2, <3>3, <3>4, <3>5
  <2>2. CASE e = w /\ w.conv.category = "airport"
    BY <1>2, <2>2 DEF Restates, Unsold
  <2>3. CASE e = [w EXCEPT !.conv.state = "AWAITING_QUOTE", !.conv.pay = "QUOTE"]
    <3>1. ResultOK(w, Result(w, 0))
      BY KeptSame DEF ResultOK, Result
    <3> QED
      BY <1>1, <1>3, <2>3, <3>1 DEF Restates
  <2>4. CASE /\ Positive(w.conv.total) \/ (IsBooking(w, b) /\ w.book[b].priced)
             /\ \E r \in IF force THEN Replace(w, b) ELSE Initiate(w, b) :
                   e = IF r.cutoff THEN r.desk
                       ELSE [r.desk EXCEPT !.conv.state = "WAITING_PAYMENT", !.conv.pay = "PENDING"]
    <3>1. Sellable
      BY <2>4 DEF Unsold, BookingIs
    <3>2. PICK r \in IF force THEN Replace(w, b) ELSE Initiate(w, b) :
             e = IF r.cutoff THEN r.desk
                 ELSE [r.desk EXCEPT !.conv.state = "WAITING_PAYMENT", !.conv.pay = "PENDING"]
      BY <2>4
    <3>3. ResultOK(w, r)
      <4>1. CASE force
        BY <1>1, <3>1, <4>1, ReplaceOK
      <4>2. CASE ~force
        BY <1>1, <3>1, <4>2, InitiateOK
      <4> QED
        BY <4>1, <4>2
    <3>4. CASE r.cutoff
      BY <3>1, <3>2, <3>3, <3>4 DEF ResultOK, DeskKept, Restates
    <3>5. CASE ~r.cutoff
      <4> DEFINE d == r.desk
      <4>1. ResultOK(w, Result(d, 0))
        BY <3>3 DEF ResultOK, Result
      <4>2. e = [d EXCEPT !.conv.state = "WAITING_PAYMENT", !.conv.pay = "PENDING"]
        BY <3>2, <3>5
      <4> HIDE DEF d
      <4>3. DeskOK(e) /\ LinksKept(w, e) /\ e.conv = Stated(w.conv, "WAITING_PAYMENT", "PENDING")
        BY <1>1, <1>3, <4>1, <4>2
      <4> QED
        BY <3>1, <4>3 DEF Restates
    <3> QED
      BY <3>4, <3>5
  <2> QED
    BY <2>1, <2>2, <2>3, <2>4
<1> QED
  BY <1>4, <1>5, <1>6

SameChoices(c, d) ==
    /\ d.category = c.category /\ d.meta = c.meta /\ d.airport = c.airport /\ d.total = c.total
    /\ d.pax = c.pax /\ d.flight = c.flight

\* The conversation goes on with the same bookings.
LEMMA TrackedOn ==
    ASSUME NEW w, NEW e, Tracked(w),
           e.book = w.book, e.conv.ref = w.conv.ref, e.conv.draft = w.conv.draft,
           e.conv.state \notin Waiting /\ ~Swept(e.conv) => ~BookingIs(w, w.conv.draft, "PENDING"),
           e.conv.state = "COMPLETED" =>
              BookingIs(w, w.conv.ref, "CONFIRMED") \/ BookingIs(w, w.conv.draft, "CONFIRMED")
    PROVE  Tracked(e)
BY SameHand DEF Tracked

\* A confirmed request that the conversation refers to is not a waiting draft.
LEMMA ConfirmedRef ==
    ASSUME NEW w, DeskOK(w), Tracked(w), BookingIs(w, w.conv.ref, "CONFIRMED")
    PROVE  ~BookingIs(w, w.conv.draft, "PENDING")
<1>1. w.conv.draft = w.conv.ref
  BY NobodysBooking DEF Tracked, BookingIs, IsBooking
<1> QED
  BY <1>1 DEF BookingIs

\* ... and everything the conversation keeps.
LEMMA IssueHand ==
    ASSUME NEW w, DeskOK(w), ChoiceOK(w.conv), Unsold(w), Tracked(w),
           w.conv.state \in {"BOOKING_REVIEW", "WAITING_PAYMENT"},
           NEW force \in BOOLEAN, NEW e \in Issue(w, force)
    PROVE  HandOK(e) /\ LinksKept(w, e) /\ SameChoices(w.conv, e.conv)
<1> DEFINE b == w.conv.ref
           Sellable == BookingIs(w, b, "PENDING") => w.book[b].priced
<1>1. DeskOK(e) /\ LinksKept(w, e) /\ Restates(w, e) /\ e.book = w.book
  BY IssueOK DEF LinksKept
<1>2. w.conv \in Conversation
  BY DEF DeskOK, World
<1>3. ASSUME e.conv = w.conv, Sellable
      PROVE  HandOK(e) /\ SameChoices(w.conv, e.conv)
  <2>1. Tracked(e)
    BY <1>1, <1>3, TrackedOn DEF Tracked
  <2>2. QuoteAwaited(e)
    BY <1>1, <1>3, SameHand DEF QuoteAwaited
  <2> QED
    BY <1>1, <1>3, <2>1, <2>2 DEF HandOK, SameChoices
<1>4. ASSUME NEW st \in {"COMPLETED", "AWAITING_QUOTE", "WAITING_PAYMENT"},
             NEW p \in {"PENDING", "SUCCESSFUL", "QUOTE"},
             e.conv = Stated(w.conv, st, p),
             st = "COMPLETED" => BookingIs(w, b, "CONFIRMED"),
             st = "WAITING_PAYMENT" => Sellable
      PROVE  HandOK(e) /\ SameChoices(w.conv, e.conv)
  <2>1. st \in Parked /\ p \in PayStatus
    BY DEF Parked, PayStatus
  <2>2. /\ ChoiceOK(e.conv) /\ SameChoices(w.conv, e.conv)
        /\ e.conv.state = st /\ e.conv.ref = b /\ e.conv.draft = w.conv.draft
    BY <1>2, <1>4, <2>1, StatedOK DEF SameChoices
  <2>3. st \notin Waiting => ~BookingIs(w, w.conv.draft, "PENDING")
    BY <1>4, ConfirmedRef DEF Waiting
  <2>4. Tracked(e)
    BY <1>1, <1>4, <2>2, <2>3, TrackedOn
  <2>5. QuoteAwaited(e)
    <3>1. CASE st = "COMPLETED"
      BY <1>1, <1>4, <2>2, <3>1, SameHand DEF QuoteAwaited, BookingIs
    <3>2. CASE st = "WAITING_PAYMENT"
      BY <1>1, <1>4, <2>2, <3>2, SameHand DEF QuoteAwaited
    <3>3. CASE st = "AWAITING_QUOTE"
      BY <2>2, <3>3 DEF QuoteAwaited
    <3> QED
      BY <3>1, <3>2, <3>3
  <2> QED
    BY <1>1, <2>2, <2>4, <2>5 DEF HandOK
<1>5. CASE e.conv = w.conv /\ Sellable
  BY <1>1, <1>3, <1>5
<1>6. CASE e.conv = Stated(w.conv, "COMPLETED", "SUCCESSFUL") /\ BookingIs(w, b, "CONFIRMED")
  BY <1>1, <1>4, <1>6
<1>7. CASE e.conv = Stated(w.conv, "AWAITING_QUOTE", "QUOTE")
  BY <1>1, <1>4, <1>7
<1>8. CASE e.conv = Stated(w.conv, "WAITING_PAYMENT", "PENDING") /\ Sellable
  BY <1>1, <1>4, <1>8
<1> QED
  BY <1>1, <1>5, <1>6, <1>7, <1>8 DEF Restates

\* A payment of one of its bookings completes the conversation.
LEMMA PaidHand ==
    ASSUME NEW w, HandOK(w), NEW b \in {w.conv.ref, w.conv.draft}, BookingIs(w, b, "CONFIRMED")
    PROVE  HandOK(Paid(w)) /\ Paid(w).book = w.book /\ Paid(w).link = w.link
<1> DEFINE c == Stated(w.conv, "COMPLETED", "SUCCESSFUL")
           e == [w EXCEPT !.conv = c]
<1>1. w \in World /\ w.conv \in Conversation /\ DeskOK(w) /\ ChoiceOK(w.conv) /\ Tracked(w)
  BY DEF HandOK, DeskOK, World
<1>2. Paid(w) = e
  BY <1>1 DEF Paid, World, Stated
<1>3. "COMPLETED" \in Parked /\ "SUCCESSFUL" \in PayStatus
  BY DEF Parked, PayStatus
<1>4. /\ c \in Conversation /\ ChoiceOK(c) /\ c.state = "COMPLETED"
      /\ c.ref = w.conv.ref /\ c.draft = w.conv.draft
  BY <1>1, <1>3, StatedOK
<1> HIDE DEF c
<1>5. DeskOK(e) /\ e.conv = c /\ e.tx = w.tx /\ e.link = w.link /\ e.book = w.book
  BY <1>1, <1>4, ConvOnly
<1> HIDE DEF e
<1>6. ~BookingIs(w, w.conv.draft, "PENDING")
  <2>1. CASE b = w.conv.ref
    BY <1>1, <2>1, ConfirmedRef
  <2>2. CASE b = w.conv.draft
    BY <2>2 DEF BookingIs
  <2> QED
    BY <2>1, <2>2
<1>7. ~BookingIs(w, w.conv.ref, "PENDING")
  <2>1. CASE b = w.conv.ref
    BY <2>1 DEF BookingIs
  <2>2. CASE b = w.conv.draft
    BY <1>1, <2>2 DEF BookingIs, IsBooking, Tracked
  <2> QED
    BY <2>1, <2>2
<1>8. Tracked(e)
  BY <1>1, <1>4, <1>5, <1>6, TrackedOn
<1>9. QuoteAwaited(e)
  BY <1>4, <1>5, <1>7, SameHand DEF QuoteAwaited
<1> QED
  BY <1>2, <1>4, <1>5, <1>8, <1>9 DEF HandOK

\* A settlement keeps what the conversation knows.
LEMMA PaidForHand ==
    ASSUME NEW w, HandOK(w), NEW e, NEW l, PaidFor(w, e, l)
    PROVE  HandOK(e) /\ DOMAIN e.book = DOMAIN w.book
<1> DEFINE b == w.link[l].of
           z == Marked(w.book, b, "CONFIRMED")
<1>1. /\ w.book \in Seq(BookingRow) /\ "CONFIRMED" \in BookingStatus /\ DeskOK(w) /\ ChoiceOK(w.conv)
      /\ Tracked(w) /\ QuoteAwaited(w)
  BY DEF HandOK, DeskOK, World, BookingStatus
<1>2. /\ DOMAIN e.book = DOMAIN w.book
      /\ \A k \in DOMAIN w.book :
            /\ e.book[k].kind = w.book[k].kind /\ e.book[k].priced = w.book[k].priced
            /\ e.book[k].status \in {w.book[k].status, "CONFIRMED"}
  <2>1. CASE e.book = w.book
    BY <2>1
  <2>2. CASE e.book = z
    <3>1. /\ SameShape(w.book, z) /\ DOMAIN z = DOMAIN w.book
          /\ \A k \in DOMAIN w.book : z[k].status = IF k = b THEN "CONFIRMED" ELSE w.book[k].status
      BY <1>1, BookMarked
    <3> HIDE DEF z, b
    <3> QED
      BY <2>2, <3>1 DEF SameShape
  <2> QED
    BY <2>1, <2>2 DEF PaidFor
<1>3. /\ DeskOK(e) /\ e.conv = w.conv /\ BookingIs(e, b, "CONFIRMED")
  BY DEF PaidFor
<1> HIDE DEF b
<1>4. \A k : /\ BookingIs(e, k, "PENDING") => BookingIs(w, k, "PENDING")
             /\ BookingIs(w, k, "CONFIRMED") => BookingIs(e, k, "CONFIRMED")
  BY <1>2 DEF BookingIs, IsBooking
<1>5. Len(e.book) = Len(w.book) /\ DOMAIN w.book = 1 .. Len(w.book) /\ Len(w.book) \in Nat
  <2>1. w.book \in Seq(BookingRow) /\ e.book \in Seq(BookingRow)
    BY <1>1, <1>3 DEF DeskOK, World
  <2> QED
    BY <1>2, <2>1, LenProperties
<1>6. Tracked(e)
  <2>1. /\ e.conv.ref \in 0 .. Len(e.book) /\ e.conv.draft \in 0 .. Len(e.book)
        /\ e.conv.ref = 0 => e.conv.draft = 0
    BY <1>1, <1>3, <1>5 DEF Tracked
  <2>2. e.conv.draft = e.conv.ref \/ (e.conv.ref # 0 /\ e.book[e.conv.ref].kind = "charter")
    BY <1>1, <1>2, <1>3, <1>5 DEF Tracked
  <2>3. e.conv.state \notin Waiting /\ ~Swept(e.conv) => ~BookingIs(e, e.conv.draft, "PENDING")
    BY <1>1, <1>3, <1>4 DEF Tracked
  <2>4. \A k \in DOMAIN e.book : BookingIs(e, k, "PENDING") => k = e.conv.draft
    BY <1>1, <1>2, <1>3, <1>4 DEF Tracked
  <2>5. e.conv.state = "COMPLETED" =>
           BookingIs(e, e.conv.ref, "CONFIRMED") \/ BookingIs(e, e.conv.draft, "CONFIRMED")
    BY <1>1, <1>3, <1>4 DEF Tracked
  <2> QED
    BY <2>1, <2>2, <2>3, <2>4, <2>5 DEF Tracked
<1>7. QuoteAwaited(e)
  BY <1>1, <1>2, <1>3, <1>4 DEF QuoteAwaited, BookingIs, IsBooking
<1> QED
  BY <1>1, <1>2, <1>3, <1>6, <1>7 DEF HandOK

\* An operation on links and rows keeps it too.
LEMMA KeptHand ==
    ASSUME NEW w, HandOK(w), NEW e, DeskOK(e), DeskKept(w, e)
    PROVE  HandOK(e)
<1>1. e.conv = w.conv /\ e.book = w.book /\ Tracked(w) /\ QuoteAwaited(w) /\ ChoiceOK(w.conv)
  BY DEF DeskKept, LinksKept, HandOK
<1>2. Tracked(e)
  BY <1>1, TrackedOn DEF Tracked
<1>3. QuoteAwaited(e)
  BY <1>1, SameHand DEF QuoteAwaited
<1> QED
  BY <1>1, <1>2, <1>3 DEF HandOK

\* The event of a link's end asks its customer to pay again.
LEMMA EndedHand ==
    ASSUME NEW w, HandOK(w), NEW b \in {w.conv.ref, w.conv.draft}, IsBooking(w, b), w.book[b].priced,
           NEW p \in {"EXPIRED", "CANCELLED"}
    PROVE  LET e == [w EXCEPT !.conv.state = "WAITING_PAYMENT", !.conv.pay = p] IN
           HandOK(e) /\ e.book = w.book /\ e.link = w.link
<1> DEFINE c == Stated(w.conv, "WAITING_PAYMENT", p)
           e == [w EXCEPT !.conv = c]
<1>1. w \in World /\ w.conv \in Conversation /\ DeskOK(w) /\ ChoiceOK(w.conv) /\ Tracked(w)
  BY DEF HandOK, DeskOK, World
<1>2. [w EXCEPT !.conv.state = "WAITING_PAYMENT", !.conv.pay = p] = e
  BY <1>1 DEF World, Stated
<1>3. "WAITING_PAYMENT" \in Parked /\ p \in PayStatus
  BY DEF Parked, PayStatus
<1>4. /\ c \in Conversation /\ ChoiceOK(c) /\ c.state = "WAITING_PAYMENT"
      /\ c.ref = w.conv.ref /\ c.draft = w.conv.draft
  BY <1>1, <1>3, StatedOK
<1> HIDE DEF c
<1>5. DeskOK(e) /\ e.conv = c /\ e.tx = w.tx /\ e.link = w.link /\ e.book = w.book
  BY <1>1, <1>4, ConvOnly
<1> HIDE DEF e
<1>6. BookingIs(w, w.conv.ref, "PENDING") => w.book[w.conv.ref].priced
  <2>1. CASE b = w.conv.ref
    BY <2>1
  <2>2. CASE b = w.conv.draft
    BY <1>1, <2>2 DEF BookingIs, IsBooking, Tracked
  <2> QED
    BY <2>1, <2>2
<1>7. Tracked(e)
  BY <1>1, <1>4, <1>5, TrackedOn DEF Waiting
<1>8. QuoteAwaited(e)
  BY <1>4, <1>5, <1>6, SameHand DEF QuoteAwaited
<1> QED
  BY <1>2, <1>4, <1>5, <1>7, <1>8 DEF HandOK

-----------------------------------------------------------------------------
(* Requests withdrawn and made.                                            *)

\* The requests of z that wait may be withdrawn.
WithdrawnTo(z, y) ==
    \A k \in DOMAIN z : \/ y[k].status = z[k].status
                        \/ z[k].status = "PENDING" /\ y[k].status = "CANCELLED"
Made(z, y) ==
    /\ DOMAIN y = 1 .. Len(z) + 1 /\ WithdrawnTo(z, y)
    /\ y[Len(z) + 1].status = "PENDING"

\* A cancelled booking was waiting, and waits no more.
LEMMA CancelledWithdraws ==
    ASSUME NEW w, DeskOK(w), NEW b
    PROVE  LET e == Cancelled(w, b) IN
           /\ DOMAIN e.book = DOMAIN w.book /\ WithdrawnTo(w.book, e.book)
           /\ ~BookingIs(e, b, "PENDING")
           /\ \A k : BookingIs(e, k, "PENDING") => BookingIs(w, k, "PENDING")
<1> DEFINE e == Cancelled(w, b)
           z == Marked(w.book, b, "CANCELLED")
<1>1. w.book \in Seq(BookingRow) /\ "CANCELLED" \in BookingStatus
  BY DEF DeskOK, World, BookingStatus
<1>2. /\ SameShape(w.book, z) /\ DOMAIN z = DOMAIN w.book
      /\ \A k \in DOMAIN w.book : z[k].status = IF k = b THEN "CANCELLED" ELSE w.book[k].status
  BY <1>1, BookMarked
<1>3. (BookingIs(w, b, "PENDING") /\ e.book = z) \/ (~BookingIs(w, b, "PENDING") /\ e.book = w.book)
  BY CancelledOK
<1> HIDE DEF e, z
<1>4. CASE BookingIs(w, b, "PENDING") /\ e.book = z
  BY <1>2, <1>4 DEF e, z, WithdrawnTo, BookingIs, IsBooking, SameShape
<1>5. CASE ~BookingIs(w, b, "PENDING") /\ e.book = w.book
  BY <1>5 DEF e, WithdrawnTo, BookingIs, IsBooking
<1> QED
  BY <1>3, <1>4, <1>5 DEF e

\* After a reset nothing is in hand, and nothing waits any more.
LEMMA ResetHand ==
    ASSUME NEW w, DeskOK(w),
           \A b \in DOMAIN w.book : BookingIs(w, b, "PENDING") => b = w.conv.draft,
           NEW st \in {"START", "CATEGORY_SELECTION", "CANCELLED"}
    PROVE  LET e == Reset(w, st) IN
           /\ HandOK(e) /\ e.link = w.link
           /\ DOMAIN e.book = DOMAIN w.book /\ WithdrawnTo(w.book, e.book)
<1> DEFINE c == Cancelled(w, w.conv.draft)
           f == [Fresh EXCEPT !.state = st]
           e == Reset(w, st)
<1>1. st \in States /\ st \in Parked /\ st # "COMPLETED"
  BY DEF States, Parked
<1>2. /\ DOMAIN c.book = DOMAIN w.book /\ WithdrawnTo(w.book, c.book)
      /\ ~BookingIs(c, w.conv.draft, "PENDING")
      /\ \A k : BookingIs(c, k, "PENDING") => BookingIs(w, k, "PENDING")
  BY CancelledWithdraws
<1> HIDE DEF c
<1>3. DeskOK(e) /\ e.conv = f /\ e.tx = w.tx /\ e.link = w.link /\ e.book = c.book
  BY <1>1, ResetOK DEF c
<1> HIDE DEF e
<1>4. /\ f.state = st /\ f.ref = 0 /\ f.draft = 0
      /\ f.meta = NoDetails
  BY DEF Fresh
<1>5. ChoiceOK(f)
  <2>1. f.meta.check \notin {"verified", "override"}
    BY <1>4 DEF NoDetails
  <2> HIDE DEF f
  <2>2. Chosen(f.state, f.category, f.meta, f.airport, f.total, f.pax, f.flight)
    BY <1>1, <1>4, <2>1, ParkedChosen
  <2> QED
    BY <2>2 DEF ChoiceOK
<1> HIDE DEF f
<1>6. Len(e.book) \in Nat
  BY <1>3, LenProperties DEF DeskOK, World
<1>7. \A b \in DOMAIN e.book : ~BookingIs(e, b, "PENDING")
  BY <1>2, <1>3, SameHand
<1>8. Tracked(e)
  BY <1>1, <1>3, <1>4, <1>6, <1>7, NobodysBooking DEF Tracked
<1>9. QuoteAwaited(e)
  BY <1>3, <1>4, NobodysBooking DEF QuoteAwaited
<1> QED
  BY <1>2, <1>3, <1>5, <1>8, <1>9 DEF HandOK, e

\* A row added to the bookings.
LEMMA BookAdded ==
    ASSUME NEW z \in Seq(BookingRow), NEW row \in BookingRow
    PROVE  LET y == Append(z, row) IN
           /\ y \in Seq(BookingRow) /\ Len(y) = Len(z) + 1 /\ DOMAIN y = 1 .. Len(z) + 1
           /\ DOMAIN z = 1 .. Len(z) /\ Len(z) \in Nat
           /\ \A k \in DOMAIN z : y[k] = z[k]
           /\ y[Len(z) + 1] = row
           /\ SameShape(z, y)
           /\ row.status = "PENDING" => Made(z, y)
<1> DEFINE y == Append(z, row)
<1>1. /\ y \in Seq(BookingRow) /\ Len(y) = Len(z) + 1 /\ DOMAIN y = 1 .. Len(z) + 1
      /\ DOMAIN z = 1 .. Len(z) /\ Len(z) \in Nat
      /\ \A k \in 1 .. Len(z) : y[k] = z[k]
      /\ y[Len(z) + 1] = row
  BY AppendProperties, LenProperties
<1> HIDE DEF y
<1>2. DOMAIN z \subseteq DOMAIN y
  BY <1>1
<1>3. SameShape(z, y)
  BY <1>1, <1>2 DEF SameShape
<1>4. row.status = "PENDING" => Made(z, y)
  BY <1>1 DEF Made, WithdrawnTo
<1> QED
  BY <1>1, <1>3, <1>4 DEF y

\* The amount is a price of the catalogue, and what has an amount keeps it.
LEMMA QuotedOK ==
    ASSUME NEW c \in Conversation
    PROVE  /\ Quoted(c) \in Total
           /\ Positive(c.total) => Quoted(c) = c.total
<1> DEFINE t == TypeOf(Derived(c.meta))
<1>1. t \in {"dom", "intl"}
  <2>1. Derived(c.meta) \in Details
    BY DerivedKeeps, ConversationOK
  <2> QED
    BY <2>1 DEF TypeOf, Details
<1> HIDE DEF t
<1>2. Sold(c.airport, t) => Times(Priced(c.airport, t), c.pax) \in Total
  BY <1>1, Amounts, Prices, ConversationOK DEF Sold
<1>3. Quoted(c) = IF ~Positive(c.total) /\ Sold(c.airport, t)
                  THEN Times(Priced(c.airport, t), c.pax) ELSE c.total
  BY DEF Quoted, t
<1>4. c.total \in Total
  BY ConversationOK
<1> QED
  BY <1>2, <1>3, <1>4

\* The conversation whose request has just been made.
Requested(c, b, total) ==
    [c EXCEPT !.ref = b, !.draft = b, !.total = total, !.pay = "PENDING", !.state = "WAITING_PAYMENT"]

\* A conversation whose request was just created.
LEMMA RequestedOK ==
    ASSUME NEW c \in Conversation, ChoiceOK(c), NEW b \in 0 .. MaxBooking, NEW total \in Total
    PROVE  LET e == Requested(c, b, total) IN
           /\ e \in Conversation /\ ChoiceOK(e) /\ e.state = "WAITING_PAYMENT"
           /\ e.ref = b /\ e.draft = b /\ e.total = total /\ e.category = c.category
           /\ e.meta = c.meta /\ e.airport = c.airport /\ e.pax = c.pax /\ e.flight = c.flight
<1> DEFINE e == Requested(c, b, total)
<1>1. e \in Conversation
  <2>1. "WAITING_PAYMENT" \in States
    BY DEF States
  <2> QED
    BY <2>1 DEF Requested, Conversation, Total
<1>2. /\ e.state = "WAITING_PAYMENT"
      /\ e.ref = b /\ e.draft = b /\ e.total = total /\ e.category = c.category
      /\ e.meta = c.meta /\ e.airport = c.airport /\ e.pax = c.pax /\ e.flight = c.flight
  BY DEF Requested, Conversation
<1> HIDE DEF e
<1>3. ChoiceOK(e)
  <2>1. e.meta.check \in {"verified", "override"} =>
           e.flight \in {NoFlight, e.meta.route} \/ e.meta.route = NoFlight
    BY <1>2 DEF ChoiceOK, Chosen
  <2>2. e.state \in Parked
    BY <1>2 DEF Parked
  <2>3. Chosen(e.state, e.category, e.meta, e.airport, e.total, e.pax, e.flight)
    BY <2>1, <2>2, ParkedChosen
  <2> QED
    BY <2>3 DEF ChoiceOK
<1> QED
  BY <1>1, <1>2, <1>3 DEF e

\* A summary of an airport service shows a price.
LEMMA ReviewPriced ==
    ASSUME NEW c \in Conversation, ChoiceOK(c), c.state = "BOOKING_REVIEW", c.category = "airport"
    PROVE  Positive(c.total) /\ c.total = Times(c.meta.unit, c.pax) /\ PackagePriced(c.meta, c.airport)
<1>1. c.total = Times(c.meta.unit, c.pax) /\ PackagePriced(c.meta, c.airport)
  BY DEF ChoiceOK, Chosen, PackageKnown
<1>2. c.meta.unit \in UnitPrice /\ c.pax \in 0 .. 2
  BY ConversationOK
<1> QED
  BY <1>1, <1>2, Amounts DEF PackagePriced

\* The customer's earlier drafts are cancelled and a new booking is made.
LEMMA CreatedHand ==
    ASSUME NEW w, HandOK(w), w.conv.ref = 0, Len(w.book) < MaxBooking,
           w.conv.state = "BOOKING_REVIEW"
    PROVE  LET e == Created(w) IN
           /\ DeskOK(e) /\ ChoiceOK(e.conv) /\ Unsold(e) /\ Tracked(e)
           /\ e.conv.state = "WAITING_PAYMENT" /\ e.link = w.link
           /\ Made(w.book, e.book)
           /\ e.conv.meta = w.conv.meta /\ e.conv.airport = w.conv.airport /\ e.conv.pax = w.conv.pax
           /\ e.conv.flight = w.conv.flight
           /\ w.conv.category = "airport" => e.conv.total = w.conv.total
<1> DEFINE c == w.conv
           n == Len(w.book)
           row == [kind |-> "booking", status |-> "PENDING", priced |-> Positive(Quoted(c)),
                   later |-> c.meta.later]
           x == [k \in DOMAIN w.book |-> IF k \in Stale(w) THEN [w.book[k] EXCEPT !.status = "CANCELLED"]
                                         ELSE w.book[k]]
           y == Append(x, row)
           q == Requested(c, n + 1, Quoted(c))
           e == [[w EXCEPT !.book = y] EXCEPT !.conv = q]
<1>1. /\ w \in World /\ w.book \in Seq(BookingRow) /\ c \in Conversation /\ DeskOK(w) /\ ChoiceOK(c)
      /\ Tracked(w)
  BY DEF HandOK, DeskOK, World
<1>2. n \in Nat /\ DOMAIN w.book = 1 .. n /\ n + 1 \in 0 .. MaxBooking
  <2>1. n \in Nat /\ DOMAIN w.book = 1 .. n /\ n < MaxBooking
    BY <1>1, LenProperties
  <2> QED
    BY <2>1, CatalogueAssumption
<1>3. row \in BookingRow /\ row.status = "PENDING" /\ row.kind = "booking" /\ row.priced = Positive(Quoted(c))
  <2>1. c.meta.later \in BOOLEAN
    <3>1. c.meta \in Details
      BY <1>1, ConversationOK
    <3> QED
      BY <3>1 DEF Details
  <2>2. Positive(Quoted(c)) \in BOOLEAN
    BY DEF Positive
  <2>3. "PENDING" \in BookingStatus
    BY DEF BookingStatus
  <2> QED
    BY <2>1, <2>2, <2>3 DEF BookingRow
<1>4. \A k \in DOMAIN w.book : /\ x[k] \in BookingRow /\ x[k].kind = w.book[k].kind
                               /\ x[k].priced = w.book[k].priced
                               /\ \/ x[k].status = w.book[k].status
                                  \/ w.book[k].status = "PENDING" /\ x[k].status = "CANCELLED"
  <2> SUFFICES ASSUME NEW k \in DOMAIN w.book
               PROVE  /\ x[k] \in BookingRow /\ x[k].kind = w.book[k].kind
                      /\ x[k].priced = w.book[k].priced
                      /\ \/ x[k].status = w.book[k].status
                         \/ w.book[k].status = "PENDING" /\ x[k].status = "CANCELLED"
    OBVIOUS
  <2>1. w.book[k] \in BookingRow
    BY <1>1, ElementOfSeq
  <2>2. CASE k \in Stale(w)
    <3>1. w.book[k].status = "PENDING"
      BY <2>2 DEF Stale, BookingIs
    <3>2. x[k] = [w.book[k] EXCEPT !.status = "CANCELLED"]
      BY <2>2
    <3> HIDE DEF x
    <3> QED
      BY <2>1, <3>1, <3>2 DEF BookingRow, BookingStatus
  <2>3. CASE k \notin Stale(w)
    <3>1. x[k] = w.book[k]
      BY <2>3
    <3> HIDE DEF x
    <3> QED
      BY <2>1, <3>1
  <2> QED
    BY <2>2, <2>3
<1>5. x \in Seq(BookingRow) /\ Len(x) = n /\ DOMAIN x = DOMAIN w.book
  <2>1. x = [k \in 1 .. n |-> x[k]] /\ DOMAIN x = DOMAIN w.book
    BY <1>2
  <2> HIDE DEF x
  <2>2. x \in Seq(BookingRow)
    BY <1>2, <1>4, <2>1, IsASeq
  <2> QED
    BY <1>2, <2>1, <2>2, LenProperties
<1>6. ~BookingIs(w, c.draft, "PENDING")
  BY <1>1, NobodysBooking DEF Tracked
<1>7. Created(w) = e
  <2>1. Created(w) = [w EXCEPT !.book = Append([k \in DOMAIN @ |-> IF k \in Stale(w)
                                       THEN [@[k] EXCEPT !.status = "CANCELLED"] ELSE @[k]], row),
              !.conv = [@ EXCEPT !.ref = n + 1, !.draft = n + 1, !.total = Quoted(c), !.pay = "PENDING",
                                 !.state = "WAITING_PAYMENT"]]
    BY <1>6 DEF Created
  <2> HIDE DEF row
  <2> QED
    BY <1>1, <2>1 DEF World, Requested
<1> HIDE DEF x, row, n
<1>8. /\ y \in Seq(BookingRow) /\ Len(y) = n + 1 /\ DOMAIN y = 1 .. n + 1
      /\ \A k \in DOMAIN w.book : y[k] = x[k]
      /\ y[n + 1] = row
  BY <1>3, <1>5, BookAdded
<1> HIDE DEF y
<1>9. SameShape(w.book, y)
  <2>1. DOMAIN w.book \subseteq DOMAIN y
    BY <1>2, <1>8
  <2> QED
    BY <1>4, <1>8, <2>1 DEF SameShape
<1>10. Made(w.book, y)
  BY <1>3, <1>4, <1>8 DEF Made, WithdrawnTo, n
<1>11. Quoted(c) \in Total
  BY <1>1, QuotedOK
<1>12. /\ q \in Conversation /\ ChoiceOK(q) /\ q.state = "WAITING_PAYMENT"
       /\ q.ref = n + 1 /\ q.draft = n + 1 /\ q.total = Quoted(c) /\ q.category = c.category
       /\ q.meta = c.meta /\ q.airport = c.airport /\ q.pax = c.pax /\ q.flight = c.flight
  BY <1>1, <1>2, <1>11, RequestedOK
<1> HIDE DEF q
<1>13. DeskOK(e) /\ e.conv = q /\ e.link = w.link /\ e.book = y
  <2> DEFINE v == [w EXCEPT !.book = y]
  <2>1. DeskOK(v) /\ v.link = w.link /\ v.book = y
    BY <1>1, <1>9, BooksOnly
  <2> HIDE DEF v
  <2>2. LET u == [v EXCEPT !.conv = q] IN DeskOK(u) /\ u.conv = q /\ u.link = v.link /\ u.book = v.book
    BY <1>12, <2>1, ConvOnly
  <2> QED
    BY <2>1, <2>2 DEF v
<1> HIDE DEF e
<1>14. c.category = "airport" => Positive(c.total) /\ Quoted(c) = c.total
  BY <1>1, ReviewPriced, QuotedOK
<1>15. Unsold(e)
  BY <1>3, <1>8, <1>12, <1>13, <1>14 DEF Unsold
<1>16. Tracked(e)
  <2>1. \A b \in DOMAIN e.book : BookingIs(e, b, "PENDING") => b = n + 1
    <3> SUFFICES ASSUME NEW b \in DOMAIN e.book, BookingIs(e, b, "PENDING"), b # n + 1
                 PROVE  FALSE
      OBVIOUS
    <3>1. b \in DOMAIN w.book
      BY <1>2, <1>8, <1>13
    <3>2. BookingIs(w, b, "PENDING")
      BY <1>4, <1>8, <1>13, <3>1 DEF BookingIs, IsBooking
    <3>3. b = 0
      BY <1>1, <3>1, <3>2 DEF Tracked
    <3> QED
      BY <1>2, <3>1, <3>3
  <2>2. n + 1 \in 0 .. Len(e.book) /\ n + 1 # 0
    BY <1>2, <1>8, <1>13
  <2> QED
    BY <1>12, <1>13, <2>1, <2>2 DEF Tracked, Waiting
<1> QED
  BY <1>7, <1>10, <1>12, <1>13, <1>14, <1>15, <1>16

-----------------------------------------------------------------------------
(* Steps.                                                                  *)

DialogueInv == HandOK(world)

Reached(w) == conv' = w.conv /\ book' = w.book /\ tx' = w.tx /\ link' = w.link

Statuses(z) == [b \in DOMAIN z |-> z[b].status]
PaidOf(lk) == {lk[l].of : l \in {k \in DOMAIN lk : lk[k].st = "paid"}}
PromiseStep == Promise!Next \/ UNCHANGED <<Statuses(book), PaidOf(link)>>

SummaryStep == PriceStep /\ FlightStep

\* A step that reaches an orderly desk keeps the invariant.
LEMMA Landed == \A w : Reached(w) /\ HandOK(w) => DialogueInv'
<1> SUFFICES ASSUME NEW w, Reached(w), HandOK(w)
             PROVE  DialogueInv'
  OBVIOUS
<1>1. w \in World
  BY DEF HandOK, DeskOK
<1>2. w = [conv |-> w.conv, book |-> w.book, tx |-> w.tx, link |-> w.link]
  BY <1>1 DEF World
<1>3. world' = w
  BY <1>2 DEF world, Reached
<1> QED
  BY <1>3 DEF DialogueInv

\* What the invariant says of the present state.
LEMMA Now ==
    ASSUME DialogueInv
    PROVE  /\ DeskOK(world) /\ ChoiceOK(conv) /\ Tracked(world) /\ QuoteAwaited(world)
           /\ conv \in Conversation /\ book \in Seq(BookingRow) /\ link \in Seq(GatewayLink)
           /\ world.conv = conv /\ world.book = book /\ world.tx = tx /\ world.link = link
BY DEF DialogueInv, HandOK, DeskOK, World, world

\* Nothing is booked where no request is made.
LEMMA NothingBooked ==
    ASSUME DialogueInv, DialogueInv', DOMAIN book' = DOMAIN book
    PROVE  SummaryStep
<1>1. book \in Seq(BookingRow) /\ book' \in Seq(BookingRow)
  BY DEF DialogueInv, HandOK, DeskOK, World, world
<1>2. Len(book') = Len(book) /\ Len(book) \in Nat
  BY <1>1, LenProperties
<1>3. Len(book') # Len(book) + 1
  <2> DEFINE n == Len(book)
  <2>1. n \in Nat /\ Len(book') = n
    BY <1>2
  <2> HIDE DEF n
  <2>2. Len(book') # n + 1
    BY <2>1
  <2> QED
    BY <2>2 DEF n
<1>4. ~Booked
  BY <1>3 DEF Booked
<1> QED
  BY <1>4 DEF SummaryStep, PriceStep, FlightStep

\* Withdrawn requests are a step of the promise,
LEMMA PromiseWithdraws ==
    ASSUME DOMAIN book' = DOMAIN book, WithdrawnTo(book, book'), PaidOf(link') = PaidOf(link)
    PROVE  PromiseStep
<1> DEFINE S == {k \in DOMAIN book : book'[k].status # book[k].status}
<1>1. Statuses(book)' = [r \in DOMAIN Statuses(book) |->
          IF r \in S /\ Statuses(book)[r] = "PENDING" THEN "CANCELLED" ELSE Statuses(book)[r]]
  BY DEF Statuses, WithdrawnTo
<1>2. S \in SUBSET DOMAIN Statuses(book)
  BY DEF Statuses
<1> HIDE DEF S
<1>3. Promise!Withdraw
  BY <1>1, <1>2 DEF Promise!Withdraw, Promise!Withdrawn, Statuses, PaidOf
<1> QED
  BY <1>3 DEF PromiseStep, Promise!Next

\* ... so is a request made while others are withdrawn,
LEMMA PromiseMakes ==
    ASSUME book \in Seq(BookingRow), Made(book, book'), PaidOf(link') = PaidOf(link)
    PROVE  PromiseStep
<1> DEFINE n == Len(book)
           S == {k \in DOMAIN book : book'[k].status # book[k].status}
           kept == [r \in DOMAIN Statuses(book) |->
                      IF r \in S /\ Statuses(book)[r] = "PENDING" THEN "CANCELLED" ELSE Statuses(book)[r]]
<1>1. n \in Nat /\ DOMAIN book = 1 .. n /\ \A r \in 1 .. n : book[r].status \in BookingStatus
  <2>1. n \in Nat /\ DOMAIN book = 1 .. n
    BY LenProperties
  <2>2. \A r \in 1 .. n : book[r] \in BookingRow
    BY ElementOfSeq
  <2> QED
    BY <2>1, <2>2 DEF BookingRow
<1>2. kept = [r \in 1 .. n |-> kept[r]] /\ \A r \in 1 .. n : kept[r] \in BookingStatus /\ kept[r] = book'[r].status
  <2>1. DOMAIN Statuses(book) = 1 .. n
    BY <1>1 DEF Statuses
  <2>2. \A r \in 1 .. n : kept[r] \in BookingStatus /\ kept[r] = book'[r].status
    BY <1>1, <2>1 DEF Statuses, Made, WithdrawnTo, BookingStatus
  <2> QED
    BY <2>1, <2>2
<1>3. S \in SUBSET DOMAIN Statuses(book)
  BY DEF Statuses
<1> HIDE DEF kept, S
<1>4. kept \in Seq(BookingStatus) /\ Len(kept) = n
  <2>1. kept \in Seq(BookingStatus)
    BY <1>1, <1>2, IsASeq
  <2>2. DOMAIN kept = 1 .. n
    BY <1>2
  <2> QED
    BY <1>1, <2>1, <2>2, LenProperties
<1>5. Statuses(book)' = Append(kept, "PENDING")
  <2> DEFINE y == Append(kept, "PENDING")
             z == Statuses(book)'
  <2>1. "PENDING" \in BookingStatus
    BY DEF BookingStatus
  <2>2. /\ y \in Seq(BookingStatus) /\ Len(y) = n + 1 /\ DOMAIN y = 1 .. n + 1
        /\ \A i \in 1 .. n : y[i] = kept[i]
        /\ y[n + 1] = "PENDING"
    BY <1>1, <1>4, <2>1, AppendProperties, LenProperties
  <2> HIDE DEF y
  <2>3. DOMAIN z = 1 .. n + 1 /\ \A i \in 1 .. n + 1 : z[i] = book'[i].status
    BY DEF Statuses, Made
  <2>4. y = [i \in 1 .. n + 1 |-> y[i]]
    BY <2>2
  <2>5. z = [i \in 1 .. n + 1 |-> z[i]]
    BY <2>3 DEF Statuses
  <2>6. \A i \in 1 .. n + 1 : i \in 1 .. n \/ i = n + 1
    BY <1>1
  <2>7. \A i \in 1 .. n + 1 : y[i] = z[i]
    BY <1>2, <2>2, <2>3, <2>6 DEF Made
  <2> HIDE DEF z
  <2> QED
    BY <2>4, <2>5, <2>7 DEF y, z
<1>6. Promise!Make
  <2>1. Promise!Withdrawn(S) = kept
    BY DEF Promise!Withdrawn, kept, Statuses
  <2>2. S \in SUBSET DOMAIN [b \in DOMAIN book |-> book[b].status]
    BY <1>3 DEF Statuses
  <2> QED
    BY <1>5, <2>1, <2>2 DEF Promise!Make, Statuses, PaidOf
<1> QED
  BY <1>6 DEF PromiseStep, Promise!Next

\* ... so is a step that touches neither bookings nor payments,
LEMMA PromiseStutters ==
    ASSUME book' = book, PaidOf(link') = PaidOf(link)
    PROVE  PromiseStep
BY DEF PromiseStep, Statuses

\* ... and so is the confirmation of a booking that is paid for.
LEMMA PromiseConfirms ==
    ASSUME book \in Seq(BookingRow), NEW l \in DOMAIN link, link[l].st = "paid", PaidOf(link') = PaidOf(link),
           book' = Marked(book, link[l].of, "CONFIRMED")
    PROVE  PromiseStep
<1> DEFINE b == link[l].of
<1>1. b \in PaidOf(link)
  BY DEF PaidOf
<1> DEFINE z == Marked(book, b, "CONFIRMED")
<1>2. Statuses(book)' = [Statuses(book) EXCEPT ![b] = "CONFIRMED"]
  <2>1. "CONFIRMED" \in BookingStatus
    BY DEF BookingStatus
  <2>2. /\ DOMAIN z = DOMAIN book
        /\ \A k \in DOMAIN book : z[k].status = IF k = b THEN "CONFIRMED" ELSE book[k].status
    BY <2>1, BookMarked
  <2> HIDE DEF z, b
  <2>3. book' = z
    BY DEF z, b
  <2> QED
    BY <2>2, <2>3 DEF Statuses
<1> HIDE DEF b
<1>3. Promise!Confirm
  <2>1. UNCHANGED PaidOf(link)
    OBVIOUS
  <2>2. \E r \in PaidOf(link) : Statuses(book)' = [Statuses(book) EXCEPT ![r] = "CONFIRMED"]
    BY <1>1, <1>2
  <2> QED
    BY <2>1, <2>2 DEF Promise!Confirm, Statuses, PaidOf
<1> QED
  BY <1>3 DEF PromiseStep, Promise!Next

\* Links that are kept are paid as before.
LEMMA PaidKept == \A w, e : LinksKept(w, e) => PaidOf(e.link) = PaidOf(w.link)
<1> SUFFICES ASSUME NEW w, NEW e, LinksKept(w, e)
             PROVE  PaidOf(e.link) = PaidOf(w.link)
  OBVIOUS
<1>1. \A l : l \in DOMAIN e.link /\ e.link[l].st = "paid" <=> l \in DOMAIN w.link /\ w.link[l].st = "paid"
  BY DEF LinksKept
<1>2. \A l \in DOMAIN w.link : e.link[l] = w.link[l]
  BY DEF LinksKept
<1> QED
  BY <1>1, <1>2 DEF PaidOf

Outcome == DialogueInv' /\ SummaryStep /\ PromiseStep

\* A step that leaves the bookings alone and pays no link.
LEMMA QuietOutcome ==
    ASSUME DialogueInv, NEW w, Reached(w), HandOK(w), w.book = book, PaidOf(w.link) = PaidOf(link)
    PROVE  Outcome
<1>1. book' = book /\ PaidOf(link') = PaidOf(link)
  BY DEF Reached
<1> QED
  BY <1>1, Landed, NothingBooked, PromiseStutters DEF Outcome

\* A step that withdraws requests and pays no link.
LEMMA WithdrawOutcome ==
    ASSUME DialogueInv, NEW w, Reached(w), HandOK(w), DOMAIN w.book = DOMAIN book,
           WithdrawnTo(book, w.book), w.link = link
    PROVE  Outcome
<1>1. DOMAIN book' = DOMAIN book /\ WithdrawnTo(book, book') /\ PaidOf(link') = PaidOf(link)
  BY DEF Reached
<1> QED
  BY <1>1, Landed, NothingBooked, PromiseWithdraws DEF Outcome

\* A step of the customer that starts anew.
LEMMA ResetStep ==
    ASSUME DialogueInv, NEW st \in {"START", "CATEGORY_SELECTION", "CANCELLED"}, Become(Reset(world, st))
    PROVE  Outcome
<1> DEFINE e == Reset(world, st)
<1>1. Reached(e)
  BY DEF Become, Reached
<1>2. \A b \in DOMAIN world.book : BookingIs(world, b, "PENDING") => b = world.conv.draft
  BY Now DEF Tracked
<1>3. /\ HandOK(e) /\ e.link = world.link
      /\ DOMAIN e.book = DOMAIN world.book /\ WithdrawnTo(world.book, e.book)
  BY <1>2, Now, ResetHand
<1> HIDE DEF e
<1> QED
  BY <1>1, <1>3, Now, WithdrawOutcome

\* A customer who comes back after the session expired.
LEMMA RestartExpiredStep == DialogueInv /\ RestartExpired => Outcome
<1> SUFFICES ASSUME DialogueInv, RestartExpired
             PROVE  Outcome
  OBVIOUS
<1> DEFINE c == Cancelled(world, conv.ref)
           e == Reset(c, "CATEGORY_SELECTION")
<1>1. Reached(e)
  BY DEF RestartExpired, Become, Reached
<1>2. /\ DeskOK(c) /\ c.conv = conv /\ c.link = link
      /\ DOMAIN c.book = DOMAIN book /\ WithdrawnTo(book, c.book)
      /\ \A k : BookingIs(c, k, "PENDING") => BookingIs(world, k, "PENDING")
  BY Now, CancelledOK, CancelledWithdraws
<1>3. \A b \in DOMAIN c.book : BookingIs(c, b, "PENDING") => b = c.conv.draft
  BY <1>2, Now DEF Tracked
<1> HIDE DEF c
<1>4. /\ HandOK(e) /\ e.link = c.link
      /\ DOMAIN e.book = DOMAIN c.book /\ WithdrawnTo(c.book, e.book)
  BY <1>2, <1>3, ResetHand
<1> HIDE DEF e
<1>5. WithdrawnTo(book, e.book)
  BY <1>2, <1>4 DEF WithdrawnTo
<1> QED
  BY <1>1, <1>2, <1>4, <1>5, WithdrawOutcome

\* Restart, cancel and the greeting.
LEMMA InterruptStep ==
    DialogueInv /\ (Restart \/ Cancel \/ SessionExpires
                    \/ (conv.state \in {"START", "CATEGORY_SELECTION"} /\ Become(Reset(world, "CATEGORY_SELECTION"))))
        => Outcome
BY ResetStep DEF Restart, Cancel, SessionExpires

\* A message that only moves the conversation.
LEMMA SpokenStep == DialogueInv /\ ~Swept(conv) /\ Spoken => Outcome
<1> SUFFICES ASSUME DialogueInv, ~Swept(conv), Spoken
             PROVE  Outcome
  OBVIOUS
<1>1. PICK c : c = conv'
  OBVIOUS
<1>2. /\ c \in Conversation /\ ChoiceOK(c) /\ c.ref = conv.ref /\ c.draft = conv.draft
      /\ conv.state \notin Waiting /\ c.state # "COMPLETED"
      /\ book' = book /\ tx' = tx /\ link' = link
  BY <1>1 DEF Spoken, deskVars
<1> DEFINE e == [world EXCEPT !.conv = c]
<1>3. DeskOK(e) /\ e.conv = c /\ e.tx = tx /\ e.link = link /\ e.book = book
  BY <1>2, Now, ConvOnly
<1> HIDE DEF e
<1>4. Reached(e)
  BY <1>1, <1>2, <1>3 DEF Reached
<1>5. Tracked(e)
  BY <1>2, <1>3, Now, TrackedOn DEF Tracked
<1>6. QuoteAwaited(e)
  <2>1. ~(BookingIs(world, conv.ref, "PENDING") /\ ~book[conv.ref].priced)
    BY <1>2, Now DEF QuoteAwaited, Waiting
  <2> QED
    BY <1>2, <1>3, <2>1, Now, SameHand DEF QuoteAwaited
<1>7. HandOK(e)
  BY <1>2, <1>3, <1>5, <1>6 DEF HandOK
<1> QED
  BY <1>3, <1>4, <1>7, QuietOutcome

-----------------------------------------------------------------------------
(* Requests.                                                               *)

\* The conversation issues the link of its request.
LEMMA IssueStep ==
    ASSUME DialogueInv, NEW w, HandOK(w), w.conv.state \in {"BOOKING_REVIEW", "WAITING_PAYMENT"},
           NEW force \in BOOLEAN, NEW e \in Issue(w, force), Become(e)
    PROVE  HandOK(e) /\ LinksKept(w, e) /\ Reached(e)
<1>1. Reached(e)
  BY DEF Become, Reached
<1>2. Unsold(w)
  BY DEF HandOK, QuoteAwaited, Unsold
<1> QED
  BY <1>1, <1>2, IssueHand DEF HandOK

\* A confirmed summary: what is booked is what was chosen last.
LEMMA ConfirmStep ==
    ASSUME DialogueInv, conv.state = "BOOKING_REVIEW", conv.ref = 0, Len(book) < MaxBooking,
           conv.category = "airport" /\ ~conv.meta.later => Accepted(conv) /\ Consistent(conv),
           NEW e \in Issue(Created(world), FALSE), Become(e)
    PROVE  Outcome
<1> DEFINE w == Created(world)
<1>1. /\ DeskOK(w) /\ ChoiceOK(w.conv) /\ Unsold(w) /\ Tracked(w)
      /\ w.conv.state = "WAITING_PAYMENT" /\ w.link = link
      /\ Made(book, w.book)
      /\ w.conv.meta = conv.meta /\ w.conv.airport = conv.airport /\ w.conv.pax = conv.pax
      /\ w.conv.flight = conv.flight
      /\ conv.category = "airport" => w.conv.total = conv.total
  BY Now, CreatedHand DEF DialogueInv
<1> HIDE DEF w
<1>2. HandOK(e) /\ LinksKept(w, e) /\ SameChoices(w.conv, e.conv)
  <2>1. e \in Issue(w, FALSE)
    BY DEF w
  <2> QED
    BY <1>1, <2>1, IssueHand
<1>3. Reached(e)
  BY DEF Become, Reached
<1>4. DialogueInv'
  BY <1>2, <1>3, Landed
<1>5. PromiseStep
  <2>1. Made(book, book')
    BY <1>1, <1>2, <1>3 DEF LinksKept, Reached
  <2>2. PaidOf(link') = PaidOf(link)
    BY <1>1, <1>2, <1>3, PaidKept DEF Reached
  <2> QED
    BY <2>1, <2>2, Now, PromiseMakes
<1>6. /\ conv'.meta = conv.meta /\ conv'.airport = conv.airport /\ conv'.pax = conv.pax
      /\ conv'.flight = conv.flight
      /\ conv.category = "airport" => conv'.total = conv.total
  BY <1>1, <1>2, <1>3 DEF SameChoices, Reached
<1>7. PriceStep
  <2> SUFFICES ASSUME conv.category = "airport", Sold(conv'.airport, conv'.meta.type)
               PROVE  conv'.total = Times(Priced(conv'.airport, conv'.meta.type), conv'.pax)
    BY DEF PriceStep, Booked
  <2>1. conv.total = Times(conv.meta.unit, conv.pax) /\ PackagePriced(conv.meta, conv.airport)
    BY Now, ReviewPriced
  <2>2. conv.meta.unit = Priced(conv.airport, conv.meta.type)
    BY <1>6, <2>1 DEF PackagePriced
  <2> QED
    BY <1>6, <2>1, <2>2
<1>8. FlightStep
  <2> SUFFICES ASSUME conv.category = "airport", ~conv.meta.later
               PROVE  /\ conv'.flight = conv'.meta.route /\ conv'.flight # NoFlight
                      /\ conv'.meta.check \in {"verified", "override"}
                      /\ conv'.meta.journey = "direct" => conv'.meta.type = RouteType(conv'.flight)
    BY DEF FlightStep, Booked
  <2>1. /\ conv.meta.check \in {"verified", "override"} /\ conv.flight # NoFlight
        /\ conv.meta.route # NoFlight
        /\ conv.meta.journey = "direct" => RouteType(conv.meta.route) = conv.meta.type
    BY DEF Accepted, Consistent
  <2>2. conv.flight = conv.meta.route
    BY <2>1, Now DEF ChoiceOK, Chosen
  <2> QED
    BY <1>6, <2>1, <2>2
<1> QED
  BY <1>4, <1>5, <1>7, <1>8 DEF Outcome, SummaryStep

\* Going on with the request the conversation has.
LEMMA ResendStep ==
    ASSUME DialogueInv, conv.state \in {"BOOKING_REVIEW", "WAITING_PAYMENT"},
           NEW force \in BOOLEAN, NEW e \in Issue(world, force), Become(e)
    PROVE  Outcome
<1>1. HandOK(world) /\ world.conv.state \in {"BOOKING_REVIEW", "WAITING_PAYMENT"}
  BY Now DEF DialogueInv
<1>2. HandOK(e) /\ LinksKept(world, e) /\ Reached(e)
  BY <1>1, IssueStep
<1>3. e.book = book /\ PaidOf(e.link) = PaidOf(link)
  BY <1>2, Now, PaidKept DEF LinksKept
<1> QED
  BY <1>2, <1>3, QuietOutcome

\* A settlement that the conversation asked for or was told of.
LEMMA SettledStep ==
    ASSUME DialogueInv, NEW l, NEW d, PaidFor(world, d, l),
           NEW e, Reached(e), HandOK(e), e.book = d.book, PaidOf(e.link) = PaidOf(d.link)
    PROVE  Outcome
<1>1. /\ l \in DOMAIN link /\ link[l].st = "paid" /\ d.link = link
      /\ (BookingIs(world, link[l].of, "CONFIRMED") /\ d.book = book)
           \/ d.book = Marked(book, link[l].of, "CONFIRMED")
  BY Now DEF PaidFor
<1>2. HandOK(world)
  BY DEF DialogueInv
<1>3. DOMAIN d.book = DOMAIN book
  BY <1>2, Now, PaidForHand
<1>4. DialogueInv'
  BY Landed
<1>5. SummaryStep
  BY <1>3, <1>4, NothingBooked DEF Reached
<1>6. PaidOf(link') = PaidOf(link)
  BY <1>1 DEF Reached
<1>7. PromiseStep
  <2>1. CASE d.book = book
    BY <1>6, <2>1, PromiseStutters DEF Reached
  <2>2. CASE d.book = Marked(book, link[l].of, "CONFIRMED")
    <3>1. book' = Marked(book, link[l].of, "CONFIRMED")
      BY <2>2 DEF Reached
    <3>2. book \in Seq(BookingRow)
      BY Now
    <3> QED
      BY <1>1, <1>6, <3>1, <3>2, PromiseConfirms
  <2> QED
    BY <1>1, <2>1, <2>2
<1> QED
  BY <1>4, <1>5, <1>7 DEF Outcome

\* The gateway's answer, as far as the conversation asks for it.
LEMMA ReconciledHand ==
    ASSUME DialogueInv, NEW d \in Reconcile(world, conv.ref)
    PROVE  /\ HandOK(d) /\ d.conv = conv
           /\ (DeskKept(world, d) /\ d.book = book) \/ \E l : PaidFor(world, d, l)
<1>1. HandOK(world) /\ DeskOK(world)
  BY Now DEF DialogueInv
<1>2. (DeskOK(d) /\ DeskKept(world, d)) \/ \E l \in DOMAIN world.link : PaidFor(world, d, l)
  BY <1>1, ReconcileOK
<1>3. CASE DeskOK(d) /\ DeskKept(world, d)
  <2>1. HandOK(d)
    BY <1>1, <1>3, KeptHand
  <2>2. d.conv = conv /\ d.book = book
    BY <1>3, Now DEF DeskKept, LinksKept
  <2> QED
    BY <1>3, <2>1, <2>2
<1>4. CASE \E l \in DOMAIN world.link : PaidFor(world, d, l)
  <2>1. PICK l : PaidFor(world, d, l)
    BY <1>4
  <2>2. HandOK(d)
    BY <1>1, <2>1, PaidForHand
  <2>3. d.conv = conv
    BY <2>1, Now DEF PaidFor
  <2> QED
    BY <2>1, <2>2, <2>3
<1> QED
  BY <1>2, <1>3, <1>4

\* A message of a customer who waits for a payment.
LEMMA WaitingStep == DialogueInv /\ WaitingMessage => Outcome
<1> SUFFICES ASSUME DialogueInv, WaitingMessage
             PROVE  Outcome
  OBVIOUS
<1>0. conv.state = "WAITING_PAYMENT" /\ HandOK(world)
  BY DEF WaitingMessage, DialogueInv
<1>1. ASSUME NEW e \in Issue(world, conv.pay \in {"EXPIRED", "CANCELLED"}), Become(e)
      PROVE  Outcome
  <2> DEFINE force == conv.pay \in {"EXPIRED", "CANCELLED"}
  <2>1. force \in BOOLEAN /\ e \in Issue(world, force)
    BY <1>1
  <2> HIDE DEF force
  <2> QED
    BY <1>0, <1>1, <2>1, ResendStep
<1>2. ASSUME NEW d \in Reconcile(world, conv.ref), BookingIs(d, conv.ref, "CONFIRMED"), Become(Paid(d))
      PROVE  Outcome
  <2>1. Reached(Paid(d))
    BY <1>2 DEF Become, Reached
  <2>2. /\ HandOK(d) /\ d.conv = conv
        /\ (DeskKept(world, d) /\ d.book = book) \/ \E l : PaidFor(world, d, l)
    BY ReconciledHand
  <2>3. HandOK(Paid(d)) /\ Paid(d).book = d.book /\ Paid(d).link = d.link
    BY <1>2, <2>1, <2>2, PaidHand
  <2>4. CASE DeskKept(world, d) /\ d.book = book
    <3>1. PaidOf(d.link) = PaidOf(link)
      BY <2>4, Now, PaidKept DEF DeskKept
    <3> QED
      BY <2>1, <2>3, <2>4, <3>1, QuietOutcome
  <2>5. CASE \E l : PaidFor(world, d, l)
    BY <2>1, <2>3, <2>5, SettledStep
  <2> QED
    BY <2>2, <2>4, <2>5
<1>3. ASSUME NEW d \in Reconcile(world, conv.ref), NEW e \in Issue(d, FALSE), Become(e)
      PROVE  Outcome
  <2>2. /\ HandOK(d) /\ d.conv = conv
        /\ (DeskKept(world, d) /\ d.book = book) \/ \E l : PaidFor(world, d, l)
    BY ReconciledHand
  <2>3. HandOK(e) /\ LinksKept(d, e) /\ Reached(e)
    BY <1>0, <1>3, <2>2, IssueStep
  <2>4. e.book = d.book /\ PaidOf(e.link) = PaidOf(d.link)
    BY <2>3, PaidKept DEF LinksKept
  <2>5. CASE DeskKept(world, d) /\ d.book = book
    <3>1. PaidOf(d.link) = PaidOf(link)
      BY <2>5, Now, PaidKept DEF DeskKept
    <3> QED
      BY <2>3, <2>4, <2>5, <3>1, QuietOutcome
  <2>6. CASE \E l : PaidFor(world, d, l)
    BY <2>3, <2>4, <2>6, SettledStep
  <2> QED
    BY <2>2, <2>5, <2>6
<1>4. \/ \E e \in Issue(world, conv.pay \in {"EXPIRED", "CANCELLED"}) : Become(e)
      \/ \E d \in Reconcile(world, conv.ref) : BookingIs(d, conv.ref, "CONFIRMED") /\ Become(Paid(d))
      \/ \E d \in Reconcile(world, conv.ref) : \E e \in Issue(d, FALSE) : Become(e)
  <2>1. ASSUME NEW d \in Reconcile(world, conv.ref),
               IF BookingIs(d, conv.ref, "CONFIRMED") THEN Become(Paid(d))
               ELSE \E w \in Issue(d, FALSE) : Become(w)
        PROVE  (BookingIs(d, conv.ref, "CONFIRMED") /\ Become(Paid(d))) \/ \E e \in Issue(d, FALSE) : Become(e)
    BY <2>1
  <2> QED
    BY <2>1 DEF WaitingMessage
<1> QED
  BY <1>1, <1>2, <1>3, <1>4

\* A charter request waits for its quote; the draft stays.
LEMMA CharterStep == DialogueInv /\ SubmitCharter => Outcome
<1> SUFFICES ASSUME DialogueInv, SubmitCharter
             PROVE  Outcome
  OBVIOUS
<1> DEFINE n == Len(book)
           row == [kind |-> "charter", status |-> "PENDING", priced |-> FALSE, later |-> FALSE]
           y == Append(book, row)
           c == [conv EXCEPT !.ref = n + 1, !.pay = "QUOTE", !.state = "AWAITING_QUOTE"]
           v == [world EXCEPT !.book = y]
           e == [v EXCEPT !.conv = c]
<1>1. row \in BookingRow /\ row.status = "PENDING" /\ row.kind = "charter"
  BY DEF BookingRow, BookingStatus
<1> HIDE DEF row
<1>2. /\ y \in Seq(BookingRow) /\ Len(y) = n + 1 /\ DOMAIN y = 1 .. n + 1
      /\ DOMAIN book = 1 .. n /\ n \in Nat
      /\ \A k \in DOMAIN book : y[k] = book[k]
      /\ y[n + 1] = row
      /\ SameShape(book, y) /\ Made(book, y)
  BY <1>1, Now, BookAdded
<1>3. n + 1 \in 0 .. MaxBooking
  BY <1>2, CatalogueAssumption DEF SubmitCharter
<1>4. Reached(e)
  <2>1. Become([world EXCEPT !.book = y, !.conv = c])
    BY Now DEF SubmitCharter, row, World, DeskOK
  <2>2. [world EXCEPT !.book = y, !.conv = c] = e
    BY DEF world
  <2> HIDE DEF e
  <2> QED
    BY <2>1, <2>2 DEF Become, Reached
<1> HIDE DEF y, n
<1>5. /\ c \in Conversation /\ c.state = "AWAITING_QUOTE" /\ c.ref = n + 1 /\ c.draft = conv.draft
      /\ c.category = conv.category /\ c.meta = conv.meta /\ c.flight = conv.flight
  <2>1. "AWAITING_QUOTE" \in States
    BY DEF States
  <2> QED
    BY <1>3, <2>1, Now DEF Conversation
<1>6. ChoiceOK(c)
  <2>1. c.meta.check \in {"verified", "override"} =>
           c.flight \in {NoFlight, c.meta.route} \/ c.meta.route = NoFlight
    BY <1>5, Now DEF ChoiceOK, Chosen
  <2>2. c.state \in Parked
    BY <1>5 DEF Parked
  <2> HIDE DEF c
  <2>3. Chosen(c.state, c.category, c.meta, c.airport, c.total, c.pax, c.flight)
    BY <2>1, <2>2, ParkedChosen
  <2> QED
    BY <2>3 DEF ChoiceOK
<1> HIDE DEF c
<1>7. DeskOK(v) /\ v.link = link /\ v.book = y
  <2>1. DeskOK(world) /\ SameShape(world.book, y) /\ world.link = link
    BY <1>2, Now
  <2> QED
    BY <2>1, BooksOnly
<1> HIDE DEF v
<1>8. DeskOK(e) /\ e.conv = c /\ e.link = link /\ e.book = y
  BY <1>5, <1>7, ConvOnly
<1> HIDE DEF e
<1>9. Tracked(e)
  <2>1. conv.draft \in 0 .. n
    BY Now DEF Tracked, n
  <2>2. \A b : BookingIs(e, b, "PENDING") => BookingIs(world, b, "PENDING")
    <3> SUFFICES ASSUME NEW b, BookingIs(e, b, "PENDING")
                 PROVE  BookingIs(world, b, "PENDING")
      OBVIOUS
    <3>1. b \in DOMAIN y /\ y[b].kind = "booking" /\ y[b].status = "PENDING"
      BY <1>8 DEF BookingIs, IsBooking
    <3>2. b # n + 1
      BY <1>1, <1>2, <3>1
    <3>3. b \in DOMAIN book
      BY <1>2, <3>1, <3>2
    <3> QED
      BY <1>2, <3>1, <3>3, Now DEF BookingIs, IsBooking
  <2>3. \A b \in DOMAIN e.book : BookingIs(e, b, "PENDING") => b = e.conv.draft
    <3> SUFFICES ASSUME NEW b \in DOMAIN e.book, BookingIs(e, b, "PENDING")
                 PROVE  b = e.conv.draft
      OBVIOUS
    <3>1. BookingIs(world, b, "PENDING")
      BY <2>2
    <3>2. b \in DOMAIN book
      BY <3>1, Now DEF BookingIs, IsBooking
    <3> QED
      BY <1>5, <1>8, <3>1, <3>2, Now DEF Tracked
  <2>4. /\ e.conv.ref \in 0 .. Len(e.book) /\ e.conv.draft \in 0 .. Len(e.book) /\ e.conv.ref # 0
    BY <1>2, <1>5, <1>8, <2>1
  <2>5. e.book[e.conv.ref].kind = "charter"
    BY <1>1, <1>2, <1>5, <1>8
  <2> QED
    BY <1>5, <1>8, <2>3, <2>4, <2>5 DEF Tracked, Waiting
<1>10. QuoteAwaited(e)
  BY <1>5, <1>8 DEF QuoteAwaited
<1>11. DialogueInv'
  BY <1>4, <1>6, <1>8, <1>9, <1>10, Landed DEF HandOK
<1>12. PromiseStep
  BY <1>2, <1>4, <1>8, Now, PromiseMakes DEF Reached
<1>13. SummaryStep
  BY DEF SubmitCharter, SummaryStep, PriceStep, FlightStep, Booked
<1> QED
  BY <1>11, <1>12, <1>13 DEF Outcome

\* A travel enquiry begins with no booking in hand.
LEMMA TravelStartStep == DialogueInv /\ TravelStart => Outcome
<1> SUFFICES ASSUME DialogueInv, TravelStart
             PROVE  Outcome
  OBVIOUS
<1> DEFINE c == [conv EXCEPT !.state = "TRAVEL_ENQUIRY", !.category = "travel", !.pax = 1,
                    !.total = NoTotal, !.ref = 0, !.draft = 0, !.pay = "PENDING"]
           e == [world EXCEPT !.conv = c]
<1>1. conv.state = "TRAVEL_SERVICE_SELECTION" /\ conv' = c /\ UNCHANGED <<book, tx, link>>
  BY DEF TravelStart, Speak, deskVars
<1>2. /\ c \in Conversation /\ c.state = "TRAVEL_ENQUIRY" /\ c.ref = 0 /\ c.draft = 0
      /\ c.category = "travel" /\ c.meta = conv.meta /\ c.flight = conv.flight
  <2>1. "TRAVEL_ENQUIRY" \in States
    BY DEF States
  <2>2. NoTotal \in Total /\ 0 \in 0 .. MaxBooking /\ 1 \in 1 .. 2
    BY Amounts, CatalogueAssumption
  <2> QED
    BY <2>1, <2>2, Now DEF Conversation, Total
<1>3. ChoiceOK(c)
  <2>1. c.meta.check \in {"verified", "override"} =>
           c.flight \in {NoFlight, c.meta.route} \/ c.meta.route = NoFlight
    BY <1>2, Now DEF ChoiceOK, Chosen
  <2>2. c.state \notin FlightStates /\ c.category # "airport"
    BY <1>2 DEF FlightStates
  <2> HIDE DEF c
  <2> QED
    BY <2>1, <2>2 DEF ChoiceOK, Chosen
<1> HIDE DEF c
<1>4. DeskOK(e) /\ e.conv = c /\ e.tx = tx /\ e.link = link /\ e.book = book
  BY <1>2, Now, ConvOnly
<1> HIDE DEF e
<1>5. Reached(e)
  BY <1>1, <1>4 DEF Reached
<1>6. \A b \in DOMAIN e.book : ~BookingIs(e, b, "PENDING")
  <2>1. conv.state \notin Waiting /\ ~Swept(conv)
    BY <1>1 DEF Waiting, Swept
  <2> QED
    BY <1>4, <2>1, Now, SameHand DEF Tracked
<1>7. Tracked(e)
  <2>1. Len(e.book) \in Nat
    BY <1>4, Now, LenProperties
  <2> QED
    BY <1>2, <1>4, <1>6, <2>1, NobodysBooking DEF Tracked
<1>8. QuoteAwaited(e)
  BY <1>2, <1>4, NobodysBooking DEF QuoteAwaited
<1> QED
  BY <1>3, <1>4, <1>5, <1>7, <1>8, QuietOutcome DEF HandOK

\* A travel enquiry is a request without a price.
LEMMA TravelSubmitStep == DialogueInv /\ TravelSubmit => Outcome
<1> SUFFICES ASSUME DialogueInv, TravelSubmit
             PROVE  Outcome
  OBVIOUS
<1> DEFINE n == Len(book)
           row == [kind |-> "booking", status |-> "PENDING", priced |-> FALSE, later |-> FALSE]
           y == Append(book, row)
           c == [conv EXCEPT !.ref = n + 1, !.draft = n + 1, !.pay = "QUOTE", !.total = NoTotal,
                             !.state = "AWAITING_QUOTE"]
           v == [world EXCEPT !.book = y]
           e == [v EXCEPT !.conv = c]
<1>1. row \in BookingRow /\ row.status = "PENDING" /\ row.kind = "booking"
  BY DEF BookingRow, BookingStatus
<1> HIDE DEF row
<1>2. /\ y \in Seq(BookingRow) /\ Len(y) = n + 1 /\ DOMAIN y = 1 .. n + 1
      /\ DOMAIN book = 1 .. n /\ n \in Nat
      /\ \A k \in DOMAIN book : y[k] = book[k]
      /\ y[n + 1] = row
      /\ SameShape(book, y) /\ Made(book, y)
  BY <1>1, Now, BookAdded
<1>3. n + 1 \in 0 .. MaxBooking
  BY <1>2, CatalogueAssumption DEF TravelSubmit
<1>4. Reached(e)
  <2>1. Become([world EXCEPT !.book = y, !.conv = c])
    BY Now DEF TravelSubmit, row, World, DeskOK
  <2>2. [world EXCEPT !.book = y, !.conv = c] = e
    BY DEF world
  <2> HIDE DEF e
  <2> QED
    BY <2>1, <2>2 DEF Become, Reached
<1> HIDE DEF y, n
<1>5. /\ c \in Conversation /\ c.state = "AWAITING_QUOTE" /\ c.ref = n + 1 /\ c.draft = n + 1
      /\ c.category = conv.category /\ c.meta = conv.meta /\ c.flight = conv.flight
  <2>1. "AWAITING_QUOTE" \in States
    BY DEF States
  <2> QED
    BY <1>3, <2>1, Amounts, Now DEF Conversation, Total
<1>6. ChoiceOK(c)
  <2>1. c.meta.check \in {"verified", "override"} =>
           c.flight \in {NoFlight, c.meta.route} \/ c.meta.route = NoFlight
    BY <1>5, Now DEF ChoiceOK, Chosen
  <2>2. c.state \in Parked
    BY <1>5 DEF Parked
  <2> HIDE DEF c
  <2>3. Chosen(c.state, c.category, c.meta, c.airport, c.total, c.pax, c.flight)
    BY <2>1, <2>2, ParkedChosen
  <2> QED
    BY <2>3 DEF ChoiceOK
<1> HIDE DEF c
<1>7. DeskOK(v) /\ v.link = link /\ v.book = y
  <2>1. DeskOK(world) /\ SameShape(world.book, y) /\ world.link = link
    BY <1>2, Now
  <2> QED
    BY <2>1, BooksOnly
<1> HIDE DEF v
<1>8. DeskOK(e) /\ e.conv = c /\ e.link = link /\ e.book = y
  BY <1>5, <1>7, ConvOnly
<1> HIDE DEF e
<1>9. Tracked(e)
  <2>1. conv.state \notin Waiting /\ ~Swept(conv)
    BY DEF TravelSubmit, Waiting, Swept
  <2>2. \A b \in DOMAIN e.book : BookingIs(e, b, "PENDING") => b = n + 1
    <3> SUFFICES ASSUME NEW b \in DOMAIN e.book, BookingIs(e, b, "PENDING"), b # n + 1
                 PROVE  FALSE
      OBVIOUS
    <3>1. b \in DOMAIN book
      BY <1>2, <1>8
    <3>2. BookingIs(world, b, "PENDING")
      BY <1>2, <1>8, <3>1, Now DEF BookingIs, IsBooking
    <3> QED
      BY <2>1, <3>1, <3>2, Now DEF Tracked
  <2>3. n + 1 \in 0 .. Len(e.book) /\ n + 1 # 0
    BY <1>2, <1>8
  <2> QED
    BY <1>5, <1>8, <2>2, <2>3 DEF Tracked, Waiting
<1>10. QuoteAwaited(e)
  BY <1>5, <1>8 DEF QuoteAwaited
<1>11. DialogueInv'
  BY <1>4, <1>6, <1>8, <1>9, <1>10, Landed DEF HandOK
<1>12. PromiseStep
  BY <1>2, <1>4, <1>8, Now, PromiseMakes DEF Reached
<1>13. SummaryStep
  BY DEF TravelSubmit, SummaryStep, PriceStep, FlightStep, Booked
<1> QED
  BY <1>11, <1>12, <1>13 DEF Outcome

-----------------------------------------------------------------------------
(* Links and rows.                                                         *)

\* A link changes and belongs to its booking as before.
LEMMA LinkChanges ==
    ASSUME DialogueInv, NEW l \in DOMAIN link, NEW row \in GatewayLink, row.of = link[l].of
    PROVE  LET y == [link EXCEPT ![l] = row]
               e == [world EXCEPT !.link = y] IN
           /\ HandOK(e) /\ e.conv = conv /\ e.book = book /\ e.tx = tx /\ e.link = y
           /\ DOMAIN y = DOMAIN link
<1> DEFINE y == [link EXCEPT ![l] = row]
           e == [world EXCEPT !.link = y]
<1>1. y \in Seq(GatewayLink) /\ DOMAIN y = DOMAIN link
      /\ \A k \in DOMAIN link : y[k].of = link[k].of
  <2>1. link \in Seq(GatewayLink) /\ l \in 1 .. Len(link)
    BY Now, LenProperties
  <2> QED
    BY <2>1, ExceptSeq
<1> HIDE DEF y
<1>2. e \in World /\ e.conv = conv /\ e.book = book /\ e.tx = tx /\ e.link = y
  BY <1>1, Now DEF World, DeskOK, world
<1> HIDE DEF e
<1>3. \A b, status : BookingIs(e, b, status) <=> BookingIs(world, b, status)
  BY <1>2, Now, SameHand
<1>4. DeskOK(e)
  <2>1. \A t \in DOMAIN e.tx : e.tx[t].link \in DOMAIN e.link
    BY <1>1, <1>2, Now DEF DeskOK
  <2>2. \A k \in DOMAIN e.link : IsBooking(e, e.link[k].of) /\ e.book[e.link[k].of].priced
    BY <1>1, <1>2, Now DEF DeskOK, IsBooking
  <2> QED
    BY <1>2, <2>1, <2>2 DEF DeskOK
<1>5. Tracked(e)
  BY <1>2, Now, TrackedOn DEF Tracked
<1>6. QuoteAwaited(e)
  BY <1>2, <1>3, Now DEF QuoteAwaited
<1> QED
  BY <1>1, <1>2, <1>4, <1>5, <1>6, Now DEF HandOK, e, y

\* A link is of a booking that has a price.
LEMMA LinkFields ==
    ASSUME DialogueInv, NEW l \in DOMAIN link
    PROVE  /\ link[l] \in GatewayLink
           /\ IsBooking(world, link[l].of) /\ book[link[l].of].priced
BY Now, ElementOfSeq DEF DeskOK

\* The gateway takes a payment;
LEMMA PayStep == DialogueInv /\ PayLink => Outcome
<1> SUFFICES ASSUME DialogueInv, PayLink
             PROVE  Outcome
  OBVIOUS
<1>1. PICK l \in DOMAIN link :
         link' = [link EXCEPT ![l].st = "paid"] /\ UNCHANGED <<conv, book, tx>>
  BY DEF PayLink
<1> DEFINE row == [link[l] EXCEPT !.st = "paid"]
           y == [link EXCEPT ![l] = row]
           e == [world EXCEPT !.link = y]
<1>2. row \in GatewayLink /\ row.of = link[l].of /\ row.st = "paid"
  BY LinkFields DEF GatewayLink
<1>3. link' = y
  BY <1>1
<1> HIDE DEF row
<1>4. /\ HandOK(e) /\ e.conv = conv /\ e.book = book /\ e.tx = tx /\ e.link = y
      /\ DOMAIN y = DOMAIN link
  BY <1>2, LinkChanges
<1>5. \A k \in DOMAIN link : y[k] = IF k = l THEN row ELSE link[k]
  OBVIOUS
<1> HIDE DEF e, y
<1>6. DialogueInv' /\ book' = book
  BY <1>1, <1>3, <1>4, Landed DEF Reached
<1>7. PaidOf(y) = PaidOf(link) \cup {link[l].of}
  BY <1>2, <1>4, <1>5 DEF PaidOf
<1>8. Promise!Pay
  <2> DEFINE b == link[l].of
  <2>1. b \in DOMAIN book
    BY LinkFields, Now DEF IsBooking
  <2>2. PaidOf(link)' = PaidOf(link) \cup {b} /\ Statuses(book)' = Statuses(book)
    BY <1>3, <1>6, <1>7
  <2> HIDE DEF b
  <2> QED
    BY <2>1, <2>2 DEF Promise!Pay, Statuses, PaidOf
<1>9. PromiseStep
  BY <1>8 DEF PromiseStep, Promise!Next
<1> QED
  BY <1>6, <1>9, NothingBooked DEF Outcome

\* ... or the link falls due or is cancelled.
LEMMA LapseStep == DialogueInv /\ LinkLapses => Outcome
<1> SUFFICES ASSUME DialogueInv, LinkLapses
             PROVE  Outcome
  OBVIOUS
<1>1. PICK l \in DOMAIN link :
         /\ link[l].st = "created"
         /\ link' \in {[link EXCEPT ![l].due = TRUE], [link EXCEPT ![l].st = "cancelled"]}
         /\ UNCHANGED <<conv, book, tx>>
  BY DEF LinkLapses
<1>2. PICK row \in GatewayLink :
         row.of = link[l].of /\ row.st # "paid" /\ link' = [link EXCEPT ![l] = row]
  <2>1. link[l] \in GatewayLink
    BY LinkFields
  <2>2. CASE link' = [link EXCEPT ![l].due = TRUE]
    <3> DEFINE row == [link[l] EXCEPT !.due = TRUE]
    <3>1. row \in GatewayLink /\ row.of = link[l].of /\ row.st # "paid"
      BY <1>1, <2>1 DEF GatewayLink
    <3>2. link' = [link EXCEPT ![l] = row]
      BY <2>2
    <3> QED
      BY <3>1, <3>2
  <2>3. CASE link' = [link EXCEPT ![l].st = "cancelled"]
    <3> DEFINE row == [link[l] EXCEPT !.st = "cancelled"]
    <3>1. row \in GatewayLink /\ row.of = link[l].of /\ row.st # "paid"
      BY <2>1 DEF GatewayLink
    <3>2. link' = [link EXCEPT ![l] = row]
      BY <2>3
    <3> QED
      BY <3>1, <3>2
  <2> QED
    BY <1>1, <2>2, <2>3
<1> DEFINE y == [link EXCEPT ![l] = row]
           e == [world EXCEPT !.link = y]
<1>3. /\ HandOK(e) /\ e.conv = conv /\ e.book = book /\ e.tx = tx /\ e.link = y
      /\ DOMAIN y = DOMAIN link
  BY <1>2, LinkChanges
<1>4. \A k \in DOMAIN link : y[k] = IF k = l THEN row ELSE link[k]
  OBVIOUS
<1> HIDE DEF e, y
<1>5. Reached(e)
  BY <1>1, <1>2, <1>3 DEF Reached, y
<1>6. PaidOf(y) = PaidOf(link)
  <2>1. \A k \in DOMAIN link : (y[k].st = "paid" <=> link[k].st = "paid") /\ y[k].of = link[k].of
    BY <1>1, <1>2, <1>4
  <2>2. {k \in DOMAIN y : y[k].st = "paid"} = {k \in DOMAIN link : link[k].st = "paid"}
    BY <1>3, <2>1
  <2> QED
    BY <2>1, <2>2 DEF PaidOf
<1> QED
  BY <1>3, <1>5, <1>6, QuietOutcome

\* The event of a paid link confirms its booking.
LEMMA PaidEventStep == ASSUME DialogueInv, NEW l, PaidEvent(l) PROVE Outcome
<1> DEFINE b == link[l].of
           d == Settle(world, l)
           w == Synced(d, b)
<1>1. /\ l \in DOMAIN link /\ link[l].st = "paid" /\ link' = link
      /\ conv' = w.conv /\ book' = w.book /\ tx' = w.tx
  BY DEF PaidEvent
<1>2. PaidFor(world, d, l)
  <2>1. l \in DOMAIN world.link /\ world.link[l].st = "paid" /\ DeskOK(world)
    BY <1>1, Now
  <2> HIDE DEF b, w
  <2> QED
    BY <2>1, SettleOK DEF PaidFor
<1>3. (w = Paid(d) /\ Linked(b)) \/ w = d
  BY DEF Synced
<1>4. /\ d.link = link /\ d.conv = conv /\ BookingIs(d, b, "CONFIRMED")
  BY <1>2, Now DEF PaidFor
<1> HIDE DEF d, w
<1>5. HandOK(d)
  BY <1>2, PaidForHand DEF DialogueInv
<1>6. CASE w = d
  <2>1. Reached(w) /\ HandOK(w)
    BY <1>1, <1>4, <1>5, <1>6 DEF Reached
  <2> QED
    BY <1>2, <1>6, <2>1, SettledStep
<1>7. CASE w = Paid(d) /\ Linked(b)
  <2>1. b \in {d.conv.ref, d.conv.draft}
    BY <1>4, <1>7 DEF Linked
  <2> HIDE DEF b
  <2>2. HandOK(w) /\ w.book = d.book /\ w.link = d.link
    BY <1>4, <1>5, <1>7, <2>1, PaidHand
  <2>3. Reached(w) /\ HandOK(w)
    BY <1>1, <1>4, <2>2 DEF Reached
  <2> QED
    BY <1>2, <2>2, <2>3, SettledStep
<1> QED
  BY <1>3, <1>6, <1>7

\* The event of a link that ended.
LEMMA EndedEventStep == ASSUME DialogueInv, NEW l, EndedEvent(l) PROVE Outcome
<1> DEFINE b == link[l].of
           row == [link[l] EXCEPT !.told = TRUE]
           y == [link EXCEPT ![l] = row]
           u == [world EXCEPT !.link = y]
           status == EndStatus(world, l)
           w == End(u, l, status)
           told == [w EXCEPT !.conv.state = "WAITING_PAYMENT", !.conv.pay = status]
           e == IF Linked(b) THEN told ELSE w
<1>1. l \in DOMAIN link /\ status \in {"EXPIRED", "CANCELLED"}
  BY DEF EndedEvent, EndStatus
<1>2. Become(e)
  <2>1. [world EXCEPT !.link[l].told = TRUE] = u
    BY DEF world
  <2> HIDE DEF u
  <2> QED
    BY <2>1 DEF EndedEvent
<1> HIDE DEF status
<1>3. row \in GatewayLink /\ row.of = link[l].of /\ row.st = link[l].st
  BY <1>1, LinkFields DEF GatewayLink
<1> HIDE DEF row
<1>4. /\ HandOK(u) /\ u.conv = conv /\ u.book = book /\ u.tx = tx /\ u.link = y
      /\ DOMAIN y = DOMAIN link
  BY <1>1, <1>3, LinkChanges
<1>5. \A k \in DOMAIN link : y[k] = IF k = l THEN row ELSE link[k]
  OBVIOUS
<1> HIDE DEF y, u
<1>6. PaidOf(y) = PaidOf(link)
  <2>1. \A k \in DOMAIN link : (y[k].st = "paid" <=> link[k].st = "paid") /\ y[k].of = link[k].of
    BY <1>3, <1>5
  <2>2. {k \in DOMAIN y : y[k].st = "paid"} = {k \in DOMAIN link : link[k].st = "paid"}
    BY <1>4, <2>1
  <2> QED
    BY <2>1, <2>2 DEF PaidOf
<1>7. DeskOK(w) /\ DeskKept(u, w)
  <2>1. DeskOK(u)
    BY <1>4 DEF HandOK
  <2> HIDE DEF w
  <2>2. ResultOK(u, Result(w, 0))
    BY <1>1, <2>1, EndOK DEF w
  <2> QED
    BY <2>2 DEF ResultOK, Result
<1>8. HandOK(w) /\ w.conv = conv /\ w.book = book
  BY <1>4, <1>7, KeptHand DEF DeskKept, LinksKept
<1>9. PaidOf(w.link) = PaidOf(link)
  BY <1>4, <1>6, <1>7, PaidKept DEF DeskKept
<1>10. Reached(e)
  BY <1>2 DEF Become, Reached
<1> HIDE DEF w
<1>11. CASE Linked(b)
  <2>1. b \in {w.conv.ref, w.conv.draft}
    BY <1>8, <1>11 DEF Linked
  <2>2. IsBooking(w, b) /\ w.book[b].priced
    BY <1>1, <1>8, LinkFields, Now DEF IsBooking
  <2> HIDE DEF b
  <2>3. HandOK(told) /\ told.book = w.book /\ told.link = w.link
    BY <1>1, <1>8, <2>1, <2>2, EndedHand
  <2>4. e = told
    BY <1>11
  <2> HIDE DEF told, e
  <2> QED
    BY <1>8, <1>9, <1>10, <2>3, <2>4, QuietOutcome
<1>12. CASE ~Linked(b)
  <2>1. e = w
    BY <1>12
  <2> HIDE DEF e
  <2> QED
    BY <1>8, <1>9, <1>10, <2>1, QuietOutcome
<1> QED
  BY <1>11, <1>12

\* The cleanup job.
LEMMA SweepStep == DialogueInv /\ Sweep => Outcome
<1> SUFFICES ASSUME DialogueInv, Sweep
             PROVE  Outcome
  OBVIOUS
<1>1. PICK S : tx' = [t \in DOMAIN tx |-> IF t \in S THEN [tx[t] EXCEPT !.status = "EXPIRED"] ELSE tx[t]]
  BY DEF Sweep
<1>2. PICK z : z = tx'
  OBVIOUS
<1>3. z \in Seq(LinkTx) /\ \A t \in DOMAIN z : z[t].link \in DOMAIN link
  <2>1. tx \in Seq(LinkTx)
    BY Now DEF DeskOK, World
  <2>2. DOMAIN tx = 1 .. Len(tx) /\ Len(tx) \in Nat
    BY <2>1, LenProperties
  <2>3. z = [t \in DOMAIN tx |-> IF t \in S THEN [tx[t] EXCEPT !.status = "EXPIRED"] ELSE tx[t]]
    BY <1>1, <1>2
  <2>4. \A t \in DOMAIN tx : z[t] \in LinkTx /\ z[t].link = tx[t].link
    <3> SUFFICES ASSUME NEW t \in DOMAIN tx
                 PROVE  z[t] \in LinkTx /\ z[t].link = tx[t].link
      OBVIOUS
    <3>1. tx[t] \in LinkTx
      BY <2>1, ElementOfSeq
    <3>2. z[t] = tx[t] \/ z[t] = [tx[t] EXCEPT !.status = "EXPIRED"]
      BY <2>3
    <3> QED
      BY <3>1, <3>2 DEF LinkTx, TxStatus
  <2>5. z = [t \in 1 .. Len(tx) |-> z[t]] /\ DOMAIN z = DOMAIN tx
    BY <2>2, <2>3
  <2>6. z \in Seq(LinkTx)
    BY <2>2, <2>4, <2>5, IsASeq
  <2>7. \A t \in DOMAIN tx : tx[t].link \in DOMAIN link
    BY Now DEF DeskOK
  <2> QED
    BY <2>4, <2>5, <2>6, <2>7
<1> DEFINE u == [world EXCEPT !.tx = z]
<1>4. DeskOK(u) /\ DeskKept(world, u) /\ u.link = link /\ u.tx = z
  <2>1. DeskOK(world) /\ world.link = link
    BY Now
  <2>2. DeskOK(u) /\ DeskKept(world, u)
    BY <1>3, <2>1, RowsOnly
  <2> QED
    BY <2>2 DEF world
<1> HIDE DEF u
<1>5. HandOK(u) /\ u.conv = conv /\ u.book = book
  BY <1>4, Now, KeptHand DEF DeskKept, LinksKept, DialogueInv
<1>6. book' = book /\ link' = link
  BY DEF Sweep
<1>7. CASE UNCHANGED conv
  <2>1. Reached(u)
    BY <1>2, <1>4, <1>5, <1>6, <1>7 DEF Reached
  <2> QED
    BY <1>4, <1>5, <1>7, <2>1, QuietOutcome
<1>8. CASE /\ conv.state = "WAITING_PAYMENT"
           /\ conv' = [conv EXCEPT !.state = "CATEGORY_SELECTION", !.pay = "EXPIRED"]
  <2> DEFINE c == Stated(conv, "CATEGORY_SELECTION", "EXPIRED")
             e == [u EXCEPT !.conv = c]
  <2>1. "CATEGORY_SELECTION" \in Parked /\ "EXPIRED" \in PayStatus
    BY DEF Parked, PayStatus
  <2>2. /\ c \in Conversation /\ ChoiceOK(c) /\ c.state = "CATEGORY_SELECTION"
        /\ c.ref = conv.ref /\ c.draft = conv.draft
    BY <2>1, Now, StatedOK
  <2>3. conv' = c
    BY <1>8 DEF Stated
  <2>s. Swept(c)
    BY <2>2, Now DEF Swept, Stated, Conversation
  <2> HIDE DEF c
  <2>4. DeskOK(e) /\ e.conv = c /\ e.tx = u.tx /\ e.link = u.link /\ e.book = u.book
    BY <1>4, <2>2, ConvOnly
  <2> HIDE DEF e
  <2>5. Tracked(e)
    BY <1>5, <2>s, <2>2, <2>4, TrackedOn DEF HandOK
  <2>6. QuoteAwaited(e)
    <3>1. BookingIs(u, u.conv.ref, "PENDING") => u.book[u.conv.ref].priced
      BY <1>5, <1>8 DEF HandOK, QuoteAwaited
    <3> QED
      BY <1>5, <2>2, <2>4, <3>1, SameHand DEF QuoteAwaited
  <2>7. Reached(e) /\ HandOK(e)
    BY <1>2, <1>4, <1>5, <1>6, <1>8, <2>2, <2>3, <2>4, <2>5, <2>6 DEF Reached, HandOK
  <2> QED
    BY <1>4, <1>5, <2>4, <2>7, QuietOutcome
<1> QED
  BY <1>7, <1>8 DEF Sweep

\* Confirm Booking: it goes on with the request, asks for the flight again, or
\* makes the booking.
LEMMA BookingStep == DialogueInv /\ Confirm => Outcome
<1> SUFFICES ASSUME DialogueInv, Confirm
             PROVE  Outcome
  OBVIOUS
<1> DEFINE flown == conv.category = "airport" /\ ~conv.meta.later
           sure == Accepted(conv) /\ Consistent(conv)
<1>1. conv.state = "BOOKING_REVIEW" /\ conv.category # "charter"
  BY DEF Confirm
<1>2. \/ conv.ref # 0 /\ \E e \in Issue(world, FALSE) : Become(e)
      \/ /\ flown
         /\ Speak([conv EXCEPT !.state = "FLIGHT_INPUT", !.flight = NoFlight])
      \/ /\ conv.ref = 0 /\ (flown => sure) /\ Len(book) < MaxBooking
         /\ \E e \in Issue(Created(world), FALSE) : Become(e)
  BY DEF Confirm
<1>3. CASE conv.ref # 0 /\ \E e \in Issue(world, FALSE) : Become(e)
  BY <1>1, <1>3, ResendStep
<1>4. CASE /\ flown
           /\ Speak([conv EXCEPT !.state = "FLIGHT_INPUT", !.flight = NoFlight])
  <2>1. conv \in Conversation /\ ChoiceOK(conv) /\ conv.state \notin Waiting
    BY <1>1, Now DEF Waiting
  <2>2. [conv EXCEPT !.state = "FLIGHT_INPUT", !.flight = NoFlight]
           = With(conv, "FLIGHT_INPUT", conv.category, conv.meta, conv.airport, conv.total, conv.pax, NoFlight)
    BY <2>1 DEF With, Conversation
  <2>3. Typed("FLIGHT_INPUT", conv.category, conv.meta, conv.airport, conv.total, conv.pax, NoFlight)
    BY <2>1, ConversationOK DEF Typed, Category, States
  <2>4. Chosen("FLIGHT_INPUT", conv.category, conv.meta, conv.airport, conv.total, conv.pax, NoFlight)
    BY <1>1, <1>4, <2>1 DEF ChoiceOK, Chosen, FlightStates, OtherStates, PackageKnown, TypeKnown
  <2>5. Spoken
    BY <1>4, <2>1, <2>2, <2>3, <2>4, SpokenWith
  <2>6. ~Swept(conv)
    BY <1>1 DEF Swept
  <2> QED
    BY <2>5, <2>6, SpokenStep
<1>5. CASE /\ conv.ref = 0 /\ (flown => sure) /\ Len(book) < MaxBooking
           /\ \E e \in Issue(Created(world), FALSE) : Become(e)
  BY <1>1, <1>5, ConfirmStep
<1> QED
  BY <1>2, <1>3, <1>4, <1>5

\* A customer who goes back.
LEMMA BackStep == DialogueInv /\ Back => Outcome
<1>1. CASE conv.state \in {"START", "CATEGORY_SELECTION"} /\ Become(Reset(world, "CATEGORY_SELECTION"))
  BY <1>1, InterruptStep
<1>2. ASSUME DialogueInv, Speak(BackTo(conv)),
             conv.state \notin {"START", "CATEGORY_SELECTION", "WAITING_PAYMENT", "AWAITING_QUOTE"}
      PROVE  Outcome
  BY <1>2, Now, SpokenBack, SpokenStep DEF Swept
<1> QED
  BY <1>1, <1>2 DEF Back

\* A conversation that the cleanup job took has nothing to choose or to answer.
LEMMA AwakeSteps == Catalogue \/ Flights \/ DetailsGiven => ~Swept(conv)
<1>1. CASE Catalogue
  BY <1>1 DEF Swept, Catalogue, ChooseCategory, ChooseJourney, ChooseTravelType, ChooseAirport, ChooseTerminal,
     PickPackage, PickService, RetypeAtMenu, LeaveMenu
<1>2. CASE Flights
  BY <1>2 DEF Swept, Flights, ChangeAirport, ReenterFlight, FlightLater, OverrideMismatch, EnterFlight,
     ConfirmFlight, ChangePackage, SwitchType
<1>3. CASE DetailsGiven
  <2>1. "CATEGORY_SELECTION" \notin DOMAIN Following
    BY DEF Following
  <2>2. CASE Answer
    BY <2>1, <2>2 DEF Swept, Answer
  <2> QED
    BY <1>3, <2>2 DEF Swept, DetailsGiven, DateSelection, HotelOrTransport, PassengerCount, CustomerPhone,
       Summary
<1> QED
  BY <1>1, <1>2, <1>3

\* Every step of the dialogue.
LEMMA DialogueStep == DialogueInv /\ DialogueNext => Outcome
<1> SUFFICES ASSUME DialogueInv, DialogueNext
             PROVE  Outcome
  OBVIOUS
<1>c. conv \in Conversation /\ ChoiceOK(conv)
  BY Now
<1>1. CASE Catalogue
  BY <1>c, <1>1, SpokenCategory, SpokenJourney, SpokenTravelType, SpokenAirport, SpokenTerminal,
     SpokenPackage, SpokenService, SpokenRetype, SpokenLeave, SpokenStep, AwakeSteps DEF Catalogue
<1>2. CASE Flights
  BY <1>c, <1>2, SpokenChangeAirport, SpokenReenter, SpokenLater, SpokenOverride, SpokenEnter,
     SpokenConfirmFlight, SpokenChangePackage, SpokenSwitch, SpokenStep, AwakeSteps DEF Flights
<1>3. CASE DetailsGiven
  BY <1>c, <1>3, SpokenAnswer, SpokenDetails, SpokenPassengers, SpokenSummary, SpokenStep, AwakeSteps
     DEF DetailsGiven
<1>4. CASE Interrupt
  BY <1>4, InterruptStep, RestartExpiredStep, BackStep DEF Interrupt
<1>5. CASE Requests
  BY <1>5, BookingStep, CharterStep, TravelStartStep, TravelSubmitStep, WaitingStep DEF Requests
<1>6. CASE Events
  BY <1>6, PayStep, LapseStep, SweepStep, PaidEventStep, EndedEventStep DEF Events
<1> QED
  BY <1>1, <1>2, <1>3, <1>4, <1>5, <1>6 DEF DialogueNext

\* Nothing is booked at first.
LEMMA DialogueStarts == DialogueInit => DialogueInv
<1> SUFFICES ASSUME DialogueInit
             PROVE  DialogueInv
  OBVIOUS
<1>1. /\ book = <<>> /\ tx = <<>> /\ link = <<>> /\ conv = Fresh
  BY DEF DialogueInit
<1>2. Fresh \in Conversation /\ Fresh.state = "START" /\ Fresh.ref = 0 /\ Fresh.draft = 0
      /\ Fresh.meta = NoDetails
  <2>1. [Fresh EXCEPT !.state = "START"] = Fresh /\ "START" \in States
    BY DEF Fresh, States
  <2>2. [Fresh EXCEPT !.state = "START"] \in Conversation
    BY <2>1, FreshOK
  <2> QED
    BY <2>1, <2>2 DEF Fresh
<1>3. ChoiceOK(Fresh)
  <2>1. Fresh.meta.check \notin {"verified", "override"}
    BY <1>2 DEF NoDetails
  <2>2. Chosen(Fresh.state, Fresh.category, Fresh.meta, Fresh.airport, Fresh.total, Fresh.pax, Fresh.flight)
    BY <1>2, <2>1, ParkedChosen DEF Parked
  <2> QED
    BY <2>2 DEF ChoiceOK
<1>4. DeskOK(world)
  <2>1. world \in World /\ world.tx = <<>> /\ world.link = <<>>
    BY <1>1, <1>2, EmptySeq DEF World, world
  <2> QED
    BY <2>1 DEF DeskOK
<1>5. world.conv = Fresh /\ world.book = <<>> /\ Len(world.book) = 0 /\ DOMAIN world.book = {}
  BY <1>1, EmptySeq DEF world
<1>6. Tracked(world) /\ QuoteAwaited(world)
  BY <1>2, <1>5 DEF Tracked, QuoteAwaited, BookingIs, IsBooking
<1> QED
  BY <1>3, <1>4, <1>5, <1>6 DEF DialogueInv, HandOK

\* Nothing happens.
LEMMA DialogueStutters == DialogueInv /\ UNCHANGED dialogueVars => Outcome
<1> SUFFICES ASSUME DialogueInv, UNCHANGED dialogueVars
             PROVE  Outcome
  OBVIOUS
<1>1. Reached(world) /\ HandOK(world) /\ PaidOf(world.link) = PaidOf(link)
  BY Now DEF dialogueVars, Reached, DialogueInv
<1> QED
  BY <1>1, Now, QuietOutcome

\* What holds of the dialogue at all times.
LEMMA DialogueInvariant == DialogueSpec => []DialogueInv
<1>1. DialogueInv /\ [DialogueNext]_dialogueVars => DialogueInv'
  BY DialogueStep, DialogueStutters DEF Outcome
<1> QED
  BY <1>1, DialogueStarts, PTL DEF DialogueSpec

\* A booking is made for the price of the airport of its last choice and the
\* booking's travel type, times its passengers, and for the flight whose route was
\* accepted, for any catalogue, any flights and any number of bookings, however the
\* customer moves between them (_create_booking_request, _commit_accepted_flight).
THEOREM SummaryTheorem == DialogueSpec => SummaryHolds
<1>1. DialogueInv /\ [DialogueNext]_dialogueVars => [PriceStep]_dialogueVars /\ [FlightStep]_dialogueVars
  BY DialogueStep DEF Outcome, SummaryStep
<1> QED
  BY <1>1, DialogueInvariant, PTL DEF DialogueSpec, SummaryHolds, PriceMatches, FlightConsistent

\* A booking that is PENDING is always the draft of its conversation; whoever is told COMPLETED has a confirmed booking; and no link is
\* ever made for a request without a price; for any number of bookings and links
\* (_reset_session, _issue_or_resend_payment_link).
THEOREM InHandTheorem == DialogueSpec => []BookingsInHand
<1>1. DialogueInv => BookingsInHand
  BY Now DEF BookingsInHand, NoOrphanDraft, CompletedConfirmed, QuoteHasNoLink, Tracked, DeskOK
<1> QED
  BY <1>1, DialogueInvariant, PTL

\* The conversation, its links, the gateway's events and the cleanup job keep the
\* promise of Reservations: a request is withdrawn only while it waits and confirmed
\* only when a link of its own was paid, and every step is one of Reservations or
\* none of its business (payment_flow.py, webhook handlers, the session cleanup).
THEOREM ReservationsTheorem == DialogueSpec => KeepsReservations
<1>1. DialogueInit => Promise!Init
  BY DEF DialogueInit, Promise!Init
<1>2. DialogueInv /\ [DialogueNext]_dialogueVars => [Promise!Next]_<<Statuses(book), PaidOf(link)>>
  BY DialogueStep, DialogueStutters DEF Outcome, PromiseStep
<1> QED
  BY <1>1, <1>2, DialogueInvariant, PTL DEF DialogueSpec, KeepsReservations, Promise!Spec, Statuses, PaidOf

------------------------------------------------------------------------------
-----------------------------------------------------------------------------
(* How many bookings, rows and links there are.                            *)

\* The links whose payment is in the ledger.
SettledLinks(s) == {s[t].link : t \in {u \in DOMAIN s : s[u].status = "SUCCESSFUL"}}

\* The bounds guard every new booking and link, and every new row except that of
\* a paid link; but a link is settled by one row of its own at most.
BoundOK(w) ==
    /\ Len(w.book) <= MaxBooking /\ Len(w.link) <= MaxLink
    /\ Len(w.tx) <= MaxTx + Cardinality(SettledLinks(w.tx))

\* What the operations keep: settled links stay settled, and the bounds hold.
Grown(w, e) ==
    /\ SettledLinks(w.tx) \subseteq SettledLinks(e.tx)
    /\ Len(w.book) <= MaxBooking => Len(e.book) <= MaxBooking
    /\ Len(w.link) <= MaxLink => Len(e.link) <= MaxLink

\* Two operations after each other,
LEMMA GrownTrans == \A u, v, w : Grown(u, v) /\ Grown(v, w) => Grown(u, w)
BY DEF Grown

\* ... and operations that add nothing.
LEMMA GrownSame == \A w, e : e.tx = w.tx /\ e.link = w.link /\ e.book = w.book => Grown(w, e)
BY DEF Grown

\* Rows that keep what is settled.
LEMMA RowsGrown ==
    ASSUME NEW w \in World, NEW s, DOMAIN w.tx \subseteq DOMAIN s,
           \A t \in DOMAIN w.tx : w.tx[t].status = "SUCCESSFUL" =>
               s[t].status = "SUCCESSFUL" /\ s[t].link = w.tx[t].link
    PROVE  Grown(w, [w EXCEPT !.tx = s])
<1> DEFINE e == [w EXCEPT !.tx = s]
<1>1. e.tx = s /\ e.link = w.link /\ e.book = w.book
  BY DEF World
<1> HIDE DEF e
<1>2. SettledLinks(w.tx) \subseteq SettledLinks(s)
  BY DEF SettledLinks
<1> QED
  BY <1>1, <1>2 DEF Grown, e

\* A row marked with a status, unless it is SUCCESSFUL.
LEMMA MarkGrown ==
    ASSUME NEW w, DeskOK(w), NEW t, NEW status,
           t \in DOMAIN w.tx => w.tx[t].status # "SUCCESSFUL" \/ status = "SUCCESSFUL"
    PROVE  Grown(w, [w EXCEPT !.tx[t].status = status])
<1> DEFINE s == [w.tx EXCEPT ![t].status = status]
<1>1. w \in World /\ w.tx \in Seq(LinkTx)
  BY DEF DeskOK, World
<1>2. [w EXCEPT !.tx[t].status = status] = [w EXCEPT !.tx = s]
  BY <1>1 DEF World
<1>3. DOMAIN s = DOMAIN w.tx
  OBVIOUS
<1>4. \A u \in DOMAIN w.tx : w.tx[u].status = "SUCCESSFUL" =>
               s[u].status = "SUCCESSFUL" /\ s[u].link = w.tx[u].link
  <2> SUFFICES ASSUME NEW u \in DOMAIN w.tx, w.tx[u].status = "SUCCESSFUL"
               PROVE  s[u].status = "SUCCESSFUL" /\ s[u].link = w.tx[u].link
    OBVIOUS
  <2>1. w.tx[u] \in LinkTx
    BY <1>1, ElementOfSeq
  <2>2. CASE u = t
    BY <2>1, <2>2 DEF LinkTx
  <2>3. CASE u # t
    BY <2>1, <2>3
  <2> QED
    BY <2>2, <2>3
<1> HIDE DEF s
<1> QED
  BY <1>1, <1>2, <1>3, <1>4, RowsGrown

\* A link marked as ended,
LEMMA MarkTerminalGrown ==
    ASSUME NEW w, DeskOK(w), NEW t, NEW status
    PROVE  Grown(w, MarkTerminal(w, t, status))
<1>1. CASE w.tx[t].status # "SUCCESSFUL" /\ CanTransition(w.tx[t].status, status)
  BY <1>1, MarkGrown DEF MarkTerminal
<1>2. CASE ~(w.tx[t].status # "SUCCESSFUL" /\ CanTransition(w.tx[t].status, status))
  BY <1>2, GrownSame DEF MarkTerminal
<1> QED
  BY <1>1, <1>2

\* ... the latest one closed,
LEMMA CloseLatestGrown ==
    ASSUME NEW w, DeskOK(w), NEW b
    PROVE  Grown(w, CloseLatest(w, b))
BY MarkTerminalGrown, GrownSame DEF CloseLatest

\* ... those that are due closed,
LEMMA CloseDueGrown ==
    ASSUME NEW w, DeskOK(w), NEW b
    PROVE  Grown(w, CloseDue(w, b))
<1> DEFINE Given(t) == t \in OpenTxs(w, b) \ Usable(w, b) /\ \A u \in Usable(w, b) : u < t
           s == [t \in DOMAIN w.tx |-> IF Given(t) THEN MarkTerminal(w, t, "EXPIRED").tx[t] ELSE w.tx[t]]
<1>1. w \in World
  BY DEF DeskOK
<1>2. CloseDue(w, b) = [w EXCEPT !.tx = s]
  BY <1>1 DEF CloseDue, World
<1>3. DOMAIN s = DOMAIN w.tx
  OBVIOUS
<1>4. \A t \in DOMAIN w.tx : w.tx[t].status = "SUCCESSFUL" => s[t] = w.tx[t]
  <2> SUFFICES ASSUME NEW t \in DOMAIN w.tx, w.tx[t].status = "SUCCESSFUL"
               PROVE  s[t] = w.tx[t]
    OBVIOUS
  <2>1. ~Given(t)
    BY DEF OpenTxs, Open
  <2> HIDE DEF Given
  <2> QED
    BY <2>1
<1> HIDE DEF s
<1> QED
  BY <1>1, <1>2, <1>3, <1>4, RowsGrown

\* ... a row added,
LEMMA RowAdded ==
    ASSUME NEW w, DeskOK(w), NEW row \in LinkTx
    PROVE  LET s == Append(w.tx, row)
               e == [w EXCEPT !.tx = s] IN
           /\ Grown(w, e) /\ e.tx = s /\ Len(s) = Len(w.tx) + 1 /\ Len(w.tx) \in Nat
           /\ row.status = "SUCCESSFUL" => row.link \in SettledLinks(s)
<1> DEFINE s == Append(w.tx, row)
           e == [w EXCEPT !.tx = s]
<1>1. w \in World /\ w.tx \in Seq(LinkTx)
  BY DEF DeskOK, World
<1>2. /\ DOMAIN s = 1 .. Len(w.tx) + 1 /\ Len(w.tx) \in Nat /\ Len(s) = Len(w.tx) + 1
      /\ DOMAIN w.tx = 1 .. Len(w.tx)
      /\ \A t \in 1 .. Len(w.tx) : s[t] = w.tx[t]
      /\ s[Len(w.tx) + 1] = row
  BY <1>1, AppendProperties, LenProperties
<1>3. e.tx = s
  BY <1>1 DEF World
<1> HIDE DEF s
<1>4. Grown(w, e)
  BY <1>1, <1>2, RowsGrown
<1>5. row.status = "SUCCESSFUL" => row.link \in SettledLinks(s)
  <2> DEFINE n == Len(w.tx) + 1
  <2>1. n \in DOMAIN s /\ s[n] = row
    BY <1>2
  <2> HIDE DEF n
  <2> QED
    BY <2>1 DEF SettledLinks
<1> QED
  BY <1>2, <1>3, <1>4, <1>5 DEF s

\* ... a new link recorded,
LEMMA PersistGrown ==
    ASSUME NEW w, DeskOK(w), NEW b \in Nat, NEW l \in DOMAIN w.link
    PROVE  Grown(w, Persist(w, b, l))
<1> DEFINE c == CloseLatest(w, b)
           row == [of |-> b, link |-> l, status |-> "PENDING", dup |-> FALSE]
<1>1. DeskOK(c) /\ c \in World /\ Grown(w, c)
  BY CloseLatestOK, CloseLatestGrown DEF DeskOK
<1>2. row \in LinkTx
  BY LenProperties DEF LinkTx, TxStatus, DeskOK, World
<1>3. Persist(w, b, l) = w \/ Persist(w, b, l) = [c EXCEPT !.tx = Append(c.tx, row)]
  <2>1. [c EXCEPT !.tx = Append(@, row)] = [c EXCEPT !.tx = Append(c.tx, row)]
    BY <1>1 DEF World
  <2> HIDE DEF c
  <2> QED
    BY <2>1 DEF Persist, c
<1> HIDE DEF c, row
<1>4. Grown(c, [c EXCEPT !.tx = Append(c.tx, row)])
  BY <1>1, <1>2, RowAdded
<1> QED
  BY <1>1, <1>3, <1>4, GrownTrans, GrownSame

\* ... a link looked up again,
LEMMA RecoverGrown ==
    ASSUME NEW w, DeskOK(w), NEW b \in Nat, NEW o, Grown(w, o.desk), NEW r \in Recover(w, b, o)
    PROVE  Grown(w, r.desk)
<1>1. CASE r = o
  BY <1>1
<1>2. CASE r # o
  <2>1. PICK l \in LiveLinks(w, b) : r = Result(Persist(w, b, l), l)
    BY <1>2 DEF Recover
  <2>2. l \in DOMAIN w.link
    BY DEF LiveLinks
  <2>3. r.desk = Persist(w, b, l)
    BY <2>1 DEF Result
  <2> QED
    BY <2>2, <2>3, PersistGrown
<1> QED
  BY <1>1, <1>2

\* ... a link created within the bound,
LEMMA CreateLinkGrown ==
    ASSUME NEW w, DeskOK(w), NEW b \in Nat, IsBooking(w, b), w.book[b].priced,
           NEW r \in CreateLink(w, b)
    PROVE  Grown(w, r.desk)
<1> DEFINE l == Len(w.link) + 1
           made == [w EXCEPT !.link = Append(@, FreshLink(b))]
<1>1. NoLink(w).desk = w /\ Grown(w, w)
  BY GrownSame DEF NoLink, Result
<1>2. DeskOK(made) /\ l \in DOMAIN made.link
  BY LinkMade
<1>3. l <= MaxLink => Grown(w, made)
  <2>1. w \in World /\ w.link \in Seq(GatewayLink) /\ FreshLink(b) \in GatewayLink
    BY DEF DeskOK, World, FreshLink, GatewayLink
  <2>2. made.tx = w.tx /\ made.book = w.book /\ made.link = Append(w.link, FreshLink(b))
    BY <2>1 DEF World
  <2>3. Len(made.link) = l
    BY <2>1, <2>2, AppendProperties
  <2> QED
    BY <2>2, <2>3 DEF Grown
<1>4. \/ r \in Recover(w, b, NoLink(w)) \/ r = NoLink(w)
      \/ l <= MaxLink /\ (r = Result(Persist(made, b, l), l) \/ r \in Recover(made, b, NoLink(made)))
  BY DEF CreateLink
<1>5. NoLink(made).desk = made /\ Grown(made, made)
  BY GrownSame DEF NoLink, Result
<1> HIDE DEF made, l
<1>6. CASE r \in Recover(w, b, NoLink(w))
  BY <1>1, <1>6, RecoverGrown
<1>7. CASE l <= MaxLink /\ r = Result(Persist(made, b, l), l)
  <2>1. r.desk = Persist(made, b, l)
    BY <1>7 DEF Result
  <2> QED
    BY <1>2, <1>3, <1>7, <2>1, PersistGrown, GrownTrans
<1>8. CASE l <= MaxLink /\ r \in Recover(made, b, NoLink(made))
  <2>1. Grown(made, r.desk)
    BY <1>2, <1>5, <1>8, RecoverGrown
  <2> QED
    BY <1>3, <1>8, <2>1, GrownTrans
<1> QED
  BY <1>1, <1>4, <1>6, <1>7, <1>8

\* ... a payment initiated,
LEMMA InitiateGrown ==
    ASSUME NEW w, DeskOK(w), NEW b \in Nat, BookingIs(w, b, "PENDING") => w.book[b].priced,
           NEW r \in Initiate(w, b)
    PROVE  Grown(w, r.desk)
<1> DEFINE c == CloseDue(w, b)
<1>1. NoLink(w).desk = w /\ Refused(w).desk = w /\ Grown(w, w)
  BY GrownSame DEF NoLink, Refused, Result
<1>2. DeskOK(c) /\ Grown(w, c) /\ c.book = w.book
  BY CloseDueOK, CloseDueGrown DEF DeskKept, LinksKept
<1>3. ASSUME BookingIs(w, b, "PENDING")
      PROVE  IsBooking(c, b) /\ c.book[b].priced
  BY <1>2, <1>3 DEF BookingIs, IsBooking
<1>4. \/ r = NoLink(w) \/ r = Refused(w)
      \/ \E s : r = Result(c, s)
      \/ BookingIs(w, b, "PENDING") /\ r \in Recover(c, b, NoLink(c)) \cup CreateLink(c, b)
  <2>1. CASE ~BookingIs(w, b, "PENDING")
    BY <2>1 DEF Initiate
  <2>2. CASE BookingIs(w, b, "PENDING") /\ Usable(w, b) # {}
    BY <2>2 DEF Initiate
  <2>3. CASE BookingIs(w, b, "PENDING") /\ Usable(w, b) = {}
    BY <2>3 DEF Initiate
  <2> QED
    BY <2>1, <2>2, <2>3
<1>5. NoLink(c).desk = c /\ Grown(c, c)
  BY GrownSame DEF NoLink, Result
<1> HIDE DEF c
<1>6. ASSUME NEW s, r = Result(c, s)
      PROVE  Grown(w, r.desk)
  BY <1>2, <1>6 DEF Result
<1>7. CASE BookingIs(w, b, "PENDING") /\ r \in Recover(c, b, NoLink(c)) \cup CreateLink(c, b)
  <2>1. Grown(c, r.desk)
    BY <1>2, <1>3, <1>5, <1>7, RecoverGrown, CreateLinkGrown
  <2> QED
    BY <1>2, <2>1, GrownTrans
<1> QED
  BY <1>1, <1>4, <1>6, <1>7

\* ... and a link replaced.
LEMMA ReplaceGrown ==
    ASSUME NEW w, DeskOK(w), NEW b \in Nat, BookingIs(w, b, "PENDING") => w.book[b].priced,
           NEW r \in Replace(w, b)
    PROVE  Grown(w, r.desk)
<1> DEFINE c == CloseLatest(w, b)
<1>1. DeskOK(c) /\ Grown(w, c) /\ c.book = w.book
  BY CloseLatestOK, CloseLatestGrown DEF DeskKept, LinksKept
<1>2. BookingIs(c, b, "PENDING") => c.book[b].priced
  BY <1>1 DEF BookingIs, IsBooking
<1>3. r = NoLink(w) \/ r \in Initiate(c, b)
  BY DEF Replace
<1>4. NoLink(w).desk = w /\ Grown(w, w)
  BY GrownSame DEF NoLink, Result
<1> HIDE DEF c
<1>5. ASSUME r \in Initiate(c, b)
      PROVE  Grown(w, r.desk)
  <2>1. Grown(c, r.desk)
    BY <1>1, <1>2, <1>5, InitiateGrown
  <2> QED
    BY <1>1, <2>1, GrownTrans
<1> QED
  BY <1>3, <1>4, <1>5

\* What the conversation says adds nothing.
LEMMA StatedGrown ==
    ASSUME NEW w \in World, NEW s, NEW p
    PROVE  LET e == [w EXCEPT !.conv.state = s, !.conv.pay = p] IN
           Grown(w, e) /\ e.tx = w.tx /\ e.link = w.link /\ e.book = w.book
<1> DEFINE e == [w EXCEPT !.conv.state = s, !.conv.pay = p]
<1>1. e.tx = w.tx /\ e.link = w.link /\ e.book = w.book
  BY DEF World
<1> HIDE DEF e
<1> QED
  BY <1>1, GrownSame DEF e

\* A link issued from a request that is not unsold.
LEMMA IssueGrown ==
    ASSUME NEW w, DeskOK(w), Unsold(w), NEW force \in BOOLEAN, NEW e \in Issue(w, force)
    PROVE  Grown(w, e)
<1> DEFINE b == w.conv.ref
           Said(d) == \E s, p : e = [d EXCEPT !.conv.state = s, !.conv.pay = p]
           Offers == IF force THEN Replace(w, b) ELSE Initiate(w, b)
<1>1. w \in World /\ b \in Nat
  BY CatalogueAssumption DEF DeskOK, World, Conversation
<1>2. \/ e = w \/ Said(w)
      \/ /\ Positive(w.conv.total) \/ (IsBooking(w, b) /\ w.book[b].priced)
         /\ \E r \in Offers : e = r.desk \/ Said(r.desk)
  <2> DEFINE quote == [w EXCEPT !.conv.state = "AWAITING_QUOTE", !.conv.pay = "QUOTE"]
             sent == {IF r.cutoff THEN r.desk
                      ELSE [r.desk EXCEPT !.conv.state = "WAITING_PAYMENT", !.conv.pay = "PENDING"] :
                         r \in Offers}
             late == w.conv.category = "airport" /\ ~w.conv.meta.later /\ IsBooking(w, b)
             free == ~Positive(w.conv.total) /\ ~(IsBooking(w, b) /\ w.book[b].priced)
  <2>1. CASE b = 0
    BY <2>1 DEF Issue
  <2>2. CASE b # 0 /\ BookingIs(w, b, "CONFIRMED")
    <3>1. e = [w EXCEPT !.conv.state = "COMPLETED", !.conv.pay = "SUCCESSFUL"]
      BY <2>2 DEF Issue, Paid
    <3> QED
      BY <3>1
  <2>3. CASE b # 0 /\ ~BookingIs(w, b, "CONFIRMED")
    <3>1. e \in (IF late THEN {w} ELSE {}) \cup (IF free THEN {quote} ELSE sent)
      BY <2>3 DEF Issue
    <3>2. e = w \/ e = quote \/ (~free /\ e \in sent)
      <4> HIDE DEF quote, sent
      <4> QED
        BY <3>1
    <3>3. e = quote => Said(w)
      OBVIOUS
    <3>4. ASSUME e \in sent
          PROVE  \E r \in Offers : e = r.desk \/ Said(r.desk)
      <4>1. PICK r \in Offers :
               e = IF r.cutoff THEN r.desk
                   ELSE [r.desk EXCEPT !.conv.state = "WAITING_PAYMENT", !.conv.pay = "PENDING"]
        BY <3>4
      <4>2. e = r.desk \/ e = [r.desk EXCEPT !.conv.state = "WAITING_PAYMENT", !.conv.pay = "PENDING"]
        BY <4>1
      <4> QED
        BY <4>2
    <3> HIDE DEF sent, quote, Said, Offers
    <3> QED
      BY <3>2, <3>3, <3>4
  <2> QED
    BY <2>1, <2>2, <2>3
<1>3. ASSUME NEW d \in World, Grown(w, d), Said(d)
      PROVE  Grown(w, e)
  BY <1>3, StatedGrown, GrownTrans
<1>4. ASSUME Positive(w.conv.total) \/ (IsBooking(w, b) /\ w.book[b].priced), NEW r \in Offers
      PROVE  r.desk \in World /\ Grown(w, r.desk)
  <2>1. BookingIs(w, b, "PENDING") => w.book[b].priced
    BY <1>4 DEF Unsold, BookingIs
  <2>2. CASE force
    BY <1>1, <2>1, <2>2, ReplaceOK, ReplaceGrown DEF ResultOK, DeskOK
  <2>3. CASE ~force
    BY <1>1, <2>1, <2>3, InitiateOK, InitiateGrown DEF ResultOK, DeskOK
  <2> QED
    BY <2>2, <2>3
<1>5. Grown(w, w)
  BY GrownSame
<1> HIDE DEF Said, Offers
<1> QED
  BY <1>1, <1>2, <1>3, <1>4, <1>5

\* A settlement is a row of its own link, or the mark of a row that is there.
LEMMA SettleGrown ==
    ASSUME NEW w, DeskOK(w), NEW l \in DOMAIN w.link
    PROVE  LET e == Settle(w, l) IN
           /\ Grown(w, e) /\ Len(w.tx) \in Nat
           /\ \/ Len(e.tx) = Len(w.tx)
              \/ /\ Len(e.tx) = Len(w.tx) + 1
                 /\ l \in SettledLinks(e.tx) \ SettledLinks(w.tx)
<1> DEFINE b == w.link[l].of
           z == Marked(w.book, b, "CONFIRMED")
           paid == [w EXCEPT !.book = z]
<1>1. /\ w \in World /\ w.book \in Seq(BookingRow) /\ w.tx \in Seq(LinkTx) /\ w.link \in Seq(GatewayLink)
      /\ "CONFIRMED" \in BookingStatus /\ "SUCCESSFUL" \in TxStatus /\ Len(w.tx) \in Nat
  BY LenProperties DEF DeskOK, World, BookingStatus, TxStatus
<1>2. b \in Nat /\ l \in Nat
  <2>1. w.link[l] \in GatewayLink /\ l \in Nat
    BY <1>1, ElementOfSeq, LenProperties
  <2> QED
    BY <2>1 DEF GatewayLink
<1>3. DeskOK(paid) /\ paid \in World /\ Grown(w, paid) /\ paid.tx = w.tx
  <2>1. SameShape(w.book, z) /\ DOMAIN z = DOMAIN w.book
    BY <1>1, BookMarked
  <2> HIDE DEF z, b
  <2>2. DeskOK(paid) /\ paid.tx = w.tx /\ paid.link = w.link /\ paid.book = z
    BY <2>1, BooksOnly
  <2>3. Len(z) = Len(w.book)
    BY <1>1, <2>1, LenProperties DEF SameShape
  <2> HIDE DEF paid
  <2> QED
    BY <2>2, <2>3 DEF Grown, DeskOK
<1>4. \A dup \in BOOLEAN : Succeeded(b, l, dup) \in LinkTx /\ Succeeded(b, l, dup).link = l
                           /\ Succeeded(b, l, dup).status = "SUCCESSFUL"
  BY <1>1, <1>2 DEF Succeeded, LinkTx
<1>5. ASSUME NEW d, DeskOK(d), Grown(w, d), d.tx = w.tx, NEW dup \in BOOLEAN,
             Settle(w, l) = [d EXCEPT !.tx = Append(d.tx, Succeeded(b, l, dup))],
             l \notin SettledLinks(w.tx)
      PROVE  LET e == Settle(w, l) IN
             /\ Grown(w, e) /\ Len(e.tx) = Len(w.tx) + 1
             /\ l \in SettledLinks(e.tx) \ SettledLinks(w.tx)
  <2> DEFINE row == Succeeded(b, l, dup)
  <2>1. row \in LinkTx /\ row.link = l /\ row.status = "SUCCESSFUL"
    BY <1>4
  <2> HIDE DEF row
  <2> DEFINE s == Append(d.tx, row)
             e == [d EXCEPT !.tx = s]
  <2>2. Grown(d, e) /\ e.tx = s /\ Len(s) = Len(d.tx) + 1 /\ l \in SettledLinks(s)
    BY <1>5, <2>1, RowAdded
  <2>3. Settle(w, l) = e
    BY <1>5 DEF row
  <2> HIDE DEF e, s
  <2> QED
    BY <1>5, <2>2, <2>3, GrownTrans
<1>6. CASE BookingIs(w, b, "CONFIRMED")
  <2>1. CASE \E t \in DOMAIN w.tx : w.tx[t].link = l /\ w.tx[t].status = "SUCCESSFUL"
    <3>1. Settle(w, l) = w
      BY <1>6, <2>1 DEF Settle
    <3> QED
      BY <1>1, <3>1, GrownSame
  <2>2. CASE ~\E t \in DOMAIN w.tx : w.tx[t].link = l /\ w.tx[t].status = "SUCCESSFUL"
    <3>1. Settle(w, l) = [w EXCEPT !.tx = Append(w.tx, Succeeded(b, l, TRUE))]
      BY <1>1, <1>6, <2>2 DEF Settle, World
    <3>2. l \notin SettledLinks(w.tx)
      BY <2>2 DEF SettledLinks
    <3>3. Grown(w, w)
      BY GrownSame
    <3> HIDE DEF b
    <3> QED
      BY <1>1, <1>5, <3>1, <3>2, <3>3
  <2> QED
    BY <2>1, <2>2
<1>7. CASE ~BookingIs(w, b, "CONFIRMED") /\ RowOf(w, l) = {}
  <2>1. Settle(w, l) = [w EXCEPT !.book[b].status = "CONFIRMED", !.tx = Append(@, Succeeded(b, l, FALSE))]
    BY <1>7 DEF Settle
  <2>2. Settle(w, l) = [paid EXCEPT !.tx = Append(paid.tx, Succeeded(b, l, FALSE))]
    BY <1>1, <2>1 DEF World, Marked
  <2>3. l \notin SettledLinks(w.tx)
    BY <1>7 DEF RowOf, SettledLinks
  <2> HIDE DEF paid, b
  <2> QED
    BY <1>1, <1>3, <1>5, <2>2, <2>3
<1>8. CASE ~BookingIs(w, b, "CONFIRMED") /\ RowOf(w, l) # {}
  <2> DEFINE t == CHOOSE u \in RowOf(w, l) : TRUE
  <2>1. Settle(w, l) = [w EXCEPT !.book[b].status = "CONFIRMED", !.tx[t].status = "SUCCESSFUL"]
    BY <1>8 DEF Settle
  <2> HIDE DEF t
  <2>2. Settle(w, l) = [paid EXCEPT !.tx[t].status = "SUCCESSFUL"]
    BY <1>1, <2>1 DEF World, Marked
  <2> HIDE DEF paid, b
  <2>3. Grown(paid, Settle(w, l))
    BY <1>3, <2>2, MarkGrown
  <2>4. Settle(w, l).tx = [w.tx EXCEPT ![t].status = "SUCCESSFUL"]
    BY <1>3, <2>2 DEF World
  <2> DEFINE s == [w.tx EXCEPT ![t].status = "SUCCESSFUL"]
  <2>5. s \in Seq(LinkTx) /\ DOMAIN s = DOMAIN w.tx
    BY <1>1, RowMarked
  <2> HIDE DEF s
  <2>6. Len(s) = Len(w.tx)
    BY <1>1, <2>5, LenProperties
  <2> QED
    BY <1>1, <1>3, <2>3, <2>4, <2>6, GrownTrans DEF s
<1> QED
  BY <1>1, <1>5, <1>6, <1>7, <1>8

\* A link that ended.
LEMMA EndGrown ==
    ASSUME NEW w, DeskOK(w), NEW l, NEW status
    PROVE  Grown(w, End(w, l, status))
BY MarkTerminalGrown, GrownSame DEF End

\* The gateway's answer.
LEMMA ReconcileGrown ==
    ASSUME NEW w, DeskOK(w), NEW b, NEW e \in Reconcile(w, b)
    PROVE  Grown(w, e)
<1> DEFINE t == Largest(TxsOf(w, b))
           l == w.tx[t].link
<1>1. \/ e = w
      \/ TxsOf(w, b) # {} /\ e = Settle(w, l)
      \/ e = MarkTerminal(w, t, EndStatus(w, l))
  <2>1. CASE ~IsBooking(w, b) \/ BookingIs(w, b, "CONFIRMED") \/ TxsOf(w, b) = {}
    BY <2>1 DEF Reconcile
  <2>2. CASE ~(~IsBooking(w, b) \/ BookingIs(w, b, "CONFIRMED") \/ TxsOf(w, b) = {})
    BY <2>2 DEF Reconcile
  <2> QED
    BY <2>1, <2>2
<1>2. TxsOf(w, b) # {} => l \in DOMAIN w.link
  BY LedgerRow DEF DeskOK
<1> HIDE DEF l, t
<1> QED
  BY <1>1, <1>2, SettleGrown, MarkTerminalGrown, GrownSame

-----------------------------------------------------------------------------
(* Steps within the bounds.                                                *)

\* Settled links are links.
LEMMA SettledFinite ==
    ASSUME NEW w, DeskOK(w)
    PROVE  IsFiniteSet(SettledLinks(w.tx)) /\ Cardinality(SettledLinks(w.tx)) \in Nat
           /\ (Len(w.link) <= MaxLink => Cardinality(SettledLinks(w.tx)) <= MaxLink)
<1> DEFINE n == Len(w.link)
<1>1. w.link \in Seq(GatewayLink)
  BY DEF DeskOK, World
<1>2. DOMAIN w.link = 1 .. n /\ n \in Nat
  BY <1>1, LenProperties
<1>3. SettledLinks(w.tx) \in SUBSET (1 .. n)
  BY <1>2 DEF SettledLinks, DeskOK
<1> HIDE DEF n
<1>4. IsFiniteSet(1 .. n) /\ Cardinality(1 .. n) = n
  BY <1>2, FS_Interval
<1>5. IsFiniteSet(SettledLinks(w.tx)) /\ Cardinality(SettledLinks(w.tx)) <= n
  BY <1>3, <1>4, FS_Subset
<1>6. Cardinality(SettledLinks(w.tx)) \in Nat
  BY <1>5, FS_CardinalityType
<1> QED
  BY <1>2, <1>5, <1>6, LinkBoundAssumption DEF n

\* Where the rows are within the guard or no more than before,
LEMMA BoundKept ==
    ASSUME NEW w, NEW e, DeskOK(w), DeskOK(e), BoundOK(w), Grown(w, e),
           Len(e.tx) <= MaxTx \/ Len(e.tx) = Len(w.tx)
    PROVE  BoundOK(e)
<1>1. Len(w.tx) \in Nat /\ Len(e.tx) \in Nat /\ MaxTx \in Nat
  BY LenProperties, LinkBoundAssumption DEF DeskOK, World
<1>2. Cardinality(SettledLinks(w.tx)) <= Cardinality(SettledLinks(e.tx))
  BY SettledFinite, FS_Subset DEF Grown
<1>3. Cardinality(SettledLinks(w.tx)) \in Nat /\ Cardinality(SettledLinks(e.tx)) \in Nat
  BY SettledFinite
<1>4. Len(e.tx) <= MaxTx + Cardinality(SettledLinks(e.tx))
  BY <1>1, <1>2, <1>3 DEF BoundOK
<1> QED
  BY <1>4 DEF BoundOK, Grown

\* ... or one more for a link settled now.
LEMMA BoundSettled ==
    ASSUME NEW w, NEW e, DeskOK(w), DeskOK(e), BoundOK(w), Grown(w, e),
           Len(e.tx) = Len(w.tx) + 1, NEW l \in SettledLinks(e.tx) \ SettledLinks(w.tx)
    PROVE  BoundOK(e)
<1> DEFINE S == SettledLinks(w.tx)
           T == SettledLinks(e.tx)
<1>1. Len(w.tx) \in Nat /\ Len(e.tx) \in Nat /\ MaxTx \in Nat
  BY LenProperties, LinkBoundAssumption DEF DeskOK, World
<1>2. IsFiniteSet(S) /\ IsFiniteSet(T) /\ Cardinality(S) \in Nat /\ Cardinality(T) \in Nat
  BY SettledFinite
<1>3. S \cup {l} \in SUBSET T /\ l \notin S
  BY DEF Grown
<1> HIDE DEF S, T
<1>4. Cardinality(S \cup {l}) = Cardinality(S) + 1
  BY <1>2, <1>3, FS_AddElement
<1>5. Cardinality(S \cup {l}) <= Cardinality(T)
  BY <1>2, <1>3, FS_Subset
<1>6. Len(e.tx) <= MaxTx + Cardinality(T)
  BY <1>1, <1>2, <1>4, <1>5 DEF BoundOK, S
<1> QED
  BY <1>6 DEF BoundOK, Grown, T

BoundInv == BoundOK(world)

\* A step that ends in such a desk keeps the bounds.
LEMMA BoundLanded == \A w : Reached(w) /\ BoundOK(w) => BoundInv'
BY DEF BoundInv, BoundOK, world, Reached

\* The guard of a message bounds the rows;
LEMMA BecomeBound ==
    ASSUME DialogueInv, BoundInv, NEW w, DeskOK(w), Grown(world, w), Become(w)
    PROVE  BoundInv'
<1>1. Reached(w) /\ (Len(w.tx) <= MaxTx \/ Len(w.tx) = Len(world.tx))
  BY Now DEF Become, Reached
<1>2. BoundOK(w)
  BY <1>1, Now, BoundKept DEF BoundInv
<1> QED
  BY <1>1, <1>2, BoundLanded

\* ... a message that only moves the conversation adds none.
LEMMA SpeakBound == ASSUME BoundInv, UNCHANGED deskVars PROVE BoundInv'
BY DEF BoundInv, BoundOK, world, deskVars

\* Starting anew withdraws bookings and makes none.
LEMMA CancelledGrown ==
    ASSUME NEW w, DeskOK(w), NEW b
    PROVE  DeskOK(Cancelled(w, b)) /\ Grown(w, Cancelled(w, b))
<1> DEFINE e == Cancelled(w, b)
<1>1. /\ DeskOK(e) /\ e.tx = w.tx /\ e.link = w.link
      /\ e.book = Marked(w.book, b, "CANCELLED") \/ e.book = w.book
  BY CancelledOK
<1>2. w.book \in Seq(BookingRow) /\ e.book \in Seq(BookingRow)
  BY <1>1 DEF DeskOK, World
<1> HIDE DEF e
<1>3. Len(e.book) = Len(w.book)
  BY <1>1, <1>2, LenProperties DEF Marked
<1> QED
  BY <1>1, <1>3 DEF Grown, e

\* A conversation reset.
LEMMA ResetGrown ==
    ASSUME NEW w, DeskOK(w), NEW s \in States
    PROVE  DeskOK(Reset(w, s)) /\ Grown(w, Reset(w, s))
<1> DEFINE c == Cancelled(w, w.conv.draft)
           e == Reset(w, s)
<1>1. DeskOK(e) /\ e.tx = w.tx /\ e.link = w.link /\ e.book = c.book
  BY ResetOK
<1>2. Grown(w, c) /\ c.link = w.link
  BY CancelledGrown, CancelledOK
<1> HIDE DEF c, e
<1> QED
  BY <1>1, <1>2 DEF Grown, e

\* The reset of a customer who starts anew,
LEMMA ResetBound ==
    ASSUME DialogueInv, BoundInv, NEW st \in {"START", "CATEGORY_SELECTION", "CANCELLED"},
           Become(Reset(world, st))
    PROVE  BoundInv'
<1>1. st \in States
  BY DEF States
<1> QED
  BY <1>1, Now, ResetGrown, BecomeBound

\* ... or after the session expired.
LEMMA RestartExpiredBound == ASSUME DialogueInv, BoundInv, RestartExpired PROVE BoundInv'
<1> DEFINE c == Cancelled(world, conv.ref)
           e == Reset(c, "CATEGORY_SELECTION")
<1>1. DeskOK(c) /\ Grown(world, c) /\ "CATEGORY_SELECTION" \in States
  BY Now, CancelledGrown DEF States
<1>2. Become(e)
  BY DEF RestartExpired
<1> HIDE DEF c
<1>3. DeskOK(e) /\ Grown(c, e)
  BY <1>1, ResetGrown
<1> HIDE DEF e
<1> QED
  BY <1>1, <1>2, <1>3, GrownTrans, BecomeBound

\* A link issued.
LEMMA IssueBound ==
    ASSUME DialogueInv, BoundInv, NEW w, DeskOK(w), ChoiceOK(w.conv), Unsold(w), Grown(world, w),
           NEW force \in BOOLEAN, NEW e \in Issue(w, force), Become(e)
    PROVE  BoundInv'
<1>1. DeskOK(e) /\ Grown(w, e)
  BY IssueOK, IssueGrown
<1> QED
  BY <1>1, GrownTrans, BecomeBound

\* A confirmed summary.
LEMMA ConfirmBound == ASSUME DialogueInv, BoundInv, Confirm PROVE BoundInv'
<1>1. /\ HandOK(world) /\ DeskOK(world) /\ ChoiceOK(world.conv) /\ Grown(world, world)
      /\ Unsold(world) /\ world.conv = conv /\ world.book = book
      /\ conv.state = "BOOKING_REVIEW"
  BY Now, GrownSame DEF DialogueInv, Unsold, QuoteAwaited, Confirm
<1>2. CASE \E e \in Issue(world, FALSE) : Become(e)
  BY <1>1, <1>2, IssueBound
<1>3. CASE Speak([conv EXCEPT !.state = "FLIGHT_INPUT", !.flight = NoFlight])
  BY <1>3, SpeakBound DEF Speak
<1>4. CASE conv.ref = 0 /\ Len(book) < MaxBooking /\ \E e \in Issue(Created(world), FALSE) : Become(e)
  <2> DEFINE c == Created(world)
  <2>1. DeskOK(c) /\ ChoiceOK(c.conv) /\ Unsold(c) /\ c.link = world.link /\ Made(world.book, c.book)
    BY <1>1, <1>4, CreatedHand
  <2>2. c.tx = world.tx
    BY <1>1 DEF Created, DeskOK, World
  <2>3. \E e \in Issue(c, FALSE) : Become(e)
    BY <1>4
  <2> HIDE DEF c
  <2>4. Len(c.book) <= MaxBooking
    <3>1. c.book \in Seq(BookingRow) /\ world.book \in Seq(BookingRow)
      BY <1>1, <2>1 DEF DeskOK, World
    <3>2. /\ DOMAIN c.book = 1 .. Len(c.book) /\ Len(c.book) \in Nat /\ Len(world.book) \in Nat
          /\ DOMAIN c.book = 1 .. Len(world.book) + 1
      BY <2>1, <3>1, LenProperties DEF Made
    <3>3. Len(c.book) = Len(world.book) + 1
      BY <3>2
    <3> QED
      BY <1>1, <1>4, <3>2, <3>3, CatalogueAssumption
  <2>5. Grown(world, c)
    BY <2>1, <2>2, <2>4 DEF Grown
  <2> QED
    BY <2>1, <2>3, <2>5, IssueBound
<1> QED
  BY <1>2, <1>3, <1>4 DEF Confirm

\* A request without a price is a booking more.
LEMMA SubmitBound ==
    ASSUME DialogueInv, BoundInv, NEW kind \in {"booking", "charter"}, Len(book) < MaxBooking,
           book' = Append(book, [kind |-> kind, status |-> "PENDING", priced |-> FALSE, later |-> FALSE]),
           tx' = tx, link' = link
    PROVE  BoundInv'
<1> DEFINE row == [kind |-> kind, status |-> "PENDING", priced |-> FALSE, later |-> FALSE]
<1>1. row \in BookingRow
  BY DEF BookingRow, BookingStatus
<1> HIDE DEF row
<1>2. Len(Append(book, row)) = Len(book) + 1 /\ Len(book) \in Nat
  BY <1>1, Now, BookAdded
<1>3. Len(book') <= MaxBooking
  BY <1>2, CatalogueAssumption DEF row
<1> QED
  BY <1>3 DEF BoundInv, BoundOK, world

\* A message of a customer who waits.
LEMMA WaitingBound == ASSUME DialogueInv, BoundInv, WaitingMessage PROVE BoundInv'
<1>1. /\ HandOK(world) /\ DeskOK(world) /\ ChoiceOK(world.conv) /\ Grown(world, world)
      /\ Unsold(world) /\ conv.state = "WAITING_PAYMENT"
  BY Now, GrownSame DEF DialogueInv, Unsold, QuoteAwaited, WaitingMessage
<1>2. ASSUME NEW e \in Issue(world, conv.pay \in {"EXPIRED", "CANCELLED"}), Become(e)
      PROVE  BoundInv'
  <2> DEFINE force == conv.pay \in {"EXPIRED", "CANCELLED"}
  <2>1. force \in BOOLEAN /\ e \in Issue(world, force)
    BY <1>2
  <2> HIDE DEF force
  <2> QED
    BY <1>1, <1>2, <2>1, IssueBound
<1>3. ASSUME NEW d \in Reconcile(world, conv.ref)
      PROVE  DeskOK(d) /\ ChoiceOK(d.conv) /\ Unsold(d) /\ Grown(world, d)
  <2>1. HandOK(d) /\ d.conv = conv
    BY ReconciledHand
  <2>2. Unsold(d)
    BY <1>1, <2>1 DEF HandOK, Unsold, QuoteAwaited
  <2> QED
    BY <1>1, <2>1, <2>2, ReconcileGrown DEF HandOK
<1>4. ASSUME NEW d \in Reconcile(world, conv.ref), BookingIs(d, conv.ref, "CONFIRMED"), Become(Paid(d))
      PROVE  BoundInv'
  <2>1. HandOK(d) /\ d.conv = conv
    BY ReconciledHand
  <2>2. DeskOK(Paid(d))
    BY <1>4, <2>1, PaidHand DEF HandOK
  <2>3. Grown(d, Paid(d))
    BY <1>3, StatedGrown DEF Paid, DeskOK
  <2> QED
    BY <1>3, <1>4, <2>2, <2>3, GrownTrans, BecomeBound
<1>5. ASSUME NEW d \in Reconcile(world, conv.ref), NEW e \in Issue(d, FALSE), Become(e)
      PROVE  BoundInv'
  BY <1>3, <1>5, IssueBound
<1>6. \/ \E e \in Issue(world, conv.pay \in {"EXPIRED", "CANCELLED"}) : Become(e)
      \/ \E d \in Reconcile(world, conv.ref) : BookingIs(d, conv.ref, "CONFIRMED") /\ Become(Paid(d))
      \/ \E d \in Reconcile(world, conv.ref) : \E e \in Issue(d, FALSE) : Become(e)
  <2>1. ASSUME NEW d \in Reconcile(world, conv.ref),
               IF BookingIs(d, conv.ref, "CONFIRMED") THEN Become(Paid(d))
               ELSE \E w \in Issue(d, FALSE) : Become(w)
        PROVE  (BookingIs(d, conv.ref, "CONFIRMED") /\ Become(Paid(d))) \/ \E e \in Issue(d, FALSE) : Become(e)
    BY <2>1
  <2> QED
    BY <2>1 DEF WaitingMessage
<1> QED
  BY <1>2, <1>4, <1>5, <1>6

\* Links that change their state are as many.
LEMMA LinkBound ==
    ASSUME DialogueInv, DialogueInv', BoundInv, book' = book, tx' = tx, DOMAIN link' = DOMAIN link
    PROVE  BoundInv'
<1>1. link \in Seq(GatewayLink) /\ link' \in Seq(GatewayLink)
  BY DEF DialogueInv, HandOK, DeskOK, World, world
<1>2. Len(link') = Len(link)
  BY <1>1, LenProperties
<1> QED
  BY <1>2 DEF BoundInv, BoundOK, world

\* The cleanup job expires rows that wait.
LEMMA SweepBound == ASSUME DialogueInv, BoundInv, Sweep PROVE BoundInv'
<1>1. DialogueInv'
  BY SweepStep DEF Outcome
<1>2. PICK w : w = world'
  OBVIOUS
<1>3. DeskOK(w) /\ w.book = book /\ w.link = link /\ w.tx = tx'
  BY <1>1, <1>2 DEF DialogueInv, HandOK, Sweep, world
<1>4. PICK S \in SUBSET {t \in DOMAIN tx : tx[t].status = "PENDING" /\ link[tx[t].link].st # "paid"} :
         w.tx = [t \in DOMAIN tx |-> IF t \in S THEN [tx[t] EXCEPT !.status = "EXPIRED"] ELSE tx[t]]
  BY <1>3 DEF Sweep
<1>5. DOMAIN w.tx = DOMAIN tx /\ \A t \in DOMAIN tx : tx[t].status = "SUCCESSFUL" => w.tx[t] = tx[t]
  BY <1>4
<1>6. SettledLinks(tx) \subseteq SettledLinks(w.tx)
  BY <1>5 DEF SettledLinks
<1>7. Len(w.tx) = Len(tx)
  <2>1. w.tx \in Seq(LinkTx) /\ tx \in Seq(LinkTx)
    BY <1>3, Now DEF DeskOK, World
  <2> QED
    BY <1>5, <2>1, LenProperties
<1>8. Grown(world, w)
  BY <1>3, <1>6, Now DEF Grown
<1>9. BoundOK(w)
  BY <1>3, <1>7, <1>8, Now, BoundKept DEF BoundInv
<1> QED
  BY <1>2, <1>9 DEF BoundInv

\* A paid link may add the one row that settles it.
LEMMA PaidBound == ASSUME DialogueInv, BoundInv, NEW l, PaidEvent(l) PROVE BoundInv'
<1> DEFINE b == link[l].of
           d == Settle(world, l)
           w == Synced(d, b)
<1>1. l \in DOMAIN link /\ link' = link /\ conv' = w.conv /\ book' = w.book /\ tx' = w.tx
  BY DEF PaidEvent
<1>2. w = Paid(d) \/ w = d
  BY DEF Synced
<1> HIDE DEF w
<1>3. DeskOK(d) /\ d.link = link
  BY <1>1, Now, SettleOK
<1>4. /\ Grown(world, d)
      /\ \/ Len(d.tx) = Len(world.tx)
         \/ Len(d.tx) = Len(world.tx) + 1 /\ l \in SettledLinks(d.tx) \ SettledLinks(world.tx)
  BY <1>1, Now, SettleGrown
<1> HIDE DEF d
<1>5. BoundOK(d)
  BY <1>3, <1>4, Now, BoundKept, BoundSettled DEF BoundInv
<1>6. w.tx = d.tx /\ w.link = d.link /\ w.book = d.book
  <2>1. d \in World
    BY <1>3 DEF DeskOK
  <2>2. Paid(d).tx = d.tx /\ Paid(d).link = d.link /\ Paid(d).book = d.book
    BY <2>1 DEF Paid, World
  <2> QED
    BY <1>2, <2>2
<1>7. Reached(w) /\ BoundOK(w)
  BY <1>1, <1>3, <1>5, <1>6 DEF Reached, BoundOK
<1> QED
  BY <1>7, BoundLanded

\* The end of a link adds no row.
LEMMA EndedBound == ASSUME DialogueInv, BoundInv, NEW l, EndedEvent(l) PROVE BoundInv'
<1> DEFINE status == EndStatus(world, l)
           row == [link[l] EXCEPT !.told = TRUE]
           y == [link EXCEPT ![l] = row]
           u == [world EXCEPT !.link = y]
           w == End(u, l, status)
           told == [w EXCEPT !.conv.state = "WAITING_PAYMENT", !.conv.pay = status]
<1>1. l \in DOMAIN link /\ status \in {"EXPIRED", "CANCELLED"}
  BY DEF EndedEvent, EndStatus
<1>2. Become(w) \/ Become(told)
  <2>1. [world EXCEPT !.link[l].told = TRUE] = u
    BY DEF world
  <2>2. Become(IF Linked(link[l].of) THEN told ELSE w)
    <3> HIDE DEF u
    <3> QED
      BY <2>1 DEF EndedEvent
  <2> HIDE DEF told, w
  <2> QED
    BY <2>2
<1> HIDE DEF status
<1>3. row \in GatewayLink /\ row.of = link[l].of /\ row.st = link[l].st
  BY <1>1, LinkFields DEF GatewayLink
<1> HIDE DEF row
<1>4. /\ HandOK(u) /\ u.book = book /\ u.tx = tx /\ u.link = y
      /\ DOMAIN y = DOMAIN link
  BY <1>1, <1>3, LinkChanges
<1> HIDE DEF u, y
<1>5. DeskOK(u)
  BY <1>4 DEF HandOK
<1>6. Grown(world, u)
  <2>1. y \in Seq(GatewayLink) /\ link \in Seq(GatewayLink)
    BY <1>4, <1>5, Now DEF DeskOK, World
  <2>2. Len(y) = Len(link)
    BY <1>4, <2>1, LenProperties
  <2> QED
    BY <1>4, <2>2, Now DEF Grown
<1>7. ResultOK(u, Result(w, 0)) /\ Grown(u, w)
  BY <1>1, <1>5, EndOK, EndGrown
<1>8. DeskOK(w) /\ Grown(world, w)
  BY <1>6, <1>7, GrownTrans DEF ResultOK, Result
<1> HIDE DEF w
<1>9. told.tx = w.tx /\ told.link = w.link /\ told.book = w.book
  <2>1. w \in World
    BY <1>8 DEF DeskOK
  <2> QED
    BY <2>1 DEF World
<1> HIDE DEF told
<1>10. PICK e \in {w, told} : Become(e)
  BY <1>2
<1>11. e.tx = w.tx /\ e.link = w.link /\ e.book = w.book
  BY <1>9, <1>10
<1>12. Reached(e) /\ (Len(w.tx) <= MaxTx \/ Len(w.tx) = Len(world.tx))
  BY <1>10, <1>11, Now DEF Become, Reached
<1>13. BoundOK(w)
  BY <1>8, <1>12, Now, BoundKept DEF BoundInv
<1>14. BoundOK(e)
  BY <1>11, <1>13 DEF BoundOK
<1> QED
  BY <1>12, <1>14, BoundLanded

\* Every step of the dialogue keeps the bounds.
LEMMA BoundStep == DialogueInv /\ BoundInv /\ DialogueNext => BoundInv'
<1> SUFFICES ASSUME DialogueInv, BoundInv, DialogueNext
             PROVE  BoundInv'
  OBVIOUS
<1>c. conv \in Conversation /\ ChoiceOK(conv) /\ DialogueInv'
  BY Now, DialogueStep DEF Outcome
<1>s. Spoken => BoundInv'
  BY SpeakBound DEF Spoken
<1>1. CASE Catalogue
  BY <1>c, <1>s, <1>1, SpokenCategory, SpokenJourney, SpokenTravelType, SpokenAirport, SpokenTerminal,
     SpokenPackage, SpokenService, SpokenRetype, SpokenLeave DEF Catalogue
<1>2. CASE Flights
  BY <1>c, <1>s, <1>2, SpokenChangeAirport, SpokenReenter, SpokenLater, SpokenOverride, SpokenEnter,
     SpokenConfirmFlight, SpokenChangePackage, SpokenSwitch DEF Flights
<1>3. CASE DetailsGiven
  BY <1>c, <1>s, <1>3, SpokenAnswer, SpokenDetails, SpokenPassengers, SpokenSummary DEF DetailsGiven
<1>4. CASE Interrupt
  <2>1. CASE Restart \/ Cancel \/ SessionExpires
    BY <2>1, ResetBound DEF Restart, Cancel, SessionExpires
  <2>2. CASE RestartExpired
    BY <2>2, RestartExpiredBound
  <2>3. CASE Back
    <3>1. Become(Reset(world, "CATEGORY_SELECTION")) \/ Speak(BackTo(conv))
      BY <2>3 DEF Back
    <3> QED
      BY <3>1, ResetBound, SpeakBound DEF Speak
  <2> QED
    BY <1>4, <2>1, <2>2, <2>3 DEF Interrupt
<1>5. CASE Requests
  <2>1. CASE Confirm
    BY <2>1, ConfirmBound
  <2>2. CASE SubmitCharter
    <3>1. /\ Len(book) < MaxBooking /\ tx' = tx /\ link' = link
          /\ book' = Append(book, [kind |-> "charter", status |-> "PENDING", priced |-> FALSE, later |-> FALSE])
      BY <2>2 DEF SubmitCharter, Become, world
    <3> QED
      BY <3>1, SubmitBound
  <2>3. CASE TravelStart
    BY <2>3, SpeakBound DEF TravelStart, Speak
  <2>4. CASE TravelSubmit
    <3>1. /\ Len(book) < MaxBooking /\ tx' = tx /\ link' = link
          /\ book' = Append(book, [kind |-> "booking", status |-> "PENDING", priced |-> FALSE, later |-> FALSE])
      BY <2>4 DEF TravelSubmit, Become, world
    <3> QED
      BY <3>1, SubmitBound
  <2>5. CASE WaitingMessage
    BY <2>5, WaitingBound
  <2> QED
    BY <1>5, <2>1, <2>2, <2>3, <2>4, <2>5 DEF Requests
<1>6. CASE Events
  <2>1. CASE PayLink \/ LinkLapses
    <3>1. book' = book /\ tx' = tx /\ DOMAIN link' = DOMAIN link
      BY <2>1 DEF PayLink, LinkLapses
    <3> QED
      BY <1>c, <3>1, LinkBound
  <2>2. CASE Sweep
    BY <2>2, SweepBound
  <2>3. CASE \E l \in 1 .. MaxLink : PaidEvent(l) \/ EndedEvent(l)
    BY <2>3, PaidBound, EndedBound
  <2> QED
    BY <1>6, <2>1, <2>2, <2>3 DEF Events
<1> QED
  BY <1>1, <1>2, <1>3, <1>4, <1>5, <1>6 DEF DialogueNext

\* An empty desk is within the bounds.
LEMMA BoundStarts == DialogueInit => BoundInv
<1> SUFFICES ASSUME DialogueInit PROVE BoundInv
  OBVIOUS
<1>1. Len(world.book) = 0 /\ Len(world.tx) = 0 /\ Len(world.link) = 0
  BY EmptySeq DEF DialogueInit, world
<1>2. Cardinality(SettledLinks(world.tx)) \in Nat
  BY DialogueStarts, Now, SettledFinite
<1> QED
  BY <1>1, <1>2, LinkBoundAssumption, CatalogueAssumption DEF BoundInv, BoundOK

\* With the bounds the invariant is the type.
LEMMA DialogueTypes == DialogueInv /\ BoundInv => DialogueTypeOK
<1> SUFFICES ASSUME DialogueInv, BoundInv
             PROVE  DialogueTypeOK
  OBVIOUS
<1>1. tx \in Seq(LinkTx) /\ Len(tx) \in Nat
  BY Now, LenProperties DEF DeskOK, World
<1>2. /\ Len(book) <= MaxBooking /\ Len(link) <= MaxLink
      /\ Len(tx) <= MaxTx + Cardinality(SettledLinks(tx))
  BY Now DEF BoundInv, BoundOK
<1>3. Cardinality(SettledLinks(tx)) \in Nat /\ Cardinality(SettledLinks(tx)) <= MaxLink
  BY <1>2, Now, SettledFinite
<1>4. Len(tx) <= MaxTx + MaxLink
  BY <1>1, <1>2, <1>3, LinkBoundAssumption
<1> QED
  BY <1>1, <1>2, <1>4, Now DEF DialogueTypeOK

\* The conversation, its bookings, their ledger rows and links keep their form for any
\* catalogue, and there are never more rows than the bound and one for each link: a
\* settlement that finds no row to mark adds one, and never a second for its link
\* (handle_verified_payment, persist_whatsapp_payment_link_tx).
THEOREM DialogueTyped == DialogueSpec => []DialogueTypeOK
<1>1. DialogueInit => BoundInv
  BY BoundStarts DEF DialogueInit
<1>2. DialogueInv /\ BoundInv /\ [DialogueNext]_dialogueVars => BoundInv'
  <2>1. BoundInv /\ UNCHANGED dialogueVars => BoundInv'
    BY SpeakBound DEF dialogueVars, deskVars
  <2> QED
    BY <2>1, BoundStep
<1>3. DialogueInv /\ BoundInv => DialogueTypeOK
  BY DialogueTypes
<1> QED
  BY <1>1, <1>2, <1>3, DialogueInvariant, PTL DEF DialogueSpec
=============================================================================
