------------------------------- MODULE MCChat -------------------------------
(***************************************************************************)
(* The customer's side for TLC.  Each initial state opens one part, so     *)
(* that their state spaces add up instead of multiplying: "details" has    *)
(* every choice of airport, flight, package and passenger in the WhatsApp  *)
(* conversation up to the first booking, "money" has several requests,     *)
(* their links and the gateway; "flights" and "gateway" are what the chat  *)
(* and the website share; "desk" edits one row of the catalogue, "shop"    *)
(* sells from two while one of them is edited once.                        *)
(***************************************************************************)
EXTENDS BookingDialogue, FlightLookup, GatewaySessions, WebShop, TLC

CONSTANTS a1, a2, f1, f2, f3

\* The summaries are those of this airport and this flight.
ASSUME FocusAssumption == a1 \in Airport /\ f2 \in Flight

VARIABLE focus

\* Summaries that "details" reaches: a verified flight, a hotel without a price
\* and a charter.  On the way to them the conversation keeps ref, draft and pay
\* and leaves the desk alone.  (With a flight to come the cutoff never refuses:
\* fewer behaviours than with a verified one.)
Flown == [NoDetails EXCEPT !.journey = "direct", !.type = "dom", !.unit = Priced(a1, "dom"),
                           !.check = "verified", !.route = f2]
Reviewed(category, meta, airport, flight, total) ==
    [conv EXCEPT !.state = "BOOKING_REVIEW", !.category = category, !.meta = meta,
                 !.airport = airport, !.total = total, !.pax = 1, !.flight = flight]
ReachReview ==
    /\ conv.state = "CATEGORY_SELECTION" /\ ~Swept(conv)
    /\ \/ Speak(Reviewed("airport", Flown, a1, f2, Times(Priced(a1, "dom"), 1)))
       \/ Speak(Reviewed("hotel", NoDetails, NoAirport, NoFlight, NoTotal))
       \/ Speak(Reviewed("charter", NoDetails, NoAirport, NoFlight, Times(Listed, 1)))
Ask == ChooseCategory /\ conv'.state = "TRAVEL_SERVICE_SELECTION"

Money ==
    \/ ReachReview \/ Ask \/ Interrupt \/ Requests \/ Events

\* The desk without customers, and a shop whose page was cached before the edit.
Desk == ShopNext /\ buyer' = buyer /\ \A a \in Admin : edit'[a].row = FirstRow
Shop ==
    /\ ShopNext /\ edits' <= 1
    /\ \A a \in Admin : edit'[a].op # "none" => a = CHOOSE x \in Admin : TRUE
    /\ fill'.held => edits' = 0 /\ ~cache.held /\ buyer' = buyer
    /\ buyer.step # "browsing" => cache' = cache

\* With Aviation Edge the chat does not ask AviationStack, whose rows the website's
\* fallbacks bring.
Lookups == FlightNext /\ (provider = "aviation_edge" => chat' # Asking)

Part == {"details", "money", "flights", "gateway", "desk", "shop"}

ChatInit ==
    /\ focus \in Part
    /\ DialogueInit /\ FlightInit /\ GatewayInit /\ ShopInit
    \* The choice of a part that rests does not matter.
    /\ focus # "flights" => provider = "aerodatabox"
    /\ focus # "shop" => kind = [row \in Row |-> "exact"]
    /\ \A row \in Row : focus # "desk" \/ row # FirstRow => rows[row] = OnSale

Rests(parts, vars) == IF focus \in parts THEN TRUE ELSE UNCHANGED vars

ChatNext ==
    /\ \/ focus = "details" /\ Len(book) = 0 /\ DialogueNext
       \/ /\ focus = "money" /\ Money
          /\ conv'.state \in {"CATEGORY_SELECTION", "BOOKING_REVIEW", "WAITING_PAYMENT",
                "COMPLETED", "AWAITING_QUOTE", "TRAVEL_SERVICE_SELECTION", "TRAVEL_ENQUIRY"}
       \/ focus = "flights" /\ Lookups
       \/ focus = "gateway" /\ GatewayNext
       \/ focus = "desk" /\ Desk
       \/ focus = "shop" /\ Shop
    /\ Rests({"details", "money"}, dialogueVars)
    /\ Rests({"flights"}, flightVars) /\ Rests({"gateway"}, gatewayVars)
    /\ Rests({"desk", "shop"}, shopVars)
    /\ UNCHANGED focus

ChatVars == <<dialogueVars, flightVars, gatewayVars, shopVars, focus>>
ChatSpec ==
    /\ ChatInit /\ [][ChatNext]_ChatVars
    /\ \A l \in 1 .. MaxLink : WF_dialogueVars(PaidEvent(l))

\* The variables of each part keep to their types.
ChatTypeOK == DialogueTypeOK /\ FlightTypeOK /\ GatewayTypeOK /\ ShopTypeOK
=============================================================================
