---------------------------- MODULE FlightLookup ----------------------------
(***************************************************************************)
(* One flight number with two legs, A to B and B to C, looked up by the    *)
(* website and by one WhatsApp chat.  Answers of the flight data providers *)
(* are kept in the memory of the workers and Redis (hot), in a row per day *)
(* and a PERPETUAL row (api), in the chat's five-minute rows (raw), in a   *)
(* row per sector (sectors), and what was not found in marks that live     *)
(* fifteen minutes.  The chat's form of an answer names its airports by    *)
(* their names, the website's by their codes.                              *)
(***************************************************************************)
EXTENDS Naturals, FiniteSets

CONSTANTS
    LastDay,        \* days of travel that are asked for
    MaxAsking,      \* bound: requests that wait for the provider at once
    AskedAirport,   \* airports a departure service is asked for at
    AskedSector     \* legs that are asked for by both their ends

Leg == {"AB", "BC"}
From == [AB |-> "A", BC |-> "B"]

ASSUME FlightAssumption ==
    /\ LastDay \in Nat \ {0} /\ MaxAsking \in Nat \ {0}
    /\ AskedAirport \subseteq {"A", "B"} /\ AskedSector \subseteq Leg

VARIABLES
    provider,   \* settings.FLIGHT_PROVIDER
    hot,        \* _RAM_CACHE and Redis: cache key -> answer
    api,        \* flight_api_cache: day or PERPETUAL -> answer
    own,        \* the rows of api that AviationStack's answers wrote
    raw,        \* flight_api_cache: day -> leg of a row as AviationStack listed it
    sectors,    \* flight_status_records with their raw_details
    marks,      \* days with a NOT_FOUND key
    asking,     \* calls of a provider that are under way
    chat        \* the step of the chat's verification

flightVars == <<provider, hot, api, own, raw, sectors, marks, asking, chat>>
cacheVars == <<hot, api, own, raw, sectors, marks>>

Provider == {"aerodatabox", "aviationstack", "aviation_edge"}

\* A request names a day or none (0), and nothing else, the airport of its
\* departure service, Aviation Edge's direction "any", or both ends; the airports
\* on one day only, which bounds the number of keys.
Request(days, airports, legs) == [day : days, airport : airports, sector : legs]
WebRequest ==
         Request(1 .. LastDay, {IF provider = "aviation_edge" THEN "any" ELSE "-"}, {"-"})
    \cup Request({0} \ {n \in {0} : provider = "aerodatabox"}, {"-"}, {"-"})
    \cup Request({1}, AskedAirport, {"-"}) \cup Request({1}, {"-"}, AskedSector)
FlightRequest == Request(0 .. LastDay, {"-"}, {"-"}) \cup Request(1 .. LastDay, {"any"}, {"-"})
            \cup Request({1}, AskedAirport, {"-"}) \cup Request({1}, {"-"}, AskedSector)
Call == [req : FlightRequest, of : Provider]

Plain(r) == r.airport = "-" /\ r.sector = "-"
Directed(r) == r.airport # "-"
PlainOn(day) == [day |-> day, airport |-> "-", sector |-> "-"]
Wanted(r) == {l \in Leg : r.sector \in {"-", l} /\ r.airport \in {"-", "any", From[l]}}

Perpetual == LastDay + 1
Answered(leg, form) == [leg |-> leg, form |-> form]
Nothing == Answered("-", "nothing")
NotFound == Answered("-", "mark")
Answers == [leg : Leg, form : {"web", "chat", "raw"}]

Chat(step, leg, day) == [step |-> step, leg |-> leg, day |-> day]
Idle == Chat("idle", "-", 0)
Asking == Chat("asking", "-", 0)
Probing == Chat("probing", "-", 0)

\* build_cache_keys: the service airport is no part of a key.  Key 0 stands for
\* LATEST and PERSISTENT, which are written and read together.
KeyOf(r) == <<r.day, IF r.airport \in {"A", "B"} THEN "departure"
                     ELSE IF Directed(r) THEN "any" ELSE r.sector>>
Latest == <<0, "-">>
FlightKey == {KeyOf(r) : r \in FlightRequest} \cup {Latest}
KeysRead(r) == {KeyOf(r)} \cup (IF Plain(r) THEN {Latest} ELSE {})

FlightInit ==
    /\ provider \in Provider
    /\ hot = [k \in FlightKey |-> Nothing]
    /\ api = [d \in 1 .. Perpetual |-> Nothing] /\ own = {}
    /\ raw = [d \in 1 .. LastDay |-> "-"]
    /\ sectors = {} /\ marks = {} /\ asking = {} /\ chat = Idle

-----------------------------------------------------------------------------
\* An answer in the chat's form names its airports, which is no match for a code.
OfSector(a, r) == r.sector = "-" \/ (r.sector = a.leg /\ a.form = "web")

\* Faulty: a cached mark answers like a cached flight.
FitsOrMark(a, r) == a = NotFound \/ (a.leg # "-" /\ OfSector(a, r))

\* _matches_route: a mark is no answer.
Fits(a, r) == a.leg # "-" /\ OfSector(a, r)

HotHits(r) == {a \in {hot[k] : k \in KeysRead(r)} : Fits(a, r)}

\* The rows of flight_api_cache, the chat's newer than the others of a day, and
\* those a request reads: its day's, or without a direction or sector the
\* PERPETUAL one, or the newest of all.
CacheRow(d) == IF d <= LastDay /\ raw[d] # "-" THEN Answered(raw[d], "raw") ELSE api[d]
CacheRows == {d \in 1 .. Perpetual : CacheRow(d) # Nothing}
RowsRead(r) == IF r.day \in CacheRows THEN {r.day}
               ELSE IF ~Plain(r) THEN {}
               ELSE IF Perpetual \in CacheRows THEN {Perpetual} ELSE CacheRows

\* get_unified_flight, from fast to slow: what it finds, with the day it is kept
\* under from now on when it comes out of the database, else 0.  A direction
\* without both ends gets nothing from the database, no day nothing of a sector.
CacheHits(r) ==
    LET rows == {<<CacheRow(d), d>> : d \in {e \in RowsRead(r) : Fits(CacheRow(e), r)}}
    IN IF HotHits(r) # {} THEN HotHits(r) \X {0}
       ELSE IF Directed(r) THEN {}
       ELSE IF rows # {} THEN rows
       ELSE {a \in sectors : r.day # 0 /\ Fits(a, r)} \X {r.day}

Kept(r, a, day) ==
    [k \in FlightKey |->
        IF k = <<day, KeyOf(r)[2]>> \/ (Plain(r) /\ k = Latest) THEN a ELSE hot[k]]

\* store_unified_flight: whatever the request, the rows of the day and the
\* PERPETUAL one are replaced, and both outlive a mark's fifteen minutes.
StoreFlight(r, a, by) ==
    LET days == {r.day, Perpetual} IN
    /\ hot' = Kept(r, a, r.day)
    /\ api' = [d \in DOMAIN api |-> IF d \in days THEN a ELSE api[d]]
    /\ own' = IF by = "aviationstack" THEN own \cup days ELSE own \ days
    /\ raw' = [raw EXCEPT ![r.day] = "-"]
    /\ sectors' = sectors \cup ({a} \cap Answers)

-----------------------------------------------------------------------------
\* The lookups that may begin: the website's, and the chat's probes of AeroDataBox.
Lookup == {[req |-> r, of |-> provider] : r \in WebRequest}
     \cup {[req |-> PlainOn(d), of |-> "aerodatabox"] : d \in {e \in 1 .. LastDay : chat = Probing}}

\* Without a day today's mark counts, which is the first day's.
MarkedDay(r) == IF r.day = 0 THEN 1 ELSE r.day
Unmarked(c) == c.of = "aviation_edge" \/ MarkedDay(c.req) \notin marks

\* A lookup without a mark that finds the flight in the caches.
Serve(c) ==
    /\ c \in Lookup /\ Unmarked(c)
    /\ \E h \in CacheHits(c.req) : hot' = IF h[2] = 0 THEN hot ELSE Kept(c.req, h[1], h[2])
    /\ UNCHANGED <<provider, api, own, raw, sectors, marks, asking, chat>>

BeginCall(c) ==
    /\ c \in Lookup /\ CacheHits(c.req) = {}
    /\ c \notin asking /\ Cardinality(asking) < MaxAsking
    /\ asking' = asking \cup {c} /\ UNCHANGED <<provider, cacheVars, chat>>

\* validate_flight has neither mark nor hit and begins its HTTP call.  It may do
\* without, when the provider's copy of an earlier answer is there to return.
AskProvider(c) == c.of # "aviation_edge" /\ Unmarked(c) /\ BeginCall(c)

\* Aviation Edge asks for timetables, routes and live flights, and heeds no mark.
AskEdge(c) == c.of = "aviation_edge" /\ BeginCall(c)

\* _select_best_candidate, or the sector filter: another leg rather than none.
Best(candidates, r) == IF candidates \cap Wanted(r) # {} THEN candidates \cap Wanted(r) ELSE candidates

\* The providers' answers in the website's form, airports by their codes.
TimetableEntry(leg) == Answered(leg, "web")
FlightRecord(leg) == Answered(leg, "web")
EdgeRecord(leg) == Answered(leg, "web")

AnswerOf(c, of) ==
    c \in asking /\ c.of = of /\ asking' = asking \ {c} /\ UNCHANGED <<provider, marks, chat>>

\* AeroDataBox knows the flight on the day or in today's timetable.
TimetableHit(c, listed) ==
    /\ AnswerOf(c, "aerodatabox")
    /\ \E leg \in Best(listed, c.req) : StoreFlight(c.req, TimetableEntry(leg), c.of)

\* AviationStack lists the flight on whatever days.
FlightsHit(c, listed) ==
    /\ AnswerOf(c, "aviationstack") /\ c.req.day # 0
    /\ \E leg \in Best(listed, c.req) : StoreFlight(c.req, FlightRecord(leg), c.of)

\* Aviation Edge has rows of this flight number, for the sector or another.
ScheduleHit(c, listed) ==
    /\ AnswerOf(c, "aviation_edge") /\ c.req.day # 0
    /\ \E leg \in Best(listed, c.req) : StoreFlight(c.req, EdgeRecord(leg), c.of)

\* A lookup without a day is kept under the day its first record departs on.
StatusHit(c, leg, day) ==
    /\ AnswerOf(c, "aviationstack") /\ c.req.day = 0
    /\ StoreFlight(PlainOn(day), FlightRecord(leg), c.of)
RouteHit(c, leg, day) ==
    /\ AnswerOf(c, "aviation_edge") /\ c.req.day = 0
    /\ StoreFlight(PlainOn(day), EdgeRecord(leg), c.of)

\* Without an answer the day is marked; an outage of AviationStack that is no
\* exhausted quota looks the same.
Miss(c) ==
    /\ c \in asking /\ c.of # "aviation_edge" /\ asking' = asking \ {c}
    /\ marks' = marks \cup {MarkedDay(c.req)}
    /\ StoreFlight(PlainOn(MarkedDay(c.req)), NotFound, c.of)
    /\ UNCHANGED <<provider, chat>>

\* An outage of AeroDataBox and AviationStack's quota are raised, no mark is left.
Outage(c) ==
    /\ c \in asking /\ c.of # "aviation_edge"
    /\ asking' = asking \ {c} /\ UNCHANGED <<provider, cacheVars, chat>>

\* Aviation Edge's errors and misses end alike, and leave no trace ...
EdgeFails(c) == AnswerOf(c, "aviation_edge") /\ UNCHANGED cacheVars

\* ... but a lookup of a day may go on to AviationStack first.
FallBack(c) ==
    LET next == [c EXCEPT !.of = "aviationstack"] IN
    /\ c \in asking /\ c.of = "aviation_edge" /\ c.req.day # 0
    /\ Unmarked(next) /\ CacheHits(c.req) = {}
    /\ asking' = (asking \ {c}) \cup {next} /\ UNCHANGED <<provider, cacheVars, chat>>

-----------------------------------------------------------------------------
\* The chat confirms a flight with its airports' names and keeps it like that.
ChatStore(leg, day, by) ==
    /\ StoreFlight(PlainOn(day), Answered(leg, "chat"), by)
    /\ chat' = Idle /\ UNCHANGED <<provider, marks, asking>>

\* Unless AeroDataBox is the provider, the chat goes by AviationStack's rows.
OwnRows == own \cup {d \in 1 .. LastDay : raw[d] # "-"}

\* _select_best_record over the rows: the website's form and marks are malformed,
\* and the record must be of the day of travel.
Selected(day) == {CacheRow(d).leg : d \in {e \in OwnRows \cap {day} : CacheRow(e).form \in {"chat", "raw"}}}

ChatOwnRow(day) ==
    /\ provider # "aerodatabox" /\ chat = Idle
    /\ \E leg \in Selected(day) : ChatStore(leg, day, "aviationstack")

\* Only without any own row it asks AviationStack, under its lock of the flight.
ChatAsk ==
    /\ provider # "aerodatabox" /\ chat = Idle /\ OwnRows = {}
    /\ chat' = Asking /\ UNCHANGED <<provider, cacheVars, asking>>

\* AviationStack lists a first leg for each of some days: these replace its rows,
\* and the flight is confirmed from them or serves another airport.
ChatListed(first) ==
    /\ chat = Asking
    /\ api' = [d \in DOMAIN api |-> IF d \in own THEN Nothing ELSE api[d]] /\ own' = {}
    /\ raw' = [d \in 1 .. LastDay |-> IF d \in DOMAIN first THEN first[d] ELSE "-"]
    /\ \/ chat' = Idle
       \/ \E leg \in Leg, day \in DOMAIN first : chat' = Chat("confirming", leg, day)
    /\ UNCHANGED <<provider, hot, sectors, marks, asking>>
ChatConfirm ==
    chat.step = "confirming" /\ ChatStore(chat.leg, chat.day, "aviationstack")

\* AviationStack fails or has no such flight on the day, or AeroDataBox is the
\* provider: AeroDataBox is probed, on the day of travel and the days around today.
ChatProbe ==
    /\ chat = Asking \/ (chat = Idle /\ provider = "aerodatabox")
    /\ chat' = Probing /\ UNCHANGED <<provider, cacheVars, asking>>
ChatVerified(probed, day) ==
    /\ chat = Probing /\ probed \notin marks
    /\ \E h \in CacheHits(PlainOn(probed)) : ChatStore(h[1].leg, day, "aerodatabox")

\* Not found, for another airport, or verified by Aviation Edge: nothing is stored.
ChatLeaves == chat = Probing /\ chat' = Idle /\ UNCHANGED <<provider, cacheVars, asking>>

-----------------------------------------------------------------------------
\* A restart or a day without Redis; fifteen minutes; five minutes.
HotExpires ==
    /\ hot' = [k \in FlightKey |-> Nothing]
    /\ UNCHANGED <<provider, api, own, raw, sectors, marks, asking, chat>>
MarksExpire == marks' = {} /\ UNCHANGED <<provider, hot, api, own, raw, sectors, asking, chat>>
RawExpires ==
    /\ raw' = [d \in 1 .. LastDay |-> "-"]
    /\ UNCHANGED <<provider, hot, api, own, sectors, marks, asking, chat>>

FlightNext ==
    \/ \E c \in Lookup : Serve(c) \/ AskProvider(c) \/ AskEdge(c)
    \/ \E c \in asking : Miss(c) \/ Outage(c) \/ EdgeFails(c) \/ FallBack(c)
    \/ \E c \in asking, l \in SUBSET Leg : TimetableHit(c, l) \/ FlightsHit(c, l) \/ ScheduleHit(c, l)
    \/ \E c \in asking, l \in Leg, d \in 1 .. LastDay : StatusHit(c, l, d) \/ RouteHit(c, l, d)
    \/ \E d \in 1 .. LastDay : ChatOwnRow(d) \/ (\E p \in 1 .. LastDay : ChatVerified(p, d))
    \/ ChatAsk \/ ChatConfirm \/ ChatProbe \/ ChatLeaves
    \/ \E days \in SUBSET (1 .. LastDay) \ {{}} : \E first \in [days -> Leg] : ChatListed(first)
    \/ HotExpires \/ MarksExpire \/ RawExpires

FlightSpec == FlightInit /\ [][FlightNext]_flightVars

-----------------------------------------------------------------------------
FlightTypeOK ==
    /\ provider \in Provider
    /\ hot \in [FlightKey -> Answers \cup {Nothing, NotFound}]
    /\ api \in [1 .. Perpetual -> Answers \cup {Nothing, NotFound}]
    /\ own \subseteq 1 .. Perpetual /\ raw \in [1 .. LastDay -> Leg \cup {"-"}]
    /\ sectors \subseteq Answers /\ marks \subseteq 1 .. LastDay
    /\ asking \subseteq Call /\ Cardinality(asking) <= MaxAsking
    /\ chat \in {Idle, Asking, Probing}
           \cup {Chat("confirming", l, d) : l \in Leg, d \in 1 .. LastDay}

\* What the website or the chat once learned of the flight, in whatever tier it is
\* still kept, the next lookup that it fits finds in the caches, for the sector it
\* names, whatever happens in between: outages, not-found marks, restarts, the
\* chat's deletions and lookups of other sectors and days ("Always safely persisted
\* for future reuse", store_unified_flight; "Verify that cached flight sector
\* matches user's route if specified", get_unified_flight).  The chat's rows as
\* AviationStack listed them are excused: they live five minutes.  A direction
\* without a route is, for it always asks the provider again, and so is a lookup
\* without a day, which a mark in the PERPETUAL row sends back to the provider.
Known == sectors \cup {api[d] : d \in 1 .. Perpetual} \cup {hot[k] : k \in FlightKey}
Served(r) == CacheHits(r) # {} /\ \A h \in CacheHits(r) : h[1].leg \in Wanted(r)
KnownFlightServed ==
    [][\A r \in WebRequest :
        r.day # 0 /\ ~Directed(r) /\ (\E a \in Known : a.form # "raw" /\ Fits(a, r))
            => Served(r)']_flightVars
=============================================================================
