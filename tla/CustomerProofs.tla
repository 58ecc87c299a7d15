--------------------------- MODULE CustomerProofs ---------------------------
(***************************************************************************)
(* Theorems about the parts a customer meets: the flight data and its      *)
(* caches, the web shop's quotes and the gateway sessions of a booking,    *)
(* each for any number of days, rows, requests and returning browsers; and *)
(* these beside the conversation of DialogueProofs, as MCChat runs them.   *)
(***************************************************************************)
EXTENDS MCChat, DialogueProofs, SequenceTheorems, FiniteSetTheorems, TLAPS

Values == Answers \cup {Nothing, NotFound}

\* What is kept of an answer anywhere is kept in its sector's row, but for the
\* chat's rows as AviationStack listed them.
AnswersKept == \A a \in Known : a \in Answers /\ a.form # "raw" => a \in sectors

CachesTyped ==
    /\ hot \in [FlightKey -> Values] /\ api \in [1 .. Perpetual -> Values]
    /\ own \subseteq 1 .. Perpetual /\ raw \in [1 .. LastDay -> Leg \cup {"-"}]
    /\ sectors \subseteq Answers

FlightInv == FlightTypeOK /\ IsFiniteSet(asking) /\ AnswersKept

-----------------------------------------------------------------------------
LEMMA DaysExist == Perpetual \in Nat /\ LastDay \in 1 .. Perpetual /\ LastDay \in Nat
                   /\ 1 \in 1 .. LastDay /\ \A d \in 1 .. LastDay : d \in 1 .. Perpetual
  BY FlightAssumption DEF Perpetual

\* A request is one of a few kinds.
LEMMA RequestFields ==
    ASSUME NEW r \in FlightRequest
    PROVE  /\ r.day \in 0 .. LastDay /\ MarkedDay(r) \in 1 .. LastDay
           /\ r.airport \in {"-", "any", "A", "B"} /\ r.sector \in Leg \cup {"-"}
           /\ r = [day |-> r.day, airport |-> r.airport, sector |-> r.sector]
<1>1. \A ds, as, ls : r \in Request(ds, as, ls) =>
          /\ r.day \in ds /\ r.airport \in as /\ r.sector \in ls
          /\ r = [day |-> r.day, airport |-> r.airport, sector |-> r.sector]
  BY DEF Request
<1>2. 1 \in 1 .. LastDay /\ \A d \in 0 .. LastDay : d # 0 => d \in 1 .. LastDay
  BY FlightAssumption
<1>3. \A d \in 1 .. LastDay : d \in 0 .. LastDay
  BY FlightAssumption
<1>4. r.day \in 0 .. LastDay
  BY <1>1, <1>2, <1>3 DEF FlightRequest
<1>5. r.airport \in {"-", "any", "A", "B"} /\ r.sector \in Leg \cup {"-"}
  BY <1>1, FlightAssumption DEF FlightRequest
<1>6. r = [day |-> r.day, airport |-> r.airport, sector |-> r.sector]
  BY <1>1 DEF FlightRequest
<1> QED
  BY <1>2, <1>4, <1>5, <1>6 DEF MarkedDay

LEMMA WebRequestsAreRequests == provider \in Provider => WebRequest \subseteq FlightRequest
<1> SUFFICES ASSUME provider \in Provider, NEW r \in WebRequest
             PROVE  r \in FlightRequest
  OBVIOUS
<1>1. \A d \in 1 .. LastDay : d \in 0 .. LastDay
  BY FlightAssumption
<1>2. 0 \in 0 .. LastDay
  BY FlightAssumption
<1> QED
  BY <1>1, <1>2 DEF WebRequest, FlightRequest, Request

\* A request of a day that nothing but the flight and the day is asked of.
LEMMA PlainRequest ==
    ASSUME NEW day \in 0 .. LastDay
    PROVE  PlainOn(day) \in FlightRequest /\ PlainOn(day).day = day
  BY DEF PlainOn, FlightRequest, Request

LEMMA LookupsAreCalls ==
    ASSUME provider \in Provider, NEW c \in Lookup
    PROVE  c \in Call
<1>1. CASE c \in {[req |-> r, of |-> provider] : r \in WebRequest}
  BY <1>1, WebRequestsAreRequests DEF Call
<1>2. CASE c \in {[req |-> PlainOn(d), of |-> "aerodatabox"] : d \in {e \in 1 .. LastDay : chat = Probing}}
  <2>1. PICK d \in 1 .. LastDay : c = [req |-> PlainOn(d), of |-> "aerodatabox"]
    BY <1>2
  <2>2. d \in 0 .. LastDay
    BY FlightAssumption
  <2> QED
    BY <2>1, <2>2, PlainRequest DEF Call, Provider
<1> QED
  BY <1>1, <1>2 DEF Lookup

\* The values that are written and found.
LEMMA ValueFields ==
    /\ Nothing.leg = "-" /\ NotFound.leg = "-" /\ Nothing \notin Answers /\ NotFound \notin Answers
    /\ \A l \in Leg, f \in {"web", "chat", "raw"} :
          Answered(l, f) \in Answers /\ Answered(l, f).leg = l /\ Answered(l, f).form = f
    /\ \A a \in Values : a.leg # "-" => a \in Answers
    /\ \A a \in Answers : a.leg \in Leg /\ a.form \in {"web", "chat", "raw"}
    /\ "-" \notin Leg
  BY DEF Nothing, NotFound, Answered, Answers, Leg, Values

\* A hit is an answer that fits, and one of the rows comes with a day.
LEMMA HitsFit ==
    ASSUME CachesTyped, NEW r \in FlightRequest, NEW h \in CacheHits(r)
    PROVE  /\ h[1] \in Answers /\ Fits(h[1], r) /\ h[2] \in 0 .. Perpetual
           /\ h[1] \in Known \/ h[1].form = "raw"
<1>1. HotHits(r) # {} => h \in HotHits(r) \X {0}
  BY DEF CacheHits
<1>2. \A a \in HotHits(r) : a \in Values /\ Fits(a, r) /\ a \in Known
  <2>1. KeysRead(r) \subseteq FlightKey
    BY DEF KeysRead, FlightKey
  <2> QED
    BY <2>1 DEF HotHits, CachesTyped, Known
<1>3. \A d \in CacheRows : CacheRow(d) \in Values /\ (CacheRow(d) \in Known \/ CacheRow(d).form = "raw")
  <2> SUFFICES ASSUME NEW d \in CacheRows
               PROVE  CacheRow(d) \in Values /\ (CacheRow(d) \in Known \/ CacheRow(d).form = "raw")
    OBVIOUS
  <2>1. d \in 1 .. Perpetual
    BY DEF CacheRows
  <2>2. CASE d <= LastDay /\ raw[d] # "-"
    <3>1. d \in 1 .. LastDay
      BY <2>1, <2>2, DaysExist
    <3>2. raw[d] \in Leg
      BY <2>2, <3>1 DEF CachesTyped
    <3> QED
      BY <2>2, <3>2, ValueFields DEF CacheRow, Values
  <2>3. CASE ~(d <= LastDay /\ raw[d] # "-")
    BY <2>1, <2>3 DEF CacheRow, CachesTyped, Known
  <2> QED
    BY <2>2, <2>3
<1>4. RowsRead(r) \subseteq CacheRows /\ CacheRows \subseteq 1 .. Perpetual
  BY DEF RowsRead, CacheRows
<1>5. r.day \in 0 .. Perpetual /\ 0 \in 0 .. Perpetual /\ \A d \in 1 .. Perpetual : d \in 0 .. Perpetual
  BY RequestFields, DaysExist
<1> DEFINE dated == {<<CacheRow(d), d>> : d \in {e \in RowsRead(r) : Fits(CacheRow(e), r)}}
           sect == {a \in sectors : r.day # 0 /\ Fits(a, r)} \X {r.day}
<1>6. CASE h \in HotHits(r) \X {0}
  BY <1>2, <1>5, <1>6, ValueFields DEF Fits
<1>7. CASE h \in dated
  <2>1. PICK d \in RowsRead(r) : h = <<CacheRow(d), d>> /\ Fits(CacheRow(d), r)
    BY <1>7
  <2> QED
    BY <2>1, <1>3, <1>4, <1>5, ValueFields DEF Fits
<1>8. CASE h \in sect
  <2>1. h[1] \in sectors /\ Fits(h[1], r) /\ h[2] = r.day
    BY <1>8
  <2> QED
    BY <2>1, <1>5 DEF CachesTyped, Known
<1> HIDE DEF dated, sect
<1>9. h \in HotHits(r) \X {0} \/ h \in dated \/ h \in sect
  BY DEF CacheHits, dated, sect
<1> QED
  BY <1>6, <1>7, <1>8, <1>9

\* What fits a lookup of a day with neither direction nor answer in a faster tier
\* is found in the sectors' rows.
LEMMA SectorHit ==
    ASSUME NEW r, ~Directed(r), r.day # 0, NEW a \in sectors, Fits(a, r)
    PROVE  CacheHits(r) # {}
<1> DEFINE dated == {<<CacheRow(d), d>> : d \in {e \in RowsRead(r) : Fits(CacheRow(e), r)}}
           sect == {s \in sectors : r.day # 0 /\ Fits(s, r)} \X {r.day}
<1>1. <<a, r.day>> \in sect
  OBVIOUS
<1>2. HotHits(r) # {} => HotHits(r) \X {0} # {}
  <2> SUFFICES ASSUME NEW b \in HotHits(r)
               PROVE  HotHits(r) \X {0} # {}
    OBVIOUS
  <2>1. <<b, 0>> \in HotHits(r) \X {0}
    OBVIOUS
  <2> QED
    BY <2>1
<1>3. CacheHits(r) = IF HotHits(r) # {} THEN HotHits(r) \X {0}
                     ELSE IF dated # {} THEN dated ELSE sect
  BY DEF CacheHits
<1> HIDE DEF dated, sect
<1> QED
  BY <1>1, <1>2, <1>3

\* An answer that fits a lookup without a direction is of a leg it wants.
LEMMA FittingIsWanted ==
    ASSUME NEW r, ~Directed(r), NEW a \in Answers, Fits(a, r)
    PROVE  a.leg \in Wanted(r)
  BY ValueFields DEF Fits, OfSector, Wanted, Directed

-----------------------------------------------------------------------------
(* Every write keeps the answers.                                          *)

Caches == CachesTyped /\ AnswersKept
SectorsKept == Caches' /\ sectors \subseteq sectors'

LEMMA UnchangedCaches ==
    ASSUME Caches, UNCHANGED <<hot, api, own, raw, sectors>>
    PROVE  SectorsKept
  BY DEF SectorsKept, Caches, CachesTyped, AnswersKept, Known

\* What is put into the fast caches is known already, or listed by the chat.
LEMMA KeptAnswer ==
    ASSUME Caches, NEW r, NEW day, NEW a \in Values,
           a \in Known \/ a.form = "raw" \/ a \in sectors' \/ a = NotFound,
           hot' = Kept(r, a, day), sectors' = sectors \cup ({a} \cap Answers) \/ sectors' = sectors,
           \A d \in 1 .. Perpetual : api'[d] \in {api[d], a, Nothing},
           api' \in [1 .. Perpetual -> Values], own' \subseteq 1 .. Perpetual,
           raw' \in [1 .. LastDay -> Leg \cup {"-"}]
    PROVE  SectorsKept
<1>1. hot' \in [FlightKey -> Values] /\ \A k \in FlightKey : hot'[k] \in {hot[k], a}
  BY DEF Kept, Caches, CachesTyped
<1>2. sectors' \subseteq Answers /\ sectors \subseteq sectors'
  BY DEF Caches, CachesTyped
<1>3. a \in Answers /\ a.form # "raw" => a \in sectors'
  BY <1>2, ValueFields DEF Caches, AnswersKept
<1>4. \A b \in Known' : b \in Known \/ b = a \/ b = Nothing \/ b \in sectors'
  BY <1>1 DEF Known
<1> QED
  BY <1>1, <1>2, <1>3, <1>4, ValueFields DEF SectorsKept, Caches, CachesTyped, AnswersKept

LEMMA StoredAnswer ==
    ASSUME Caches, NEW r \in FlightRequest, NEW by,
           NEW a \in Answers \cup {NotFound}, StoreFlight(r, a, by),
           r.day # 0 \/ by # "aviationstack"
    PROVE  SectorsKept
<1>1. a \in Values /\ (r.day # 0 => {r.day, Perpetual} \subseteq 1 .. Perpetual)
  BY RequestFields, DaysExist DEF Values
<1>2. api' \in [1 .. Perpetual -> Values] /\ \A d \in 1 .. Perpetual : api'[d] \in {api[d], a, Nothing}
  BY <1>1 DEF StoreFlight, Caches, CachesTyped
<1>3. raw' \in [1 .. LastDay -> Leg \cup {"-"}]
  BY DEF StoreFlight, Caches, CachesTyped
<1>4. own' \subseteq 1 .. Perpetual
  BY <1>1 DEF StoreFlight, Caches, CachesTyped
<1>5. sectors' = sectors \cup ({a} \cap Answers) /\ hot' = Kept(r, a, r.day)
  BY DEF StoreFlight
<1> QED
  BY <1>1, <1>2, <1>3, <1>4, <1>5, KeptAnswer

LEMMA ServedFromCaches ==
    ASSUME Caches, provider \in Provider, NEW c \in Lookup, Serve(c)
    PROVE  SectorsKept
<1>1. c.req \in FlightRequest
  BY LookupsAreCalls DEF Call
<1>2. PICK h \in CacheHits(c.req) : hot' = IF h[2] = 0 THEN hot ELSE Kept(c.req, h[1], h[2])
  BY DEF Serve
<1>3. h[1] \in Values /\ (h[1] \in Known \/ h[1].form = "raw")
  BY <1>1, HitsFit DEF Caches, Values
<1>4. UNCHANGED <<api, own, raw, sectors>>
  BY DEF Serve
<1>5. CASE hot' = hot
  BY <1>4, <1>5, UnchangedCaches
<1>6. CASE hot' = Kept(c.req, h[1], h[2])
  <2>1. /\ \A d \in 1 .. Perpetual : api'[d] \in {api[d], h[1], Nothing}
        /\ api' \in [1 .. Perpetual -> Values] /\ own' \subseteq 1 .. Perpetual
        /\ raw' \in [1 .. LastDay -> Leg \cup {"-"}]
    BY <1>4 DEF Caches, CachesTyped
  <2> QED
    BY <1>3, <1>4, <1>6, <2>1, KeptAnswer
<1> QED
  BY <1>2, <1>5, <1>6

LEMMA ListedByChat ==
    ASSUME Caches, NEW days \in SUBSET (1 .. LastDay), NEW first \in [days -> Leg], ChatListed(first)
    PROVE  SectorsKept
<1>1. api' \in [1 .. Perpetual -> Values] /\ \A d \in 1 .. Perpetual : api'[d] \in {api[d], Nothing}
  BY DEF ChatListed, Caches, CachesTyped, Values
<1>2. raw' \in [1 .. LastDay -> Leg \cup {"-"}] /\ own' = {} /\ UNCHANGED <<hot, sectors>>
  BY DEF ChatListed
<1>3. \A b \in Known' : b \in Known \/ b = Nothing
  BY <1>1, <1>2 DEF Known
<1> QED
  BY <1>1, <1>2, <1>3, ValueFields DEF SectorsKept, Caches, CachesTyped, AnswersKept

LEMMA ExpiredCaches ==
    ASSUME Caches, HotExpires \/ RawExpires
    PROVE  SectorsKept
<1>1. hot' \in [FlightKey -> Values] /\ \A k \in FlightKey : hot'[k] \in {hot[k], Nothing}
  BY DEF HotExpires, RawExpires, Caches, CachesTyped, Values
<1>2. raw' \in [1 .. LastDay -> Leg \cup {"-"}] /\ UNCHANGED <<api, own, sectors>>
  BY DEF HotExpires, RawExpires, Caches, CachesTyped
<1>3. \A b \in Known' : b \in Known \/ b = Nothing
  BY <1>1, <1>2 DEF Known
<1> QED
  BY <1>1, <1>2, <1>3, ValueFields DEF SectorsKept, Caches, CachesTyped, AnswersKept

-----------------------------------------------------------------------------
(* The calls of the providers, and the chat.                               *)

ChatStates == {Idle, Asking, Probing} \cup {Chat("confirming", l, d) : l \in Leg, d \in 1 .. LastDay}
CallsTyped ==
    /\ asking \subseteq Call /\ IsFiniteSet(asking) /\ Cardinality(asking) <= MaxAsking

LEMMA AnsweredCall ==
    ASSUME CallsTyped, NEW c, asking' = asking \ {c}
    PROVE  CallsTyped'
<1>1. asking \ {c} \subseteq asking
  OBVIOUS
<1>2. IsFiniteSet(asking \ {c}) /\ Cardinality(asking \ {c}) <= Cardinality(asking)
  BY <1>1, FS_Subset DEF CallsTyped
<1>3. Cardinality(asking) \in Nat /\ Cardinality(asking \ {c}) \in Nat /\ MaxAsking \in Nat
  BY <1>2, FS_CardinalityType, FlightAssumption DEF CallsTyped
<1> QED
  BY <1>1, <1>2, <1>3 DEF CallsTyped

LEMMA BegunCall ==
    ASSUME CallsTyped, NEW c \in Call, Cardinality(asking) < MaxAsking, asking' = asking \cup {c}
    PROVE  CallsTyped'
<1>1. IsFiniteSet(asking \cup {c})
      /\ (Cardinality(asking \cup {c}) = Cardinality(asking)
          \/ Cardinality(asking \cup {c}) = Cardinality(asking) + 1)
  BY FS_AddElement DEF CallsTyped
<1>2. Cardinality(asking) \in Nat /\ MaxAsking \in Nat
  BY FS_CardinalityType, FlightAssumption DEF CallsTyped
<1> QED
  BY <1>1, <1>2 DEF CallsTyped

LEMMA FallenBackCall ==
    ASSUME CallsTyped, NEW c \in asking, NEW d \in Call, asking' = (asking \ {c}) \cup {d}
    PROVE  CallsTyped'
<1>1. IsFiniteSet(asking \ {c}) /\ Cardinality(asking \ {c}) = Cardinality(asking) - 1
  BY FS_RemoveElement DEF CallsTyped
<1>2. IsFiniteSet(asking') /\ (Cardinality(asking') = Cardinality(asking \ {c})
          \/ Cardinality(asking') = Cardinality(asking \ {c}) + 1)
  BY <1>1, FS_AddElement
<1>3. Cardinality(asking) \in Nat /\ MaxAsking \in Nat
  BY FS_CardinalityType, FlightAssumption DEF CallsTyped
<1> QED
  BY <1>1, <1>2, <1>3 DEF CallsTyped

LEMMA FlightInvParts ==
    /\ FlightInv <=> /\ Caches /\ CallsTyped /\ provider \in Provider
                    /\ marks \subseteq 1 .. LastDay /\ chat \in ChatStates
    /\ FlightInv' <=> /\ Caches' /\ CallsTyped' /\ provider' \in Provider
                     /\ marks' \subseteq 1 .. LastDay /\ chat' \in ChatStates
  BY DEF FlightInv, FlightTypeOK, Caches, CachesTyped, CallsTyped, ChatStates, Values

\* What a step leaves: the caches with their answers, the calls, the marks, the chat.
StepKeeps == SectorsKept /\ CallsTyped' /\ provider' \in Provider
             /\ marks' \subseteq 1 .. LastDay /\ chat' \in ChatStates

LEMMA LookupStep ==
    ASSUME FlightInv, NEW c \in Lookup, Serve(c) \/ AskProvider(c) \/ AskEdge(c)
    PROVE  StepKeeps
<1> USE FlightInvParts
<1>1. CASE Serve(c)
  <2>1. SectorsKept
    BY <1>1, ServedFromCaches
  <2> QED
    BY <1>1, <2>1 DEF StepKeeps, Serve, CallsTyped
<1>2. CASE BeginCall(c)
  <2>1. CallsTyped'
    BY <1>2, LookupsAreCalls, BegunCall DEF BeginCall
  <2>2. SectorsKept
    BY <1>2, UnchangedCaches DEF BeginCall, cacheVars
  <2> QED
    BY <1>2, <2>1, <2>2 DEF StepKeeps, BeginCall, cacheVars
<1> QED
  BY <1>1, <1>2 DEF AskProvider, AskEdge

LEMMA NoAnswerStep ==
    ASSUME FlightInv, NEW c \in asking, Miss(c) \/ Outage(c) \/ EdgeFails(c) \/ FallBack(c)
    PROVE  StepKeeps
<1> USE FlightInvParts
<1>1. c \in Call /\ c.req \in FlightRequest /\ c.of \in Provider
  BY DEF CallsTyped, Call
<1>2. CASE Miss(c)
  <2> DEFINE day == MarkedDay(c.req)
  <2>1. day \in 1 .. LastDay /\ day \in 0 .. LastDay /\ day # 0
    BY <1>1, RequestFields, FlightAssumption
  <2>2. PlainOn(day) \in FlightRequest /\ PlainOn(day).day # 0
    BY <2>1, PlainRequest
  <2> HIDE DEF day
  <2>3. StoreFlight(PlainOn(day), NotFound, c.of) /\ marks' = marks \cup {day}
    BY <1>2 DEF Miss, day
  <2>4. SectorsKept
    BY <2>2, <2>3, StoredAnswer
  <2>5. CallsTyped'
    BY <1>2, AnsweredCall DEF Miss
  <2> QED
    BY <1>2, <2>1, <2>3, <2>4, <2>5 DEF StepKeeps, Miss
<1>3. CASE Outage(c) \/ EdgeFails(c)
  <2>1. UNCHANGED <<provider, cacheVars, chat>> /\ asking' = asking \ {c}
    BY <1>3 DEF Outage, EdgeFails, AnswerOf, cacheVars
  <2>2. SectorsKept /\ CallsTyped'
    BY <2>1, UnchangedCaches, AnsweredCall DEF cacheVars
  <2> QED
    BY <2>1, <2>2 DEF StepKeeps, cacheVars
<1>4. CASE FallBack(c)
  <2>1. [c EXCEPT !.of = "aviationstack"] \in Call
    BY <1>1 DEF Call, Provider
  <2>2. CallsTyped'
    BY <1>4, <2>1, FallenBackCall DEF FallBack
  <2>3. SectorsKept
    BY <1>4, UnchangedCaches DEF FallBack, cacheVars
  <2> QED
    BY <1>4, <2>2, <2>3 DEF StepKeeps, FallBack, cacheVars
<1> QED
  BY <1>2, <1>3, <1>4

\* An answer for the day of the call, or for the day its first record departs on.
LEMMA AnswerStep ==
    ASSUME FlightInv, NEW c \in asking, NEW of, AnswerOf(c, of), NEW leg \in Leg,
           NEW r \in FlightRequest, StoreFlight(r, Answered(leg, "web"), c.of),
           r.day # 0 \/ c.of # "aviationstack"
    PROVE  StepKeeps
<1> USE FlightInvParts
<1>1. Answered(leg, "web") \in Answers
  BY ValueFields
<1>2. SectorsKept
  BY <1>1, StoredAnswer
<1>3. CallsTyped'
  BY AnsweredCall DEF AnswerOf
<1> QED
  BY <1>2, <1>3 DEF StepKeeps, AnswerOf

LEMMA HitStep ==
    ASSUME FlightInv, NEW c \in asking, NEW l \in SUBSET Leg,
           TimetableHit(c, l) \/ FlightsHit(c, l) \/ ScheduleHit(c, l)
    PROVE  StepKeeps
<1>1. c.req \in FlightRequest
  BY FlightInvParts DEF CallsTyped, Call
<1>2. Best(l, c.req) \subseteq Leg
  BY DEF Best
<1>3. PICK leg \in Best(l, c.req) : StoreFlight(c.req, Answered(leg, "web"), c.of)
  BY DEF TimetableHit, FlightsHit, ScheduleHit, TimetableEntry, FlightRecord, EdgeRecord
<1>4. c.req.day # 0 \/ c.of # "aviationstack"
  BY DEF TimetableHit, FlightsHit, ScheduleHit, AnswerOf
<1>5. PICK of : AnswerOf(c, of)
  BY DEF TimetableHit, FlightsHit, ScheduleHit
<1> QED
  BY <1>1, <1>2, <1>3, <1>4, <1>5, AnswerStep

LEMMA UndatedHitStep ==
    ASSUME FlightInv, NEW c \in asking, NEW l \in Leg, NEW d \in 1 .. LastDay,
           StatusHit(c, l, d) \/ RouteHit(c, l, d)
    PROVE  StepKeeps
<1>1. PlainOn(d) \in FlightRequest /\ PlainOn(d).day # 0
  BY PlainRequest, FlightAssumption
<1>2. StoreFlight(PlainOn(d), Answered(l, "web"), c.of)
  BY DEF StatusHit, RouteHit, FlightRecord, EdgeRecord
<1>3. PICK of : AnswerOf(c, of)
  BY DEF StatusHit, RouteHit
<1> QED
  BY <1>1, <1>2, <1>3, AnswerStep

\* The chat confirms a flight.
LEMMA ChatStoreStep ==
    ASSUME FlightInv, NEW leg \in Leg, NEW d \in 1 .. LastDay, NEW by, ChatStore(leg, d, by)
    PROVE  StepKeeps
<1> USE FlightInvParts
<1>1. PlainOn(d) \in FlightRequest /\ PlainOn(d).day # 0 /\ Answered(leg, "chat") \in Answers
  BY PlainRequest, FlightAssumption, ValueFields
<1>2. SectorsKept
  BY <1>1, StoredAnswer DEF ChatStore
<1> QED
  BY <1>2 DEF StepKeeps, ChatStore, CallsTyped, ChatStates

LEMMA ChatStep ==
    ASSUME FlightInv,
           \/ \E d \in 1 .. LastDay : ChatOwnRow(d) \/ (\E p \in 1 .. LastDay : ChatVerified(p, d))
           \/ ChatAsk \/ ChatConfirm \/ ChatProbe \/ ChatLeaves
           \/ \E days \in SUBSET (1 .. LastDay) \ {{}} : \E first \in [days -> Leg] : ChatListed(first)
    PROVE  StepKeeps
<1> USE FlightInvParts
<1>1. ASSUME NEW d \in 1 .. LastDay, ChatOwnRow(d)
      PROVE  StepKeeps
  <2>1. PICK leg \in Selected(d) : ChatStore(leg, d, "aviationstack")
    BY <1>1 DEF ChatOwnRow
  <2>2. PICK e \in OwnRows \cap {d} : leg = CacheRow(e).leg /\ CacheRow(e).form \in {"chat", "raw"}
    BY <2>1 DEF Selected
  <2>3. CacheRow(d) \in Values
    BY <1>1, DaysExist, ValueFields DEF CacheRow, Caches, CachesTyped, Values
  <2>4. leg \in Leg
    BY <2>2, <2>3, ValueFields DEF Values, Nothing, NotFound, Answered
  <2> QED
    BY <1>1, <2>1, <2>4, ChatStoreStep
<1>2. ASSUME NEW p \in 1 .. LastDay, NEW d \in 1 .. LastDay, ChatVerified(p, d)
      PROVE  StepKeeps
  <2>1. PICK h \in CacheHits(PlainOn(p)) : ChatStore(h[1].leg, d, "aerodatabox")
    BY <1>2 DEF ChatVerified
  <2>2. PlainOn(p) \in FlightRequest
    BY <1>2, PlainRequest, FlightAssumption
  <2>3. h[1].leg \in Leg
    BY <2>1, <2>2, HitsFit, ValueFields DEF Caches
  <2> QED
    BY <1>2, <2>1, <2>3, ChatStoreStep
<1>3. CASE ChatConfirm
  <2>1. chat.leg \in Leg /\ chat.day \in 1 .. LastDay
    BY <1>3 DEF ChatConfirm, ChatStates, Chat, Idle, Asking, Probing
  <2> QED
    BY <1>3, <2>1, ChatStoreStep DEF ChatConfirm
<1>4. CASE ChatAsk \/ ChatProbe \/ ChatLeaves
  <2>1. UNCHANGED <<provider, cacheVars, asking>> /\ chat' \in ChatStates
    BY <1>4 DEF ChatAsk, ChatProbe, ChatLeaves, ChatStates
  <2>2. SectorsKept
    BY <2>1, UnchangedCaches DEF cacheVars
  <2> QED
    BY <2>1, <2>2 DEF StepKeeps, cacheVars, CallsTyped
<1>5. ASSUME NEW days \in SUBSET (1 .. LastDay), NEW first \in [days -> Leg], ChatListed(first)
      PROVE  StepKeeps
  <2>1. SectorsKept
    BY <1>5, ListedByChat
  <2>2. chat' \in ChatStates
    BY <1>5 DEF ChatListed, ChatStates
  <2> QED
    BY <1>5, <2>1, <2>2 DEF StepKeeps, ChatListed, CallsTyped
<1> QED
  BY <1>1, <1>2, <1>3, <1>4, <1>5

LEMMA ExpiryStep ==
    ASSUME FlightInv, HotExpires \/ MarksExpire \/ RawExpires
    PROVE  StepKeeps
<1> USE FlightInvParts
<1>1. SectorsKept
  BY ExpiredCaches, UnchangedCaches DEF MarksExpire
<1> QED
  BY <1>1 DEF StepKeeps, HotExpires, MarksExpire, RawExpires, CallsTyped

LEMMA EveryLookup == FlightInv /\ [FlightNext]_flightVars => StepKeeps
<1> SUFFICES ASSUME FlightInv, [FlightNext]_flightVars
             PROVE  StepKeeps
  OBVIOUS
<1>1. CASE UNCHANGED flightVars
  BY <1>1, FlightInvParts, UnchangedCaches DEF flightVars, StepKeeps, CallsTyped
<1>2. CASE FlightNext
  BY <1>2, LookupStep, NoAnswerStep, HitStep, UndatedHitStep, ChatStep, ExpiryStep DEF FlightNext
<1> QED
  BY <1>1, <1>2

LEMMA FlightBegins == FlightInit => FlightInv
<1> SUFFICES ASSUME FlightInit
             PROVE  FlightInv
  OBVIOUS
<1>1. asking = {} /\ IsFiniteSet(asking) /\ Cardinality(asking) = 0
  BY FS_EmptySet DEF FlightInit
<1>2. CallsTyped
  BY <1>1, FlightAssumption DEF CallsTyped
<1>3. Caches
  BY ValueFields DEF FlightInit, Caches, CachesTyped, AnswersKept, Known, Values
<1> QED
  BY <1>2, <1>3, FlightInvParts DEF FlightInit, ChatStates

\* A kept answer that fits a lookup serves it.
SectorsServe == \A r \in FlightRequest :
    r.day # 0 /\ ~Directed(r) /\ (\E a \in sectors : Fits(a, r)) => Served(r)

LEMMA CachesServe == Caches => SectorsServe
<1> SUFFICES ASSUME Caches, NEW r \in FlightRequest, r.day # 0, ~Directed(r),
                    NEW a \in sectors, Fits(a, r)
             PROVE  Served(r)
  BY DEF SectorsServe
<1>1. CacheHits(r) # {}
  BY SectorHit
<1>2. \A h \in CacheHits(r) : h[1].leg \in Wanted(r)
  BY HitsFit, FittingIsWanted DEF Caches
<1> QED
  BY <1>1, <1>2 DEF Served

\* The caches, the rows of the database, the calls under way and the chat hold what
\* the code can put there: the dictionaries of get_unified_flight and
\* store_unified_flight, for any number of days and calls.
THEOREM FlightTyped == FlightSpec => []FlightTypeOK
<1>1. FlightInv /\ [FlightNext]_flightVars => FlightInv'
  BY EveryLookup, FlightInvParts DEF StepKeeps, SectorsKept
<1>2. FlightInv => FlightTypeOK
  BY DEF FlightInv
<1> QED
  BY <1>1, <1>2, FlightBegins, PTL DEF FlightSpec

\* A flight that anyone learned of is served from the caches to the next lookup it
\* fits, for the sector that lookup names (get_unified_flight's last tier, the
\* rows of flight_status_records): whatever the steps since, it is in its sector's
\* row, and no faster tier answers with another leg.
THEOREM FlightTheorem == FlightSpec => KnownFlightServed
<1> DEFINE AlwaysServed ==
      \A r \in WebRequest :
        r.day # 0 /\ ~Directed(r) /\ (\E a \in Known : a.form # "raw" /\ Fits(a, r))
            => Served(r)'
<1>1. FlightInv /\ [FlightNext]_flightVars => FlightInv'
  BY EveryLookup, FlightInvParts DEF StepKeeps, SectorsKept
<1>2. FlightInv /\ [FlightNext]_flightVars => AlwaysServed
  <2> SUFFICES ASSUME FlightInv, [FlightNext]_flightVars,
                      NEW r \in WebRequest, r.day # 0, ~Directed(r),
                      NEW a \in Known, a.form # "raw", Fits(a, r)
               PROVE  Served(r)'
    OBVIOUS
  <2>1. Caches /\ Caches' /\ sectors \subseteq sectors' /\ r \in FlightRequest
    BY EveryLookup, FlightInvParts, WebRequestsAreRequests DEF StepKeeps, SectorsKept
  <2>2. a \in Answers
    BY <2>1, ValueFields DEF Known, Caches, CachesTyped, Fits
  <2>3. a \in sectors'
    BY <2>1, <2>2 DEF Caches, AnswersKept
  <2>4. SectorsServe'
    BY <2>1, CachesServe, PTL
  <2>5. \E b \in sectors' : Fits(b, r)
    BY <2>3
  <2> QED
    BY <2>1, <2>4, <2>5 DEF SectorsServe, Fits, OfSector, Directed
<1> QED
  BY <1>1, <1>2, FlightBegins, PTL DEF FlightSpec, KnownFlightServed

-----------------------------------------------------------------------------
(* The website's shop.                                                     *)

EditType == [op : DeskEdit \cup {"none", "clear"}, row : Row, seen : Mapping, home : BOOLEAN]
Lags == {"created", "refilled", "elsewhere"}
Reasons == {"changed", "cached", "listed", "untyped", "terminals", "fallback"}
Whys == Reasons \cup {"fee", "price", "surcharge"}
BuyerType == [step : {"browsing", "quoted", "booked", "partly"}, unit : 0 .. 2, fee : BOOLEAN,
              near : Time, why : SUBSET Whys]

DeskTyped ==
    /\ rows \in [Row -> Mapping] /\ cache \in Copy /\ fill \in Copy /\ slipped \subseteq Row
    /\ edit \in [Admin -> EditType] /\ edits \in 0 .. MaxEdit

\* A page on its way into the cache lags behind by every commit since it was read.
FillTrue == fill.held /\ fill.page # PageOf(rows) => fill.lag # {}

DeskInv == DeskTyped /\ BinClosed /\ CacheTrue /\ FillTrue

\* A quote without an excuse is the price of a row that would be charged now, with
\* the fee that would be charged now.
QuoteTrue ==
    /\ buyer.step = "quoted" /\ buyer.why \cap Reasons = {} =>
          \E r \in ForSale(PageOf(rows)) : buyer.unit = PageOf(rows)[r]
    /\ buyer.step = "quoted" /\ "fee" \notin buyer.why => buyer.fee = Surcharge(buyer.near)
BuyerInv == buyer \in BuyerType /\ QuoteTrue /\ QuoteKept

\* Each submission inserts one query at most, and a second finds the first unless
\* they crossed.
Submitted(x) == IF asker[x] = "done" THEN 1 ELSE 0
QueryInv ==
    /\ asker \in [{"booking", "page"} -> {"idle", "checked", "done"}]
    /\ queries \in Nat /\ queries <= Submitted("booking") + Submitted("page")
    /\ crossed \in BOOLEAN
    /\ ~crossed => /\ queries <= 1
                   /\ \A x, y \in {"booking", "page"} :
                        asker[x] = "checked" => queries = 0 /\ (asker[y] = "checked" => x = y)

ShopInv == DeskInv /\ BuyerInv /\ QueryInv

-----------------------------------------------------------------------------
LEMMA CopyFields ==
    ASSUME NEW copy \in Copy
    PROVE  copy.held \in BOOLEAN /\ copy.page \in [Row -> 0 .. 2] /\ copy.lag \in SUBSET Lags
  BY DEF Copy, Lags

LEMMA PagesTyped ==
    ASSUME NEW table \in [Row -> Mapping]
    PROVE  PageOf(table) \in [Row -> 0 .. 2]
<1>1. \A r \in Row : table[r].price \in 0 .. 2
  BY DEF Mapping, Price
<1> QED
  BY <1>1 DEF PageOf

LEMMA NoPageTyped == NoPage \in Copy /\ ~NoPage.held
<1>1. [r \in Row |-> 0] \in [Row -> 0 .. 2]
  OBVIOUS
<1> QED
  BY <1>1 DEF NoPage, Copy

LEMMA MappingsTyped == NoMapping \in Mapping /\ Withheld \in Mapping /\ OnSale \in Mapping
                       /\ ~NoMapping.binned /\ ~Withheld.binned /\ ~OnSale.binned
                       /\ NoEdit \in EditType /\ NoEdit.op = "none"
<1>1. 0 \in 0 .. MaxEdit + 1 /\ MaxEdit + 1 \in 0 .. MaxEdit + 1 /\ 1 \in Price
  BY ShopAssumption DEF Price
<1>2. NoMapping \in Mapping /\ ~NoMapping.binned
  BY <1>1 DEF NoMapping, Mapping
<1>3. OnSale \in Mapping /\ ~OnSale.binned
  BY <1>1 DEF NoMapping, OnSale, Mapping
<1>4. Withheld \in Mapping /\ ~Withheld.binned
  BY <1>3 DEF Withheld, Mapping
<1> QED
  BY <1>2, <1>3, <1>4, ShopAssumption DEF NoEdit, EditType

\* What a commit makes of a row.
LEMMA UpdatedRow ==
    ASSUME NEW row \in Mapping, NEW e \in EditType, e.op \in DeskEdit, edits \in 0 .. MaxEdit
    PROVE  /\ Updated(row, e) \in Mapping
           /\ Updated(row, e).binned /\ Updated(row, e).open =>
                 \/ SlippedBy(e, row)
                 \/ row.binned /\ row.open /\ e.op \notin {"restore", "purge"}
<1> DEFINE u == Updated(row, e)
<1>1. /\ row.id \in 0 .. MaxEdit + 1 /\ row.price \in {1, 2} /\ row.open \in BOOLEAN
      /\ row.binned \in BOOLEAN /\ e.seen.price \in {1, 2} /\ e.seen.open \in BOOLEAN
      /\ row = [id |-> row.id, price |-> row.price, open |-> row.open, binned |-> row.binned]
  BY DEF Mapping, Price, EditType
<1>2. CASE e.op = "price"
  <2>1. u = [row EXCEPT !.price = 3 - e.seen.price]
    BY <1>2 DEF Updated, Saved
  <2>2. 3 - e.seen.price \in Price
    BY <1>1 DEF Price
  <2> QED
    BY <1>1, <1>2, <2>1, <2>2 DEF Mapping
<1>3. CASE e.op = "open"
  <2>1. u = [row EXCEPT !.open = @ \/ ~e.seen.open]
    BY <1>3 DEF Updated, Saved
  <2> QED
    BY <1>1, <1>3, <2>1 DEF Mapping, SlippedBy
<1>4. CASE e.op = "close"
  <2>1. u = [row EXCEPT !.open = @ /\ ~e.seen.open]
    BY <1>4 DEF Updated, Saved
  <2> QED
    BY <1>1, <1>4, <2>1 DEF Mapping
<1>5. CASE e.op = "create"
  <2>1. u = [NoMapping EXCEPT !.id = edits, !.open = TRUE]
    BY <1>5 DEF Updated, NewMapping
  <2>2. edits \in 0 .. MaxEdit + 1
    BY ShopAssumption
  <2> QED
    BY <2>1, <2>2, MappingsTyped DEF Mapping
<1>6. CASE e.op = "recycle"
  <2>1. u = [row EXCEPT !.binned = TRUE, !.open = @ /\ ~e.seen.open]
    BY <1>6 DEF Updated, Recycled
  <2> QED
    BY <1>1, <1>6, <2>1 DEF Mapping, SlippedBy
<1>7. CASE e.op = "restore"
  <2>1. u = [row EXCEPT !.binned = FALSE, !.open = @ \/ ~e.seen.open]
    BY <1>7 DEF Updated, Restored
  <2> QED
    BY <1>1, <2>1 DEF Mapping
<1>8. CASE e.op = "purge"
  <2>1. u = NoMapping
    BY <1>8 DEF Updated
  <2> QED
    BY <2>1, MappingsTyped
<1> QED
  BY <1>2, <1>3, <1>4, <1>5, <1>6, <1>7, <1>8 DEF DeskEdit

-----------------------------------------------------------------------------
(* The desk's steps.                                                       *)

LEMMA SameDesk == DeskInv /\ UNCHANGED <<rows, edit, edits, cache, fill, slipped>> => DeskInv'
  BY DEF DeskInv, DeskTyped, BinClosed, CacheTrue, FillTrue, PageOf

LEMMA SameSale == BuyerInv /\ QueryInv /\ UNCHANGED <<kind, rows, saleVars>> => BuyerInv' /\ QueryInv'
  BY DEF BuyerInv, QuoteTrue, QuoteKept, QueryInv, Submitted, ForSale, OfKind, PageOf, saleVars

LEMMA StartedEdit ==
    ASSUME DeskInv, NEW a \in Admin, StartEdit(a)
    PROVE  DeskInv'
<1>1. edit' \in [Admin -> EditType]
  <2>1. PICK op \in DeskEdit, r \in Row, home \in BOOLEAN :
            edit' = [edit EXCEPT ![a] = [op |-> op, row |-> r, seen |-> rows[r], home |-> home]]
    BY DEF StartEdit
  <2>2. [op |-> op, row |-> r, seen |-> rows[r], home |-> home] \in EditType
    BY DEF EditType, DeskInv, DeskTyped
  <2> QED
    BY <2>1, <2>2 DEF DeskInv, DeskTyped
<1>2. edits' \in 0 .. MaxEdit
  BY ShopAssumption DEF StartEdit, DeskInv, DeskTyped
<1>3. UNCHANGED <<rows, cache, fill, slipped>>
  BY DEF StartEdit
<1>4. \A b \in Admin : edit[b].op = "clear" => edit'[b] = edit[b]
  BY DEF StartEdit, DeskInv, DeskTyped
<1> QED
  BY <1>1, <1>2, <1>3, <1>4 DEF DeskInv, DeskTyped, BinClosed, CacheTrue, FillTrue, PageOf

\* A copy that is held misses what a commit changed, unless a clear is to follow.
LEMMA MissedCopy ==
    ASSUME NEW copy \in Copy, NEW e \in EditType, NEW clears \in BOOLEAN
    PROVE  /\ Missed(copy, e, clears) \in Copy
           /\ Missed(copy, e, clears).held = copy.held
           /\ copy.held /\ ~clears => Missed(copy, e, clears).lag # {}
<1> DEFINE why == IF e.op = "create" THEN "created" ELSE IF e.home THEN "refilled" ELSE "elsewhere"
           late == [copy EXCEPT !.lag = @ \cup {why}]
<1>1. copy.lag \cup {why} \in SUBSET Lags /\ copy.lag \cup {why} # {}
  BY CopyFields DEF Lags
<1> HIDE DEF why
<1>2. late \in Copy /\ late.held = copy.held /\ late.lag # {}
  BY <1>1 DEF Copy, Lags
<1> QED
  BY <1>2 DEF Missed, why

LEMMA CommittedEdit ==
    ASSUME DeskInv, NEW a \in Admin, CommitEdit(a)
    PROVE  DeskInv'
<1> DEFINE e == edit[a]
           row == rows[e.row]
           u == Updated(row, e)
<1>1. e \in EditType /\ e.row \in Row /\ e.op \in DeskEdit /\ row \in Mapping /\ e.home \in BOOLEAN
  BY DEF CommitEdit, DeskInv, DeskTyped, EditType
<1>2. /\ u \in Mapping
      /\ u.binned /\ u.open =>
            SlippedBy(e, row) \/ (row.binned /\ row.open /\ e.op \notin {"restore", "purge"})
  <2>1. edits \in 0 .. MaxEdit
    BY DEF DeskInv, DeskTyped
  <2> QED
    BY <1>1, <2>1, UpdatedRow
<1>3. rows' = [rows EXCEPT ![e.row] = u]
  BY DEF CommitEdit
<1>4. /\ cache' = Missed(cache, e, e.home /\ e.op # "create") /\ fill' = Missed(fill, e, FALSE)
      /\ edit' = [edit EXCEPT ![a] = IF e.op = "create" THEN NoEdit ELSE [@ EXCEPT !.op = "clear"]]
      /\ edits' = edits
  BY DEF CommitEdit
<1>s. /\ SlippedBy(e, row) => slipped' = slipped \cup {e.row}
      /\ ~SlippedBy(e, row) /\ e.op \in {"restore", "purge"} => slipped' = slipped \ {e.row}
      /\ ~SlippedBy(e, row) /\ e.op \notin {"restore", "purge"} => slipped' = slipped
  <2>1. slipped' = CASE SlippedBy(e, row) -> slipped \cup {e.row}
                     [] e.op \in {"restore", "purge"} -> slipped \ {e.row}
                     [] OTHER -> slipped
    BY DEF CommitEdit
  <2>2. SlippedBy(e, row) => e.op \notin {"restore", "purge"}
    BY DEF SlippedBy
  <2> QED
    BY <2>1, <2>2
<1> HIDE DEF u
<1>5. rows' \in [Row -> Mapping] /\ slipped' \subseteq Row
  <2>1. rows' \in [Row -> Mapping]
    BY <1>2, <1>3 DEF DeskInv, DeskTyped
  <2>2. slipped' \subseteq slipped \cup {e.row}
    BY <1>s
  <2> QED
    BY <1>1, <2>1, <2>2 DEF DeskInv, DeskTyped
<1>6. BinClosed'
  <2> SUFFICES ASSUME NEW r \in Row \ slipped', rows'[r].binned, rows'[r].open
               PROVE  FALSE
    BY DEF BinClosed
  <2>1. CASE r = e.row
    <3>1. u.binned /\ u.open
      BY <1>1, <1>3, <2>1 DEF DeskInv, DeskTyped
    <3>2. ~SlippedBy(e, row)
      BY <1>s, <2>1
    <3>3. row.binned /\ row.open /\ e.op \notin {"restore", "purge"}
      BY <1>2, <3>1, <3>2
    <3>4. slipped' = slipped
      BY <1>s, <3>2, <3>3
    <3> QED
      BY <2>1, <3>3, <3>4 DEF DeskInv, BinClosed
  <2>2. CASE r # e.row
    <3>1. rows'[r] = rows[r]
      BY <1>3, <2>2 DEF DeskInv, DeskTyped
    <3>2. r \notin slipped
      BY <1>s, <2>2
    <3> QED
      BY <3>1, <3>2 DEF DeskInv, BinClosed
  <2> QED
    BY <2>1, <2>2
<1>7. /\ cache' \in Copy /\ fill' \in Copy /\ fill'.held = fill.held /\ cache'.held = cache.held
      /\ fill.held => fill'.lag # {}
      /\ cache.held /\ ~(e.home /\ e.op # "create") => cache'.lag # {}
  BY <1>1, <1>4, MissedCopy DEF DeskInv, DeskTyped
<1>8. /\ edit' \in [Admin -> EditType]
      /\ e.home /\ e.op # "create" => edit'[a].op = "clear" /\ edit'[a].home
  <2>1. [e EXCEPT !.op = "clear"] \in EditType
        /\ [e EXCEPT !.op = "clear"].op = "clear" /\ [e EXCEPT !.op = "clear"].home = e.home
    BY <1>1 DEF EditType
  <2> QED
    BY <1>4, <2>1, MappingsTyped DEF DeskInv, DeskTyped
<1>9. CacheTrue'
  BY <1>7, <1>8 DEF CacheTrue
<1>10. FillTrue'
  BY <1>7 DEF FillTrue
<1> QED
  BY <1>4, <1>5, <1>6, <1>7, <1>8, <1>9, <1>10 DEF DeskInv, DeskTyped

LEMMA EndedEdit ==
    ASSUME DeskInv, NEW a \in Admin, FailEdit(a) \/ ClearCache(a)
    PROVE  DeskInv'
<1>1. edit' = [edit EXCEPT ![a] = NoEdit] /\ UNCHANGED <<rows, edits, fill, slipped>>
  BY DEF FailEdit, ClearCache
<1>2. edit' \in [Admin -> EditType]
  BY <1>1, MappingsTyped DEF DeskInv, DeskTyped
<1>3. CASE cache' = NoPage
  BY <1>1, <1>2, <1>3, NoPageTyped DEF DeskInv, DeskTyped, BinClosed, CacheTrue, FillTrue, PageOf
<1>4. CASE cache' = cache /\ ~(edit[a].op = "clear" /\ edit[a].home)
  <2>1. \A b \in Admin : edit[b].op = "clear" /\ edit[b].home => edit'[b] = edit[b]
    BY <1>1, <1>4 DEF DeskInv, DeskTyped
  <2> QED
    BY <1>1, <1>2, <1>4, <2>1 DEF DeskInv, DeskTyped, BinClosed, CacheTrue, FillTrue, PageOf
<1> QED
  BY <1>3, <1>4 DEF FailEdit, ClearCache, DeskEdit

LEMMA CachedPage ==
    ASSUME DeskInv, ReadPage \/ CachePage
    PROVE  DeskInv'
<1>1. CASE ReadPage
  <2>1. [held |-> TRUE, page |-> PageOf(rows), lag |-> {}] \in Copy
    BY PagesTyped DEF DeskInv, DeskTyped, Copy
  <2> QED
    BY <1>1, <2>1 DEF ReadPage, DeskInv, DeskTyped, BinClosed, CacheTrue, FillTrue, PageOf
<1>2. CASE CachePage
  BY <1>2, NoPageTyped DEF CachePage, DeskInv, DeskTyped, BinClosed, CacheTrue, FillTrue, PageOf
<1> QED
  BY <1>1, <1>2

\* A commit leaves every quote an excuse.
LEMMA CommittedSale ==
    ASSUME BuyerInv, QueryInv, NEW a \in Admin, CommitEdit(a)
    PROVE  BuyerInv' /\ QueryInv'
<1>1. /\ buyer' = [buyer EXCEPT !.why = IF buyer.step = "quoted" THEN @ \cup {"changed"} ELSE @]
      /\ UNCHANGED <<asker, queries, crossed>>
  BY DEF CommitEdit
<1>2. /\ buyer' \in BuyerType /\ buyer'.step = buyer.step /\ buyer'.fee = buyer.fee
      /\ buyer'.near = buyer.near /\ buyer'.why \ {"changed"} = buyer.why \ {"changed"}
      /\ buyer.step = "quoted" => "changed" \in buyer'.why
      /\ buyer.why \subseteq buyer'.why
  BY <1>1 DEF BuyerInv, BuyerType, Whys, Reasons
<1>3. QuoteTrue' /\ QuoteKept'
  BY <1>2 DEF BuyerInv, QuoteTrue, QuoteKept, Reasons, Surcharge
<1> QED
  BY <1>1, <1>2, <1>3 DEF BuyerInv, QueryInv, Submitted

-----------------------------------------------------------------------------
(* The customer's steps.                                                   *)

LEMMA SaleFields ==
    /\ \A b \in BuyerType : /\ b.step \in {"browsing", "quoted", "booked", "partly"}
                             /\ b.unit \in 0 .. 2 /\ b.fee \in BOOLEAN /\ b.near \in Time
                             /\ b.why \subseteq Whys
    /\ \A t \in Time : Surcharge(t) \in BOOLEAN
    /\ \A page : OfKind(page, "exact") \subseteq Row /\ OfKind(page, "wild") \subseteq Row
                 /\ ForSale(page) \subseteq Row /\ ForLeg(page) \subseteq Row
  BY DEF BuyerType, Surcharge, OfKind, ForSale, ForLeg

\* A price is shown for a reason or as it would be charged.
LEMMA ShownPrice ==
    ASSUME BuyerInv, DeskTyped, NEW r \in Row, NEW page \in [Row -> 0 .. 2],
           NEW times \in SUBSET Time, NEW fee \in BOOLEAN, NEW why \in SUBSET Reasons,
           why = {} => r \in ForSale(PageOf(rows)) /\ page[r] = PageOf(rows)[r],
           ShowPrice(r, page, times, fee, why)
    PROVE  BuyerInv'
<1>1. PICK near \in times :
        buyer' = [step |-> "quoted", unit |-> page[r], near |-> near,
                  fee |-> fee /\ Surcharge(near),
                  why |-> why \cup (IF fee THEN {} ELSE {"fee"})]
  BY DEF ShowPrice
<1>2. UNCHANGED <<kind, rows>>
  BY DEF ShowPrice, catalogueVars
<1>3. /\ buyer'.step = "quoted" /\ buyer'.unit = page[r] /\ buyer'.near = near
      /\ buyer'.fee = (fee /\ Surcharge(near))
      /\ buyer'.why = why \cup (IF fee THEN {} ELSE {"fee"})
  BY <1>1
<1>4. buyer' \in BuyerType
  BY <1>1, SaleFields DEF BuyerType, Whys, Reasons
<1>5. QuoteKept' /\ ("fee" \notin buyer'.why => fee) /\ (buyer'.why \cap Reasons = {} => why = {})
  BY <1>3 DEF QuoteKept, Reasons
<1>6. buyer'.why \cap Reasons = {} =>
          \E s \in ForSale(PageOf(rows)) : buyer'.unit = PageOf(rows)[s]
  BY <1>3, <1>5
<1>7. (ForSale(PageOf(rows)))' = ForSale(PageOf(rows)) /\ (PageOf(rows))' = PageOf(rows)
  BY <1>2 DEF ForSale, OfKind, PageOf
<1>8. "fee" \notin buyer'.why => buyer'.fee = Surcharge(buyer'.near)
  <2>1. Surcharge(near) \in BOOLEAN
    BY SaleFields
  <2>2. fee => (fee /\ Surcharge(near)) = Surcharge(near)
    BY <2>1
  <2> QED
    BY <1>3, <1>5, <2>2
<1>9. QuoteTrue'
  BY <1>6, <1>7, <1>8 DEF QuoteTrue, Surcharge
<1> QED
  BY <1>4, <1>5, <1>9 DEF BuyerInv

\* A list of another page, or of rows that are not for sale, says why.
LEMMA ShownList ==
    ASSUME BuyerInv, DeskTyped, NEW page \in [Row -> 0 .. 2], NEW times \in SUBSET Time,
           NEW why \in SUBSET Reasons, why = {} => page = PageOf(rows), ShowListed(page, times, why)
    PROVE  BuyerInv'
<1>1. PICK r \in OfKind(page, "exact") \cup OfKind(page, "wild") :
        ShowPrice(r, page, times, FALSE, why \cup (IF r \in ForSale(page) THEN {} ELSE {"listed"}))
  BY DEF ShowListed
<1> DEFINE reasons == why \cup (IF r \in ForSale(page) THEN {} ELSE {"listed"})
<1>2. reasons \in SUBSET Reasons /\ (reasons = {} => why = {} /\ r \in ForSale(page))
  BY DEF Reasons
<1>3. r \in Row
  BY SaleFields
<1> HIDE DEF reasons
<1>4. ShowPrice(r, page, times, FALSE, reasons)
  BY <1>1 DEF reasons
<1> QED
  BY <1>2, <1>3, <1>4, ShownPrice

LEMMA QuoteStep ==
    ASSUME BuyerInv, DeskTyped,
           \/ BrowsePage \/ DetectJourney \/ ValidateJourney \/ BrowseConfigured \/ ResolveCatalog
           \/ CheckAvailability \/ QuoteDraft
    PROVE  BuyerInv'
<1> DEFINE now == PageOf(rows)
<1>1. now \in [Row -> 0 .. 2] /\ cache.page \in [Row -> 0 .. 2]
  BY PagesTyped, CopyFields DEF DeskTyped
<1>2. /\ \A b \in BOOLEAN : Detectable(b) \subseteq Time
      /\ {} \in SUBSET Reasons /\ {"cached"} \in SUBSET Reasons /\ {"untyped"} \in SUBSET Reasons
      /\ {"fallback"} \in SUBSET Reasons
  BY DEF Detectable, Bookable, Time, Reasons
<1> HIDE DEF now
<1>3. CASE BrowsePage
  <2>1. ShowListed(cache.page, Time, IF cache.page = now THEN {} ELSE {"cached"})
    BY <1>3 DEF BrowsePage, now
  <2> QED
    BY <1>1, <1>2, <2>1, ShownList DEF now
<1>4. CASE DetectJourney \/ ValidateJourney
  <2>1. PICK b \in BOOLEAN : ShowListed(now, Detectable(b), {})
    BY <1>4 DEF DetectJourney, ValidateJourney, now
  <2> QED
    BY <1>1, <1>2, <2>1, ShownList DEF now
<1>5. CASE BrowseConfigured
  <2>1. PICK r \in Row : ShowPrice(r, now, Time, FALSE, {"untyped"})
    BY <1>5 DEF BrowseConfigured, now
  <2> QED
    BY <1>1, <1>2, <2>1, ShownPrice
<1>6. CASE ResolveCatalog
  <2>1. PICK r \in ForSale(now) : ShowPrice(r, now, Time, FALSE, {})
    BY <1>6 DEF ResolveCatalog, now
  <2>2. r \in Row
    BY SaleFields
  <2> QED
    BY <1>1, <1>2, <2>1, <2>2, ShownPrice DEF now
<1>7. CASE CheckAvailability
  <2>1. CASE ShowListed(now, Time, {})
    BY <1>1, <1>2, <2>1, ShownList DEF now
  <2>2. CASE \E r \in ForLeg(now) : ShowPrice(r, now, Time, FALSE, {"fallback"})
    <3>1. PICK r \in ForLeg(now) : ShowPrice(r, now, Time, FALSE, {"fallback"})
      BY <2>2
    <3>2. r \in Row
      BY SaleFields
    <3> QED
      BY <1>1, <1>2, <3>1, <3>2, ShownPrice
  <2> QED
    BY <1>7, <2>1, <2>2 DEF CheckAvailability, now
<1>8. CASE QuoteDraft
  <2>1. PICK r \in ForSale(now), b \in BOOLEAN : ShowPrice(r, now, Time \ {"late"}, b, {})
    BY <1>8 DEF QuoteDraft, now
  <2>2. r \in Row /\ Time \ {"late"} \in SUBSET Time
    BY SaleFields
  <2> QED
    BY <1>1, <1>2, <2>1, <2>2, ShownPrice DEF now
<1> QED
  BY <1>3, <1>4, <1>5, <1>6, <1>7, <1>8

LEMMA PassedTime ==
    ASSUME BuyerInv, TimePasses \/ Leave
    PROVE  BuyerInv'
<1>1. UNCHANGED <<kind, rows>>
  BY DEF TimePasses, Leave, catalogueVars
<1>2. CASE TimePasses
  <2> DEFINE next == CASE buyer.near = "early" -> "express" [] buyer.near = "express" -> "short"
                       [] OTHER -> "late"
             why == IF buyer.near = "early" THEN buyer.why \cup {"fee"} ELSE buyer.why
  <2>1. buyer' = [buyer EXCEPT !.near = next, !.why = why]
    BY <1>2 DEF TimePasses
  <2>2. next \in Time /\ (buyer.near = "early" \/ Surcharge(next) = Surcharge(buyer.near))
    BY <1>2, SaleFields DEF TimePasses, BuyerInv, Time, Surcharge
  <2>3. /\ why \subseteq Whys /\ why \cap Reasons = buyer.why \cap Reasons
        /\ "price" \in why <=> "price" \in buyer.why
        /\ "surcharge" \in why <=> "surcharge" \in buyer.why
        /\ "fee" \in buyer.why => "fee" \in why
        /\ buyer.near = "early" => "fee" \in why
    BY SaleFields DEF BuyerInv, Whys, Reasons
  <2> HIDE DEF next, why
  <2>4. /\ buyer' \in BuyerType /\ buyer'.step = buyer.step /\ buyer'.unit = buyer.unit
        /\ buyer'.fee = buyer.fee /\ buyer'.near = next /\ buyer'.why = why
    BY <2>1, <2>2, <2>3 DEF BuyerInv, BuyerType
  <2>5. QuoteKept'
    BY <2>3, <2>4 DEF BuyerInv, QuoteKept, Reasons
  <2>6. QuoteTrue'
    BY <1>1, <2>2, <2>3, <2>4 DEF BuyerInv, QuoteTrue, ForSale, OfKind, PageOf, Surcharge
  <2> QED
    BY <2>4, <2>5, <2>6 DEF BuyerInv
<1>3. CASE Leave
  BY <1>3 DEF Leave, Browsing, BuyerInv, BuyerType, QuoteTrue, QuoteKept, Time, Whys
<1> QED
  BY <1>2, <1>3

\* Among the rows that a booking may be charged for, the quoted one is the only one
\* or there are several.
LEMMA OnlyRow ==
    ASSUME NEW found \in SUBSET Row, NEW r \in found, NEW s \in found, r # s
    PROVE  Cardinality(found) > 1
<1>1. IsFiniteSet(found)
  BY FS_Subset, ShopAssumption
<1>2. {r, s} \subseteq found /\ IsFiniteSet({r, s})
  BY <1>1, FS_Subset
<1>3. Cardinality({r, s}) <= Cardinality(found)
  BY <1>1, <1>2, FS_Subset
<1>4. Cardinality({r}) = 1 /\ IsFiniteSet({r})
  BY FS_Singleton
<1>5. Cardinality({r} \cup {s}) = Cardinality({r}) + 1
  BY <1>4, FS_AddElement
<1>6. {r} \cup {s} = {r, s}
  OBVIOUS
<1>7. Cardinality(found) \in Nat
  BY <1>1, FS_CardinalityType
<1> QED
  BY <1>3, <1>4, <1>5, <1>6, <1>7

LEMMA ChargedPrice ==
    ASSUME BuyerInv, DeskTyped, NEW found \in SUBSET Row, NEW step \in {"booked", "partly"},
           ForSale(PageOf(rows)) # {} => found = ForSale(PageOf(rows)), Charge(found, step)
    PROVE  BuyerInv'
<1> DEFINE page == PageOf(rows)
           fee == Surcharge(buyer.near)
<1>1. PICK r \in found :
        buyer' = [buyer EXCEPT !.step = step, !.unit = page[r], !.fee = fee,
            !.why = @ \cup (IF page[r] # buyer.unit THEN {"price"} ELSE {})
                      \cup (IF fee # buyer.fee THEN {"surcharge"} ELSE {})
                      \cup (IF Cardinality(found) > 1 THEN {"terminals"} ELSE {})
                      \cup (IF kind[r] = "other" THEN {"fallback"} ELSE {})]
  BY DEF Charge
<1> DEFINE why == buyer.why \cup (IF page[r] # buyer.unit THEN {"price"} ELSE {})
                      \cup (IF fee # buyer.fee THEN {"surcharge"} ELSE {})
                      \cup (IF Cardinality(found) > 1 THEN {"terminals"} ELSE {})
                      \cup (IF kind[r] = "other" THEN {"fallback"} ELSE {})
<1>2. buyer.step = "quoted" /\ page \in [Row -> 0 .. 2] /\ buyer \in BuyerType
  BY PagesTyped DEF Charge, DeskTyped, BuyerInv
<1>3. why \subseteq Whys
  BY <1>2, SaleFields DEF Whys, Reasons
<1>4. "surcharge" \in why => "fee" \in why
  BY <1>2 DEF BuyerInv, QuoteTrue, QuoteKept
<1>5. "price" \in why => why \cap Reasons # {}
  <2>1. CASE page[r] = buyer.unit
    BY <2>1 DEF BuyerInv, QuoteKept, Reasons
  <2>2. CASE page[r] # buyer.unit /\ buyer.why \cap Reasons = {}
    <3>1. PICK s \in ForSale(page) : buyer.unit = page[s]
      BY <1>2, <2>2 DEF BuyerInv, QuoteTrue
    <3>2. s \in found /\ r # s
      BY <2>2, <3>1
    <3>3. "terminals" \in why
      BY <3>2, OnlyRow
    <3> QED
      BY <3>3 DEF Reasons
  <2> QED
    BY <2>1, <2>2
<1>6. buyer' = [buyer EXCEPT !.step = step, !.unit = page[r], !.fee = fee, !.why = why]
  BY <1>1
<1>7. page[r] \in 0 .. 2 /\ fee \in BOOLEAN
  BY <1>2, SaleFields
<1> HIDE DEF page, fee, why
<1>8. buyer' \in BuyerType /\ buyer'.why = why /\ buyer'.step = step
  BY <1>2, <1>3, <1>6, <1>7 DEF BuyerType
<1> QED
  BY <1>4, <1>5, <1>8 DEF BuyerInv, QuoteTrue, QuoteKept, Reasons

LEMMA AskedQuery ==
    ASSUME QueryInv, NEW x \in DOMAIN asker, CheckQuery(x) \/ InsertQuery(x)
    PROVE  QueryInv'
<1>1. x \in {"booking", "page"} /\ DOMAIN asker = {"booking", "page"}
  BY DEF QueryInv
<1>2. CASE CheckQuery(x)
  <2> DEFINE step == IF queries > 0 THEN "done" ELSE "checked"
  <2>1. /\ asker[x] = "idle" /\ asker' = [asker EXCEPT ![x] = step] /\ queries' = queries
        /\ crossed' = (crossed \/ \E y \in DOMAIN asker : asker[y] = "checked")
    BY <1>2 DEF CheckQuery
  <2>2. asker' \in [{"booking", "page"} -> {"idle", "checked", "done"}]
    BY <2>1 DEF QueryInv
  <2>3. \A y \in {"booking", "page"} : y # x => asker'[y] = asker[y]
    BY <2>1 DEF QueryInv
  <2>4. asker'[x] = step
    BY <1>1, <2>1 DEF QueryInv
  <2>5. queries' <= Submitted("booking")' + Submitted("page")' /\ queries' \in Nat
    <3>1. \A y \in {"booking", "page"} : asker[y] = "done" => asker'[y] = "done"
      BY <2>1, <2>3
    <3> QED
      BY <2>1, <3>1 DEF QueryInv, Submitted
  <2>6. crossed' \in BOOLEAN
    BY <2>1
  <2>7. ~crossed' => ~crossed /\ \A y \in {"booking", "page"} : asker[y] # "checked"
    BY <1>1, <2>1 DEF QueryInv
  <2>8. ~crossed' => queries' <= 1
    BY <2>1, <2>7 DEF QueryInv
  <2>9. ASSUME ~crossed', NEW y \in {"booking", "page"}, asker'[y] = "checked"
        PROVE  y = x /\ queries' = 0
    BY <2>1, <2>3, <2>4, <2>7, <2>9 DEF QueryInv
  <2> QED
    BY <2>2, <2>5, <2>6, <2>8, <2>9 DEF QueryInv
<1>3. CASE InsertQuery(x)
  BY <1>1, <1>3 DEF InsertQuery, QueryInv, Submitted
<1> QED
  BY <1>2, <1>3

-----------------------------------------------------------------------------
LEMMA ShopBegins == ShopInit => ShopInv
<1> SUFFICES ASSUME ShopInit
             PROVE  ShopInv
  OBVIOUS
<1>1. DeskTyped
  <2>1. rows \in [Row -> Mapping]
    BY MappingsTyped DEF ShopInit
  <2>2. edit \in [Admin -> EditType]
    BY MappingsTyped DEF ShopInit
  <2>3. edits \in 0 .. MaxEdit
    BY ShopAssumption DEF ShopInit
  <2> QED
    BY <2>1, <2>2, <2>3, NoPageTyped DEF ShopInit, DeskTyped
<1>2. BinClosed /\ CacheTrue /\ FillTrue
  BY MappingsTyped, NoPageTyped DEF ShopInit, BinClosed, CacheTrue, FillTrue
<1>3. BuyerInv
  BY DEF ShopInit, Browsing, BuyerInv, BuyerType, QuoteTrue, QuoteKept, Time, Whys
<1>4. QueryInv
  <2>1. /\ asker \in [{"booking", "page"} -> {"idle", "checked", "done"}]
        /\ \A x \in {"booking", "page"} : asker[x] = "idle"
        /\ queries = 0 /\ crossed = FALSE
    BY DEF ShopInit
  <2>2. Submitted("booking") = 0 /\ Submitted("page") = 0
    BY <2>1 DEF Submitted
  <2>3. queries \in Nat /\ queries <= 1 /\ queries <= Submitted("booking") + Submitted("page")
    BY <2>1, <2>2
  <2>4. \A x \in {"booking", "page"} : asker[x] # "checked"
    BY <2>1
  <2> QED
    BY <2>1, <2>3, <2>4 DEF QueryInv
<1> QED
  BY <1>1, <1>2, <1>3, <1>4 DEF ShopInv, DeskInv

LEMMA ShopStep == ShopInv /\ [ShopNext]_shopVars => ShopInv'
<1> SUFFICES ASSUME ShopInv, [ShopNext]_shopVars
             PROVE  ShopInv'
  OBVIOUS
<1>0. DeskInv /\ BuyerInv /\ QueryInv /\ DeskTyped
  BY DEF ShopInv, DeskInv
<1>1. ASSUME NEW a \in Admin, StartEdit(a) \/ CommitEdit(a) \/ FailEdit(a) \/ ClearCache(a)
      PROVE  ShopInv'
  <2>1. DeskInv'
    BY <1>0, <1>1, StartedEdit, CommittedEdit, EndedEdit
  <2>2. CASE CommitEdit(a)
    BY <1>0, <2>1, <2>2, CommittedSale DEF ShopInv
  <2>3. CASE StartEdit(a) \/ FailEdit(a) \/ ClearCache(a)
    BY <1>0, <2>1, <2>3, SameSale DEF ShopInv, StartEdit, FailEdit, ClearCache
  <2> QED
    BY <1>1, <2>2, <2>3
<1>2. CASE ReadPage \/ CachePage
  BY <1>0, <1>2, CachedPage, SameSale DEF ShopInv, ReadPage, CachePage
<1>3. CASE BrowsePage \/ DetectJourney \/ ValidateJourney \/ BrowseConfigured \/ ResolveCatalog
           \/ CheckAvailability \/ QuoteDraft
  <2>1. BuyerInv'
    BY <1>0, <1>3, QuoteStep
  <2>2. UNCHANGED <<catalogueVars, asker, queries, crossed>>
    BY <1>3 DEF BrowsePage, DetectJourney, ValidateJourney, BrowseConfigured, ResolveCatalog,
                CheckAvailability, QuoteDraft, ShowListed, ShowPrice
  <2>3. DeskInv' /\ QueryInv'
    BY <1>0, <2>2, SameDesk DEF catalogueVars, QueryInv, Submitted
  <2> QED
    BY <2>1, <2>3 DEF ShopInv
<1>4. CASE TimePasses \/ Leave
  <2>1. BuyerInv'
    BY <1>0, <1>4, PassedTime
  <2>2. UNCHANGED <<catalogueVars, asker, queries, crossed>>
    BY <1>4 DEF TimePasses, Leave
  <2>3. DeskInv' /\ QueryInv'
    BY <1>0, <2>2, SameDesk DEF catalogueVars, QueryInv, Submitted
  <2> QED
    BY <2>1, <2>3 DEF ShopInv
<1>5. CASE Book \/ BookLegs
  <2> DEFINE page == PageOf(rows)
  <2>1. ForSale(page) \in SUBSET Row /\ ForLeg(page) \in SUBSET Row
        /\ (ForSale(page) # {} => ForLeg(page) = ForSale(page))
    BY SaleFields DEF ForLeg
  <2>2. BuyerInv'
    BY <1>0, <1>5, <2>1, ChargedPrice DEF Book, BookLegs
  <2>3. UNCHANGED <<catalogueVars, asker, queries, crossed>>
    BY <1>5 DEF Book, BookLegs, Charge
  <2>4. DeskInv' /\ QueryInv'
    BY <1>0, <2>3, SameDesk DEF catalogueVars, QueryInv, Submitted
  <2> QED
    BY <2>2, <2>4 DEF ShopInv
<1>6. ASSUME NEW x \in DOMAIN asker, CheckQuery(x) \/ InsertQuery(x)
      PROVE  ShopInv'
  <2>1. QueryInv'
    BY <1>0, <1>6, AskedQuery
  <2>2. UNCHANGED <<catalogueVars, buyer>>
    BY <1>6 DEF CheckQuery, InsertQuery
  <2>3. DeskInv' /\ BuyerInv'
    BY <1>0, <2>2, SameDesk
    DEF catalogueVars, BuyerInv, QuoteTrue, QuoteKept, ForSale, OfKind, PageOf
  <2> QED
    BY <2>1, <2>3 DEF ShopInv
<1>7. CASE UNCHANGED shopVars
  BY <1>0, <1>7, SameDesk, SameSale DEF ShopInv, shopVars, catalogueVars
<1> QED
  BY <1>1, <1>2, <1>3, <1>4, <1>5, <1>6, <1>7 DEF ShopNext

\* The rows, pages and requests of the catalogue and the sale keep to the values the
\* code gives them, for any rows and any number of edits and requests of the desk.
THEOREM ShopTyped == ShopSpec => []ShopTypeOK
<1>1. ShopInv => ShopTypeOK
  <2> SUFFICES ASSUME ShopInv
               PROVE  ShopTypeOK
    OBVIOUS
  <2>1. queries \in 0 .. 2
    BY DEF ShopInv, QueryInv, Submitted
  <2> QED
    BY <2>1 DEF ShopInv, DeskInv, DeskTyped, BuyerInv, BuyerType, ShopTypeOK, EditType
<1> QED
  BY <1>1, ShopBegins, ShopStep, PTL DEF ShopSpec

\* The recycle bin sells nothing, a process serves the page of the database, a booking
\* is charged what was quoted and asks once for what is not sold online, but for the
\* reasons the code leaves open (admin_service_ext.py, journey_router.py,
\* create_booking, create_service_query).
THEOREM ShopTheorem == ShopSpec => []ShopKept
<1>1. ShopInv => ShopKept
  BY DEF ShopInv, DeskInv, BuyerInv, QueryInv, ShopKept, AskedOnce
<1> QED
  BY <1>1, ShopBegins, ShopStep, PTL DEF ShopSpec

-----------------------------------------------------------------------------
(* The gateway sessions of a booking.                                      *)

RowStatus == {"PENDING", "PROCESSING", "SUCCESSFUL", "FAILED", "EXPIRED"}
RowType == [gateway : Gateway, status : RowStatus, session : Nat,
            gpid : {"order", "payment"}, dup : BOOLEAN]
ReturnType == [row : Nat, read : RowStatus \cup {"-"}, said : {"-", "paid", "pending", "failed"}]

\* A browser that is on its way back read a session's row, and is told of money
\* that the bank has.
GatewayTyped ==
    /\ ledger \in Seq(RowType) /\ Cardinality(SessionRows) <= MaxSession
    /\ bank \in [1 .. MaxRow -> {"open", "paid"}] /\ paid \in BOOLEAN
    /\ checkout \in [Checkout -> Gateway \cup {"-"}] /\ callback \in [Callback -> ReturnType]
    /\ \A h \in Callback : callback[h] # Away => callback[h].row \in SessionRows
    /\ \A h \in Callback : callback[h].said = "paid" => bank[callback[h].row] = "paid"
    /\ sweep \subseteq SessionRows /\ told \subseteq SessionRows
    /\ slip \subseteq {"overlap", "revived", "overwritten"}

\* A session's row names itself, a PAY-DUP row a session that was settled before.
RowsNamed ==
    /\ \A i \in SessionRows : ledger[i].session = i
    /\ \A i \in RowNo \ SessionRows :
          ledger[i].gpid = "payment" /\ ledger[i].status = "SUCCESSFUL" /\ ledger[i].session \in told

\* The rows that hold a payment: of a session that somebody was told of, which the
\* bank has; one for each such session, and one of the sessions pays the booking.
Payments == {i \in RowNo : ledger[i].gpid = "payment"}
PaymentsKept ==
    /\ \A i \in RowNo : ledger[i].status = "SUCCESSFUL" => i \in Payments
    /\ \A i \in Payments : ledger[i].session \in told /\ bank[ledger[i].session] = "paid"
    /\ \A i, j \in Payments : ledger[i].session = ledger[j].session => i = j
    /\ \A s \in told : \E i \in Payments : ledger[i].session = s
    /\ \A i, j \in Payments \cap SessionRows : i = j
    /\ paid => Payments \cap SessionRows # {}
    /\ ~paid => Payments = {}
    /\ "overwritten" \in slip \/ \A i \in Payments : ledger[i].status = "SUCCESSFUL"

\* Without a slip, whoever waits for a gateway and whoever may be paid agree on it.
PayersWait == {c \in Checkout : checkout[c] # "-"}
Agreed ==
    slip = {} =>
      /\ \A i, j \in Live : ledger[i].gateway = ledger[j].gateway
      /\ \A c, d \in PayersWait : checkout[c] = checkout[d]
      /\ \A i \in Live, c \in PayersWait : ledger[i].gateway = checkout[c]

GatewayInv == GatewayTyped /\ RowsNamed /\ PaymentsKept /\ Agreed

-----------------------------------------------------------------------------
LEMMA LedgerRows ==
    ASSUME GatewayTyped
    PROVE  /\ Len(ledger) \in Nat /\ RowNo = 1 .. Len(ledger)
           /\ \A i \in RowNo : ledger[i] \in RowType
           /\ SessionRows \subseteq RowNo /\ RowNo \subseteq Nat \ {0}
           /\ IsFiniteSet(SessionRows)
<1>1. Len(ledger) \in Nat /\ RowNo = 1 .. Len(ledger) /\ \A i \in RowNo : ledger[i] \in RowType
  BY DEF GatewayTyped, RowNo
<1>2. SessionRows \subseteq RowNo
  BY DEF SessionRows
<1>3. IsFiniteSet(RowNo)
  BY <1>1, FS_Interval
<1>4. RowNo \subseteq Nat \ {0}
  BY <1>1
<1> QED
  BY <1>1, <1>2, <1>3, <1>4, FS_Subset

LEMMA RowFields ==
    ASSUME NEW row \in RowType
    PROVE  /\ row.gateway \in Gateway /\ row.status \in RowStatus /\ row.session \in Nat
           /\ row.gpid \in {"order", "payment"} /\ row.dup \in BOOLEAN
  BY DEF RowType

\* A session has at most one PAY-DUP row beside it.
LEMMA LedgerBound ==
    ASSUME GatewayTyped, RowsNamed, PaymentsKept
    PROVE  Len(ledger) <= MaxRow
<1> DEFINE twins == RowNo \ SessionRows
           f == [i \in twins |-> ledger[i].session]
<1>1. IsFiniteSet(SessionRows) /\ Cardinality(SessionRows) \in Nat /\ SessionRows \subseteq RowNo
  BY LedgerRows, FS_CardinalityType
<1>2. f \in [twins -> SessionRows]
  BY DEF RowsNamed, GatewayTyped
<1>3. \A i, j \in twins : f[i] = f[j] => i = j
  BY DEF RowsNamed, PaymentsKept, Payments
<1>4. IsFiniteSet(twins) /\ Cardinality(twins) \in Nat
  <2>1. twins \in SUBSET RowNo /\ IsFiniteSet(RowNo)
    BY LedgerRows, FS_Interval
  <2> QED
    BY <2>1, FS_Subset, FS_CardinalityType
<1>5. Cardinality(twins) <= Cardinality(SessionRows)
  <2> HIDE DEF twins, f
  <2>1. ~(Cardinality(SessionRows) < Cardinality(twins))
    BY <1>1, <1>2, <1>3, <1>4, FS_PigeonHole
  <2> QED
    BY <1>1, <1>4, <2>1
<1>6. twins \cap SessionRows = {} /\ twins \cup SessionRows = RowNo
  BY <1>1
<1>7. Cardinality(RowNo) = Cardinality(twins) + Cardinality(SessionRows)
  <2>1. Cardinality(twins \cap SessionRows) = 0
    BY <1>6, FS_EmptySet
  <2> HIDE DEF twins
  <2>2. Cardinality(twins \cup SessionRows) =
            Cardinality(twins) + Cardinality(SessionRows) - Cardinality(twins \cap SessionRows)
    BY <1>1, <1>4, FS_Union
  <2>3. Cardinality(twins \cup SessionRows) = Cardinality(RowNo)
    BY <1>6
  <2> QED
    BY <1>1, <1>4, <2>1, <2>2, <2>3
<1>8. Cardinality(RowNo) = Len(ledger)
  <2>1. PICK n \in Nat : n = Len(ledger)
    BY LedgerRows
  <2>2. Cardinality(1 .. n) = n
    BY FS_Interval
  <2>3. RowNo = 1 .. n
    BY <2>1, LedgerRows
  <2> QED
    BY <2>1, <2>2, <2>3
<1> HIDE DEF twins
<1>9. Cardinality(SessionRows) <= MaxSession /\ MaxSession \in Nat
  BY GatewayAssumption DEF GatewayTyped
<1>10. Len(ledger) <= MaxSession + MaxSession
  BY <1>1, <1>4, <1>5, <1>7, <1>8, <1>9
<1> QED
  BY <1>9, <1>10, LedgerRows DEF MaxRow

LEMMA BankRows ==
    ASSUME GatewayInv
    PROVE  RowNo \subseteq 1 .. MaxRow
  BY LedgerRows, LedgerBound, GatewayAssumption DEF GatewayInv, MaxRow

\* Of the rows of a set one is the newest.
LEMMA NewestRow ==
    ASSUME GatewayTyped, NEW S \in SUBSET RowNo, S # {}
    PROVE  \E i \in S : \A j \in S : j <= i
<1> DEFINE above(i) == {k \in S : k > i}
           T == {above(i) : i \in S}
           R == StrictSubsetOrdering(RowNo)
<1>1. IsFiniteSet(RowNo) /\ \A i \in S : i \in Nat
  BY LedgerRows, FS_Interval
<1>2. IsWellFoundedOn(R, SUBSET RowNo)
  BY <1>1, FS_StrictSubsetOrderingWellFounded, FS_FiniteSubsetsOfFinite
<1>3. T \subseteq SUBSET RowNo /\ T # {}
  OBVIOUS
<1>4. PICK x \in T : \A y \in T : ~(<<y, x>> \in R)
  <2> HIDE DEF T, R
  <2> QED
    BY <1>2, <1>3, WFMin
<1>5. PICK i \in S : x = above(i)
  BY <1>4
<1>6. ASSUME NEW j \in S, ~(j <= i)
      PROVE  FALSE
  <2>1. j \in x /\ j \notin above(j) /\ above(j) \subseteq x
    BY <1>1, <1>5, <1>6
  <2>2. above(j) \in T /\ above(j) \in SUBSET RowNo /\ x \in SUBSET RowNo
    BY <1>3, <1>4
  <2> HIDE DEF above, T
  <2>3. <<above(j), x>> \in R
    BY <2>1, <2>2 DEF StrictSubsetOrdering
  <2> QED
    BY <1>4, <2>2, <2>3
<1> QED
  BY <1>5, <1>6

\* A checkout that starts without a slip asks the gateway that all open sessions have.
LEMMA ExclusiveGateway ==
    ASSUME GatewayInv, NEW gw, Exclusive(gw), slip = {}
    PROVE  \A i \in Live : ledger[i].gateway = gw
<1>1. Live = Frozen /\ Frozen \in SUBSET RowNo
  <2>1. \A i \in SessionRows : ledger[i].status \in RowStatus /\ i \in RowNo
    BY LedgerRows, RowFields DEF GatewayInv
  <2> QED
    BY <2>1 DEF Live, Frozen, Open, RowStatus
<1>2. SUFFICES ASSUME NEW i \in Live
               PROVE  ledger[i].gateway = gw
  OBVIOUS
<1>3. PICK n \in Frozen : \A j \in Frozen : j <= n
  BY <1>1, NewestRow DEF GatewayInv
<1>4. ledger[n].gateway = gw
  BY <1>3 DEF Exclusive
<1> QED
  BY <1>1, <1>3, <1>4 DEF GatewayInv, Agreed

\* The rows keep what they are, but for the statuses of sessions that are no payments
\* or that are overwritten.
SameRows ==
    /\ ledger' \in Seq(RowType) /\ Len(ledger') = Len(ledger)
    /\ \A i \in RowNo :
          /\ ledger'[i].gateway = ledger[i].gateway /\ ledger'[i].session = ledger[i].session
          /\ ledger'[i].gpid = ledger[i].gpid /\ ledger'[i].dup = ledger[i].dup
          /\ ledger'[i].status # ledger[i].status =>
                /\ ledger'[i].status # "SUCCESSFUL" /\ i \in SessionRows
                /\ ledger[i].status = "SUCCESSFUL" => "overwritten" \in slip'

LEMMA UnchangedRows == GatewayTyped /\ ledger' = ledger => SameRows
  BY DEF SameRows, GatewayTyped

LEMMA SamePayments ==
    ASSUME GatewayInv, SameRows, UNCHANGED <<told, paid>>, slip \subseteq slip',
           \A i \in 1 .. MaxRow : bank[i] = "paid" => bank'[i] = "paid"
    PROVE  /\ RowNo' = RowNo /\ SessionRows' = SessionRows /\ Payments' = Payments
           /\ RowsNamed' /\ PaymentsKept'
<1>1. RowNo' = RowNo
  BY LedgerRows DEF SameRows, RowNo, GatewayInv
<1>2. SessionRows' = SessionRows /\ Payments' = Payments
  BY <1>1 DEF SameRows, SessionRows, Payments
<1>3. RowsNamed'
  <2>1. \A i \in RowNo \ SessionRows : ledger'[i].status = ledger[i].status
                                      /\ ledger'[i].gpid = ledger[i].gpid
    BY DEF SameRows
  <2>2. \A i \in RowNo : ledger'[i].session = ledger[i].session
    BY DEF SameRows
  <2>3. \A i \in SessionRows : i \in RowNo
    BY LedgerRows DEF GatewayInv
  <2> QED
    BY <1>1, <1>2, <2>1, <2>2, <2>3 DEF GatewayInv, RowsNamed
<1>4. \A i \in RowNo : ledger'[i].status = "SUCCESSFUL" => ledger[i].status = "SUCCESSFUL"
  BY DEF SameRows
<1>5. \A i \in Payments : ledger'[i].session = ledger[i].session /\ i \in RowNo
  BY DEF SameRows, Payments
<1>6. told \subseteq 1 .. MaxRow
  BY BankRows, LedgerRows DEF GatewayInv, GatewayTyped
<1>7. \A i \in Payments : ledger'[i].session \in told' /\ bank'[ledger'[i].session] = "paid"
  BY <1>5, <1>6 DEF GatewayInv, PaymentsKept
<1>8. "overwritten" \in slip' \/ \A i \in Payments : ledger'[i].status = "SUCCESSFUL"
  BY <1>5 DEF SameRows, GatewayInv, PaymentsKept
<1>9. PaymentsKept'
  BY <1>1, <1>2, <1>4, <1>5, <1>7, <1>8 DEF GatewayInv, PaymentsKept
<1> QED
  BY <1>1, <1>2, <1>3, <1>9

\* Rows that only cease to be open, or that a slip revives, keep the agreement.
LEMMA SameAgreement ==
    ASSUME GatewayInv, SameRows, SessionRows' = SessionRows, RowNo' = RowNo,
           slip' = {} => /\ slip = {} /\ Live' \subseteq Live
                         /\ \A c \in Checkout : checkout'[c] \in {checkout[c], "-"}
    PROVE  Agreed'
<1> SUFFICES ASSUME slip' = {}
             PROVE  /\ \A i, j \in Live' : ledger'[i].gateway = ledger'[j].gateway
                    /\ \A c, d \in PayersWait' : checkout'[c] = checkout'[d]
                    /\ \A i \in Live', c \in PayersWait' : ledger'[i].gateway = checkout'[c]
  BY DEF Agreed
<1>1. \A i \in Live' : i \in Live /\ ledger'[i].gateway = ledger[i].gateway
  BY LedgerRows DEF SameRows, Live, GatewayInv
<1>2. \A c \in PayersWait' : c \in PayersWait /\ checkout'[c] = checkout[c]
  BY DEF PayersWait
<1> QED
  BY <1>1, <1>2 DEF GatewayInv, Agreed

-----------------------------------------------------------------------------
(* The steps.                                                              *)

\* A step that leaves the rows and the payments alone.
LEMMA IdleRows ==
    ASSUME GatewayInv, UNCHANGED <<ledger, told, paid>>, slip \subseteq slip',
           \A i \in 1 .. MaxRow : bank[i] = "paid" => bank'[i] = "paid"
    PROVE  /\ SameRows /\ RowNo' = RowNo /\ SessionRows' = SessionRows /\ Live' = Live
           /\ RowsNamed' /\ PaymentsKept'
<1>1. SameRows
  BY UnchangedRows DEF GatewayInv
<1>2. Live' = Live
  BY DEF Live, SessionRows, RowNo
<1> QED
  BY <1>1, <1>2, SamePayments

LEMMA CheckoutStarts ==
    ASSUME GatewayInv, NEW c \in Checkout, NEW gw \in Gateway, Exclusive(gw), StartCheckout(c, gw)
    PROVE  GatewayInv'
<1>1. /\ UNCHANGED <<ledger, bank, paid, callback, sweep, told>>
      /\ checkout[c] = "-" /\ checkout' = [checkout EXCEPT ![c] = gw]
      /\ slip' = slip \cup {v \in {"overlap"} : \E d \in Checkout : checkout[d] \notin {"-", gw}}
  BY DEF StartCheckout
<1>2. /\ SameRows /\ RowNo' = RowNo /\ SessionRows' = SessionRows /\ Live' = Live
      /\ RowsNamed' /\ PaymentsKept'
  BY <1>1, IdleRows
<1>3. GatewayTyped'
  BY <1>1, <1>2 DEF GatewayInv, GatewayTyped
<1>4. ASSUME slip' = {}
      PROVE  /\ \A i, j \in Live : ledger[i].gateway = ledger[j].gateway
             /\ \A d \in PayersWait' : checkout'[d] = gw
             /\ \A i \in Live : ledger[i].gateway = gw
  <2>1. slip = {} /\ \A d \in Checkout : checkout[d] \in {"-", gw}
    BY <1>1, <1>4
  <2>2. \A d \in Checkout : checkout'[d] \in {checkout[d], gw}
    BY <1>1 DEF GatewayInv, GatewayTyped
  <2> QED
    BY <2>1, <2>2, ExclusiveGateway DEF PayersWait
<1>5. Agreed'
  BY <1>1, <1>2, <1>4 DEF Agreed
<1> QED
  BY <1>2, <1>3, <1>5 DEF GatewayInv

LEMMA WaitingSteps ==
    ASSUME GatewayInv,
           \/ \E c \in Checkout : NoSession(c)
           \/ \E i \in 1 .. MaxRow : Pay(i)
           \/ \E h \in Callback, i \in 1 .. MaxRow : Return(h, i)
           \/ \E h \in Callback, said \in {"paid", "pending", "failed"} : AskStatus(h, said)
           \/ \E late \in SUBSET RowNo : SelectStale(late)
    PROVE  GatewayInv'
<1>1. UNCHANGED <<ledger, paid, told, slip>>
  BY DEF NoSession, Pay, Return, AskStatus, SelectStale
<1>2. bank' \in [1 .. MaxRow -> {"open", "paid"}]
      /\ \A i \in 1 .. MaxRow : bank[i] = "paid" => bank'[i] = "paid"
  BY DEF NoSession, Pay, Return, AskStatus, SelectStale, GatewayInv, GatewayTyped
<1>3. /\ SameRows /\ RowNo' = RowNo /\ SessionRows' = SessionRows /\ Live' = Live
      /\ RowsNamed' /\ PaymentsKept'
  BY <1>1, <1>2, IdleRows
<1>4. checkout' \in [Checkout -> Gateway \cup {"-"}]
      /\ \A c \in Checkout : checkout'[c] \in {checkout[c], "-"}
  BY DEF NoSession, Pay, Return, AskStatus, SelectStale, GatewayInv, GatewayTyped
<1>5. Agreed'
  BY <1>1, <1>3, <1>4, SameAgreement
<1>6. sweep' \subseteq SessionRows
  <2>1. ASSUME NEW late \in SUBSET RowNo, SelectStale(late), NEW i \in late
        PROVE  i \in SessionRows
    BY <2>1 DEF SelectStale, GatewayInv, RowsNamed
  <2> QED
    BY <2>1 DEF NoSession, Pay, Return, AskStatus, SelectStale, GatewayInv, GatewayTyped
<1>7. /\ callback' \in [Callback -> ReturnType]
      /\ \A h \in Callback : callback'[h] # Away => callback'[h].row \in SessionRows
      /\ \A h \in Callback : callback'[h].said = "paid" => bank'[callback'[h].row] = "paid"
  <2>1. CASE UNCHANGED callback
    <3>1. \A h \in Callback : callback[h].said = "paid" => callback[h].row \in 1 .. MaxRow
      BY BankRows, LedgerRows DEF GatewayInv, GatewayTyped, Away
    <3> QED
      BY <1>2, <2>1, <3>1 DEF GatewayInv, GatewayTyped
  <2>2. ASSUME NEW h \in Callback, NEW i \in 1 .. MaxRow, Return(h, i)
        PROVE  <1>7!:
    <3> DEFINE went == [row |-> i, read |-> ledger[i].status, said |-> "-"]
    <3>1. i \in SessionRows /\ i \in Nat /\ ledger[i].status \in RowStatus
      BY <2>2, LedgerRows, RowFields DEF Return, GatewayInv, RowsNamed
    <3>2. went \in ReturnType /\ went.row = i /\ went.said = "-"
      BY <3>1 DEF ReturnType
    <3>3. callback' = [callback EXCEPT ![h] = went] /\ bank' = bank
      BY <2>2 DEF Return
    <3> HIDE DEF went
    <3> QED
      BY <3>1, <3>2, <3>3 DEF GatewayInv, GatewayTyped
  <2>3. ASSUME NEW h \in Callback, NEW said \in {"paid", "pending", "failed"}, AskStatus(h, said)
        PROVE  <1>7!:
    <3>1. /\ callback[h] # Away /\ bank' = bank
          /\ callback' = [callback EXCEPT ![h] = [callback[h] EXCEPT !.said = said]]
          /\ said = "paid" => bank[callback[h].row] = "paid"
      BY <2>3 DEF AskStatus, GatewayInv, GatewayTyped
    <3> DEFINE asked == [callback[h] EXCEPT !.said = said]
    <3>2. asked \in ReturnType /\ asked.row = callback[h].row /\ asked.said = said
      BY DEF GatewayInv, GatewayTyped, ReturnType
    <3> HIDE DEF asked
    <3>3. callback' = [callback EXCEPT ![h] = asked]
      BY <3>1 DEF asked
    <3> QED
      BY <3>1, <3>2, <3>3 DEF GatewayInv, GatewayTyped
  <2> QED
    BY <2>1, <2>2, <2>3 DEF NoSession, Pay, SelectStale
<1>8. GatewayTyped'
  BY <1>1, <1>2, <1>3, <1>4, <1>6, <1>7 DEF GatewayInv, GatewayTyped
<1> QED
  BY <1>3, <1>5, <1>8 DEF GatewayInv

\* A row is added at the end.
LEMMA AddedRow ==
    ASSUME GatewayTyped, NEW row \in RowType, ledger' = Append(ledger, row)
    PROVE  LET n == Len(ledger) + 1 IN
           /\ ledger' \in Seq(RowType) /\ RowNo' = RowNo \cup {n} /\ n \notin RowNo /\ n \in Nat \ {0}
           /\ ledger'[n] = row /\ \A i \in RowNo : ledger'[i] = ledger[i]
           /\ SessionRows' = IF row.dup THEN SessionRows ELSE SessionRows \cup {n}
           /\ Payments' = IF row.gpid = "payment" THEN Payments \cup {n} ELSE Payments
<1> DEFINE n == Len(ledger) + 1
<1>1. Len(ledger) \in Nat /\ RowNo = 1 .. Len(ledger)
  BY LedgerRows
<1>2. ledger' \in Seq(RowType) /\ Len(ledger') = n /\ ledger'[n] = row
      /\ \A i \in 1 .. Len(ledger) : ledger'[i] = ledger[i]
  BY AppendProperties DEF GatewayTyped
<1>3. RowNo' = 1 .. n
  BY <1>1, <1>2 DEF RowNo
<1>4. RowNo' = RowNo \cup {n} /\ n \notin RowNo /\ n \in Nat \ {0}
  BY <1>1, <1>3
<1> HIDE DEF n
<1>5. SessionRows' = IF row.dup THEN SessionRows ELSE SessionRows \cup {n}
  BY <1>1, <1>2, <1>4 DEF SessionRows
<1>6. Payments' = IF row.gpid = "payment" THEN Payments \cup {n} ELSE Payments
  BY <1>1, <1>2, <1>4 DEF Payments
<1> QED
  BY <1>1, <1>2, <1>4, <1>5, <1>6 DEF n

\* A row that comes alive without a slip agrees with the others.
LEMMA JoinedAgreement ==
    ASSUME GatewayInv, NEW i,
           \A j \in Live \cup ({i} \cap SessionRows) : ledger'[j].gateway = ledger[j].gateway,
           slip' = {} => slip = {} /\ Live' \subseteq Live \cup ({i} \cap SessionRows) /\ Revived(i) = {},
           checkout' = checkout
    PROVE  Agreed'
<1> SUFFICES ASSUME slip' = {}
             PROVE  /\ \A j, k \in Live' : ledger'[j].gateway = ledger'[k].gateway
                    /\ \A c, d \in PayersWait' : checkout'[c] = checkout'[d]
                    /\ \A j \in Live', c \in PayersWait' : ledger'[j].gateway = checkout'[c]
  BY DEF Agreed
<1>1. \/ i \in Live
      \/ /\ \A j \in Live : ledger[j].gateway = ledger[i].gateway
         /\ \A c \in Checkout : checkout[c] \in {"-", ledger[i].gateway}
  BY DEF Revived
<1>2. PayersWait' = PayersWait
  BY DEF PayersWait
<1>3. /\ \A j, k \in Live : ledger[j].gateway = ledger[k].gateway
      /\ \A c, d \in PayersWait : checkout[c] = checkout[d]
      /\ \A j \in Live, c \in PayersWait : ledger[j].gateway = checkout[c]
  BY DEF GatewayInv, Agreed
<1>4. \A j, k \in Live \cup ({i} \cap SessionRows) : ledger[j].gateway = ledger[k].gateway
  BY <1>1, <1>3
<1>5. \A j \in Live \cup ({i} \cap SessionRows), c \in PayersWait : ledger[j].gateway = checkout[c]
  BY <1>1, <1>3 DEF PayersWait
<1> QED
  BY <1>2, <1>3, <1>4, <1>5

LEMMA SessionOpens ==
    ASSUME GatewayInv, NEW c \in Checkout, OpenSession(c)
    PROVE  GatewayInv'
<1> DEFINE n == Len(ledger) + 1
           row == SessionRow(checkout[c], n)
<1>1. /\ UNCHANGED <<bank, paid, callback, sweep, told, slip>>
      /\ checkout[c] # "-" /\ checkout' = [checkout EXCEPT ![c] = "-"]
      /\ ledger' = Append(ledger, row) /\ Cardinality(SessionRows) < MaxSession
  BY DEF OpenSession
<1>2. /\ row \in RowType /\ row.gpid = "order" /\ ~row.dup /\ row.session = n
      /\ row.status = "PENDING" /\ row.gateway = checkout[c]
  <2>1. n \in Nat /\ checkout[c] \in Gateway
    BY <1>1, LedgerRows DEF GatewayInv, GatewayTyped
  <2> HIDE DEF n
  <2> QED
    BY <2>1 DEF SessionRow, RowType, RowStatus
<1> HIDE DEF row
<1>3. /\ ledger' \in Seq(RowType) /\ RowNo' = RowNo \cup {n} /\ n \notin RowNo /\ n \in Nat \ {0}
      /\ ledger'[n] = row /\ \A i \in RowNo : ledger'[i] = ledger[i]
      /\ SessionRows' = SessionRows \cup {n} /\ Payments' = Payments
  BY <1>1, <1>2, AddedRow DEF GatewayInv
<1> HIDE DEF n
<1>4. SessionRows \subseteq RowNo /\ IsFiniteSet(SessionRows) /\ Cardinality(SessionRows) \in Nat
  BY LedgerRows, FS_CardinalityType DEF GatewayInv
<1>5. Cardinality(SessionRows') <= MaxSession
  <2>1. Cardinality(SessionRows \cup {n}) = Cardinality(SessionRows) + 1
    BY <1>3, <1>4, FS_AddElement
  <2> QED
    BY <1>1, <1>3, <1>4, <2>1, GatewayAssumption
<1>6. GatewayTyped'
  BY <1>1, <1>3, <1>5 DEF GatewayInv, GatewayTyped
<1>7. RowsNamed'
  <2>1. \A i \in SessionRows' : ledger'[i].session = i
    BY <1>2, <1>3, <1>4 DEF GatewayInv, RowsNamed
  <2>2. RowNo' \ SessionRows' = RowNo \ SessionRows
    BY <1>3
  <2> QED
    BY <1>1, <1>3, <2>1, <2>2 DEF GatewayInv, RowsNamed
<1>8. PaymentsKept'
  <2>1. \A i \in Payments : i \in RowNo /\ ledger'[i] = ledger[i]
    BY <1>3 DEF Payments
  <2>2. \A i \in RowNo' : ledger'[i].status = "SUCCESSFUL" => i \in Payments'
    BY <1>2, <1>3 DEF GatewayInv, PaymentsKept
  <2>3. Payments' \cap SessionRows' = Payments \cap SessionRows
    BY <1>3, <2>1
  <2>4. \A i \in Payments : /\ ledger'[i].session \in told /\ bank[ledger'[i].session] = "paid"
                            /\ \A j \in Payments : ledger'[i].session = ledger'[j].session => i = j
    BY <2>1 DEF GatewayInv, PaymentsKept
  <2>5. \A s \in told : \E i \in Payments : ledger'[i].session = s
    BY <2>1 DEF GatewayInv, PaymentsKept
  <2>6. "overwritten" \in slip \/ \A i \in Payments : ledger'[i].status = "SUCCESSFUL"
    BY <2>1 DEF GatewayInv, PaymentsKept
  <2>7. /\ \A i, j \in Payments \cap SessionRows : i = j
        /\ paid => Payments \cap SessionRows # {}
        /\ ~paid => Payments = {}
    BY DEF GatewayInv, PaymentsKept
  <2>8. Payments' = Payments /\ UNCHANGED <<bank, paid, told, slip>>
    BY <1>1, <1>3
  <2> QED
    BY <2>2, <2>3, <2>4, <2>5, <2>6, <2>7, <2>8 DEF PaymentsKept
<1>9. Agreed'
  <2> SUFFICES ASSUME slip' = {}
               PROVE  /\ \A j, k \in Live' : ledger'[j].gateway = ledger'[k].gateway
                      /\ \A b, d \in PayersWait' : checkout'[b] = checkout'[d]
                      /\ \A j \in Live', d \in PayersWait' : ledger'[j].gateway = checkout'[d]
    BY DEF Agreed
  <2>1. \A j \in Live' : \/ j \in Live /\ ledger'[j].gateway = ledger[j].gateway
                         \/ ledger'[j].gateway = checkout[c]
    BY <1>2, <1>3, <1>4 DEF Live
  <2>2. \A d \in PayersWait' : d \in PayersWait /\ checkout'[d] = checkout[d]
    BY <1>1 DEF PayersWait, GatewayInv, GatewayTyped
  <2>3. c \in PayersWait
    BY <1>1 DEF PayersWait
  <2>4. /\ \A j, k \in Live : ledger[j].gateway = ledger[k].gateway
        /\ \A b, d \in PayersWait : checkout[b] = checkout[d]
        /\ \A j \in Live, d \in PayersWait : ledger[j].gateway = checkout[d]
    BY <1>1 DEF GatewayInv, Agreed
  <2>5. \A j \in Live' : ledger'[j].gateway = checkout[c]
    BY <2>1, <2>3, <2>4
  <2>6. \A d \in PayersWait' : checkout'[d] = checkout[c]
    BY <2>2, <2>3, <2>4
  <2> QED
    BY <2>5, <2>6
<1> QED
  BY <1>6, <1>7, <1>8, <1>9 DEF GatewayInv

-----------------------------------------------------------------------------
(* Settlements.                                                            *)

\* What a settlement leaves to be shown of the rest of the state.
Settlement ==
    /\ ledger' \in Seq(RowType) /\ RowNo \subseteq RowNo' /\ SessionRows' = SessionRows
    /\ told' \subseteq SessionRows /\ slip' \subseteq slip \cup {"revived"} /\ paid' \in BOOLEAN
    /\ RowsNamed' /\ PaymentsKept' /\ Agreed'

\* The booking is paid and the session is not its payment.
LEMMA DuplicateSettled ==
    ASSUME GatewayInv, NEW i \in SessionRows, bank[i] = "paid", paid, i \notin SuccessfulRows,
           FlagDuplicate(i), told' = told \cup {i}, UNCHANGED <<bank, checkout, paid, slip>>
    PROVE  Settlement
<1> DEFINE n == Len(ledger) + 1
           row == DuplicateRow(ledger[i].gateway, i)
<1>1. SessionRows \subseteq RowNo /\ ledger[i] \in RowType /\ i \in Nat /\ ledger[i].session = i
  BY LedgerRows DEF GatewayInv, RowsNamed
<1>2. told \cup {i} \subseteq SessionRows
  BY DEF GatewayInv, GatewayTyped
<1>3. SettledAs(i) = {j \in Payments : ledger[j].session = i}
  BY DEF SettledAs, Payments
<1>4. CASE SettledAs(i) # {}
  <2>1. ledger' = ledger
    BY <1>4 DEF FlagDuplicate
  <2>2. \E j \in Payments : ledger[j].session = i
    BY <1>3, <1>4
  <2>3. told \cup {i} = told
    BY <2>2 DEF GatewayInv, PaymentsKept
  <2>4. RowNo' = RowNo /\ SessionRows' = SessionRows /\ RowsNamed' /\ PaymentsKept' /\ Live' = Live
    BY <2>1, <2>3, IdleRows
  <2>5. Agreed'
    BY <2>1, <2>4 DEF Agreed, PayersWait, GatewayInv
  <2> QED
    BY <1>2, <2>1, <2>4, <2>5 DEF Settlement, GatewayInv, GatewayTyped
<1>5. CASE SettledAs(i) = {}
  <2>1. ledger' = Append(ledger, row)
    BY <1>5 DEF FlagDuplicate
  <2>2. /\ row \in RowType /\ row.gpid = "payment" /\ row.dup /\ row.session = i
        /\ row.status = "SUCCESSFUL"
    BY <1>1, RowFields DEF DuplicateRow, RowType, RowStatus
  <2> HIDE DEF row
  <2>3. /\ ledger' \in Seq(RowType) /\ RowNo' = RowNo \cup {n} /\ n \notin RowNo
        /\ ledger'[n] = row /\ \A j \in RowNo : ledger'[j] = ledger[j]
        /\ SessionRows' = SessionRows /\ Payments' = Payments \cup {n}
    BY <2>1, <2>2, AddedRow DEF GatewayInv
  <2> HIDE DEF n
  <2>4. \A j \in Payments : j \in RowNo /\ ledger'[j] = ledger[j] /\ ledger[j].session # i
    BY <1>3, <1>5, <2>3 DEF Payments
  <2>5. RowsNamed'
    <3>1. \A j \in SessionRows' : ledger'[j].session = j
      BY <1>1, <2>3 DEF GatewayInv, RowsNamed
    <3>2. ASSUME NEW j \in RowNo' \ SessionRows'
          PROVE  /\ ledger'[j].gpid = "payment" /\ ledger'[j].status = "SUCCESSFUL"
                 /\ ledger'[j].session \in told'
      <4>1. CASE j = n
        BY <2>2, <2>3, <4>1
      <4>2. CASE j # n
        <5>1. j \in RowNo \ SessionRows /\ ledger'[j] = ledger[j]
          BY <2>3, <3>2, <4>2
        <5> QED
          BY <5>1 DEF GatewayInv, RowsNamed
      <4> QED
        BY <4>1, <4>2
    <3> QED
      BY <3>1, <3>2 DEF RowsNamed
  <2>6. \A j \in RowNo' : ledger'[j].status = "SUCCESSFUL" => j \in Payments'
    BY <2>3 DEF GatewayInv, PaymentsKept
  <2>7. \A j \in Payments' : /\ ledger'[j].session \in told' /\ bank'[ledger'[j].session] = "paid"
    BY <2>2, <2>3, <2>4 DEF GatewayInv, PaymentsKept
  <2>8. \A j, k \in Payments' : ledger'[j].session = ledger'[k].session => j = k
    BY <2>2, <2>3, <2>4 DEF GatewayInv, PaymentsKept
  <2>9. \A s \in told' : \E j \in Payments' : ledger'[j].session = s
    <3>1. \A s \in told : \E j \in Payments : ledger'[j].session = s
      BY <2>4 DEF GatewayInv, PaymentsKept
    <3> QED
      BY <2>2, <2>3, <3>1
  <2>10. Payments' \cap SessionRows' = Payments \cap SessionRows
    BY <1>1, <2>3
  <2>11. "overwritten" \in slip' \/ \A j \in Payments' : ledger'[j].status = "SUCCESSFUL"
    BY <2>2, <2>3, <2>4 DEF GatewayInv, PaymentsKept
  <2>12. PaymentsKept'
    BY <2>6, <2>7, <2>8, <2>9, <2>10, <2>11 DEF GatewayInv, PaymentsKept
  <2>13. Live' = Live /\ \A j \in Live : ledger'[j].gateway = ledger[j].gateway
    BY <1>1, <2>3 DEF Live
  <2>14. Agreed'
    BY <2>13 DEF Agreed, PayersWait, GatewayInv
  <2> QED
    BY <1>2, <2>3, <2>5, <2>12, <2>14 DEF Settlement, GatewayInv, GatewayTyped
<1> QED
  BY <1>4, <1>5

\* The session is the booking's payment already.
LEMMA SettledAgain ==
    ASSUME GatewayInv, NEW i \in SuccessfulRows, told' = told \cup {i},
           UNCHANGED <<ledger, bank, checkout, paid, slip>>
    PROVE  Settlement
<1>1. i \in SessionRows /\ i \in RowNo /\ ledger[i].status = "SUCCESSFUL"
  BY LedgerRows DEF SuccessfulRows, GatewayInv
<1>2. i \in told
  BY <1>1 DEF GatewayInv, RowsNamed, PaymentsKept
<1>3. told' = told
  BY <1>2
<1>4. RowNo' = RowNo /\ SessionRows' = SessionRows /\ RowsNamed' /\ PaymentsKept' /\ Live' = Live
  BY <1>3, IdleRows
<1>5. Agreed'
  BY <1>4 DEF Agreed, PayersWait, GatewayInv
<1> QED
  BY <1>3, <1>4, <1>5 DEF Settlement, GatewayInv, GatewayTyped

\* The first payment of the booking.
LEMMA FirstSettled ==
    ASSUME GatewayInv, NEW i \in SessionRows, bank[i] = "paid", ~paid, paid' = TRUE,
           ledger' = [ledger EXCEPT ![i].status = "SUCCESSFUL", ![i].gpid = "payment"],
           told' = told \cup {i}, slip' = slip \cup Revived(i), UNCHANGED <<bank, checkout>>
    PROVE  Settlement
<1> DEFINE row == [ledger[i] EXCEPT !.status = "SUCCESSFUL", !.gpid = "payment"]
<1>1. SessionRows \subseteq RowNo /\ ledger[i] \in RowType /\ ledger[i].session = i
  BY LedgerRows DEF GatewayInv, RowsNamed
<1>2. /\ row \in RowType /\ row.status = "SUCCESSFUL" /\ row.gpid = "payment" /\ row.session = i
      /\ row.dup = ledger[i].dup /\ row.gateway = ledger[i].gateway
  BY <1>1 DEF RowType, RowStatus
<1>3. ledger' = [ledger EXCEPT ![i] = row]
  OBVIOUS
<1> HIDE DEF row
<1>4. /\ ledger' \in Seq(RowType) /\ Len(ledger') = Len(ledger) /\ RowNo' = RowNo
      /\ ledger'[i] = row /\ \A j \in RowNo : j # i => ledger'[j] = ledger[j]
  <2>1. ledger \in Seq(RowType) /\ i \in 1 .. Len(ledger) /\ RowNo = 1 .. Len(ledger)
    BY <1>1, LedgerRows DEF GatewayInv, GatewayTyped
  <2>2. /\ ledger' \in Seq(RowType) /\ Len(ledger') = Len(ledger) /\ ledger'[i] = row
        /\ \A j \in 1 .. Len(ledger) : j # i => ledger'[j] = ledger[j]
    <3>1. row \in RowType
      BY <1>2
    <3>2. LET l == [ledger EXCEPT ![i] = row] IN
          /\ l \in Seq(RowType) /\ Len(l) = Len(ledger)
          /\ \A j \in 1 .. Len(ledger) : l[j] = IF j = i THEN row ELSE ledger[j]
      BY <2>1, <3>1, ExceptSeq
    <3> QED
      BY <1>3, <2>1, <3>2
  <2> QED
    BY <2>1, <2>2 DEF RowNo
<1>5. Payments = {} /\ told = {} /\ RowNo \ SessionRows = {}
  BY DEF GatewayInv, PaymentsKept, RowsNamed, Payments
<1>6. SessionRows' = SessionRows /\ Payments' = {i}
  <2>1. \A j \in RowNo : ledger'[j].dup = ledger[j].dup
    BY <1>2, <1>4
  <2>2. \A j \in RowNo : ledger'[j].gpid = "payment" <=> j = i
    BY <1>2, <1>4, <1>5 DEF Payments
  <2>3. SessionRows' = SessionRows
    BY <1>4, <2>1 DEF SessionRows
  <2> QED
    BY <1>1, <1>4, <2>2, <2>3 DEF Payments
<1>7. told' = {i} /\ told' \subseteq SessionRows
  BY <1>5
<1>8. RowsNamed'
  <2>1. RowNo' \ SessionRows' = {}
    BY <1>4, <1>5, <1>6
  <2>2. \A j \in SessionRows' : ledger'[j].session = j
    BY <1>1, <1>2, <1>4, <1>6 DEF GatewayInv, RowsNamed
  <2> QED
    BY <2>1, <2>2 DEF RowsNamed
<1>9. \A j \in RowNo' : ledger'[j].status = "SUCCESSFUL" => j \in Payments'
  BY <1>4, <1>5, <1>6 DEF GatewayInv, PaymentsKept
<1>10. PaymentsKept'
  BY <1>2, <1>4, <1>6, <1>7, <1>9 DEF PaymentsKept
<1>11. Live' \subseteq Live \cup ({i} \cap SessionRows)
       /\ \A j \in Live \cup ({i} \cap SessionRows) : ledger'[j].gateway = ledger[j].gateway
  BY <1>1, <1>2, <1>4, <1>6 DEF Live
<1>12. slip' = {} => slip = {} /\ Revived(i) = {}
  OBVIOUS
<1>13. Agreed'
  BY <1>11, <1>12, JoinedAgreement
<1>14. slip' \subseteq slip \cup {"revived"}
  BY DEF Revived
<1> QED
  BY <1>4, <1>6, <1>7, <1>8, <1>10, <1>13, <1>14 DEF Settlement

LEMMA Settles ==
    ASSUME GatewayInv, NEW i \in SessionRows, bank[i] = "paid", NEW read, SettleSession(i, read),
           UNCHANGED <<bank, checkout, sweep>>,
           \A h \in Callback : callback'[h] \in {callback[h], Away},
           callback' \in [Callback -> ReturnType]
    PROVE  GatewayInv'
<1>1. told' = told \cup {i}
  BY DEF SettleSession
<1>2. Settlement
  BY <1>1, DuplicateSettled, SettledAgain, FirstSettled DEF SettleSession
<1>3. /\ \A h \in Callback : callback'[h] # Away => callback'[h].row \in SessionRows
      /\ \A h \in Callback : callback'[h].said = "paid" => bank[callback'[h].row] = "paid"
  BY DEF GatewayInv, GatewayTyped, Away
<1>4. GatewayTyped'
  BY <1>2, <1>3 DEF Settlement, GatewayInv, GatewayTyped
<1> QED
  BY <1>2, <1>4 DEF Settlement, GatewayInv

-----------------------------------------------------------------------------
(* Rows written by the status that was read before.                        *)

LEMMA Returned ==
    ASSUME GatewayInv, NEW h \in Callback, callback' = [callback EXCEPT ![h] = Away],
           UNCHANGED <<bank, SessionRows>>
    PROVE  /\ callback' \in [Callback -> ReturnType]
           /\ \A g \in Callback : callback'[g] # Away => callback'[g].row \in SessionRows'
           /\ \A g \in Callback : callback'[g].said = "paid" => bank'[callback'[g].row] = "paid"
<1>1. Away \in ReturnType /\ Away.said = "-"
  BY DEF Away, ReturnType
<1>2. \A g \in Callback : callback'[g] = callback[g] \/ callback'[g] = Away
  BY DEF GatewayInv, GatewayTyped
<1>3. callback' \in [Callback -> ReturnType]
  BY <1>1 DEF GatewayInv, GatewayTyped
<1> QED
  BY <1>1, <1>2, <1>3 DEF GatewayInv, GatewayTyped

LEMMA Overwritten ==
    ASSUME GatewayInv, NEW i \in SessionRows, NEW status \in {"PROCESSING", "FAILED"},
           Overwrite(i, status), UNCHANGED <<bank, paid, told, checkout>>
    PROVE  /\ SameRows /\ SessionRows' = SessionRows /\ slip' \subseteq slip \cup {"revived", "overwritten"}
           /\ RowsNamed' /\ PaymentsKept' /\ Agreed'
<1> DEFINE row == [ledger[i] EXCEPT !.status = status]
<1>1. SessionRows \subseteq RowNo /\ ledger[i] \in RowType
  BY LedgerRows DEF GatewayInv
<1>2. /\ row \in RowType /\ row.status = status /\ row.gpid = ledger[i].gpid
      /\ row.session = ledger[i].session /\ row.dup = ledger[i].dup
      /\ row.gateway = ledger[i].gateway
  BY <1>1 DEF RowType, RowStatus
<1>3. ledger' = [ledger EXCEPT ![i] = row]
  BY DEF Overwrite, SetStatus
<1> HIDE DEF row
<1>4. /\ ledger' \in Seq(RowType) /\ Len(ledger') = Len(ledger)
      /\ \A j \in RowNo : ledger'[j] = IF j = i THEN row ELSE ledger[j]
  <2>1. ledger \in Seq(RowType) /\ i \in 1 .. Len(ledger) /\ RowNo = 1 .. Len(ledger)
    BY <1>1, LedgerRows DEF GatewayInv, GatewayTyped
  <2>2. row \in RowType
    BY <1>2
  <2>3. LET l == [ledger EXCEPT ![i] = row] IN
        /\ l \in Seq(RowType) /\ Len(l) = Len(ledger)
        /\ \A j \in 1 .. Len(ledger) : l[j] = IF j = i THEN row ELSE ledger[j]
    BY <2>1, <2>2, ExceptSeq
  <2> QED
    BY <1>3, <2>1, <2>3
<1>5. /\ slip \subseteq slip' /\ slip' \subseteq slip \cup {"revived", "overwritten"}
      /\ ledger[i].status = "SUCCESSFUL" => "overwritten" \in slip'
      /\ ledger[i].status # "SUCCESSFUL" /\ status = "PROCESSING" => slip' = slip \cup Revived(i)
  BY DEF Overwrite, Revived
<1>6. SameRows
  BY <1>2, <1>4, <1>5 DEF SameRows
<1>7. RowNo' = RowNo /\ SessionRows' = SessionRows /\ RowsNamed' /\ PaymentsKept'
  BY <1>5, <1>6, SamePayments
<1>8. \A j \in SessionRows : j # i => ledger'[j] = ledger[j]
  BY <1>1, <1>4
<1>9. CASE status = "PROCESSING"
  <2>1. Live' \subseteq Live \cup ({i} \cap SessionRows)
    BY <1>7, <1>8 DEF Live
  <2>2. \A j \in Live \cup ({i} \cap SessionRows) : ledger'[j].gateway = ledger[j].gateway
    BY <1>1, <1>2, <1>4 DEF Live
  <2>3. slip' = {} => slip = {} /\ Revived(i) = {}
    BY <1>5, <1>9
  <2>4. Agreed'
    BY <2>1, <2>2, <2>3, JoinedAgreement
  <2> QED
    BY <1>5, <1>6, <1>7, <2>4
<1>10. CASE status = "FAILED"
  <2>1. Live' \subseteq Live
    <3>1. ledger'[i].status = "FAILED"
      BY <1>1, <1>2, <1>4, <1>10
    <3> QED
      BY <1>7, <1>8, <3>1 DEF Live, Open
  <2>2. Agreed'
    BY <1>5, <1>6, <1>7, <2>1, SameAgreement
  <2> QED
    BY <1>5, <1>6, <1>7, <2>2
<1> QED
  BY <1>9, <1>10

LEMMA ReturnSteps ==
    ASSUME GatewayInv, NEW h \in Callback, RefuseReturn(h) \/ Conclude(h) \/ ConfirmReturn(h)
    PROVE  GatewayInv'
<1> DEFINE i == callback[h].row
<1>1. callback[h] # Away /\ i \in SessionRows
  BY DEF RefuseReturn, Conclude, ConfirmReturn, Away, GatewayInv, GatewayTyped
<1>2. callback' = [callback EXCEPT ![h] = Away]
  BY DEF RefuseReturn, Conclude, ConfirmReturn
<1>3. CASE ConfirmReturn(h)
  <2>1. SettleSession(i, callback[h].read) /\ bank[i] = "paid" /\ UNCHANGED <<bank, checkout, sweep>>
    BY <1>3 DEF ConfirmReturn, GatewayInv, GatewayTyped
  <2>2. \A g \in Callback : callback'[g] \in {callback[g], Away}
    BY <1>2 DEF GatewayInv, GatewayTyped
  <2>3. Away \in ReturnType
    BY DEF Away, ReturnType
  <2>4. callback' \in [Callback -> ReturnType]
    BY <1>2, <2>3 DEF GatewayInv, GatewayTyped
  <2> HIDE DEF i
  <2> QED
    BY <1>1, <2>1, <2>2, <2>4, Settles
<1>4. ASSUME UNCHANGED <<bank, paid, checkout, sweep, told>>, SameRows, SessionRows' = SessionRows,
             slip' \subseteq slip \cup {"revived", "overwritten"}, RowsNamed', PaymentsKept', Agreed'
      PROVE  GatewayInv'
  <2>1. /\ callback' \in [Callback -> ReturnType]
        /\ \A g \in Callback : callback'[g] # Away => callback'[g].row \in SessionRows'
        /\ \A g \in Callback : callback'[g].said = "paid" => bank'[callback'[g].row] = "paid"
    BY <1>2, <1>4, Returned
  <2>2. GatewayTyped'
    BY <1>4, <2>1 DEF SameRows, GatewayInv, GatewayTyped
  <2> QED
    BY <1>4, <2>2 DEF GatewayInv
<1>5. CASE RefuseReturn(h) \/ Conclude(h)
  <2>1. UNCHANGED <<bank, paid, checkout, sweep, told>>
    BY <1>5 DEF RefuseReturn, Conclude
  <2>2. CASE UNCHANGED <<ledger, slip>>
    <3>1. /\ SameRows /\ RowNo' = RowNo /\ SessionRows' = SessionRows /\ Live' = Live
          /\ RowsNamed' /\ PaymentsKept'
      BY <2>1, <2>2, IdleRows
    <3>2. Agreed'
      BY <2>1, <2>2, <3>1 DEF Agreed, PayersWait, GatewayInv
    <3> QED
      BY <1>4, <2>1, <2>2, <3>1, <3>2
  <2>3. ASSUME NEW status \in {"PROCESSING", "FAILED"}, Overwrite(i, status)
        PROVE  GatewayInv'
    <3> HIDE DEF i
    <3>1. /\ SameRows /\ SessionRows' = SessionRows /\ slip' \subseteq slip \cup {"revived", "overwritten"}
          /\ RowsNamed' /\ PaymentsKept' /\ Agreed'
      BY <1>1, <2>1, <2>3, Overwritten
    <3> QED
      BY <1>4, <2>1, <3>1
  <2> QED
    BY <1>5, <2>2, <2>3 DEF RefuseReturn, Conclude, Concluded
<1> QED
  BY <1>3, <1>5

LEMMA SweepCommits ==
    ASSUME GatewayInv, ExpireStale
    PROVE  GatewayInv'
<1> DEFINE expired(i) == [ledger[i] EXCEPT !.status = "EXPIRED"]
<1>1. /\ sweep' = {} /\ UNCHANGED <<bank, paid, checkout, callback, told>>
      /\ ledger' = [i \in RowNo |-> IF i \in sweep THEN expired(i) ELSE ledger[i]]
      /\ slip' = IF sweep \cap SuccessfulRows # {} THEN slip \cup {"overwritten"} ELSE slip
  BY DEF ExpireStale
<1>2. RowNo = 1 .. Len(ledger) /\ Len(ledger) \in Nat /\ \A i \in RowNo : ledger[i] \in RowType
  BY LedgerRows DEF GatewayInv
<1>3. \A i \in RowNo : /\ expired(i) \in RowType /\ expired(i).status = "EXPIRED"
                       /\ expired(i).gpid = ledger[i].gpid /\ expired(i).session = ledger[i].session
                       /\ expired(i).dup = ledger[i].dup /\ expired(i).gateway = ledger[i].gateway
  BY <1>2 DEF RowType, RowStatus
<1> HIDE DEF expired
<1>4. ledger' \in [1 .. Len(ledger) -> RowType]
  BY <1>1, <1>2, <1>3
<1>5. ledger' \in Seq(RowType)
  BY <1>2, <1>4, SeqDef
<1>6. Len(ledger') = Len(ledger)
  BY <1>2, <1>4, <1>5, LenProperties
<1>7. slip \subseteq slip' /\ slip' \subseteq slip \cup {"overwritten"}
  BY <1>1
<1>8. SameRows
  <2>1. \A i \in sweep : ledger[i].status = "SUCCESSFUL" => "overwritten" \in slip'
    BY <1>1 DEF SuccessfulRows, GatewayInv, GatewayTyped
  <2>2. \A i \in sweep : i \in SessionRows
    BY DEF GatewayInv, GatewayTyped
  <2> QED
    BY <1>1, <1>3, <1>5, <1>6, <2>1, <2>2 DEF SameRows
<1>9. RowNo' = RowNo /\ SessionRows' = SessionRows /\ RowsNamed' /\ PaymentsKept'
  BY <1>1, <1>7, <1>8, SamePayments
<1>10. Live' \subseteq Live
  <2>1. \A i \in RowNo : ledger'[i].status = ledger[i].status \/ ledger'[i].status = "EXPIRED"
    BY <1>1, <1>3
  <2>2. \A i \in SessionRows : i \in RowNo
    BY LedgerRows DEF GatewayInv
  <2> QED
    BY <1>9, <2>1, <2>2 DEF Live, Open
<1>11. Agreed'
  BY <1>1, <1>7, <1>8, <1>9, <1>10, SameAgreement
<1>12. GatewayTyped'
  BY <1>1, <1>5, <1>7, <1>9 DEF GatewayInv, GatewayTyped
<1> QED
  BY <1>9, <1>11, <1>12 DEF GatewayInv

\* The gateway's own report, a webhook's or one that a job asks for.
LEMMA ReportedSteps ==
    ASSUME GatewayInv,
           ReconcileBooking \/ \E i \in 1 .. MaxRow : RazorpayPaid(i) \/ ReconcilePending(i)
    PROVE  GatewayInv'
<1>1. ASSUME NEW i \in SessionRows, NEW read, SettleSession(i, read), bank[i] = "paid",
             UNCHANGED <<bank, checkout, callback, sweep>>
      PROVE  GatewayInv'
  <2>1. /\ \A h \in Callback : callback'[h] \in {callback[h], Away}
        /\ callback' \in [Callback -> ReturnType]
    BY <1>1 DEF GatewayInv, GatewayTyped
  <2> QED
    BY <1>1, <2>1, Settles
<1>2. CASE ReconcileBooking
  <2> DEFINE i == Len(ledger)
             read == IF ledger[i].status \in Recoverable THEN "PENDING" ELSE ledger[i].status
  <2>1. /\ i # 0 /\ ledger[i].gpid = "order" /\ bank[i] = "paid" /\ SettleSession(i, read)
        /\ UNCHANGED <<bank, checkout, callback, sweep>>
    BY <1>2 DEF ReconcileBooking
  <2>2. i \in RowNo
    BY <2>1, LedgerRows DEF GatewayInv
  <2>3. i \in SessionRows
    BY <2>1, <2>2 DEF GatewayInv, RowsNamed
  <2> HIDE DEF i, read
  <2> QED
    BY <1>1, <2>1, <2>3
<1>3. CASE \E i \in 1 .. MaxRow : RazorpayPaid(i) \/ ReconcilePending(i)
  BY <1>1, <1>3 DEF RazorpayPaid, ReconcilePending
<1> QED
  BY <1>2, <1>3

LEMMA GatewayBegins == GatewayInit => GatewayInv
<1> SUFFICES ASSUME GatewayInit
             PROVE  GatewayInv
  OBVIOUS
<1>1. RowNo = {} /\ ledger \in Seq(RowType)
  BY DEF GatewayInit, RowNo
<1>2. SessionRows = {} /\ Payments = {} /\ Live = {}
  BY <1>1 DEF SessionRows, Payments, Live
<1>3. Cardinality(SessionRows) <= MaxSession
  BY <1>2, FS_EmptySet, GatewayAssumption
<1>4. Away \in ReturnType /\ Away.said = "-"
  BY DEF Away, ReturnType
<1>5. /\ callback \in [Callback -> ReturnType]
      /\ \A h \in Callback : callback[h] = Away
  BY <1>4 DEF GatewayInit
<1>6. GatewayTyped
  BY <1>1, <1>3, <1>4, <1>5 DEF GatewayInit, GatewayTyped
<1>7. RowsNamed /\ PaymentsKept /\ Agreed
  BY <1>1, <1>2 DEF GatewayInit, RowsNamed, PaymentsKept, Agreed, PayersWait
<1> QED
  BY <1>6, <1>7 DEF GatewayInv

LEMMA GatewayStep == GatewayInv /\ [GatewayNext]_gatewayVars => GatewayInv'
<1> SUFFICES ASSUME GatewayInv, [GatewayNext]_gatewayVars
             PROVE  GatewayInv'
  OBVIOUS
<1>1. ASSUME NEW c \in Checkout, NEW gw \in Gateway,
             InitiatePayment(c, gw) \/ RetryPayment(c, gw) \/ RetryIcici(c)
      PROVE  GatewayInv'
  <2>1. "ICICI" \in Gateway
    BY DEF Gateway
  <2>2. \E g \in Gateway : Exclusive(g) /\ StartCheckout(c, g)
    BY <1>1, <2>1 DEF InitiatePayment, RetryPayment, RetryIcici
  <2> QED
    BY <2>2, CheckoutStarts
<1>2. ASSUME NEW c \in Checkout, OpenSession(c)
      PROVE  GatewayInv'
  BY <1>2, SessionOpens
<1>3. ASSUME NEW h \in Callback, RefuseReturn(h) \/ Conclude(h) \/ ConfirmReturn(h)
      PROVE  GatewayInv'
  BY <1>3, ReturnSteps
<1>4. CASE UNCHANGED gatewayVars
  <2>1. UNCHANGED <<ledger, bank, paid, checkout, callback, sweep, told, slip>>
    BY <1>4 DEF gatewayVars
  <2>2. /\ SameRows /\ RowNo' = RowNo /\ SessionRows' = SessionRows /\ Live' = Live
        /\ RowsNamed' /\ PaymentsKept'
    BY <2>1, IdleRows
  <2>3. Agreed' /\ GatewayTyped'
    BY <2>1, <2>2 DEF Agreed, PayersWait, GatewayInv, GatewayTyped
  <2> QED
    BY <2>2, <2>3 DEF GatewayInv
<1>5. CASE GatewayNext
  <2>1. "ICICI" \in Gateway
    BY DEF Gateway
  <2> QED
    BY <1>1, <1>2, <1>3, <1>5, <2>1, WaitingSteps, ReportedSteps, SweepCommits DEF GatewayNext
<1> QED
  BY <1>4, <1>5

\* The ledger, the waiting requests and the returning browsers keep their form; at most
\* MaxSession sessions give at most twice as many rows.
THEOREM GatewayTypeCorrect == GatewaySpec => []GatewayTypeOK
<1>1. GatewayInv => GatewayTypeOK
  <2> SUFFICES ASSUME GatewayInv
               PROVE  GatewayTypeOK
    OBVIOUS
  <2>1. Len(ledger) <= MaxRow /\ \A i \in RowNo : ledger[i] \in RowType
    BY LedgerRows, LedgerBound DEF GatewayInv
  <2>2. SessionRows \subseteq RowNo
    BY LedgerRows DEF GatewayInv
  <2>3. \A i \in RowNo : ledger[i].session \in RowNo
    <3>1. \A i \in RowNo : i \in SessionRows \/ i \in RowNo \ SessionRows
      OBVIOUS
    <3> QED
      BY <2>2, <3>1 DEF GatewayInv, RowsNamed, GatewayTyped
  <2>4. RowStatus \subseteq TxStatus
    BY DEF RowStatus, TxStatus
  <2>5. \A i \in RowNo : ledger[i] \in [gateway : Gateway, status : TxStatus, session : RowNo,
                                        gpid : {"order", "payment"}, dup : BOOLEAN]
    BY <2>1, <2>3, <2>4 DEF RowType
  <2>6. \A h \in Callback : callback[h].row \in RowNo \cup {0}
    BY <2>2 DEF GatewayInv, GatewayTyped, Away
  <2> QED
    BY <2>1, <2>2, <2>5, <2>6 DEF GatewayInv, GatewayTyped, GatewayTypeOK
<1> QED
  BY <1>1, GatewayBegins, GatewayStep, PTL DEF GatewaySpec

LEMMA MoneyFollows ==
    ASSUME GatewayInv
    PROVE  GatewayMoney
<1>1. SessionRows \subseteq RowNo
  BY LedgerRows DEF GatewayInv
<1>2. OneGateway
  BY DEF OneGateway, GatewayInv, Agreed
<1>3. SuccessfulRows = {i \in Payments \cap SessionRows : ledger[i].status = "SUCCESSFUL"}
  BY <1>1 DEF SuccessfulRows, GatewayInv, PaymentsKept
<1>4. Backed
  <2>1. paid => SuccessfulRows # {} \/ "overwritten" \in slip
    BY <1>1, <1>3 DEF GatewayInv, PaymentsKept
  <2>2. \A i, j \in SuccessfulRows : i = j
    BY <1>3 DEF GatewayInv, PaymentsKept
  <2>3. \A i \in RowNo : ledger[i].status = "SUCCESSFUL" => bank[ledger[i].session] = "paid"
    BY DEF GatewayInv, PaymentsKept
  <2> QED
    BY <2>1, <2>2, <2>3 DEF Backed
<1>5. Accounted
  <2> SUFFICES ASSUME NEW s \in told
               PROVE  /\ Cardinality(SettledAs(s)) = 1
                      /\ "overwritten" \in slip \/ \A i \in SettledAs(s) : ledger[i].status = "SUCCESSFUL"
    BY DEF Accounted
  <2>1. SettledAs(s) \subseteq Payments /\ \A i \in SettledAs(s) : ledger[i].session = s
    BY DEF SettledAs, Payments
  <2>2. PICK p \in Payments : ledger[p].session = s
    BY DEF GatewayInv, PaymentsKept
  <2>3. SettledAs(s) = {p}
    BY <2>1, <2>2 DEF SettledAs, Payments, GatewayInv, PaymentsKept
  <2>4. Cardinality(SettledAs(s)) = 1
    BY <2>3, FS_Singleton
  <2> QED
    BY <2>1, <2>4 DEF GatewayInv, PaymentsKept
<1> QED
  BY <1>2, <1>4, <1>5 DEF GatewayMoney

\* "Reject dual Razorpay+ICICI sessions": whatever number of checkouts, returning
\* browsers and sweeps cross, one gateway at a time takes the booking's money unless
\* one of the named slips happened, and money somebody was told of is in the ledger
\* exactly once (assert_gateway_exclusive, handle_verified_payment).
THEOREM GatewayTheorem == GatewaySpec => []GatewayMoney
<1>1. GatewayInv => GatewayMoney
  BY MoneyFollows
<1> QED
  BY <1>1, GatewayBegins, GatewayStep, PTL DEF GatewaySpec

-----------------------------------------------------------------------------
(* The parts beside each other, as TLC runs them.                          *)

\* A summary that a run starts from is one a conversation can be at.
LEMMA ReachSpoken == conv \in Conversation /\ ReachReview => Spoken
<1> SUFFICES ASSUME conv \in Conversation, ReachReview
             PROVE  Spoken
  OBVIOUS
<1>1. conv.state \notin Waiting
  BY DEF ReachReview, Waiting
<1>2. PICK k \in {"airport", "hotel", "charter"}, m \in {Flown, NoDetails},
           a \in {a1, NoAirport}, f \in {f2, NoFlight},
           t \in {Times(Priced(a1, "dom"), 1), NoTotal, Times(Listed, 1)} :
        /\ Speak(Reviewed(k, m, a, f, t))
        /\ k = "airport" => m = Flown /\ a = a1 /\ f = f2 /\ t = Times(Priced(a1, "dom"), 1)
        /\ k # "airport" => m = NoDetails
  BY DEF ReachReview
<1>3. Speak(With(conv, "BOOKING_REVIEW", k, m, a, t, 1, f))
  BY <1>2 DEF Reviewed, With
<1>4. /\ Flown \in Details /\ Flown.type = "dom" /\ Flown.unit = Priced(a1, "dom")
      /\ Flown.check = "verified" /\ Flown.route = f2
  BY FocusAssumption, Prices, NoDetailsOK DEF Flown, NoDetails, Details
<1>5. t \in Total
  BY <1>2, FocusAssumption, Prices, Amounts
<1>6. Typed("BOOKING_REVIEW", k, m, a, t, 1, f)
  BY <1>4, <1>5, FocusAssumption, NoDetailsOK DEF Typed, States, Category
<1>7. Chosen("BOOKING_REVIEW", k, m, a, t, 1, f)
  <2>1. NoDetails.check = "none"
    BY DEF NoDetails
  <2>2. CASE k = "airport"
    BY <1>2, <1>4, <2>2, FocusAssumption, Prices
       DEF Chosen, PackagePriced, FlightStates, OtherStates
  <2>3. CASE k # "airport"
    BY <1>2, <2>1, <2>3 DEF Chosen, FlightStates
  <2> QED
    BY <2>2, <2>3
<1> QED
  BY <1>1, <1>3, <1>6, <1>7, SpokenWith

\* A step of the conversation, of whichever part is looked at.
Talk == DialogueNext \/ ReachReview \/ UNCHANGED dialogueVars

LEMMA TalkStep == DialogueInv /\ Talk => Outcome
<1>1. CASE DialogueInv /\ ReachReview
  BY <1>1, Now, ReachSpoken, SpokenStep DEF ReachReview
<1> QED
  BY <1>1, DialogueStep, DialogueStutters DEF Talk

LEMMA TalkBound == DialogueInv /\ BoundInv /\ Talk => BoundInv'
<1>1. CASE BoundInv /\ ReachReview
  BY <1>1, SpeakBound DEF ReachReview, Speak
<1>2. CASE BoundInv /\ UNCHANGED dialogueVars
  BY <1>2, SpeakBound DEF dialogueVars, deskVars
<1> QED
  BY <1>1, <1>2, BoundStep DEF Talk

\* Every step is a step of one part, and the others rest.
LEMMA PartsStep ==
    [ChatNext]_ChatVars =>
        Talk /\ [FlightNext]_flightVars /\ [GatewayNext]_gatewayVars /\ [ShopNext]_shopVars
<1>1. CASE UNCHANGED ChatVars
  BY <1>1 DEF ChatVars, Talk
<1>2. ASSUME ChatNext, focus \notin {"details", "money"} PROVE UNCHANGED dialogueVars
  BY <1>2 DEF ChatNext, Rests
<1>3. ASSUME ChatNext, focus # "flights" PROVE UNCHANGED flightVars
  BY <1>3 DEF ChatNext, Rests
<1>4. ASSUME ChatNext, focus # "gateway" PROVE UNCHANGED gatewayVars
  BY <1>4 DEF ChatNext, Rests
<1>5. ASSUME ChatNext, focus \notin {"desk", "shop"} PROVE UNCHANGED shopVars
  BY <1>5 DEF ChatNext, Rests
<1>6. CASE ChatNext
  <2>1. ASSUME Money PROVE Talk
    BY <2>1 DEF Money, Ask, Talk, DialogueNext, Catalogue
  <2>2. CASE focus = "details" /\ DialogueNext
    BY <1>3, <1>4, <1>5, <1>6, <2>2 DEF Talk
  <2>3. CASE focus = "money" /\ Money
    BY <1>3, <1>4, <1>5, <1>6, <2>1, <2>3
  <2>4. CASE focus = "flights" /\ Lookups
    BY <1>2, <1>4, <1>5, <1>6, <2>4 DEF Lookups, Talk
  <2>5. CASE focus = "gateway" /\ GatewayNext
    BY <1>2, <1>3, <1>5, <1>6, <2>5 DEF Talk
  <2>6. CASE focus = "desk" /\ Desk
    BY <1>2, <1>3, <1>4, <1>6, <2>6 DEF Desk, Talk
  <2>7. CASE focus = "shop" /\ Shop
    BY <1>2, <1>3, <1>4, <1>6, <2>7 DEF Shop, Talk
  <2> QED
    BY <1>6, <2>2, <2>3, <2>4, <2>5, <2>6, <2>7 DEF ChatNext
<1> QED
  BY <1>1, <1>6

LEMMA ChatPlan == ChatSpec => ChatInit /\ [][ChatNext]_ChatVars
BY PTL DEF ChatSpec

\* The flight data, the gateway sessions and the shop follow their specifications,
\* and the conversation keeps its invariant.
LEMMA ChatParts == ChatSpec => FlightSpec /\ GatewaySpec /\ ShopSpec
<1>1. ChatInit => FlightInit /\ GatewayInit /\ ShopInit
  BY DEF ChatInit
<1> QED
  BY <1>1, PartsStep, ChatPlan, PTL DEF FlightSpec, GatewaySpec, ShopSpec

LEMMA ChatInvariant == ChatSpec => [](DialogueInv /\ BoundInv)
<1>1. ChatInit => DialogueInv /\ BoundInv
  BY DialogueStarts, BoundStarts DEF ChatInit
<1>2. DialogueInv /\ [ChatNext]_ChatVars => DialogueInv'
  BY PartsStep, TalkStep DEF Outcome
<1>3. DialogueInv /\ BoundInv /\ [ChatNext]_ChatVars => BoundInv'
  BY PartsStep, TalkBound
<1> QED
  BY <1>1, <1>2, <1>3, ChatPlan, PTL

\* The conversation, the flight data, the gateway sessions and the shop keep to their
\* types beside each other, for any catalogue, rows, days, links and requests
\* (whatsapp_conversations, payment_transactions, flight_status_records,
\* airport_services).
THEOREM ChatTyped == ChatSpec => []ChatTypeOK
<1>1. DialogueInv /\ BoundInv => DialogueTypeOK
  BY DialogueTypes
<1>2. DialogueTypeOK /\ FlightTypeOK /\ GatewayTypeOK /\ ShopTypeOK => ChatTypeOK
  BY DEF ChatTypeOK
<1> QED
  BY <1>1, <1>2, ChatInvariant, ChatParts, FlightTyped, GatewayTypeCorrect, ShopTyped, PTL

\* Beside each other the parts keep their promises too: the bookings in hand, the
\* money at the gateways and what the shop sells always, and on every step the
\* summary, the reservations and the flights that are known.
THEOREM ChatKeeps ==
    ChatSpec => /\ [](BookingsInHand /\ GatewayMoney /\ ShopKept)
                /\ SummaryHolds /\ KeepsReservations /\ KnownFlightServed
<1>1. DialogueInv => BookingsInHand
  BY Now DEF BookingsInHand, NoOrphanDraft, CompletedConfirmed, QuoteHasNoLink, Tracked, DeskOK
<1>2. ChatInit => Promise!Init
  BY DEF ChatInit, DialogueInit, Promise!Init
<1>3. DialogueInv /\ [ChatNext]_ChatVars => [PriceStep]_dialogueVars /\ [FlightStep]_dialogueVars
  BY PartsStep, TalkStep DEF Outcome, SummaryStep
<1>4. DialogueInv /\ [ChatNext]_ChatVars => [Promise!Next]_<<Statuses(book), PaidOf(link)>>
  BY PartsStep, TalkStep DEF Outcome, PromiseStep
<1>5. ChatSpec => SummaryHolds
  BY <1>3, ChatInvariant, ChatPlan, PTL DEF SummaryHolds, PriceMatches, FlightConsistent
<1>6. ChatSpec => KeepsReservations
  BY <1>2, <1>4, ChatInvariant, ChatPlan, PTL DEF KeepsReservations, Promise!Spec, Statuses, PaidOf
<1> QED
  BY <1>1, <1>5, <1>6, ChatInvariant, ChatParts, FlightTheorem, GatewayTheorem, ShopTheorem, PTL
====
