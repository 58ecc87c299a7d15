------------------------------- MODULE WebShop -------------------------------
(***************************************************************************)
(* The website's catalogue and what it sells.  The desk edits the rows of  *)
(* one package at one airport (admin_service_ext.py); a process keeps the  *)
(* page it served for a minute (journey_router.py); a customer is quoted   *)
(* from one of several endpoints and books (booking_service.py), and what  *)
(* is not sold online becomes a service query (journey_engine_ext.py).     *)
(***************************************************************************)
EXTENDS Integers, FiniteSets

CONSTANTS
    Row,        \* rows of airport_services that may sell the package
    FirstRow,   \* the one of the flight's own type
    Admin,      \* requests of the desk
    MaxEdit     \* edits in a behaviour

ASSUME ShopAssumption == IsFiniteSet(Row) /\ FirstRow \in Row /\ MaxEdit \in Nat

VARIABLES
    kind,     \* what each row is for: the flight's type, ALL, another type, another package
    rows,     \* airport_services
    edit,     \* the desk's requests
    edits,    \* how many there were
    cache,    \* _SERVICES_CATALOG_CACHE of the process that is looked at
    fill,     \* a page that was read and is not cached yet
    slipped,  \* rows that an edit opened in the recycle bin, or across a recycle
    buyer,    \* the customer's quote and booking, and how near the flight is
    asker,    \* who submits the service query of the booking
    queries,  \* the queries of the booking
    crossed   \* both looked before either had inserted

catalogueVars == <<kind, rows, edit, edits, cache, fill, slipped>>
saleVars == <<buyer, asker, queries, crossed>>
shopVars == <<catalogueVars, saleVars>>

Price == {1, 2}
DeskEdit == {"price", "open", "close", "recycle", "restore", "purge", "create"}
NoMapping == [id |-> 0, price |-> 1, open |-> FALSE, binned |-> FALSE]
OnSale == [NoMapping EXCEPT !.id = MaxEdit + 1, !.open = TRUE]
Withheld == [OnSale EXCEPT !.open = FALSE]
NoEdit == [op |-> "none", row |-> FirstRow, seen |-> NoMapping, home |-> TRUE]
NoPage == [held |-> FALSE, page |-> [r \in Row |-> 0], lag |-> {}]
Browsing == [step |-> "browsing", unit |-> 0, fee |-> FALSE, near |-> "early", why |-> {}]

ShopInit ==
    /\ kind \in [Row -> {"exact", "wild", "foreign", "other"}] /\ kind[FirstRow] = "exact"
    /\ rows \in [Row -> {NoMapping, Withheld, OnSale}]
    /\ edit = [a \in Admin |-> NoEdit] /\ edits = 0
    /\ cache = NoPage /\ fill = NoPage /\ slipped = {}
    /\ buyer = Browsing
    /\ asker = [x \in {"booking", "page"} |-> "idle"] /\ queries = 0 /\ crossed = FALSE

-----------------------------------------------------------------------------
(* Prices.  Nothing that sells looks at deleted_at: a row in the bin is kept *)
(* out by is_available alone.                                              *)

\* What get_services_for_airport finds: 0 is a row that is not sold.
PageOf(table) ==
    [r \in Row |-> IF table[r].id > 0 /\ table[r].open THEN table[r].price ELSE 0]
OfKind(page, k) == {r \in Row : page[r] > 0 /\ kind[r] = k}

\* The row of the flight's type beats the one for ALL; among several (one per
\* terminal) the database's order decides, which no query fixes.
ForSale(page) ==
    IF OfKind(page, "exact") # {} THEN OfKind(page, "exact") ELSE OfKind(page, "wild")

\* A leg of a multi-service booking takes another package when its own has no row.
ForLeg(page) == IF ForSale(page) # {} THEN ForSale(page) ELSE OfKind(page, "other")

-----------------------------------------------------------------------------
(* The desk: a request reads its row, checks it and commits what it changed. *)

EditAllowed(op, row) ==
    CASE op = "create" -> row.id = 0
      [] op = "recycle" -> row.id > 0 /\ ~row.binned
      [] op \in {"restore", "purge"} -> row.id > 0 /\ row.binned
      [] OTHER -> row.id > 0

StartEdit(a) ==
    /\ edit[a].op = "none" /\ edits < MaxEdit
    /\ \E op \in DeskEdit, r \in Row, home \in BOOLEAN :
        /\ EditAllowed(op, rows[r])
        /\ edit' = [edit EXCEPT ![a] =
                        [op |-> op, row |-> r, seen |-> rows[r], home |-> home]]
    /\ edits' = edits + 1
    /\ UNCHANGED <<kind, rows, cache, fill, slipped, saleVars>>

\* Faulty: the bin without the flag.
RecycledOnSale(now, e) == [now EXCEPT !.binned = TRUE]

\* SQLAlchemy writes the columns that differ from what the request had read.
Saved(now, e) ==
    CASE e.op = "price" -> [now EXCEPT !.price = 3 - e.seen.price]
      [] e.op = "open" -> [now EXCEPT !.open = @ \/ ~e.seen.open]
      [] e.op = "close" -> [now EXCEPT !.open = @ /\ ~e.seen.open]
NewMapping(e) == [NoMapping EXCEPT !.id = edits, !.open = TRUE]
Recycled(now, e) == [now EXCEPT !.binned = TRUE, !.open = @ /\ ~e.seen.open]
Restored(now, e) == [now EXCEPT !.binned = FALSE, !.open = @ \/ ~e.seen.open]
Updated(now, e) ==
    CASE e.op = "create" -> NewMapping(e)
      [] e.op = "recycle" -> Recycled(now, e)
      [] e.op = "restore" -> Restored(now, e)
      [] e.op = "purge" -> NoMapping
      [] OTHER -> Saved(now, e)

\* An edit that opened a row in the bin, or one that was being recycled.
SlippedBy(e, row) ==
    /\ ~e.seen.open
    /\ \/ e.op = "open" /\ row.binned
       \/ e.op = "recycle" /\ row.open

\* What a cached page misses: creation clears no cache, and a clear reaches
\* neither the other processes nor a page that is on its way into the cache.
Missed(copy, e, clears) ==
    IF copy.held /\ ~clears
    THEN [copy EXCEPT !.lag = @ \cup {IF e.op = "create" THEN "created"
                                     ELSE IF e.home THEN "refilled" ELSE "elsewhere"}]
    ELSE copy

CommitEdit(a) ==
    LET e == edit[a]
        row == rows[e.row]
    IN /\ e.op \in DeskEdit /\ row.id = e.seen.id
       /\ rows' = [rows EXCEPT ![e.row] = Updated(row, e)]
       /\ edit' = [edit EXCEPT ![a] = IF e.op = "create" THEN NoEdit
                                      ELSE [@ EXCEPT !.op = "clear"]]
       /\ cache' = Missed(cache, e, e.home /\ e.op # "create")
       /\ fill' = Missed(fill, e, FALSE)
       /\ slipped' = CASE SlippedBy(e, row) -> slipped \cup {e.row}
                       [] e.op \in {"restore", "purge"} -> slipped \ {e.row}
                       [] OTHER -> slipped
       /\ buyer' = [buyer EXCEPT !.why = IF buyer.step = "quoted" THEN @ \cup {"changed"}
                                         ELSE @]
       /\ UNCHANGED <<kind, edits, asker, queries, crossed>>

\* The row is gone, the key is taken, or the database fails.
FailEdit(a) ==
    /\ edit[a].op \in DeskEdit
    /\ edit' = [edit EXCEPT ![a] = NoEdit]
    /\ UNCHANGED <<kind, rows, edits, cache, fill, slipped, saleVars>>

ClearCache(a) ==
    /\ edit[a].op = "clear"
    /\ cache' = IF edit[a].home THEN NoPage ELSE cache
    /\ edit' = [edit EXCEPT ![a] = NoEdit]
    /\ UNCHANGED <<kind, rows, edits, fill, slipped, saleVars>>

\* A request that finds no page, or one older than a minute, reads the rows and
\* puts the page into the cache of its process in a second step.
ReadPage ==
    /\ ~fill.held
    /\ fill' = [held |-> TRUE, page |-> PageOf(rows), lag |-> {}]
    /\ UNCHANGED <<kind, rows, edit, edits, cache, slipped, saleVars>>
CachePage ==
    /\ fill.held
    /\ cache' = fill /\ fill' = NoPage
    /\ UNCHANGED <<kind, rows, edit, edits, slipped, saleVars>>

-----------------------------------------------------------------------------
(* The customer. *)

Time == {"early", "express", "short", "late"}

\* Mumbai adds half the price within 24 hours of the service.
Surcharge(near) == near # "early"

\* Notice that a booking needs: 6 hours, or 12 for a flight abroad.
Bookable(abroad) == {"early", "express"} \cup (IF abroad THEN {} ELSE {"short"})

\* Journey detection takes the airport's local time for UTC: the flight seems up
\* to five and a half hours later than it is.
Detectable(abroad) == Bookable(abroad) \cup {IF abroad THEN "short" ELSE "late"}

ShowPrice(r, page, times, fee, why) ==
    /\ buyer.step = "browsing"
    /\ \E near \in times :
        buyer' = [step |-> "quoted", unit |-> page[r], near |-> near,
                  fee |-> fee /\ Surcharge(near),
                  why |-> why \cup (IF fee THEN {} ELSE {"fee"})]
    /\ UNCHANGED <<catalogueVars, asker, queries, crossed>>

\* A list has every row for the type or for ALL.
ShowListed(page, times, why) ==
    \E r \in OfKind(page, "exact") \cup OfKind(page, "wild") :
        ShowPrice(r, page, times, FALSE,
                  why \cup (IF r \in ForSale(page) THEN {} ELSE {"listed"}))

BrowsePage ==
    /\ cache.held
    /\ ShowListed(cache.page, Time, IF cache.page = PageOf(rows) THEN {} ELSE {"cached"})
DetectJourney == \E abroad \in BOOLEAN : ShowListed(PageOf(rows), Detectable(abroad), {})
ValidateJourney == \E abroad \in BOOLEAN : ShowListed(PageOf(rows), Detectable(abroad), {})

\* The airport's configuration: without a route, the first row of any type; the
\* catalogue resolves the route first.
BrowseConfigured ==
    \E r \in Row :
        /\ PageOf(rows)[r] > 0 /\ kind[r] # "other"
        /\ ShowPrice(r, PageOf(rows), Time, FALSE, {"untyped"})
ResolveCatalog ==
    \E r \in ForSale(PageOf(rows)) : ShowPrice(r, PageOf(rows), Time, FALSE, {})

\* Several services at once: a leg whose package has no row is offered another's.
CheckAvailability ==
    \/ ShowListed(PageOf(rows), Time, {})
    \/ /\ ForSale(PageOf(rows)) = {}
       /\ \E r \in ForLeg(PageOf(rows)) :
            ShowPrice(r, PageOf(rows), Time, FALSE, {"fallback"})

\* The total as validated for a draft: six hours' notice for every flight, and
\* the fee when the flight's times came with the request.
QuoteDraft ==
    \E r \in ForSale(PageOf(rows)), times \in BOOLEAN :
        ShowPrice(r, PageOf(rows), Time \ {"late"}, times, {})

TimePasses ==
    /\ buyer.step = "quoted" /\ buyer.near # "late"
    /\ buyer' = [buyer EXCEPT
          !.near = CASE @ = "early" -> "express" [] @ = "express" -> "short"
                     [] OTHER -> "late",
          !.why = IF buyer.near = "early" THEN @ \cup {"fee"} ELSE @]
    /\ UNCHANGED <<catalogueVars, asker, queries, crossed>>

\* create_booking takes nothing of the quote but the package: row and fee are
\* looked up again.
InTime == \E abroad \in BOOLEAN : buyer.near \in Bookable(abroad)
Charge(found, step) ==
    /\ buyer.step = "quoted" /\ InTime
    /\ LET page == PageOf(rows)
           fee == Surcharge(buyer.near)
       IN \E r \in found :
            buyer' = [buyer EXCEPT !.step = step, !.unit = page[r], !.fee = fee,
                !.why = @ \cup (IF page[r] # buyer.unit THEN {"price"} ELSE {})
                          \cup (IF fee # buyer.fee THEN {"surcharge"} ELSE {})
                          \cup (IF Cardinality(found) > 1 THEN {"terminals"} ELSE {})
                          \cup (IF kind[r] = "other" THEN {"fallback"} ELSE {})]
    /\ UNCHANGED <<catalogueVars, asker, queries, crossed>>
Book == Charge(ForSale(PageOf(rows)), "booked")
BookLegs == Charge(ForLeg(PageOf(rows)), "partly")
Leave ==
    /\ buyer.step = "quoted" /\ buyer' = Browsing
    /\ UNCHANGED <<catalogueVars, asker, queries, crossed>>

-----------------------------------------------------------------------------
(* The legs that are not sold online: the booking submits a query after its *)
(* commit, and the page may submit one with the same reference.            *)

CheckQuery(x) ==
    /\ buyer.step = "partly" /\ asker[x] = "idle"
    /\ asker' = [asker EXCEPT ![x] = IF queries > 0 THEN "done" ELSE "checked"]
    /\ crossed' = (crossed \/ \E y \in DOMAIN asker : asker[y] = "checked")
    /\ UNCHANGED <<catalogueVars, buyer, queries>>
InsertQuery(x) ==
    /\ asker[x] = "checked"
    /\ asker' = [asker EXCEPT ![x] = "done"]
    /\ queries' \in {queries, queries + 1}   \* a failure is logged and forgotten
    /\ UNCHANGED <<catalogueVars, buyer, crossed>>

ShopNext ==
    \/ /\ buyer.step \in {"browsing", "quoted"}   \* later edits do not matter to it
       /\ \/ \E a \in Admin : StartEdit(a) \/ CommitEdit(a) \/ FailEdit(a) \/ ClearCache(a)
          \/ ReadPage \/ CachePage
    \/ BrowsePage \/ DetectJourney \/ ValidateJourney \/ BrowseConfigured \/ ResolveCatalog
    \/ CheckAvailability \/ QuoteDraft
    \/ TimePasses \/ Book \/ BookLegs \/ Leave
    \/ \E x \in DOMAIN asker : CheckQuery(x) \/ InsertQuery(x)
ShopSpec == ShopInit /\ [][ShopNext]_shopVars

-----------------------------------------------------------------------------
Copy == [held : BOOLEAN, page : [Row -> 0 .. 2],
         lag : SUBSET {"created", "refilled", "elsewhere"}]
Mapping == [id : 0 .. MaxEdit + 1, price : Price, open : BOOLEAN, binned : BOOLEAN]
\* The variables keep to their types.
ShopTypeOK ==
    /\ rows \in [Row -> Mapping] /\ cache \in Copy /\ fill \in Copy /\ slipped \subseteq Row
    /\ edit \in [Admin -> [op : DeskEdit \cup {"none", "clear"}, row : Row,
                            seen : Mapping, home : BOOLEAN]]
    /\ buyer.step \in {"browsing", "quoted", "booked", "partly"} /\ buyer.unit \in 0 .. 2
    /\ buyer.near \in Time /\ queries \in 0 .. 2

\* The recycle bin sells nothing, unless an edit opened a row that lies in it or
\* that was being recycled (update_airport_service does not look at deleted_at,
\* recycling does not write a flag that was already off when it read the row).
BinClosed == \A r \in Row \ slipped : rows[r].binned => ~rows[r].open

\* A process serves another page than the database's only for a reason: a row
\* was created, another process changed one, or the page was read before the
\* change and cached after the clear (or the clear is still to come).
CacheTrue ==
    cache.held /\ cache.page # PageOf(rows) =>
        cache.lag # {} \/ \E a \in Admin : edit[a].op = "clear" /\ edit[a].home

\* The customer is charged what was quoted, unless the desk changed a row since,
\* the page was stale or listed rows of both types, the route was not known,
\* terminals differ in price, or another package stood in; and the fee that was
\* quoted, unless 24 hours were passed or it was quoted without the times.
QuoteKept ==
    /\ "price" \in buyer.why => buyer.why \cap
         {"changed", "cached", "listed", "untyped", "terminals", "fallback"} # {}
    /\ "surcharge" \in buyer.why => "fee" \in buyer.why

\* A booking has one service query, unless two submissions crossed.
AskedOnce == queries <= 1 \/ crossed

\* What the catalogue shows and what it sells agree, but for these reasons.
ShopKept == BinClosed /\ CacheTrue /\ QuoteKept /\ AskedOnce
=============================================================================
