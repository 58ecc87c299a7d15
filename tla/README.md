# Shafsky backend: a verification project

The repository is the backend of an airport-services company: a FastAPI
application over PostgreSQL (with Redis beside it) that takes bookings from the
web and from WhatsApp, collects money through Razorpay and ICICI, and lets staff
work the bookings. Two uvicorn processes serve it (`docker-entrypoint.sh:6`,
`Dockerfile:33`: `WEB_CONCURRENCY=2`), so every handler below can run beside
every other one, in the same process (sync endpoints run in a thread pool) or in
the other one. What keeps them apart is only what the code asks the database
for: unique indexes, row locks, advisory locks.

Everything here is checked with TLC (`tlc -workers 2 -config X.cfg M`) and, for
the modules whose name ends in `Proofs`, with TLAPS (`tlapm M.tla`).

## 1. Inventory of the system

Paths are under `src/app`. "Hard" names the behaviour that a unit test hardly
reaches.

| component | state it keeps | operations | hard | correct means | module |
|---|---|---|---|---|---|
| **Payment core** `services/payments/{verification,verification_helpers,initiation,invoicing_refunds}`, `routers/payment_router`, `models/payment` | `payment_transactions`, `invoices`, `refunds`, `payment_webhook_events`, `bookings.status` | Razorpay webhook, verify endpoint, order endpoint, refund endpoint | webhooks duplicated, reordered and retried; two processes on one booking; reads before a lock or an HTTP call and writes after; crash between gateway and commit | one settlement and one invoice, no captured money lost, no confirmation without money, refunds terminal and bounded | `BookingPayments`, `BookingLedger` |
| **Invoice fulfilment** `services/pdf_service` | `invoices.pdf_url`, threads | schedule, fulfil | daemon thread lost in a restart; session advisory lock with commits inside | a settled payment's invoice is worked on unless a crash takes the thread | `BookingPayments` |
| **Payment jobs** `services/payments/reconciliation`, `payment_reconciliation_service` | the same rows | expire stale rows, reconcile with the gateway, report | job overtakes webhook | never takes a settlement away | `BookingDialogue`, `GatewaySessions` |
| **Payment links, gateway selection** `services/payments/{whatsapp_links,gateway_selector}` | link rows, live sessions | reuse, replace, expire, exclusivity | check-then-act around an HTTP call | one live link and one live gateway per booking | `PaymentLinks`, `GatewaySessions` |
| **ICICI** `services/payments/icici_handler` | the same rows | callback, status, retry, browser return | no lock across an HTTP call | a failed status does not undo a success | `GatewaySessions` |
| **Idempotency** `middleware/idempotency`, `services/idempotency_service`, `core/redis*` | locks and cached responses in Redis, PostgreSQL, memory | lookup, lock, store, release | three stores that come and go per process; lock TTL | a key runs once, is replayed faithfully | `Idempotency` |
| **WhatsApp integration** `integrations/whatsapp/{service,service_ext,router}` | conversations, message log, claims | inbound event, delivery status, links | claims that go stale, retries while the first call runs | each message handled once, one at a time per customer | `InboundMessages` |
| **WhatsApp flows** `integrations/whatsapp/handlers`, `travel_enquiries` | one conversation row with its JSON | one handler per state, Back, Hi, Cancel | every answer in every order; gateway events and jobs between two answers | what is booked is what was chosen last; no draft is left behind | `BookingDialogue`, `TravelEnquiry`, `Reservations` |
| **Notifications** `services/notification_service*`, `whatsapp_department_*`, `admin_notification_service` | notification rows, Redis marks, SSE queues | claim, send, retry, broadcast | crash between send and mark; one channel failing before the next; full queues | no double send, the right wording, nothing lost | `Notifications`, `OpsAlerts`, `BookingNews`, `AdminFeed` |
| **Workflow engine** `workflow/engine` | workflow instances and history | create, transition, freeze, resume, cancel, force | no version check, second commit for the copy | transitions follow the definition, the copy follows | `WorkflowInstance` |
| **Bookings** `services/booking_*`, `booking_draft_service`, `booking_recycle_service` | bookings, drafts, recycle bin | create, claim, complete, cancel, recycle, restore, purge | many writers, one version column; payment rows without one | a paid booking is not cancelled; a finished draft stays finished | `Bookings`, `BookingDrafts` |
| **Authentication** `services/auth_service`, `security/device_tracking` | refresh tokens | login, rotate, revoke | two rotations of one token, a sign-out between read and commit | a token rotates once, sessions end | `Sessions` |
| **Flight data** `flight/` | memory, Redis, three tables | website lookup, chat lookup | stale entries, marks, two callers with two formats | what was verified is found again | `FlightLookup` |
| **Catalogue and journeys** `journey_engine*`, `service_config_service`, `admin_service_ext`, `express_fee`, `booking_cutoff` | price rows, page cache, queries | edit, recycle, browse, quote, book | cache per process, quotes from five endpoints | what is shown is what is charged | `WebShop` |
| **Desk records** `assignment_service`, `notes_service`, `sla_service` | assignments, notes, SLA rows with histories | assign, reassign, edit, resolve | two requests on a row without a version | history and row agree | `SharedDomain` |
| **Quoting desks** `lounge_service`, `charter_service`, `ticketing_service` | request rows | file, update, transition, add passenger | look-then-insert, work after the commit | one request, everybody told | `ServiceEnquiries` |
| **CRM, search, users, contact settings** | single rows | CRUD | - | not modelled: no protocol | - |
| **AI, monitoring, disaster recovery, seeds, migrations** | - | - | - | input and output; the assistant's cancel tool is a writer of `Bookings` | - |

How they interact: the payment core confirms bookings, schedules invoice
fulfilment in a thread, resets the WhatsApp conversation of a paid booking and
emits notifications; `log_audit_action` and `TimelineService.add_entry` *commit*
the session they are given, so a handler's transaction ends at its first audit
or timeline entry and not at its own `db.commit()`. The order endpoint and the
WhatsApp flows create rows the core settles; the idempotency middleware wraps
every POST that carries a key.

## 2. Plan

The modules, by what composes them:

| TLC module | composes | runs |
|---|---|---|
| `MCBookingPayments` | `BookingPayments` (over `PaymentStatus`), refines `BookingLedger` | `payments`, `refunds`, `delivery`, `lost_duplicate`, `retry_storm`, `refund_order`, `gateway_down` |
| `MCIdempotency`, `MCRequests` | `Idempotency`, `BookingDrafts`, `BookingNews`, `AdminFeed` | `redis_down`, `requests` |
| `MCChat` | `BookingDialogue` (over `PaymentLinks`, refines `Reservations`), `FlightLookup`, `GatewaySessions`, `WebShop` | `chat`, `link_matches_review` |
| `MCServices` | `TravelEnquiry`, `InboundMessages`, `Sessions`, `Notifications`, `OpsAlerts`, `WorkflowInstance`, `Bookings`, `SharedDomain`, `ServiceEnquiries` | `services` |

`MCChat`, `MCServices` and `MCRequests` check several independent modules in one
run. A variable `focus` picks the part that moves, chosen once by the initial
state; the others keep their initial values, so the state spaces add up instead
of multiplying. The parts share no variable in the model; where the code lets them
meet (a notification about a booking, a workflow beside it) each module has the
other side as its environment.

What the plan has left: the workflow definitions other than airport assistance, and
for the payment core with refunds what happens to `ConfirmedBacked` beside failed
attempts, and to `RefundsReal` and `CaptureOnLedger` after a late order (section 8).

## 3. The payment core

### Modules

* `PaymentStatus`: the statuses and the state machine of `models/payment.py`.
* `BookingLedger`: the abstract promise. Per booking the first payment settles
  it together with its confirmation; every other payment is set aside once. Only a
  late order renames what settled a booking.
* `BookingPayments`: the code. `MCBookingPayments` adds the model values and the
  symmetry set.

### State and code

| variable | code |
|---|---|
| `db.txs`, `db.booking` | committed rows of `payment_transactions` (with their invoices and refunds) and `bookings.status`. Row `t` was created before row `t+1` (`ORDER BY created_at`) |
| `recorded` | `payment_webhook_events` |
| `acked` | events answered with a 2xx: the gateway stops sending them |
| `req`, `seen` | per request slot: where the handler is, and the rows its session loaded |
| `stale` | requests whose booking was written since they loaded it: `bookings.version` (`models/schema.py:159-161`) has moved |
| `creating` | where the order endpoint is with an order made at the gateway, and the row it chose for it |
| `refunding` | the amount of a refund between gateway and commit; non-zero means `FOR UPDATE` is held |
| `jobs`, `fulfilled` | fulfilment threads, and how the last one of each row ended: message sent, not sent, PDF not stored |
| `late`, `unchecked` | what the properties speak of: orders committed over a row that was not PENDING any more, orders booked while the gateway did not say whose they are |
| `owner`, `offered`, `gw` | the gateway: receipts, payable orders, payments |

A request of `handle_verified_payment` is three steps. `Begin` takes the
advisory lock and loads the rows (webhooks also hold their inserted event row).
A `Finish...` action is everything from there to the commit inside
`log_audit_action`, one action per outcome: confirm a found row, confirm
through a new PAY-REC row, replay, PAY-DUP, authorized, failed, refund, invalid
refund, rollback. `Dispatch` schedules the fulfilment and answers. A request
decides on `seen`, never on `db`: the session is what SQLAlchemy loaded, and an
UPDATE writes only the columns that differ from what was loaded (`Update`), on
top of whatever other transactions committed since. Lookups follow the code
literally: by gateway id, by ids stored in `gateway_response`, then the newest
open row behind the cross-booking guard, then the swap to the settled row.

`bookings` has a version column and `payment_transactions` has none. A request that
writes its booking while `stale` raises StaleDataError and is rolled back whole, its
invoice included (`Outdated`; `COMMIT_FAILED`, `verification.py:553-566`); a write to
a row only overwrites. Every write that a request makes to its booking moves the
version on, an authorization's note in the metadata too.

`fetch_order` may fail (`Outage`, `verification.py:284-285`). Then the guard is
skipped and so is the fallback to an open row (`bind_pending_fallback`, with the
settings of production), and the amount check refuses a verify call that would
confirm; a verify call for a CONFIRMED booking still inserts a PAY-DUP row.

The order endpoint is three steps: `CreateOrder` at the gateway, `ChooseRow` (the
SELECT of the newest PENDING row, `payment_router.py:255-261`), `PersistOrder` (the
UPDATE or INSERT and its commit). Requests in between may settle the row that was
chosen; the order then replaces its payment's id.

`RefundCall`/`RefundCommit` are the refund endpoint around its gateway call, and
`RefundLost` its commit that finds the booking's version moved: the money is back
and the ledger does not say so. `Fulfil` is the thread; it ends as `ThreadEnds` says,
a failure is logged and nothing schedules the thread again (only a repetition of
the payment does, while the PDF is not stored). `Crash` is the death of the
processes: sessions, locks, threads and half-made orders are gone, rows stay.

The environment is the gateway: it sends each event at least once, in any order,
until it gets a 2xx, and the browser may call verify at any time with any
booking reference.

Abstractions: ids are model values; amounts are `0..Total` refund units; a
`gateway_response` is the set of ids at its top level and the set in its
payload, which is all `collect_tx_gateway_ids` looks at; amount mismatches,
signatures and access checks are left out (rejections before any write);
booking metadata, audit and timeline rows are left out; statuses REJECTED and
CANCELLED of a booking are one; operational statuses are left out. Other writers of
a booking, the desk for one, move its version too; all they do to a request is
what a rollback and the gateway's retry do, so they are not actions here.

### Runs

| run | expects | shows |
|---|---|---|
| `payments` | pass | everything except refunds, two bookings, with gateway outages, late orders and a crash; and that the core refines `BookingLedger` (`KeepsPromise`) |
| `refunds` | pass | refunds by endpoint, dashboard and event against two racing payments and late orders, with a crash: a full refund takes the confirmation with the money (`ConfirmedBacked`); no acknowledged capture is missing from the ledger (`CaptureOnLedger`) |
| `delivery` | pass | liveness under fair retries, with gateway outages, failing threads and a crash |
| `lost_duplicate` | violation of `CaptureOnLedger` | finding |
| `retry_storm` | violation of `EveryEventAcked` | finding |
| `refund_order` | violation of `RefundedIsTerminal` | finding |
| `gateway_down` | violation of `MoneyStaysHome` | finding |

Every passing property is also run against a mutated definition (the operators
commented "Faulty" beside their originals) that a plausible bug would give, and
fails there.

**Bounds.** Two workers: every hazard of the core is a pair of requests, and a
third adds only waiting (the advisory lock admits one per booking). Two orders
and two payments: the double-payment logic compares one payment with another.
`MaxTx = 3` rows is one more than the orders, for a PAY-DUP or PAY-REC row.
`Total` is 1 where refunds do not matter, 2 so that a partial refund exists. One
crash: a second finds the same rows. `Subscribed` picks the events of a run so
that the state space stays in minutes: `payments` leaves out authorizations,
`refunds` leaves out verify calls, `delivery` leaves out order.paid (with it `EveryEventAcked` is
false once there is a duplicate: `retry_storm`). `Outage` and more than one of
`ThreadEnds` are on where a property can tell: outages wherever the browser
verifies, failing threads in `delivery`.

`UnkeyedKinds = {}` says every message names its booking. A verify call need not
(`schemas/payment.py:90`), and then takes the advisory lock on the order while the
webhooks take it on the booking. With `UnkeyedKinds = {"VERIFY_ENDPOINT"}` in
`payments`, the version of the booking still admits one confirmation
(`OneSettlement` and `OneInvoice` hold, with all states explored), but a
payment.failed that loaded the row as PENDING beside the verify call overwrites its
SUCCESSFUL: `SettledOnlyRefunded`, `ConfirmedBacked` and `KeepsPromise` are violated
within a few steps.

**What the properties excuse.** `NoCrossBooking` excuses orders booked during an
outage (`unchecked`); `MoneyStaysHome` is the same without the excuse.
`CaptureOnLedger` and `RefundsReal` excuse bookings with a late order
(`LateBookings`): its id replaces that of the payment that settled the row, and the
order's own payment, captured later, then passes for a repetition. `KeepsPromise`
shows such an order as `Rename`. `FulfilledUnlessCrash` excuses a crash; a thread that
fails counts as having worked on the invoice, because no more is promised
("Failures are logged and never reverse payment", `pdf_service.py:633`).

`CaptureOnLedger` is checked in `refunds` and proved for every instance in which
verify calls do not run beside authorizations or failures (section 8). Beside
authorizations it is false with two payments (`lost_duplicate`), beside failures with
three: two orders of a booking are open, the failed event of the first leaves its ids
in the payload of a row that settles with the second, and a capture on the first order
then passes for a repetition. Two payments are too few for that, so `payments`, which
has both, does not claim it.

**Deadlock** is off: when every event is acknowledged and every payment made,
the system rests.

**Fairness** (`delivery`, `retry_storm`): a request that was taken is finished
(its thread runs); scheduled threads run; the gateway retries an event it got no
2xx for, strongly fair because a delivery may wait for the advisory lock again
and again and PostgreSQL serves waiters. No fairness for customers, crashes or
the browser.

### Findings

* **lost_duplicate**: payment A is authorized (its payload is stored in the
  row), payment B is verified and settles the row; `merge_gateway_response`
  keeps A's payload beside B's ids, so the capture of A shares an id with the
  settled row, passes for a repetition, and no PAY-DUP row records A's money.
* **retry_storm**: payment.captured and order.paid of a duplicate payment both
  want to insert a PAY-DUP row with one gateway id; the second violates
  `uq_payment_tx_live_gateway_payment_id`, and so does each of its retries.
* **refund_order**: the partial-refund event after the full one reopens REFUNDED.
* **gateway_down**: the comment calls the order-receipt binding "unconditional"
  (`verification_helpers.py:155-157`), but it needs the gateway's answer: while
  `fetch_order` fails, a payment sent with another, CONFIRMED booking's reference is
  recorded there as a duplicate.

Further behaviours the model has and no run states a property about are listed
with the hazards in `PROJECT.json`.

## 4. The idempotency middleware

`Idempotency` follows the POSTs that carry one Idempotency-Key through
`IdempotencyMiddleware.dispatch` and the three stores behind it;
`MCIdempotency` adds the model values.

| variable | code |
|---|---|
| `pc`, `home`, `print`, `answer` | per request: where `dispatch` is, the uvicorn process, the fingerprint of method, path and body, what it answers |
| `lock`, `resp` | who holds the lock and whose response is cached, in Redis, in `idempotency_records`, and in each process's `InMemoryLockStore` and `InMemoryResponseStore` |
| `sees` | which shared stores a process reaches: `get_redis_client` stays away for 30 s after an error, and so does `_PostgresIdempotencyStore` |
| `effects` | requests whose endpoint took effect |
| `late`, `at`, `faults`, `nfaults` | what the properties speak of: sent after an answered success, the store that granted the lock, what has failed |

`Arrive` is the first lookup, `Acquire` the lock, `Collide` the lookup without
it, `Recheck` the lookup under it, `Succeed` and `Fail` the endpoint,
`StoreRedis`, `StorePg` (with the process's memory) and `Release` the rest. The
store calls are synchronous inside an async handler, so one process interleaves
requests only at its awaits, the body and the endpoint (`Loop`); two processes
interleave anywhere. `Grants` and `Frees` are `acquire_lock` and `release_lock`,
including the fall-through from PostgreSQL to memory. `Flap` takes a store from
one process or gives it back, `Crash` restarts one, `Expire` is the TTL of a lock
nobody will release, `Overrun` the TTL of a lock whose endpoint still runs.

| run | expects | shows |
|---|---|---|
| `requests` (focus `retry`) | pass | `AtMostOnce` while nothing fails, `RepeatNeverRuns` while PostgreSQL is reached, `ReplayFaithful` and `LockKept` under every fault |
| `redis_down` | violation of `AtMostOnce` | finding: PostgreSQL's refusal of a held lock is taken for an absent PostgreSQL, and the request runs under the lock of its own memory |

**Bounds.** Three requests: one that holds the lock, one that competes, one sent
after an answer. Two processes, because they differ only in what they see and
remember. Two fingerprints: equal or not. Two faults of any kind, enough for a
store to go and come back, or for a restart while stores disagree. No fairness:
the properties are safety. Deadlock is off because the requests end.

Abstractions: a response is the request it came from; an endpoint that answers
400 or more is taken to have had no effect (its transaction rolled back); the
body is read before `Arrive`. Left out: a Redis that answers the ping and fails
the next command (the code then uses memory for that one call), a Redis that
loses its data, the response TTL of 24 h, and a view that changes within one
store operation.

## 5. The customer's chat and what it shares with the website

### Modules

* `PaymentLinks`: operations on the *desk*, a record of the bookings, the ledger
  rows that name a link and the links at the gateway. Each operator takes a desk
  and returns the set of desks the code may leave, because what Razorpay answers
  is chosen (`whatsapp_links.py`, `verification.py`, `verification_helpers.py`).
* `BookingDialogue`: the conversation. `conv` is the row of
  `whatsapp_conversations` with the parts of its JSON that later states read
  (journey, travel type, unit price, how the flight was checked, its route).
  There is one action per state handler of `handlers/*.py`; an answer that is
  refused (a date that is past or too soon, a malformed e-mail) leaves the
  conversation as it was and is a stuttering step. `Interrupt` are Back, Hi,
  Cancel and expiry, `Events` the gateway and the cleanup job.
* `Reservations`: the abstract promise. A request is made, withdrawn while it is
  PENDING, and confirmed for good once it was paid. `BookingDialogue` refines it
  (`KeepsReservations`), with the status of each booking and the paid links as
  the mapping.
* `FlightLookup`: one flight number with two legs. `hot` stands for the memory of
  the workers and Redis, `api` for `flight_api_cache` (a row per day and a
  PERPETUAL one) with `own`, those AviationStack's answers wrote, `raw` for the
  rows the chat fetched for five minutes, `sectors` for `flight_status_records`,
  `marks` for the fifteen-minute not-found keys, `asking` for the HTTP calls under
  way, `chat` for the step of `verify_flight_for_whatsapp`. Each of AeroDataBox,
  AviationStack and Aviation Edge may be the provider; Aviation Edge falls back on
  AviationStack, and the chat on AeroDataBox.
* `GatewaySessions`: one booking that can be paid with Razorpay or ICICI.
  Checkouts read, call the gateway and insert; callbacks read, ask the bank and
  write; the sweep selects and commits; settlements are serial.
* `WebShop`: the price rows of one package at one airport with their recycle bin,
  the page a process caches for a minute, five endpoints that quote, what
  `create_booking` charges, and the service query for what is not sold online.

### Run `chat`

| focus | what moves | property |
|---|---|---|
| `details` | every choice of airport, terminal, flight, package and passengers up to the first booking, with every way back | `SummaryHolds`: price, flight and travel type of a booking are those of the last choices |
| `money` | from a summary on: up to two bookings, their links, the gateway's events in any order, the cleanup job, restarts | `BookingsInHand` (no orphaned draft, COMPLETED only when confirmed, no link without a price), `PaidConfirmed`, `KeepsReservations` |
| `flights` | lookups of website and chat, outages, expiries, restarts, under each provider | `KnownFlightServed`: what was learned, in whatever tier it still is, the next lookup finds, for its sector |
| `gateway` | two checkouts, one callback, webhooks, sweep, reconciliations | `GatewayMoney` (`OneGateway`, `Backed`, `Accounted`) |
| `desk` | two requests of the desk on one row, up to two edits | `ShopKept`, its `BinClosed` and `CacheTrue` |
| `shop` | two rows of every kind, one edit, one customer, two submissions of the query | `ShopKept`, its `QuoteKept` and `AskedOnce` |

**Bounds.** Two airports and three flights (one international, one from the hub)
give every pair the handlers compare; more of either repeats a pair. Two
bookings and two links: every hazard is an old link or draft beside the current
one. One day of travel beside the lookups without a day and the PERPETUAL row, no
departure service without a route, and under Aviation Edge no chat that asks
AviationStack (`Lookups`): two days or that chat multiply the states, and
`FlightTheorem` (section 8) covers any number of days with every step. Two sessions and one
callback: a callback races a sweep, a webhook or a reconciliation, all of which
are there without a bound. `money` starts at summaries that `details` reaches
(`ReachReview` names them), which is what keeps the run in minutes.

**Fairness.** Weak fairness of `PaidEvent(l)` alone: Razorpay repeats a webhook
until it is answered with a 2xx, and the handler of a paid link answers one. No
fairness for the customer, the desk, the sweep or the expiry of links.
**Deadlock** is off: a conversation may rest, a booking with settled payments too.

**The cleanup job.** It takes conversations that have been idle for an hour at
least (a day by default), sends them back to the menu and leaves `booking_ref`.
Their next message is past the inactivity limit, so that whatever it says
`SessionExpires` comes first and withdraws the draft: `Swept` says which
conversations these are, and `Cancel` and `ChooseCategory` wait for it.

**What the properties excuse.** `GatewayMoney` excuses what `slip` names: two checkouts that both saw no
open session (`assert_gateway_exclusive` is a check before an HTTP call and the
insert comes after it), a dead session that a late payment revives, and a row
that a callback or the sweep overwrites by the status it read before. `BinClosed`
excuses a row that was edited while it lay in the bin or across its recycling;
`CacheTrue` a page that was read before a change or lives in another process;
`QuoteKept` the reasons it lists by name.

**Finding `link_matches_review`**: Back in a COMPLETED conversation sends the
category menu (`service_ext.py:362-363`, the last `else`) and clears nothing. The
summary that the customer then fills and confirms meets the `booking_ref` of the
paid booking: no booking is made, and the answer says that the old one is confirmed.

### What modelling it showed

* The service airport is no part of `build_cache_keys`; a departure service
  without a route always asks the provider again, and a leg of another airport
  may answer a lookup without one.
* Outages of AviationStack, except an exhausted quota, become not-found marks;
  those of AeroDataBox do not, and Aviation Edge leaves no trace of any.
* Aviation Edge looks up with direction `any`, for which the database answers
  nothing without both ends; its cached hits are not moved to the asked date
  (`to_flight_status_data` without `target_date`), and dates nearer than the
  future window are never sent to `flightsFuture`, so that "schedule not
  published" degrades to "not found".
* A mark replaces the PERPETUAL row for a year: a lookup without a day then asks
  the provider although the flight is known.
* The chat takes the website's rows of `flight_api_cache` for its own and fails
  on their form; its fetch deletes all rows of the flight.
* `to_flight_status_data` keeps a live status, so `check_flight_expiry` can
  refuse a flight of a later day.
* `icici_initiate` does not look at the booking's status; `expire_stale` expires
  ICICI rows without asking the bank.
* `validate_booking` adds 18 % tax, `create_booking` charges GST-inclusive prices;
  quotes multiply by all guests, the booking bills adults only; the catalogue
  shows the last row of a type, the booking charges the first. The model keeps
  *which row* and *whether the express fee* and leaves these factors out.
* `clear_services_catalog_cache` clears its own process only.

## 6. The services around bookings

All in the run `services`, one `focus` each.

| module (focus) | state and code | property | what it excuses by name |
|---|---|---|---|
| `TravelEnquiry` (`enquiry`) | `form` is `whatsapp_state_json["travel_enquiry"]`; the plan is computed again from the answers on every turn | `FormComplete`: what is reviewed answers every question of its plan with values that fit together | nothing |
| `InboundMessages` (`inbound`) | `event` is the claim row, `lock` the conversation lock, `call` each message of each webhook through claim, lock, processing and mark, with one answer for the webhook | `InboundOnce`: one transition at a time, one effect per message, nothing acknowledged and lost | a call slower than 120 s, a Redis that goes away, a worker that dies holding the message, a failure that `process_incoming_event` swallows, a message to be sent again that shared its webhook with a handled one |
| `Sessions` (`sessions`) | `token` is `refresh_tokens`, `visit` the requests between their read and their commit | `SessionRules`: a sign-out of everything ends what was there; one valid token per family | a sign-out between read and commit; two rotations that overlap |
| `Notifications` (`notifications`) | `record` is `notification_records` of one template, booking and recipient; `sender` the callers between claim, send and result; `kind` the callers' differences | `SentOnce` | the faults its comment lists: a commit that fails, a lease that ends early, fifty newer rows, a timeout or a failed post that made its message, a retry of what was not known to have failed |
| `OpsAlerts` (`alerts`) | the key in Redis, its copy in each process, the durable row that delivery reports rewrite | `AlertOnce` | overlapping dispatchers without the lock, a timeout whose hold expired, a message made by a post reported as failed, the loss of both layers (a row that cannot be looked up counts as lost) |
| `WorkflowInstance` (`workflow`) | `instance` and the newest `workflow_history` row; `airport` is the copy in `airport_bookings`; requests read, decide and commit later | `HistoryLegal` (an action property), `StatusFollows` | a commit or a freeze between read and commit; an administrator's override |
| `Bookings` (`bookings`) | `row` with its version, `paying` the payment's row, `extra` a PAY-DUP row; a writer loads, decides and saves | `CancelledRefunded`: a cancelled booking has no money on its payment | the desk's other statuses, a draft saved over a paid booking, the assistant's tool, the full refund of a duplicate (`invoicing_refunds.py:269` cancels the booking of whichever row it is) |
| `SharedDomain` (`shared`) | assignments, notes, SLA rows with their histories; `table` picks one | `DeskTold` (part of `DesksKept`) | requests that crossed on one row |
| `ServiceEnquiries` (`desks`) | a lounge enquiry, a charter request or an air-ticket booking; `trade` picks one | `DesksServe` (part of `DesksKept`): one enquiry per request, everybody told, counts true | two checks before either insert, a death after the commit, a crossing |

**Bounds.** Three calls, visits and senders: one that holds, one that competes, one
that comes late. Two requests, writers, clerks, agents and dispatchers: every
hazard here is a pair. `MaxVersion = 4` commits of a booking are book, pay, refund
or move, and cancel. `MaxToken = 3` is a login, its successor and one more.
`MaxAttempts = 2` gives a retry its last attempt. `FewTroubles` admits two of the
inbound faults, any two, in one behaviour. `FewFaults` and `FewMishaps` admit
one fault per behaviour and end it where the property excuses whatever follows: more
adds states and no obligations. `OneTicket` files one ticket booking, because
transitions and passengers of two do not meet. Forms have two applicants and two
days, so that a return date can be before a departure.

**Symmetry.** Sets that are used by different parts share model values (`t1, t2`;
`s1, s2, s3`); a permutation serves all, because only one part ever leaves its
initial state. `HistoryLegal` is an action property over `\A q \in Request`, which
symmetry keeps; there is no liveness in this run.

No fairness is stated: all nine are safety. **Deadlock** is off
because forms, deliveries and tokens run out.

### What modelling it showed

* Every request of these parts decides on rows that it read before its commit;
  only `bookings.version` makes the loser fail (`StaleDataError`).
* `save_booking_draft` ("Updates existing draft record if booking_ref is
  provided") resets whatever booking carries the reference to DRAFT, a paid one
  too.
* `cancel_booking` looks at the payments only of a CONFIRMED booking.
* A full refund of a PAY-DUP row cancels the booking although its own payment stands
  (`invoicing_refunds.py:269`).
* Meta gets one answer for all messages of a webhook: 200 as soon as one was handled
  (`router.py:80-93`). One whose claim failed is then not sent again, and one whose
  failure `process_incoming_event` swallowed counts as handled.
* `_dispatch_http` does not repeat a post that timed out ("Blindly re-POSTing
  duplicates customer messages", `client.py:279-282`); it repeats one answered with a
  5xx and reports a broken connection as a failure, after which the caller repeats it,
  and either may have made the message (`PostUnsaid`).
* `check_eligibility` of the lounge says "no grace period" and grants an hour.
* The operations queue has no producer: `create_queue_entry` has no caller, and
  `operations_router` shows `timeline.get("items")` where `get_timeline` returns
  `data`.

## 7. Requests and what they leave behind

Run `requests`; the focus `retry` is section 4.

| module (focus) | state and code | property | what it excuses by name |
|---|---|---|---|
| `BookingDrafts` (`drafts`) | `draft` is the row of `booking_drafts`, `tab` the requests of pages between read and commit; a save writes the columns it changed | `DraftsKept`: a completed draft stays completed, belongs to the one account that was told so, and is not expired after a save | a column written over a commit the request had not seen |
| `BookingNews` (`news`) | `told` is the notification records by wording, `teller` the requests that go through mail, chat, operations and feed in the code's order | `NewsTold` (part of `NewsKept`): the wording is true when it is sent, the fallbacks end in a message, no channel silences the next | a refusal by the provider, the fallback pair below, a mail whose database access raises |
| `AdminFeed` (`feed`) | `posted` is `admin_notifications`, `board` the dashboards' queues, `pusher` the threads of `broadcast_local` step by step | `FeedComplete` (part of `NewsKept`): a dashboard that loaded the list has every unread notice, the newest are never dropped, a stream is given up only when two threads pushed at once | another worker's push, a push that broke off, as many newer notices as the queue or the list holds (`list_notifications` applies its `limit`, 50 by default: older unread notices are not loaded, though they are counted) |

**Bounds.** Two requests, tabs or threads, two accounts, two processes. Two notices,
posted and repeated, and a queue of two instead of a hundred: overflow needs one
more push than the queue holds, and repeats provide it; a list of one notice
instead of 50, so that the older one is beyond it. One dashboard:
subscribers share nothing but the set that is copied before the push. `OneColumn`,
`OneSlip` and `SomeSeen` admit one column written unseen, one kind of slip and one
missed notice per behaviour: the properties excuse each by itself, so that more of
them leave less to check. The theorems of section 8 have none of these bounds.

### What modelling it showed

* After error 131047 (the 24-hour window is closed) with a regional template
  language, the retry in the base language sends the free text again and fails:
  `NewsReaches` excuses exactly this pair.
* The chat's confirmation is withheld from CANCELLED and REJECTED bookings only,
  because its callers pass CONFIRMED; the mail does not look at the status at all.
* A priced booking also gets the "quotation to follow (no payment taken)"
  acknowledgement; an exception in a mail's database access ends the channels
  behind it.
* `broadcast_local` is called "Thread-safe", but two threads that push to a full
  queue each make room, one fails, and the stream it drops keeps pinging silently.
  Nobody listens to the `pg_notify` that is to reach other workers.
* The draft's comment says it "returns to in_progress"; `_status_for` computes the
  status again from the step.
* `_dispatch_ground_transport_enquiry_whatsapp` and its three siblings have no
  caller.

## 8. Proofs

### The payment core

`BookingPaymentsProofs` proves, for any sets of bookings, orders, payments and
workers and any bounds:

* `TypeCorrect`: `Spec => []TypeOK`; `RefundInFlightFits`: `Spec => []RefundFits`.
  `TypeOK` is not inductive: `Update` adds a difference of invoice counts to a
  row, and `RefundCommit` adds an amount to a sum that must stay below `Total`.
  `TypeInv` adds `RowsKept` (a loaded row still exists: rows are never deleted),
  `OrdersPlaced` (the row that the order endpoint chose exists, is the order's
  booking's and no duplicate), `RefundFits` (only the holder of the row lock adds
  refunds) and `ReceiptsKnown` (what a lookup or a lock key uses is never absent).
* `RowInvariant`: `Spec => []RowInv` when every message names its booking
  (`UnkeyedKinds = {}`), and from it `OneInvoiceAlways` and `SettledStaysSettled`
  (the action property `SettledOnlyRefunded`). The argument: `OnePerBooking`
  (the lock keys of two requests in hand differ) makes `SnapshotFresh`
  inductive: while a request works on a booking, no other one settles or
  invoices that booking's rows, so what it read about them still holds when it
  writes. Section 3 says what happens without the assumption.

* `NoCrossBookingTheorem`: `Spec => []NoCrossBooking`, without any hypothesis on
  the messages and with refunds, late orders, outages and crashes. The invariant
  `IdsOwned` speaks of the ids and not of the money: whatever ids a row, or a
  session's copy of it, holds belong to orders and payments of the row's own booking,
  or to orders booked unchecked. A lookup that goes by ids therefore stays within a
  booking, and the fallback to the newest open row is the one place that needs the guard.
* `MoneyInvariant`, for the core without refunds (`PaySpec`) when every message names
  its booking: `RowsMeanMoney` and `BookingsBacked` say that a booking is CONFIRMED
  exactly when a row settles it, and `SnapshotExact` is what makes this inductive:
  what a request under the lock read about its *own* booking is what the database
  holds (only the order endpoint may have given a row another id, early or late), so
  that when it decides to confirm there is no settlement to overlook. From it follow `OneSettlementTheorem`, `ConfirmedBackedTheorem` and
  `KeepsPromiseTheorem`.
* `KeepsPromiseTheorem`: `PaySpec => KeepsPromise`, the refinement of `BookingLedger`.
  Every step is one of four (`Quiet`: no row gains or loses money; `Settles`: one
  payment settles its booking and confirms it; `SetsAside`: one payment becomes a
  PAY-DUP row; `Renames`: a late order), and each of them is a step of the ledger or a
  stutter.
* `RefundInvariant`, for the whole core with refunds, when every message names its
  booking and the browser verifies captured payments. `MoneyInv` does not survive
  refunds: a settled row may be refunded while a request holds a snapshot of it.
  `RefundInv` says what does survive. A row with money names its payment and no other
  row names it (`RowsPaid`, `PaymentOnce`); what a request loaded about its own booking
  differs from the database by the order of a PENDING row and by refunds of settled
  ones only (`SnapshotFollowed`); a refund in flight is of a settled row
  (`RefundsSettled`). A late order breaks the first of these for good, so the
  invariant is proved as long as there is none (`OnTime`): `Spec => [](TypeInv /\
  RowInv /\ (OnTime => RefundInv))`; because `late` only grows, `OnTime` held before
  whenever it holds.
* `RefundsRealTheorem`: `Spec => [](OnTime => RefundsReal)`. `BackedInv` counts the refund in flight
  with the Refund rows (`Backed`), and `OneOrder` keeps all ids that a row with money stores
  to the order of its payment, so that a refund event books what was paid back for the
  payment it finds the row by.
* `RefundsUnconfirmTheorem`: `Spec => []ConfirmedBacked`, with refunds, late orders and
  crashes, whatever the state of the payments that verify calls report. Every commit
  that takes the backing away (`Ends`) cancels the booking in the same step, and
  nobody confirms it afterwards on what it read before: that request is `stale` and
  rolled back. `SoundInv` adds that a refund in flight is of a settled row, that a row
  which covered the booking when a request loaded it still does unless the request is
  stale (`StatusKept`), and that no payment.failed is in hand (`NoFailures`).
* `CaptureOnLedgerTheorem`: `Spec => [](OnTime => CaptureOnLedger)`. `LedgerInv` follows a capture from
  its commit: once it is recorded or about to be answered, some row holds its money under its
  own id, and no later event takes that id away.

### The idempotency middleware

`IdempotencyProofs` proves all five properties of the focus `retry` for any
number of requests, processes, fingerprints and faults, each through an
inductive invariant stated in `Idempotency`:

* `StoresTyped`: `Spec => []TypeOK`.
* `OnceTheorem`: with Redis among `InitSees`, `Spec => []AtMostOnce`. `OnceInv`
  adds that a request past the lock holds it in Redis and that an effect is
  either in Redis or still held under the lock. So a request that holds the lock
  and finds no response in Redis (`Recheck`) knows there is no effect.
  `redis_down` shows that the assumption is needed.
* `RepeatTheorem`: `Spec => []RepeatNeverRuns`. `RepeatInv` adds that a success
  is in PostgreSQL before it is answered; nothing removes it there.
* `ReplayTheorem`: `Spec => []ReplayFaithful`. `ReplayInv` adds that every store
  holds only responses of requests that took effect.
* `LockTheorem`: `Spec => []LockKept`. `LockInv` adds that a lock comes from a
  shared store or from the memory of the request's own process, so a restart
  takes it only together with the request.

### Rows that several requests write

Four components of the runs `services` and `requests` have the same shape: a request
reads a row, decides, and commits later, and the code protects the row in a
different way in each. None of the properties is inductive, because it says
nothing about requests in flight; the invariants say what a request may still
rely on when it commits.

* `BookingsProofs`, `CancelledRefundedTheorem`: `Spec => []CancelledRefunded` for any
  number of requests and any `MaxVersion`. `ReadCurrent`: while the version is the
  one a request read, so is the status. `CancelSafe`: a cancellation that will
  still commit has no money to overlook, because a settlement moves the version on.
  `MoneyConfirmed` carries this from the settlement to the cancellation: money that
  was not given back stays on a CONFIRMED booking. `VersionsOnce` is needed for
  the purge: a booking that comes back does not repeat a version.
* `ServicesProofs`, `SessionsTheorem`: `Spec => []SessionRules` for any number of
  requests, devices and tokens. `Current`: a request that no sign-out crossed
  stands for the current period. `Single`: a session that nobody contests has one
  valid token and one request that rotates it, and that request holds the token.
* `BookingsProofs`: also `WorkflowTyped`, `HistoryTheorem` (`Spec => HistoryLegal`)
  and `StatusTheorem` (`Spec => []StatusFollows`) for any number of requests.
  `Seen`: a request that nothing crossed still sees the state it read and does not
  write over a freeze. `OnWay`: while nothing was passed by, at most one request is
  on its way from the instance to the airport booking, with the instance's state.
* `RequestsProofs`, `DraftsTheorem`: `Spec => []DraftsKept` for any number of tabs
  and accounts. A save writes the columns that it changed, so the invariant goes
  column by column (`StatusInv`, `OwnerInv`, `LapseInv`), and `Admitted` says what the
  checks of each endpoint let through.
* `BookingsProofs`, `DeskTheorem`: `SharedSpec => []DeskTold` for any number of clerks,
  assignments, revisions and hours. `ChainsRooted`: the rows of one assignment name the
  row it began with. `Taken`: who reassigns, releases or completes a row read it in a
  status its operation takes. `MarksMade`: a mark of lateness is that of a resolution,
  and who resolves saw no mark that is not there. With these the property, which
  counts the open rows of each chain, is inductive.
* `BookingsProofs`, `EnquiriesTheorem`: `EnquiriesSpec => []DesksServe` for any number of
  agents and rows. `TellingGoesOn` and `StatusGoesOn`: what is not told yet has an agent
  who is on the way to tell it, or a mishap with a name. `RosterRead`: passengers that
  were read can only have become more, and when they have not, the count is the one read.

### The conversation and its payment links

`DialogueProofs` proves all safety properties of the focuses `details` and `money` for
any catalogue, any flights and any number of bookings, ledger rows and links. The
invariant is `DialogueInv`:

* `DeskOK`: every ledger row names a link that exists, and every link is of a
  booking that exists and has a price. No operator of `PaymentLinks` breaks it.
* `ChoiceOK`: in the states that show or use them, the unit price is that of the
  airport and the travel type, the summary's total is that price for the
  passengers, and an accepted flight is the one whose route is known. It goes by
  state, because a customer who goes back leaves later choices behind:
  each handler has to forget exactly what its answer makes stale.
* `Tracked`: the draft is the booking that the conversation refers to, unless that
  is a charter; outside the two waiting states no draft is PENDING unless the
  cleanup job took the conversation (`Swept`); and a PENDING booking is the draft.
* `QuoteAwaited`: a request without a price that is still PENDING has its
  conversation wait for the quote. Without it `DeskOK` is not inductive: a
  conversation in another state could ask for the link of an unpriced request.

`SummaryTheorem` (`SummaryHolds`), `InHandTheorem` (`BookingsInHand`) and
`ReservationsTheorem` (the refinement `KeepsReservations`: each message and event
withdraws waiting requests, makes one, pays or confirms a paid one, or does nothing to
them) follow from it and from what each step does.

`DialogueTyped`: `DialogueSpec => []DialogueTypeOK` with its bounds. Those on bookings and
links are guards, but the settlement of a paid link writes its row although `MaxTx` rows
are there. `BoundInv` says that there are never more rows than `MaxTx` and one for each
link that is settled; it is inductive because a settled link stays settled in the ledger
and a settlement adds a row only for a link that was not (`SettleGrown`).

`FormTheorem` (in `ServicesProofs`): `FormSpec => [](FormTypeOK /\ FormComplete)` for any
number of applicants and days. `FormInv` says that every question before the index is
answered with what is accepted together with the other answers. It is inductive
because an answer changes the plan only behind its own question (`GivenPrefix`), for
which the plan is described position by position (`VisaPlan`, `Ticketing`).

### What the customer meets

`CustomerProofs`, for three more components of the run `chat`:

* `FlightTyped`, `FlightTheorem`: `FlightSpec => KnownFlightServed` for any days, legs
  and providers, with all lookups that the run leaves out. `AnswersKept`: whatever is
  kept of an answer in any tier is also in its sector's row, which nothing removes,
  except the chat's rows in the form in which AviationStack listed them.
* `ShopTyped`, `ShopTheorem`: `ShopSpec => []ShopKept` for any rows, edits and pages.
  `FillTrue`: a page on its way into a process's cache lacks every commit since it
  was read. `QuoteTrue`: a quote without an excuse is the price and fee that would be
  charged now. `QueryInv`: a second submission finds the first unless they crossed.
* `GatewayTypeCorrect`, `GatewayTheorem`: `GatewaySpec => []GatewayMoney` for any number
  of checkouts, sessions and returning browsers. `Agreed`: without a slip, whoever
  waits for a gateway and whoever may still be paid agree on one gateway.
  `PaymentsKept`: the rows that hold a payment are one for each session that
  somebody was told was paid. `RowsNamed`: a PAY-DUP row stands beside a settled one.

### What is sent and received once

`DeliveryProofs`, for three components of the run `services`:

* `InboundTyped`, `InboundTheorem`: `InboundOnce` for any number of messages and
  deliveries. `ClaimsStale`: whoever finds a claim stale finds one that nobody works
  under any more, or whose holder is slow or dead and named. `EffectMarked`: an effect
  is marked before it is let go. `RowsCared`: a claimed message has somebody who
  carries it to its end. `LockKept`: a call that works on the conversation has its lock.
* `NotificationsTyped`, `SentOnceTheorem`: `SentOnce` for every kind and any number of
  senders and retries. `OneRow` and `OneSender`: without a fault there is one record,
  one sender at work on it and no message beside the one it is about to send.
* `AlertsTypeCorrect`, `AlertOnceTheorem`: `AlertOnce` for any number of dispatchers,
  processes and recipients. `OneHolder`: without an excuse one dispatcher holds the
  key. `LayersHold`: after a delivery the key or the durable row still stands.

`RequestsProofs`, for two components of the run `requests`:

* `NewsTheorem`: `NewsSpec => []NewsTold` for any number of requests and threads that
  tell of a booking. `RoundGoesOn`: a channel that was not tried yet has a request on its
  round before it, or a slip that the property names.
* `FeedTheorem`: `FeedSpec => []FeedComplete` for any dashboards, processes, threads,
  queue bound and limit of the list. `UnreadKnown`: what is unread and not older than
  the limit reaches was shown or put, or is named as underway or missed; rows that come
  later only move a notice further down (`newer` grows). `QueueNewest`: a queue holds the newest of what was put into it, in order.
  `PutKept`: what was put is on its board, but for the oldest of a full queue while room
  is made. `PushesNamed`: a push goes on to streams that are still connected.
  `RoomMade`: a push that no other crosses finds room.

What a theorem excuses is what its property excuses by name in the tables above,
and the theorem shows that the excuse is complete for any number of requests: no
third one finds another way.

### The compositions

The MC modules compose independent parts by `focus`. For two of them the composition is
proved as well: `ServicesCompose` and `RequestsCompose` say that every behaviour of
`ServicesSpec` and `RequestsSpec` is one of each part's own specification, because a
step moves one part and the others rest. So the parts' theorems hold in what the
runs `services` and `requests` execute, and `ServicesTyped`, `RequestsTyped`,
`DesksKeptTheorem` and `NewsKeptTheorem` state this of the runs' own invariants
(with `SessionsTyped` and `BookingsTyped`, which show that a request of a session names
a token that exists and that a booking's version keeps to its bound).

For `MCChat` it is not quite so: to keep the focus `money` small it starts
conversations at reviews that `details` reaches (`ReachReview`), which is no step of
`DialogueSpec`. `ChatParts` says that every behaviour of `ChatSpec` is one of `FlightSpec`,
`GatewaySpec` and `ShopSpec`; for the conversation `ReachSpoken` shows that such a review
is a choice of the conversation as good as any (`Spoken`), so that `DialogueInv` and
`BoundInv` hold in `ChatSpec` too (`ChatInvariant`). `ChatTyped` and `ChatKeeps` are what
follows for the run's own type invariant and for its other safety properties: everything
that `chat` checks but `PaidConfirmed`.

### Assumptions and limits

The theorems use these named assumptions, and TLC evaluates each in the runs that
extend its module:

| assumption | says |
|---|---|
| `NameAssumption`, `ViewAssumption` (`Idempotency`) | names of stores, processes and requests differ; the initial view is one of the shared stores |
| `IdAssumption`, `BoundAssumption` (`BookingPayments`) | the id sets are disjoint; bounds are numbers |
| `BookingsAssumption`, `TokenBoundAssumption`, `ForceAssumption` | bounds are numbers; the targets of the desk and of an override are states |
| `FlightAssumption`, `GatewayAssumption`, `AttemptAssumption`, `LinkBoundAssumption` | bounds are numbers, and the values that stand for "none" are no others |
| `ShopAssumption` (`WebShop`) | finitely many price rows, of which one is the first |
| `FeedAssumption` (`AdminFeed`) | a queue and a list hold at least one notice; "none" is no dashboard and no process |
| `SharedAssumption`, `EnquiriesAssumption` | bounds are positive numbers |
| `CallAssumption` (`InboundMessages`) | the holder of a free lock is no call |
| `CatalogueAssumption` (`BookingDialogue`) | the absent airport and flight are none, and the sets of special airports and flights are subsets |
| `FocusAssumption` (`MCChat`) | the airport and the flight of the summaries it starts from are in the catalogue |
| `EnquiryAssumption` (`TravelEnquiry`) | the questions about applicants are a sequence, not empty, and none of the others |

Hypotheses of single theorems: `UnkeyedKinds = {}` (payment rows, except
`NoCrossBookingTheorem` and the type theorems) and Redis among `InitSees` (`OnceTheorem`);
`redis_down` drops the second, and section 3 says what dropping the first does. The theorems about refunds further take

* `VerifyAt \subseteq {"captured"}`: the gateway account captures automatically, and
  the browser calls verify after the capture. `verify_razorpay_payment` does not ask for the
  state of the payment, and would confirm one that was only authorized.
* `VerifyAlone` (`RefundsRealTheorem`, `CaptureOnLedgerTheorem`): verify calls do not run
  beside payment.authorized or payment.failed, which leave their ids in the payload of
  a row that a verify call may settle with another payment. `lost_duplicate` is the
  violation beside authorizations; section 3 describes the one beside failures.
* `OnTime` (`RefundInvariant`, `RefundsRealTheorem`, `CaptureOnLedgerTheorem`): no order
  was stored late, for any booking. The properties excuse only the bookings that
  have a late order themselves; that much is model-checked.
* `"payment.failed" \notin Subscribed` (`RefundsUnconfirmTheorem`): a late failure of
  another attempt on the order finds the row PARTIALLY_REFUNDED and writes FAILED, as
  `handle_payment_failed` spares SUCCESSFUL rows only (`verification_helpers.py:462`);
  the booking stays CONFIRMED.

The instances of `refunds` satisfy all of them.

Only model-checked, and why:

* All liveness: `CaptureConfirms`, `EveryEventAcked`, `FulfilledUnlessCrash`,
  `PaidConfirmed`. Fairness and ENABLED are outside the prover.
* `RefundsReal` and `CaptureOnLedger` after the first late order, for the other bookings.
* Nothing else: every other invariant and every action property of a passing run is
  stated by a theorem.

## 9. Not modelled

The components table of `PROJECT.json` gives each part and its reason. Beyond it:

* Payment core: amount validation, signatures, refunds through ICICI, website
  payment links.
* Flights: telemetry and search, the future window Aviation Edge learns, each
  provider's own copies of its answers, the chat's in-memory list of numbers that
  were not found, the expiry check of the website.
* WhatsApp: the insert race of a customer's first two messages, parsing, media.
* Workflow: definitions other than airport assistance, payload guards, the
  administration of definitions and their versions.
* Notifications: recipients and routing rules, per-user inboxes, `create_notification`
  without a queue.
* Travel enquiries: a crash between the commit of the enquiry and the
  conversation's "submitted" (listed as a hazard).
