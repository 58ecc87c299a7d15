---------------------------- MODULE Idempotency ----------------------------
(***************************************************************************)
(* The idempotency middleware, seen from one Idempotency-Key.  Requests    *)
(* that carry the key arrive at the API processes.  Locks and responses    *)
(* live in three places: Redis, a PostgreSQL table that is asked for the   *)
(* lock only while Redis is away, and the memory of each process.  Which   *)
(* of the shared stores a process reaches is the process's own view        *)
(* (get_redis_client pings and then stays away for 30 s, the PostgreSQL    *)
(* store disables itself for 30 s after an error).                         *)
(*                                                                         *)
(* Every call to a store is synchronous in an async handler, so within a   *)
(* process requests interleave only at the awaits: reading the body and    *)
(* running the endpoint.  Requests of different processes interleave at    *)
(* every store operation.                                                  *)
(***************************************************************************)
EXTENDS Naturals

CONSTANTS
    Request,        \* the requests that carry the key
    Proc,           \* API processes
    Fingerprint,    \* hashes of method, path and body
    InitSees,       \* the shared stores every process reaches at first
    MaxFault,       \* bound: flaps, crashes and overruns
    NoOne           \* no request

Shared == {"redis", "pg"}
Store == Shared \cup Proc       \* a process names its own memory

ASSUME NameAssumption == Shared \cap Proc = {} /\ NoOne \notin Request
ASSUME ViewAssumption == InitSees \subseteq Shared /\ MaxFault \in Nat

VARIABLES
    pc,         \* where each request is
    home,       \* the process that handles it
    print,      \* its fingerprint
    late,       \* ghost: a success had been answered before it arrived
    at,         \* ghost: the store that granted its lock
    answer,     \* what it answers: [code, of], of the request whose response it is
    lock,       \* per store: the request that holds the lock
    resp,       \* per store: the request whose response is cached
    sees,       \* per process: the shared stores it reaches
    effects,    \* requests whose endpoint took effect
    faults,     \* ghost: the kinds of fault that happened
    nfaults     \* how many of them

request == <<pc, home, print, late, at, answer>>
stores == <<lock, resp>>
world == <<sees, faults, nfaults>>
vars == <<pc, home, print, late, at, answer, lock, resp, sees, effects, faults, nfaults>>

\* Between two awaits a request has its process for itself; from "run" on it
\* waits for the endpoint.
Sync == {"acquire", "collide", "recheck", "storeRedis", "storePg", "release"}
Over == {"done", "lost"}
PC == {"new", "run"} \cup Sync \cup Over
Code == {"none", "ok", "error", "replay", "conflict", "busy"}
Fault == Shared \cup {"crash", "overrun"}

NoAnswer == [code |-> "none", of |-> NoOne]

TypeOK ==
    /\ pc \in [Request -> PC]
    /\ home \in [Request -> Proc]
    /\ print \in [Request -> Fingerprint]
    /\ late \in [Request -> BOOLEAN]
    /\ at \in [Request -> Store \cup {NoOne}]
    /\ answer \in [Request -> [code : Code, of : Request \cup {NoOne}]]
    /\ lock \in [Store -> Request \cup {NoOne}]
    /\ resp \in [Store -> Request \cup {NoOne}]
    /\ sees \in [Proc -> SUBSET Shared]
    /\ effects \subseteq Request
    /\ faults \subseteq Fault
    /\ nfaults \in 0 .. MaxFault

Init ==
    /\ pc = [r \in Request |-> "new"]
    /\ home \in [Request -> Proc]
    /\ print \in [Request -> Fingerprint]
    /\ late = [r \in Request |-> FALSE]
    /\ at = [r \in Request |-> NoOne]
    /\ answer = [r \in Request |-> NoAnswer]
    /\ lock = [s \in Store |-> NoOne]
    /\ resp = [s \in Store |-> NoOne]
    /\ sees = [p \in Proc |-> InitSees]
    /\ effects = {}
    /\ faults = {}
    /\ nfaults = 0

-----------------------------------------------------------------------------
(* The stores, as process p sees them.                                     *)

SeesRedis(p) == "redis" \in sees[p]
SeesPg(p) == "pg" \in sees[p]

\* IdempotencyService.get_cached_response: Redis, PostgreSQL, own memory.
Cached(p) ==
    IF SeesRedis(p) /\ resp["redis"] # NoOne THEN resp["redis"]
    ELSE IF SeesPg(p) /\ resp["pg"] # NoOne THEN resp["pg"]
    ELSE resp[p]

\* Faulty: the body is not part of the fingerprint.
NeverConflict(q, r) == FALSE

\* fingerprints_conflict: the cached response belongs to a different request.
Conflict(q, r) == print[q] # print[r]

\* IdempotencyService.acquire_lock: the store that grants the lock, if any.
\* PostgreSQL refuses a key that has a live lock or a response, and then the
\* memory of the process is asked.
Grants(r) ==
    LET p == home[r] IN
    IF SeesRedis(p) THEN {s \in {"redis"} : lock[s] = NoOne}
    ELSE IF SeesPg(p) /\ lock["pg"] = NoOne /\ resp["pg"] = NoOne THEN {"pg"}
    ELSE {s \in {p} : lock[s] = NoOne}

\* Faulty: the lock is deleted whoever owns it.
FreesAny(r) == IF SeesRedis(home[r]) THEN {"redis"} ELSE {home[r]}

\* IdempotencyService.release_lock: the stores whose lock r gives back.  Only
\* the store r reaches now is asked, and it checks the owner token.
Frees(r) ==
    LET p == home[r] IN
    IF SeesRedis(p) THEN {s \in {"redis"} : lock[s] = r}
    ELSE IF SeesPg(p) /\ lock["pg"] = r /\ resp["pg"] = NoOne THEN {"pg"}
    ELSE {s \in {p} : lock[s] = r}

-----------------------------------------------------------------------------
(* IdempotencyMiddleware.dispatch.                                         *)

\* No other request of r's process is between two awaits.
Loop(r) == \A q \in Request \ {r} : home[q] = home[r] => pc[q] \notin Sync

Goto(r, label) == pc' = [pc EXCEPT ![r] = label]
Say(r, code, of) == answer' = [answer EXCEPT ![r] = [code |-> code, of |-> of]]

\* The cached response of q is replayed, or refused with 422.
Reply(r, q) ==
    IF Conflict(q, r) THEN Say(r, "conflict", NoOne) ELSE Say(r, "replay", q)

Answered == {r \in Request : pc[r] = "done" /\ answer[r].code = "ok"}

\* The body is in; the first lookup decides.
Arrive(r) ==
    LET q == Cached(home[r]) IN
    /\ pc[r] = "new" /\ Loop(r)
    /\ late' = [late EXCEPT ![r] = Answered # {}]
    /\ IF q = NoOne THEN Goto(r, "acquire") /\ UNCHANGED answer
                    ELSE Goto(r, "done") /\ Reply(r, q)
    /\ UNCHANGED <<home, print, at, stores, effects, world>>

Acquire(r) ==
    /\ pc[r] = "acquire"
    /\ \/ /\ Grants(r) = {}
          /\ Goto(r, "collide")
          /\ UNCHANGED <<lock, at>>
       \/ \E s \in Grants(r) :
          /\ Goto(r, "recheck")
          /\ lock' = [lock EXCEPT ![s] = r]
          /\ at' = [at EXCEPT ![r] = s]
    /\ UNCHANGED <<home, print, late, answer, resp, effects, world>>

\* Without the lock: the response may have arrived meanwhile, else 409.
Collide(r) ==
    LET q == Cached(home[r]) IN
    /\ pc[r] = "collide"
    /\ Goto(r, "done")
    /\ IF q = NoOne THEN Say(r, "busy", NoOne) ELSE Reply(r, q)
    /\ UNCHANGED <<home, print, late, at, stores, effects, world>>

\* Faulty: the lock alone is enough.
RecheckNothing(r) ==
    /\ pc[r] = "recheck"
    /\ Goto(r, "run")
    /\ UNCHANGED <<home, print, late, at, answer, stores, effects, world>>

\* With the lock: somebody may have finished between lookup and lock.
Recheck(r) ==
    LET q == Cached(home[r]) IN
    /\ pc[r] = "recheck"
    /\ IF q = NoOne THEN Goto(r, "run") /\ UNCHANGED answer
                    ELSE Goto(r, "release") /\ Reply(r, q)
    /\ UNCHANGED <<home, print, late, at, stores, effects, world>>

\* call_next: the endpoint takes effect and answers below 400 ...
Succeed(r) ==
    /\ pc[r] = "run" /\ Loop(r)
    /\ effects' = effects \cup {r}
    /\ Goto(r, "storeRedis")
    /\ Say(r, "ok", r)
    /\ UNCHANGED <<home, print, late, at, stores, world>>

\* ... or it fails, without effect, and nothing is cached.
Fail(r) ==
    /\ pc[r] = "run" /\ Loop(r)
    /\ Goto(r, "release")
    /\ Say(r, "error", NoOne)
    /\ UNCHANGED <<home, print, late, at, stores, effects, world>>

\* Faulty: the fingerprint is stored in the place of the response.
StoreRedisPrint(r) ==
    /\ pc[r] = "storeRedis"
    /\ Goto(r, "storePg")
    /\ resp' = IF SeesRedis(home[r]) THEN [resp EXCEPT !["redis"] = print[r]] ELSE resp
    /\ UNCHANGED <<home, print, late, at, answer, lock, effects, world>>

\* set_cached_response, Redis first ...
StoreRedis(r) ==
    /\ pc[r] = "storeRedis"
    /\ Goto(r, "storePg")
    /\ resp' = IF SeesRedis(home[r]) THEN [resp EXCEPT !["redis"] = r] ELSE resp
    /\ UNCHANGED <<home, print, late, at, answer, lock, effects, world>>

\* Faulty: PostgreSQL only keeps what Redis could not.
StorePgFallback(r) ==
    LET pg == SeesPg(home[r]) /\ ~SeesRedis(home[r]) IN
    /\ pc[r] = "storePg"
    /\ Goto(r, "release")
    /\ resp' = [s \in Store |-> IF s = home[r] \/ (s = "pg" /\ pg) THEN r ELSE resp[s]]
    /\ lock' = [s \in Store |-> IF s = "pg" /\ pg THEN NoOne ELSE lock[s]]
    /\ UNCHANGED <<home, print, late, at, answer, effects, world>>

\* ... then PostgreSQL, which clears its lock, and memory, whether or not Redis
\* took it.
StorePg(r) ==
    LET pg == SeesPg(home[r]) IN
    /\ pc[r] = "storePg"
    /\ Goto(r, "release")
    /\ resp' = [s \in Store |-> IF s = home[r] \/ (s = "pg" /\ pg) THEN r ELSE resp[s]]
    /\ lock' = [s \in Store |-> IF s = "pg" /\ pg THEN NoOne ELSE lock[s]]
    /\ UNCHANGED <<home, print, late, at, answer, effects, world>>

\* finally: release_lock, then the answer leaves.
Release(r) ==
    /\ pc[r] = "release"
    /\ Goto(r, "done")
    /\ lock' = [s \in Store |-> IF s \in Frees(r) THEN NoOne ELSE lock[s]]
    /\ UNCHANGED <<home, print, late, at, answer, resp, effects, world>>

-----------------------------------------------------------------------------
(* What the world does to it.                                              *)

Note(kind) ==
    /\ nfaults < MaxFault
    /\ nfaults' = nfaults + 1
    /\ faults' = faults \cup {kind}

\* A process loses or regains a shared store.
Flap(p, s) ==
    /\ Note(s)
    /\ sees' = [sees EXCEPT ![p] = IF s \in @ THEN @ \ {s} ELSE @ \cup {s}]
    /\ UNCHANGED <<request, stores, effects>>

\* A process restarts: its requests and its memory are gone.
Crash(p) ==
    /\ Note("crash")
    /\ pc' = [r \in Request |-> IF home[r] = p /\ pc[r] \notin {"new"} \cup Over
                                 THEN "lost" ELSE pc[r]]
    /\ lock' = [lock EXCEPT ![p] = NoOne]
    /\ resp' = [resp EXCEPT ![p] = NoOne]
    /\ UNCHANGED <<home, print, late, at, answer, sees, effects>>

\* A lock that was left behind reaches its TTL ...
Expire(s) ==
    /\ lock[s] # NoOne
    /\ pc[lock[s]] \in Over
    /\ lock' = [lock EXCEPT ![s] = NoOne]
    /\ UNCHANGED <<request, resp, effects, world>>

\* ... or the endpoint takes longer than the TTL.
Overrun(s) ==
    /\ lock[s] # NoOne
    /\ pc[lock[s]] = "run"
    /\ Note("overrun")
    /\ lock' = [lock EXCEPT ![s] = NoOne]
    /\ UNCHANGED <<request, resp, sees, effects>>

-----------------------------------------------------------------------------

Step(r) ==
    \/ Arrive(r)
    \/ Acquire(r)
    \/ Collide(r)
    \/ Recheck(r)
    \/ Succeed(r)
    \/ Fail(r)
    \/ StoreRedis(r)
    \/ StorePg(r)
    \/ Release(r)

Environment ==
    \/ \E p \in Proc, s \in Shared : Flap(p, s)
    \/ \E p \in Proc : Crash(p)
    \/ \E s \in Store : Expire(s) \/ Overrun(s)

Next == (\E r \in Request : Step(r)) \/ Environment

Spec == Init /\ [][Next]_vars

-----------------------------------------------------------------------------
(* Safety.                                                                 *)

\* Concurrent and repeated requests of one key take effect once, as long as the
\* endpoint answers within the lock's TTL and the stores stay reachable
\* ("Redis first; Postgres shared store if Redis is down").
AtMostOnce == faults = {} => \A q, r \in effects : q = r

\* A request sent after a success was answered never runs the endpoint again,
\* although Redis comes and goes, processes restart and locks overrun: the
\* response is in PostgreSQL whether or not Redis took it.
RepeatNeverRuns ==
    "pg" \in InitSees \ faults => \A r \in Request : late[r] => r \notin effects

\* A replayed response is that of a request with the same method, path and body,
\* which took effect.
ReplayFaithful ==
    \A r \in Request : answer[r].code = "replay"
        => answer[r].of \in effects /\ print[answer[r].of] = print[r]

\* Nobody takes the lock of a running request away, unless the key has its
\* response by then: releases check the owner, whatever store they reach.
LockKept ==
    \A r \in Request : pc[r] = "run" /\ "overrun" \notin faults
        => lock[at[r]] = r \/ (at[r] = "pg" /\ resp["pg"] # NoOne)

-----------------------------------------------------------------------------
(* The inductive invariants behind the safety properties.                  *)

\* While every process reaches Redis, a request past the lock holds it in Redis,
\* an effect is in Redis as soon as its request has stored it, and nobody runs
\* the endpoint after an effect.
HasLock == {"recheck", "run", "storeRedis", "storePg", "release"}
OnceInv ==
    faults = {} =>
        /\ \A p \in Proc : SeesRedis(p)
        /\ \A r \in Request : pc[r] \in HasLock => lock["redis"] = r
        /\ \A r \in effects : pc[r] = "storeRedis" \/ resp["redis"] # NoOne
        /\ \A r \in Request : pc[r] = "run" => effects = {}
        /\ \A q, r \in effects : q = r

\* While every process reaches PostgreSQL, a response is there before it is
\* answered and stays there.
RepeatInv ==
    /\ \A r \in effects : pc[r] # "new"
    /\ "pg" \in InitSees \ faults =>
        /\ \A p \in Proc : SeesPg(p)
        /\ \A r \in Request : answer[r].code = "ok" /\ pc[r] \in {"release", "done"}
                => resp["pg"] # NoOne
        /\ \A r \in Request : late[r] => pc[r] = "done" /\ r \notin effects

\* Only requests that took effect are cached.
ReplayInv ==
    /\ \A s \in Store : resp[s] \in effects \cup {NoOne}
    /\ \A r \in Request : pc[r] \in {"storeRedis", "storePg"} => r \in effects
    /\ ReplayFaithful

\* A lock is kept from the moment it is granted, by a shared store or by the
\* memory of the request's own process.
LockInv ==
    \A r \in Request : pc[r] \in {"recheck", "run"} =>
        /\ at[r] \in Shared \cup {home[r]}
        /\ "overrun" \notin faults
            => lock[at[r]] = r \/ (at[r] = "pg" /\ resp["pg"] # NoOne)
=============================================================================
