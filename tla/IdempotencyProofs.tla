------------------------- MODULE IdempotencyProofs -------------------------
(***************************************************************************)
(* Theorems about the idempotency middleware, for any number of requests,  *)
(* processes and faults.  One invariant per property; each is preserved    *)
(* action by action.                                                       *)
(***************************************************************************)
EXTENDS Idempotency, TLAPS

\* What a process finds cached is a request or nothing.
LEMMA CachedType ==
    ASSUME TypeOK, NEW p \in Proc
    PROVE  Cached(p) \in Request \cup {NoOne}
  BY DEF TypeOK, Cached, SeesRedis, SeesPg, Store, Shared

\* A lock is granted by stores where it was free.
LEMMA GrantsFree ==
    ASSUME TypeOK, NEW r \in Request, NEW s \in Grants(r)
    PROVE  /\ s \in Store
           /\ s \in Shared \cup {home[r]}
           /\ lock[s] = NoOne
           /\ s = "pg" => resp["pg"] = NoOne
  BY NameAssumption DEF TypeOK, Grants, SeesRedis, SeesPg, Store, Shared

\* A release frees nobody else's lock.
LEMMA FreesOwn ==
    ASSUME TypeOK, NEW r \in Request, NEW s \in Frees(r)
    PROVE  s \in Store /\ lock[s] = r
  BY DEF TypeOK, Frees, SeesRedis, SeesPg, Store, Shared

-----------------------------------------------------------------------------
(* Type correctness.                                                       *)

\* The initial states are type correct.
LEMMA InitType == Init => TypeOK
  BY ViewAssumption DEF Init, TypeOK, PC, Sync, Over, Code, NoAnswer, Fault, Store

\* Every step keeps the types.
LEMMA NextType == TypeOK /\ [Next]_vars => TypeOK'
<1> SUFFICES ASSUME TypeOK, [Next]_vars
             PROVE  TypeOK'
  OBVIOUS
<1> USE DEF TypeOK
<1>1. ASSUME NEW r \in Request, Step(r)
      PROVE  TypeOK'
  <2>0. Cached(home[r]) \in Request \cup {NoOne}
    BY CachedType
  <2>1. CASE Arrive(r)
    <3>1. late' \in [Request -> BOOLEAN]
      BY <2>1 DEF Arrive
    <3>2. pc' \in [Request -> PC]
      BY <2>1 DEF Arrive, Goto, PC, Sync, Over
    <3>3. answer' \in [Request -> [code : Code, of : Request \cup {NoOne}]]
      BY <2>0, <2>1 DEF Arrive, Say, Reply, Code
    <3> QED
      BY <2>1, <3>1, <3>2, <3>3 DEF Arrive, stores, world
  <2>2. CASE Acquire(r)
    <3>1. CASE Grants(r) = {} /\ Goto(r, "collide") /\ UNCHANGED <<lock, at>>
      BY <2>2, <3>1 DEF Acquire, Goto, PC, Sync, world
    <3>2. ASSUME NEW s \in Grants(r), Goto(r, "recheck"), lock' = [lock EXCEPT ![s] = r],
                 at' = [at EXCEPT ![r] = s]
          PROVE  TypeOK'
      <4>1. s \in Store
        BY GrantsFree
      <4> QED
        BY <2>2, <3>2, <4>1 DEF Acquire, Goto, PC, Sync, world
    <3> QED
      BY <2>2, <3>1, <3>2 DEF Acquire
  <2>3. CASE Collide(r)
    <3>1. pc' \in [Request -> PC]
      BY <2>3 DEF Collide, Goto, PC, Sync, Over
    <3>2. answer' \in [Request -> [code : Code, of : Request \cup {NoOne}]]
      BY <2>0, <2>3 DEF Collide, Say, Reply, Code
    <3> QED
      BY <2>3, <3>1, <3>2 DEF Collide, stores, world
  <2>4. CASE Recheck(r)
    <3>1. pc' \in [Request -> PC]
      BY <2>4 DEF Recheck, Goto, PC, Sync, Over
    <3>2. answer' \in [Request -> [code : Code, of : Request \cup {NoOne}]]
      BY <2>0, <2>4 DEF Recheck, Say, Reply, Code
    <3> QED
      BY <2>4, <3>1, <3>2 DEF Recheck, stores, world
  <2>5. CASE Succeed(r)
    <3>1. pc' \in [Request -> PC]
      BY <2>5 DEF Succeed, Goto, PC, Sync
    <3>2. answer' \in [Request -> [code : Code, of : Request \cup {NoOne}]]
      BY <2>5 DEF Succeed, Say, Code
    <3> QED
      BY <2>5, <3>1, <3>2 DEF Succeed, stores, world
  <2>6. CASE Fail(r)
    <3>1. pc' \in [Request -> PC]
      BY <2>6 DEF Fail, Goto, PC, Sync
    <3>2. answer' \in [Request -> [code : Code, of : Request \cup {NoOne}]]
      BY <2>6 DEF Fail, Say, Code
    <3> QED
      BY <2>6, <3>1, <3>2 DEF Fail, stores, world
  <2>7. CASE StoreRedis(r)
    BY <2>7 DEF StoreRedis, Goto, PC, Sync, Store, Shared, world
  <2>8. CASE StorePg(r)
    BY <2>8 DEF StorePg, Goto, PC, Sync, world
  <2>9. CASE Release(r)
    BY <2>9 DEF Release, Goto, PC, Over, world
  <2> QED
    BY <1>1, <2>1, <2>2, <2>3, <2>4, <2>5, <2>6, <2>7, <2>8, <2>9 DEF Step
<1>2. ASSUME NEW p \in Proc, NEW s \in Shared, Flap(p, s)
      PROVE  TypeOK'
  BY <1>2, ViewAssumption DEF Flap, Note, Fault, request, stores
<1>3. ASSUME NEW p \in Proc, Crash(p)
      PROVE  TypeOK'
  BY <1>3, ViewAssumption DEF Crash, Note, Fault, PC, Over, Store
<1>4. ASSUME NEW s \in Store, Expire(s) \/ Overrun(s)
      PROVE  TypeOK'
  BY <1>4, ViewAssumption DEF Expire, Overrun, Note, Fault, request, world
<1>5. CASE UNCHANGED vars
  BY <1>5 DEF vars
<1> QED
  BY <1>1, <1>2, <1>3, <1>4, <1>5 DEF Next, Environment

\* The type invariant of the runs.
THEOREM StoresTyped == Spec => []TypeOK
  BY InitType, NextType, PTL DEF Spec

-----------------------------------------------------------------------------
(* At most one effect while Redis is there.                                *)

\* The parts of OnceInv that hold while nothing has failed.
LEMMA OnceFacts ==
    ASSUME OnceInv, faults = {}
    PROVE  /\ \A p \in Proc : SeesRedis(p)
           /\ \A r \in Request : pc[r] \in HasLock => lock["redis"] = r
           /\ \A r \in effects : pc[r] = "storeRedis" \/ resp["redis"] # NoOne
           /\ \A r \in Request : pc[r] = "run" => effects = {}
           /\ \A q, r \in effects : q = r
  BY DEF OnceInv

\* No step of a request breaks the invariant: the request that runs holds the
\* lock in Redis, and found no response under it.
LEMMA OnceRequest ==
    ASSUME TypeOK, OnceInv, NEW r \in Request, Step(r)
    PROVE  OnceInv'
<1>0. UNCHANGED world
  BY DEF Step, Arrive, Acquire, Collide, Recheck, Succeed, Fail, StoreRedis, StorePg, Release
<1> SUFFICES ASSUME faults = {}, faults' = {}
             PROVE  OnceInv'
  BY <1>0 DEF OnceInv, world
<1>f. /\ \A p \in Proc : SeesRedis(p)
      /\ \A q \in Request : pc[q] \in HasLock => lock["redis"] = q
      /\ \A q \in effects : pc[q] = "storeRedis" \/ resp["redis"] # NoOne
      /\ \A q \in Request : pc[q] = "run" => effects = {}
      /\ \A p, q \in effects : p = q
  BY OnceFacts
<1>t. /\ pc \in [Request -> PC] /\ home[r] \in Proc /\ effects \subseteq Request
      /\ lock \in [Store -> Request \cup {NoOne}]
      /\ resp \in [Store -> Request \cup {NoOne}]
  BY DEF TypeOK
<1>n. /\ "redis" \in Store /\ "pg" \in Store /\ home[r] \in Store
      /\ "redis" # home[r] /\ NoOne \notin Request
  BY <1>t, NameAssumption DEF Store, Shared
<1>s. \A p \in Proc : SeesRedis(p)'
  BY <1>0, <1>f DEF SeesRedis, world
<1>1. CASE Arrive(r)
  <2>1. UNCHANGED <<lock, resp, effects>>
    BY <1>1 DEF Arrive, stores
  <2>2. \A q \in Request : pc'[q] = pc[q] \/ (q = r /\ pc[r] = "new" /\ pc'[q] \in {"acquire", "done"})
    BY <1>1, <1>t DEF Arrive, Goto
  <2> QED
    BY <1>f, <1>t, <1>s, <2>1, <2>2 DEF OnceInv, HasLock
<1>2. CASE Acquire(r)
  <2>1. UNCHANGED <<resp, effects>> /\ pc[r] = "acquire"
    BY <1>2 DEF Acquire
  <2>2. CASE pc' = [pc EXCEPT ![r] = "collide"] /\ lock' = lock
    BY <1>f, <1>t, <1>s, <2>1, <2>2 DEF OnceInv, HasLock
  <2>3. ASSUME NEW s \in Grants(r), pc' = [pc EXCEPT ![r] = "recheck"],
               lock' = [lock EXCEPT ![s] = r]
        PROVE  OnceInv'
    <3>1. s = "redis" /\ lock["redis"] = NoOne
      BY <1>f, <1>t DEF Grants
    <3>2. lock'["redis"] = r
      BY <1>n, <1>t, <2>3, <3>1
    <3>3. \A q \in Request : pc[q] \notin HasLock
      BY <1>f, <1>n, <3>1
    <3>4. \A q \in Request : pc'[q] \in HasLock => q = r
      BY <1>t, <2>3, <3>3
    <3>5. \A q \in Request : pc'[q] # "run"
      BY <1>t, <2>3, <3>3 DEF HasLock
    <3>6. \A q \in effects : pc'[q] = "storeRedis" \/ resp["redis"] # NoOne
      BY <1>f, <1>t, <2>1, <2>3
    <3> QED
      BY <1>f, <1>s, <2>1, <3>2, <3>4, <3>5, <3>6 DEF OnceInv
  <2> QED
    BY <1>2, <2>2, <2>3 DEF Acquire, Goto
<1>3. CASE Collide(r)
  <2>1. /\ UNCHANGED <<lock, resp, effects>> /\ pc[r] = "collide"
        /\ pc' = [pc EXCEPT ![r] = "done"]
    BY <1>3 DEF Collide, Goto, stores
  <2> QED
    BY <1>f, <1>t, <1>s, <2>1 DEF OnceInv, HasLock
<1>4. CASE Recheck(r)
  <2>1. UNCHANGED <<lock, resp, effects>> /\ pc[r] = "recheck"
    BY <1>4 DEF Recheck, stores
  <2>2. CASE Cached(home[r]) = NoOne /\ pc' = [pc EXCEPT ![r] = "run"]
    <3>1. resp["redis"] = NoOne
      BY <1>f, <1>t, <2>2 DEF Cached
    <3>2. lock["redis"] = r
      BY <1>f, <2>1 DEF HasLock
    <3>3. effects = {}
      <4> SUFFICES ASSUME NEW e \in effects
                   PROVE  FALSE
        OBVIOUS
      <4>1. pc[e] = "storeRedis" /\ e \in Request
        BY <1>f, <1>t, <3>1
      <4>2. lock["redis"] = e
        BY <1>f, <4>1 DEF HasLock
      <4> QED
        BY <2>1, <3>2, <4>1, <4>2
    <3> QED
      BY <1>f, <1>t, <1>s, <2>1, <2>2, <3>3 DEF OnceInv, HasLock
  <2>3. CASE pc' = [pc EXCEPT ![r] = "release"]
    BY <1>f, <1>t, <1>s, <2>1, <2>3 DEF OnceInv, HasLock
  <2> QED
    BY <1>4, <2>2, <2>3 DEF Recheck, Goto
<1>5. CASE Succeed(r)
  <2>1. /\ UNCHANGED <<lock, resp>> /\ pc[r] = "run"
        /\ pc' = [pc EXCEPT ![r] = "storeRedis"] /\ effects' = effects \cup {r}
    BY <1>5 DEF Succeed, Goto, stores
  <2>2. effects' = {r} /\ pc'[r] = "storeRedis"
    BY <1>f, <1>t, <2>1
  <2>3. lock["redis"] = r
    BY <1>f, <2>1 DEF HasLock
  <2>4. \A q \in Request : pc'[q] \in HasLock => lock["redis"] = q
    BY <1>f, <1>t, <2>1, <2>3
  <2>5. \A q \in Request : pc'[q] # "run"
    BY <1>f, <1>t, <2>1, <2>3 DEF HasLock
  <2> QED
    BY <1>s, <2>1, <2>2, <2>4, <2>5 DEF OnceInv
<1>6. CASE Fail(r)
  <2>1. /\ UNCHANGED <<lock, resp, effects>> /\ pc[r] = "run"
        /\ pc' = [pc EXCEPT ![r] = "release"]
    BY <1>6 DEF Fail, Goto, stores
  <2> QED
    BY <1>f, <1>t, <1>s, <2>1 DEF OnceInv, HasLock
<1>7. CASE StoreRedis(r)
  <2>1. /\ UNCHANGED <<lock, effects>> /\ pc[r] = "storeRedis"
        /\ pc' = [pc EXCEPT ![r] = "storePg"]
    BY <1>7 DEF StoreRedis, Goto
  <2>2. resp'["redis"] = r
    BY <1>7, <1>f, <1>t, <1>n DEF StoreRedis
  <2> QED
    BY <1>f, <1>t, <1>n, <1>s, <2>1, <2>2 DEF OnceInv, HasLock
<1>8. CASE StorePg(r)
  <2>1. /\ UNCHANGED effects /\ pc[r] = "storePg"
        /\ pc' = [pc EXCEPT ![r] = "release"]
    BY <1>8 DEF StorePg, Goto
  <2>2. resp'["redis"] = resp["redis"] /\ lock'["redis"] = lock["redis"]
    BY <1>8, <1>n DEF StorePg
  <2> QED
    BY <1>f, <1>t, <1>s, <2>1, <2>2 DEF OnceInv, HasLock
<1>9. CASE Release(r)
  <2>1. /\ UNCHANGED <<resp, effects>> /\ pc[r] = "release"
        /\ pc' = [pc EXCEPT ![r] = "done"]
    BY <1>9 DEF Release, Goto
  <2>2. lock'["redis"] = lock["redis"] \/ lock["redis"] = r
    BY <1>9, <1>n, FreesOwn DEF Release
  <2>3. \A q \in Request : pc'[q] \in HasLock => q # r /\ pc'[q] = pc[q]
    BY <1>t, <2>1 DEF HasLock
  <2>4. \A q \in Request : pc'[q] \in HasLock => lock'["redis"] = q
    BY <1>f, <2>2, <2>3
  <2>5. \A q \in Request : pc'[q] = "run" => effects = {}
    BY <1>f, <1>t, <2>1
  <2>6. \A q \in effects : pc'[q] = "storeRedis" \/ resp["redis"] # NoOne
    BY <1>f, <1>t, <2>1
  <2> QED
    BY <1>f, <1>s, <2>1, <2>4, <2>5, <2>6 DEF OnceInv
<1> QED
  BY <1>1, <1>2, <1>3, <1>4, <1>5, <1>6, <1>7, <1>8, <1>9 DEF Step

\* Every fault is on record from then on.
LEMMA FaultNoted ==
    ASSUME TypeOK, NEW kind, Note(kind)
    PROVE  kind \in faults' /\ faults \subseteq faults'
  BY DEF Note

\* The environment leaves the invariant alone: a lock expires only when its
\* owner is over, and whatever else happens is on record.
LEMMA OnceEnvironment ==
    ASSUME TypeOK, OnceInv, Environment
    PROVE  OnceInv'
<1>1. ASSUME NEW p \in Proc, NEW s \in Shared, Flap(p, s)
      PROVE  OnceInv'
  BY <1>1, FaultNoted DEF Flap, OnceInv
<1>2. ASSUME NEW p \in Proc, Crash(p)
      PROVE  OnceInv'
  BY <1>2, FaultNoted DEF Crash, OnceInv
<1>3. ASSUME NEW s \in Store, Overrun(s)
      PROVE  OnceInv'
  BY <1>3, FaultNoted DEF Overrun, OnceInv
<1>4. ASSUME NEW s \in Store, Expire(s)
      PROVE  OnceInv'
  <2> SUFFICES ASSUME faults = {}
               PROVE  OnceInv'
    BY <1>4 DEF Expire, OnceInv, world
  <2>1. UNCHANGED <<pc, resp, sees, effects>>
    BY <1>4 DEF Expire, request, world
  <2>2. \A r \in Request : pc[r] \in HasLock => lock'["redis"] = r
    <3> SUFFICES ASSUME NEW r \in Request, pc[r] \in HasLock
                 PROVE  lock'["redis"] = r
      OBVIOUS
    <3>1. lock["redis"] = r
      BY OnceFacts
    <3>2. s # "redis"
      BY <1>4, <3>1 DEF Expire, Over, HasLock
    <3> QED
      BY <1>4, <3>1, <3>2 DEF Expire, TypeOK, Store, Shared
  <2>3. \A p \in Proc : SeesRedis(p)'
    BY <2>1, OnceFacts DEF SeesRedis
  <2> QED
    BY <2>1, <2>2, <2>3, OnceFacts DEF OnceInv
<1> QED
  BY <1>1, <1>2, <1>3, <1>4 DEF Environment

\* While Redis can be reached, nothing restarts and no endpoint outlives its
\* lock, one key takes effect once, however many requests carry it, on however
\* many processes.
THEOREM OnceTheorem ==
    ASSUME "redis" \in InitSees
    PROVE  Spec => []AtMostOnce
<1>1. Init => OnceInv
  BY DEF Init, OnceInv, SeesRedis, HasLock
<1>2. TypeOK /\ OnceInv /\ [Next]_vars => OnceInv'
  <2> SUFFICES ASSUME TypeOK, OnceInv, [Next]_vars
               PROVE  OnceInv'
    OBVIOUS
  <2>1. CASE UNCHANGED vars
    BY <2>1 DEF vars, OnceInv, SeesRedis
  <2> QED
    BY <2>1, OnceRequest, OnceEnvironment DEF Next
<1>3. OnceInv => AtMostOnce
  BY DEF OnceInv, AtMostOnce
<1> QED
  BY <1>1, <1>2, <1>3, StoresTyped, PTL DEF Spec

-----------------------------------------------------------------------------
(* No second run after an answer.                                          *)

\* What the middleware does once PostgreSQL has the response.
LEMMA PgFound ==
    ASSUME NEW p \in Proc, SeesPg(p), resp["pg"] # NoOne
    PROVE  Cached(p) # NoOne
  BY DEF Cached

\* No step of a request breaks the invariant: a success is in PostgreSQL before
\* it is answered, and nothing deletes it there.
LEMMA RepeatRequest ==
    ASSUME TypeOK, RepeatInv, NEW r \in Request, Step(r)
    PROVE  RepeatInv'
<1>0. UNCHANGED world
  BY DEF Step, Arrive, Acquire, Collide, Recheck, Succeed, Fail, StoreRedis, StorePg, Release
<1>t. /\ pc \in [Request -> PC] /\ home[r] \in Proc /\ effects \subseteq Request
      /\ late \in [Request -> BOOLEAN]
      /\ answer \in [Request -> [code : Code, of : Request \cup {NoOne}]]
  BY DEF TypeOK
<1>e. \A q \in effects' : pc'[q] # "new"
  <2>1. effects' = effects \/ (effects' = effects \cup {r} /\ pc' = [pc EXCEPT ![r] = "storeRedis"])
    BY DEF Step, Arrive, Acquire, Collide, Recheck, Succeed, Fail, StoreRedis, StorePg,
           Release, Goto
  <2>2. \A q \in Request : pc[q] # "new" => pc'[q] # "new"
    BY <1>t DEF Step, Arrive, Acquire, Collide, Recheck, Succeed, Fail, StoreRedis, StorePg,
           Release, Goto
  <2> QED
    BY <1>t, <2>1, <2>2 DEF RepeatInv
<1> SUFFICES ASSUME "pg" \in InitSees \ faults
             PROVE  /\ \A q \in Request : answer'[q].code = "ok" /\ pc'[q] \in {"release", "done"}
                            => resp'["pg"] # NoOne
                    /\ \A q \in Request : late'[q] => pc'[q] = "done" /\ q \notin effects'
  BY <1>0, <1>e DEF RepeatInv, SeesPg, world
<1>f. /\ \A p \in Proc : SeesPg(p)
      /\ \A q \in Request : answer[q].code = "ok" /\ pc[q] \in {"release", "done"}
              => resp["pg"] # NoOne
      /\ \A q \in Request : late[q] => pc[q] = "done" /\ q \notin effects
      /\ \A q \in effects : pc[q] # "new"
  BY DEF RepeatInv
<1>n. "pg" \in Store /\ NoOne \notin Request /\ home[r] # "pg"
  BY <1>t, NameAssumption DEF Store, Shared
<1>r. ASSUME NEW q, Reply(r, q)
      PROVE  /\ \A i \in Request : i # r => answer'[i] = answer[i]
             /\ answer'[r].code # "ok"
  BY <1>t, <1>r DEF Reply, Say
<1>1. CASE Arrive(r)
  <2>1. /\ UNCHANGED <<resp, effects>> /\ pc[r] = "new"
        /\ late' = [late EXCEPT ![r] = Answered # {}]
    BY <1>1 DEF Arrive, stores
  <2>2. CASE Cached(home[r]) = NoOne /\ pc' = [pc EXCEPT ![r] = "acquire"] /\ answer' = answer
    <3>1. resp["pg"] = NoOne
      BY <1>f, <1>t, <2>2, PgFound
    <3>2. Answered = {}
      BY <1>f, <3>1 DEF Answered
    <3> QED
      BY <1>f, <1>t, <2>1, <2>2, <3>2
  <2>3. CASE pc' = [pc EXCEPT ![r] = "done"] /\ Reply(r, Cached(home[r]))
    <3>1. /\ \A i \in Request : i # r => answer'[i] = answer[i]
          /\ answer'[r].code # "ok"
      BY <1>r, <2>3
    <3>2. r \notin effects
      BY <1>f, <2>1
    <3> QED
      BY <1>f, <1>t, <2>1, <2>3, <3>1, <3>2
  <2> QED
    BY <1>1, <2>2, <2>3 DEF Arrive, Goto
<1>2. CASE Acquire(r)
  <2>1. /\ UNCHANGED <<resp, effects, late, answer>> /\ pc[r] = "acquire"
        /\ \E l \in {"collide", "recheck"} : pc' = [pc EXCEPT ![r] = l]
    BY <1>2 DEF Acquire, Goto
  <2> QED
    BY <1>f, <1>t, <2>1
<1>3. CASE Collide(r)
  <2>1. /\ UNCHANGED <<resp, effects, late>> /\ pc[r] = "collide"
        /\ pc' = [pc EXCEPT ![r] = "done"]
    BY <1>3 DEF Collide, Goto, stores
  <2>2. /\ \A i \in Request : i # r => answer'[i] = answer[i]
        /\ answer'[r].code # "ok"
    BY <1>3, <1>r, <1>t DEF Collide, Say
  <2> QED
    BY <1>f, <1>t, <2>1, <2>2
<1>4. CASE Recheck(r)
  <2>1. UNCHANGED <<resp, effects, late>> /\ pc[r] = "recheck"
    BY <1>4 DEF Recheck, stores
  <2>2. CASE pc' = [pc EXCEPT ![r] = "run"] /\ answer' = answer
    BY <1>f, <1>t, <2>1, <2>2
  <2>3. CASE pc' = [pc EXCEPT ![r] = "release"] /\ Reply(r, Cached(home[r]))
    <3>1. /\ \A i \in Request : i # r => answer'[i] = answer[i]
          /\ answer'[r].code # "ok"
      BY <1>r, <2>3
    <3> QED
      BY <1>f, <1>t, <2>1, <2>3, <3>1
  <2> QED
    BY <1>4, <2>2, <2>3 DEF Recheck, Goto
<1>5. CASE Succeed(r)
  <2>1. /\ UNCHANGED <<resp, late>> /\ pc[r] = "run"
        /\ pc' = [pc EXCEPT ![r] = "storeRedis"] /\ effects' = effects \cup {r}
        /\ answer' = [answer EXCEPT ![r] = [code |-> "ok", of |-> r]]
    BY <1>5 DEF Succeed, Goto, Say, stores
  <2> QED
    BY <1>f, <1>t, <2>1
<1>6. CASE Fail(r)
  <2>1. /\ UNCHANGED <<resp, late, effects>> /\ pc[r] = "run"
        /\ pc' = [pc EXCEPT ![r] = "release"]
        /\ answer' = [answer EXCEPT ![r] = [code |-> "error", of |-> NoOne]]
    BY <1>6 DEF Fail, Goto, Say, stores
  <2> QED
    BY <1>f, <1>t, <2>1
<1>7. CASE StoreRedis(r)
  <2>1. /\ UNCHANGED <<late, effects, answer>> /\ pc[r] = "storeRedis"
        /\ pc' = [pc EXCEPT ![r] = "storePg"]
    BY <1>7 DEF StoreRedis, Goto
  <2>2. resp'["pg"] = resp["pg"]
    BY <1>7, <1>n DEF StoreRedis, TypeOK
  <2> QED
    BY <1>f, <1>t, <2>1, <2>2
<1>8. CASE StorePg(r)
  <2>1. /\ UNCHANGED <<late, effects, answer>> /\ pc[r] = "storePg"
        /\ pc' = [pc EXCEPT ![r] = "release"]
    BY <1>8 DEF StorePg, Goto
  <2>2. resp'["pg"] = r
    BY <1>8, <1>f, <1>n, <1>t DEF StorePg
  <2> QED
    BY <1>f, <1>t, <1>n, <2>1, <2>2
<1>9. CASE Release(r)
  <2>1. /\ UNCHANGED <<late, effects, answer, resp>> /\ pc[r] = "release"
        /\ pc' = [pc EXCEPT ![r] = "done"]
    BY <1>9 DEF Release, Goto
  <2> QED
    BY <1>f, <1>t, <2>1
<1> QED
  BY <1>1, <1>2, <1>3, <1>4, <1>5, <1>6, <1>7, <1>8, <1>9 DEF Step

\* Restarts, expired locks and an absent Redis leave PostgreSQL's response.
LEMMA RepeatEnvironment ==
    ASSUME TypeOK, RepeatInv, Environment
    PROVE  RepeatInv'
<1>1. ASSUME NEW p \in Proc, NEW s \in Shared, Flap(p, s)
      PROVE  RepeatInv'
  <2>1. UNCHANGED <<pc, late, answer, resp, effects>>
    BY <1>1 DEF Flap, request, stores
  <2>2. s \in faults' /\ faults \subseteq faults'
    BY <1>1, FaultNoted DEF Flap
  <2>3. CASE s = "pg"
    BY <2>1, <2>2, <2>3 DEF RepeatInv
  <2>4. CASE s # "pg"
    <3>1. \A q \in Proc : SeesPg(q) => SeesPg(q)'
      BY <1>1, <2>4 DEF Flap, SeesPg, TypeOK
    <3> QED
      BY <2>1, <2>2, <3>1 DEF RepeatInv
  <2> QED
    BY <2>3, <2>4
<1>2. ASSUME NEW p \in Proc, Crash(p)
      PROVE  RepeatInv'
  <2>1. UNCHANGED <<late, answer, effects, sees>> /\ faults \subseteq faults'
    BY <1>2, FaultNoted DEF Crash
  <2>2. \A q \in Request : pc'[q] = pc[q] \/ (pc[q] # "done" /\ pc'[q] = "lost")
    BY <1>2 DEF Crash, Over
  <2>3. resp'["pg"] = resp["pg"]
    BY <1>2, NameAssumption DEF Crash, TypeOK, Store, Shared
  <2>4. \A q \in effects : pc'[q] # "new"
    BY <2>2 DEF RepeatInv, TypeOK
  <2> QED
    BY <2>1, <2>2, <2>3, <2>4 DEF RepeatInv, SeesPg
<1>3. ASSUME NEW s \in Store, Expire(s) \/ Overrun(s)
      PROVE  RepeatInv'
  <2>1. UNCHANGED <<pc, late, answer, effects, sees, resp>> /\ faults \subseteq faults'
    BY <1>3 DEF Expire, Overrun, Note, request, world
  <2> QED
    BY <2>1 DEF RepeatInv, SeesPg
<1> QED
  BY <1>1, <1>2, <1>3 DEF Environment

\* A request sent after a success was answered never runs the endpoint again
\* while PostgreSQL can be reached, whatever Redis, the processes and the locks
\* do meanwhile.
THEOREM RepeatTheorem == Spec => []RepeatNeverRuns
<1>1. Init => RepeatInv
  BY DEF Init, RepeatInv, SeesPg, NoAnswer
<1>2. TypeOK /\ RepeatInv /\ [Next]_vars => RepeatInv'
  <2> SUFFICES ASSUME TypeOK, RepeatInv, [Next]_vars
               PROVE  RepeatInv'
    OBVIOUS
  <2>1. CASE UNCHANGED vars
    BY <2>1 DEF vars, RepeatInv, SeesPg
  <2> QED
    BY <2>1, RepeatRequest, RepeatEnvironment DEF Next
<1>3. RepeatInv => RepeatNeverRuns
  BY DEF RepeatInv, RepeatNeverRuns
<1> QED
  BY <1>1, <1>2, <1>3, StoresTyped, PTL DEF Spec

-----------------------------------------------------------------------------
(* Replays are faithful.                                                   *)

\* A cached response that is replayed has the fingerprint of the request and
\* comes from one that took effect.
LEMMA ReplyFaithful ==
    ASSUME TypeOK, ReplayInv, NEW r \in Request, NEW q \in effects, Reply(r, q),
           UNCHANGED <<print, effects>>
    PROVE  ReplayFaithful'
<1>1. CASE print[q] # print[r] /\ answer' = [answer EXCEPT ![r] = [code |-> "conflict", of |-> NoOne]]
  BY <1>1 DEF TypeOK, ReplayInv, ReplayFaithful
<1>2. CASE print[q] = print[r] /\ answer' = [answer EXCEPT ![r] = [code |-> "replay", of |-> q]]
  BY <1>2 DEF TypeOK, ReplayInv, ReplayFaithful
<1> QED
  BY <1>1, <1>2 DEF Reply, Conflict, Say

\* No step of a request breaks the invariant: only the response of a request
\* that took effect is ever stored.
LEMMA ReplayRequest ==
    ASSUME TypeOK, ReplayInv, NEW r \in Request, Step(r)
    PROVE  ReplayInv'
<1>t. /\ pc \in [Request -> PC] /\ home[r] \in Proc /\ effects \subseteq Request
      /\ answer \in [Request -> [code : Code, of : Request \cup {NoOne}]]
      /\ resp \in [Store -> Request \cup {NoOne}]
  BY DEF TypeOK
<1>f. /\ \A s \in Store : resp[s] \in effects \cup {NoOne}
      /\ \A q \in Request : pc[q] \in {"storeRedis", "storePg"} => q \in effects
      /\ ReplayFaithful
  BY DEF ReplayInv
<1>p. UNCHANGED print
  BY DEF Step, Arrive, Acquire, Collide, Recheck, Succeed, Fail, StoreRedis, StorePg, Release
<1>c. Cached(home[r]) \in effects \cup {NoOne}
  BY <1>f, <1>t DEF Cached, Store, Shared
<1>1. CASE Arrive(r) \/ Collide(r) \/ Recheck(r)
  <2>1. /\ UNCHANGED <<resp, effects>>
        /\ \E l \in {"acquire", "done", "run", "release"} : pc' = [pc EXCEPT ![r] = l]
    BY <1>1 DEF Arrive, Collide, Recheck, Goto, stores
  <2>2. \A q \in Request : pc'[q] \in {"storeRedis", "storePg"} => q \in effects
    BY <1>f, <1>t, <2>1
  <2>3. CASE UNCHANGED answer
    BY <1>f, <1>p, <2>1, <2>2, <2>3 DEF ReplayInv, ReplayFaithful
  <2>4. CASE answer' = [answer EXCEPT ![r] = [code |-> "busy", of |-> NoOne]]
    <3>1. ReplayFaithful'
      BY <1>f, <1>p, <1>t, <2>1, <2>4 DEF ReplayFaithful
    <3> QED
      BY <1>f, <2>1, <2>2, <3>1 DEF ReplayInv
  <2>5. CASE Cached(home[r]) # NoOne /\ Reply(r, Cached(home[r]))
    <3>1. ReplayFaithful'
      BY <1>c, <1>p, <2>1, <2>5, ReplyFaithful
    <3> QED
      BY <1>f, <2>1, <2>2, <3>1 DEF ReplayInv
  <2> QED
    BY <1>1, <2>3, <2>4, <2>5 DEF Arrive, Collide, Recheck, Say
<1>2. CASE Acquire(r) \/ Release(r)
  <2>1. /\ UNCHANGED <<resp, effects, answer>>
        /\ \E l \in {"collide", "recheck", "done"} : pc' = [pc EXCEPT ![r] = l]
    BY <1>2 DEF Acquire, Release, Goto
  <2> QED
    BY <1>f, <1>p, <1>t, <2>1 DEF ReplayInv, ReplayFaithful
<1>3. CASE Succeed(r)
  <2>1. /\ UNCHANGED resp /\ effects' = effects \cup {r}
        /\ pc' = [pc EXCEPT ![r] = "storeRedis"]
        /\ answer' = [answer EXCEPT ![r] = [code |-> "ok", of |-> r]]
    BY <1>3 DEF Succeed, Goto, Say, stores
  <2>2. ReplayFaithful'
    BY <1>f, <1>p, <1>t, <2>1 DEF ReplayFaithful
  <2> QED
    BY <1>f, <1>t, <2>1, <2>2 DEF ReplayInv
<1>4. CASE Fail(r)
  <2>1. /\ UNCHANGED <<resp, effects>> /\ pc' = [pc EXCEPT ![r] = "release"]
        /\ answer' = [answer EXCEPT ![r] = [code |-> "error", of |-> NoOne]]
    BY <1>4 DEF Fail, Goto, Say, stores
  <2>2. ReplayFaithful'
    BY <1>f, <1>p, <1>t, <2>1 DEF ReplayFaithful
  <2> QED
    BY <1>f, <1>t, <2>1, <2>2 DEF ReplayInv
<1>5. CASE StoreRedis(r) \/ StorePg(r)
  <2>1. /\ UNCHANGED <<effects, answer>> /\ pc[r] \in {"storeRedis", "storePg"}
        /\ \E l \in {"storePg", "release"} : pc' = [pc EXCEPT ![r] = l]
    BY <1>5 DEF StoreRedis, StorePg, Goto
  <2>2. \A s \in Store : resp'[s] \in {resp[s], r}
    BY <1>5, <1>t DEF StoreRedis, StorePg
  <2>3. r \in effects
    BY <1>f, <2>1
  <2> QED
    BY <1>f, <1>p, <1>t, <2>1, <2>2, <2>3 DEF ReplayInv, ReplayFaithful
<1> QED
  BY <1>1, <1>2, <1>3, <1>4, <1>5 DEF Step

\* The environment only takes responses away.
LEMMA ReplayEnvironment ==
    ASSUME TypeOK, ReplayInv, Environment
    PROVE  ReplayInv'
<1>1. UNCHANGED <<print, effects, answer>>
  BY DEF Environment, Flap, Crash, Expire, Overrun, request
<1>2. \A s \in Store : resp'[s] \in {resp[s], NoOne}
  BY DEF Environment, Flap, Crash, Expire, Overrun, stores, TypeOK
<1>3. \A r \in Request : pc'[r] \in {pc[r], "lost"}
  BY DEF Environment, Flap, Crash, Expire, Overrun, request, TypeOK
<1> QED
  BY <1>1, <1>2, <1>3 DEF ReplayInv, ReplayFaithful

\* A replay answers the same request, and one that took effect, whatever fails.
THEOREM ReplayTheorem == Spec => []ReplayFaithful
<1>1. Init => ReplayInv
  BY DEF Init, ReplayInv, ReplayFaithful, NoAnswer
<1>2. TypeOK /\ ReplayInv /\ [Next]_vars => ReplayInv'
  <2> SUFFICES ASSUME TypeOK, ReplayInv, [Next]_vars
               PROVE  ReplayInv'
    OBVIOUS
  <2>1. CASE UNCHANGED vars
    BY <2>1 DEF vars, ReplayInv, ReplayFaithful
  <2> QED
    BY <2>1, ReplayRequest, ReplayEnvironment DEF Next
<1>3. ReplayInv => ReplayFaithful
  BY DEF ReplayInv
<1> QED
  BY <1>1, <1>2, <1>3, StoresTyped, PTL DEF Spec

-----------------------------------------------------------------------------
(* Locks are kept.                                                         *)

\* No step of a request takes another one's lock away.
LEMMA LockRequest ==
    ASSUME TypeOK, LockInv, NEW r \in Request, Step(r)
    PROVE  LockInv'
<1>t. /\ pc \in [Request -> PC] /\ home \in [Request -> Proc]
      /\ at \in [Request -> Store \cup {NoOne}]
      /\ lock \in [Store -> Request \cup {NoOne}]
      /\ resp \in [Store -> Request \cup {NoOne}]
  BY DEF TypeOK
<1>n. /\ "pg" \in Store /\ NoOne \notin Request /\ home[r] \in Proc
      /\ \A q \in Request : Shared \cup {home[q]} \subseteq Store
      /\ "pg" # home[r]
  BY <1>t, NameAssumption DEF Store, Shared
<1>u. UNCHANGED <<home, faults>>
  BY DEF Step, Arrive, Acquire, Collide, Recheck, Succeed, Fail, StoreRedis, StorePg,
         Release, world
<1> SUFFICES ASSUME NEW q \in Request, pc'[q] \in {"recheck", "run"}
             PROVE  /\ at'[q] \in Shared \cup {home[q]}
                    /\ "overrun" \notin faults
                        => lock'[at'[q]] = q \/ (at'[q] = "pg" /\ resp'["pg"] # NoOne)
  BY <1>u DEF LockInv
<1>1. CASE Arrive(r) \/ Collide(r) \/ Recheck(r) \/ Succeed(r) \/ Fail(r)
  <2>1. /\ UNCHANGED <<at, lock, resp>>
        /\ pc'[q] = pc[q] \/ (pc[q] = "recheck" /\ pc'[q] = "run")
    BY <1>1, <1>t DEF Arrive, Collide, Recheck, Succeed, Fail, Goto, stores
  <2> QED
    BY <2>1 DEF LockInv
<1>2. CASE Acquire(r)
  <2>1. CASE pc' = [pc EXCEPT ![r] = "collide"] /\ UNCHANGED <<lock, at, resp>>
    BY <1>t, <2>1 DEF LockInv
  <2>2. ASSUME NEW s \in Grants(r), pc' = [pc EXCEPT ![r] = "recheck"],
               lock' = [lock EXCEPT ![s] = r], at' = [at EXCEPT ![r] = s], resp' = resp
        PROVE  /\ at'[q] \in Shared \cup {home[q]}
               /\ "overrun" \notin faults
                   => lock'[at'[q]] = q \/ (at'[q] = "pg" /\ resp'["pg"] # NoOne)
    <3>1. /\ s \in Store /\ s \in Shared \cup {home[r]}
          /\ lock[s] = NoOne
          /\ s = "pg" => resp["pg"] = NoOne
      BY GrantsFree
    <3>2. CASE q = r
      BY <1>t, <2>2, <3>1, <3>2
    <3>3. CASE q # r
      <4>1. pc[q] \in {"recheck", "run"} /\ at'[q] = at[q]
        BY <1>t, <2>2, <3>3
      <4>2. /\ at[q] \in Shared \cup {home[q]}
            /\ "overrun" \notin faults
                => lock[at[q]] = q \/ (at[q] = "pg" /\ resp["pg"] # NoOne)
        BY <4>1 DEF LockInv
      <4>3. lock[at[q]] = q => lock'[at[q]] = q
        BY <1>n, <1>t, <2>2, <3>1, <4>2
      <4> QED
        BY <2>2, <4>1, <4>2, <4>3
    <3> QED
      BY <3>2, <3>3
  <2> QED
    BY <1>2, <2>1, <2>2 DEF Acquire, Goto
<1>3. CASE StoreRedis(r)
  <2>1. /\ UNCHANGED <<at, lock>> /\ pc[q] \in {"recheck", "run"}
        /\ resp'["pg"] = resp["pg"]
    BY <1>3, <1>n, <1>t DEF StoreRedis, Goto
  <2> QED
    BY <2>1 DEF LockInv
<1>4. CASE StorePg(r)
  <2>1. UNCHANGED at /\ pc[q] \in {"recheck", "run"}
    BY <1>4, <1>t DEF StorePg, Goto
  <2>2. at[q] \in Store
    BY <1>n, <2>1 DEF LockInv
  <2>3. \/ lock'[at[q]] = lock[at[q]] /\ resp'["pg"] = resp["pg"]
        \/ SeesPg(home[r]) /\ resp'["pg"] = r /\ (at[q] # "pg" => lock'[at[q]] = lock[at[q]])
    BY <1>4, <1>n, <1>t, <2>2 DEF StorePg
  <2> QED
    BY <1>n, <2>1, <2>3 DEF LockInv
<1>5. CASE Release(r)
  <2>1. UNCHANGED <<at, resp>> /\ pc[q] \in {"recheck", "run"} /\ q # r
    BY <1>5, <1>t DEF Release, Goto
  <2>2. at[q] \in Store
    BY <1>n, <2>1 DEF LockInv
  <2>3. lock[at[q]] = q => lock'[at[q]] = q
    BY <1>5, <2>1, <2>2, FreesOwn DEF Release
  <2> QED
    BY <2>1, <2>3 DEF LockInv
<1> QED
  BY <1>1, <1>2, <1>3, <1>4, <1>5 DEF Step

\* Only an overrun takes the lock of a request that still runs: a crash takes
\* the process's own requests with its locks.
LEMMA LockEnvironment ==
    ASSUME TypeOK, LockInv, Environment
    PROVE  LockInv'
<1>t. /\ pc \in [Request -> PC] /\ home \in [Request -> Proc]
      /\ lock \in [Store -> Request \cup {NoOne}]
      /\ resp \in [Store -> Request \cup {NoOne}]
  BY DEF TypeOK
<1>n. /\ Shared \cap Proc = {} /\ "pg" \in Store /\ "pg" \in Shared
      /\ \A q \in Request : Shared \cup {home[q]} \subseteq Store
  BY <1>t, NameAssumption DEF Store, Shared
<1>1. ASSUME NEW p \in Proc, NEW s \in Shared, Flap(p, s)
      PROVE  LockInv'
  <2>1. UNCHANGED <<pc, home, at, lock, resp>> /\ faults \subseteq faults'
    BY <1>1, FaultNoted DEF Flap, request, stores
  <2> QED
    BY <2>1 DEF LockInv
<1>2. ASSUME NEW p \in Proc, Crash(p)
      PROVE  LockInv'
  <2>1. UNCHANGED <<home, at>> /\ faults \subseteq faults'
    BY <1>2, FaultNoted DEF Crash
  <2>2. ASSUME NEW q \in Request, pc'[q] \in {"recheck", "run"}
        PROVE  pc[q] = pc'[q] /\ home[q] # p
    BY <1>2, <2>2 DEF Crash, Over
  <2>3. \A s \in Store : s # p => lock'[s] = lock[s] /\ resp'[s] = resp[s]
    BY <1>2, <1>t DEF Crash
  <2> SUFFICES ASSUME NEW q \in Request, pc'[q] \in {"recheck", "run"}
               PROVE  /\ at[q] \in Shared \cup {home[q]}
                      /\ "overrun" \notin faults'
                          => lock'[at[q]] = q \/ (at[q] = "pg" /\ resp'["pg"] # NoOne)
    BY <2>1 DEF LockInv
  <2>4. /\ at[q] \in Shared \cup {home[q]}
        /\ "overrun" \notin faults
            => lock[at[q]] = q \/ (at[q] = "pg" /\ resp["pg"] # NoOne)
    BY <2>2 DEF LockInv
  <2>5. at[q] # p /\ "pg" # p
    BY <1>n, <2>2, <2>4
  <2> QED
    BY <1>n, <2>1, <2>3, <2>4, <2>5
<1>3. ASSUME NEW s \in Store, Expire(s)
      PROVE  LockInv'
  <2>1. /\ UNCHANGED <<pc, home, at, resp, faults>>
        /\ \A q \in Request : lock[s] = q => pc[q] \notin {"recheck", "run"}
    BY <1>3 DEF Expire, Over, request, world
  <2>2. \A i \in Store : lock'[i] = lock[i] \/ i = s
    BY <1>3, <1>t DEF Expire
  <2> QED
    BY <1>n, <2>1, <2>2 DEF LockInv
<1>4. ASSUME NEW s \in Store, Overrun(s)
      PROVE  LockInv'
  <2>1. UNCHANGED <<pc, home, at>> /\ "overrun" \in faults'
    BY <1>4, FaultNoted DEF Overrun, request
  <2> QED
    BY <2>1 DEF LockInv
<1> QED
  BY <1>1, <1>2, <1>3, <1>4 DEF Environment

\* A running request keeps its lock until its TTL, or until the key has its
\* response, although processes restart and disagree about which store is there.
THEOREM LockTheorem == Spec => []LockKept
<1>1. Init => LockInv
  BY DEF Init, LockInv
<1>2. TypeOK /\ LockInv /\ [Next]_vars => LockInv'
  <2> SUFFICES ASSUME TypeOK, LockInv, [Next]_vars
               PROVE  LockInv'
    OBVIOUS
  <2>1. CASE UNCHANGED vars
    BY <2>1 DEF vars, LockInv
  <2> QED
    BY <2>1, LockRequest, LockEnvironment DEF Next
<1>3. LockInv => LockKept
  BY DEF LockInv, LockKept
<1> QED
  BY <1>1, <1>2, <1>3, StoresTyped, PTL DEF Spec
=============================================================================
