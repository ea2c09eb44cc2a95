------------------------ MODULE EphemerisSourceProofs ------------------------
(***************************************************************************)
(* Whose elements a SatelliteEphemeris propagates, how old and how complete *)
(* they are, how long a failed source is left alone and what survives a     *)
(* restart, for any specs, satellites, intervals and number of events.      *)
(***************************************************************************)
EXTENDS EphemerisSource, TLAPS

(* Records, by their fields. *)
IsPayload(p) == p = [v |-> p.v, has |-> p.has, from |-> p.from, by |-> p.by, cut |-> p.cut, at |-> p.at]
IsEntry(c) ==
  c = [payload |-> c.payload, fetchedAt |-> c.fetchedAt, fetchKey |-> c.fetchKey, uid |-> c.uid, next |-> c.next,
       failures |-> c.failures, class |-> c.class, retryKey |-> c.retryKey]
IsObject(o) ==
  o = [payload |-> o.payload, fetchedAt |-> o.fetchedAt, fetchKey |-> o.fetchKey, uid |-> o.uid, etag |-> o.etag]
IsWork(w) ==
  w = [stage |-> w.stage, now |-> w.now, uid |-> w.uid, spec |-> w.spec, reason |-> w.reason, payload |-> w.payload,
       origin |-> w.origin, blind |-> w.blind, cold |-> w.cold]

Shape ==
  /\ clock \in Nat
  /\ eph = [live |-> eph.live, uid |-> eph.uid, spec |-> eph.spec] /\ eph.uid \in Nat /\ eph.uid > 0 /\ eph.spec \in Specs
  /\ IsEntry(cache) /\ IsPayload(cache.payload)
  /\ durable = [hashed |-> durable.hashed, legacy |-> durable.legacy]
  /\ IsWork(work) /\ work.spec \in Specs /\ work.uid \in Nat /\ work.now \in Nat /\ work.now <= clock
  /\ work.stage \in {"idle", "ask", "write"}
  /\ work.stage # "idle" => work.uid > 0 /\ work.uid <= eph.uid

(* What is kept under a key and a uid came from there, for it, at that time. *)
Own(c) ==
  IsPayload(c.payload) /\ c.payload.from = c.fetchKey[2] /\ c.payload.by = c.uid /\ c.payload.at = c.fetchedAt
Kept ==
  /\ Own(cache) /\ Own(durable.hashed) /\ Own(durable.legacy)
  /\ cache # NoEntry => cache.uid > 0 /\ cache.uid \in Nat /\ cache.uid <= eph.uid
  /\ durable.legacy.uid \in Nat /\ durable.legacy.uid <= eph.uid
  /\ durable.hashed # NoObject => durable.hashed.uid = eph.uid
  /\ durable.hashed # NoObject => \E spec \in Specs : durable.hashed.fetchKey = fetchInputKey(spec)

(* The backoff of the entry is the one that the last noted failure asks for. *)
Armed ==
  /\ cache.uid = asked.uid /\ cache.fetchKey = asked.fetchKey /\ cache.retryKey = asked.retryKey
  /\ cache.class = asked.failure.class /\ cache.failures = asked.n /\ cache.next = HoldsUntil(asked)
BackoffInv ==
  /\ asked.n \in Nat /\ asked.uid \in Nat /\ asked.uid <= eph.uid
  /\ asked.n = 0 => cache.failures = 0 /\ cache.next = 0
  /\ asked.n > 0 /\ cache # NoEntry => Armed
  /\ asked.n > 0 /\ cache = NoEntry => ~eph.live \/ (asked.uid < eph.uid /\ durable.hashed.uid # eph.uid /\ durable.legacy.uid # eph.uid)

(* What was reported durable for this object can be restored. *)
SecuredInv ==
  ~Mirrored /\ secured # Nowhere => durable.hashed # NoObject /\ durable.hashed.fetchKey[2] = secured

WorkInv ==
  /\ Served => work.payload.from = work.spec.url /\ work.payload.by = work.uid
  /\ work.stage = "write" /\ work.reason = "CachedRepropagation" =>
       work.now - work.payload.at < clampRefreshInterval(work.spec.refresh)
  /\ BackoffExact
  /\ ~Mirrored /\ work.stage = "ask" /\ work.cold /\ secured = work.spec.url => matchingCache(cache, work.spec, work.uid)
  /\ ~Mirrored => RestartKeepsData

SourceInv == Shape /\ Kept /\ BackoffInv /\ SecuredInv /\ WorkInv

LEMMA Empty ==
  /\ IsEntry(NoEntry) /\ IsPayload(NoEntry.payload) /\ Own(NoEntry) /\ NoEntry.uid = 0 /\ NoEntry.failures = 0 /\ NoEntry.next = 0
  /\ Own(NoObject) /\ NoObject.uid = 0
  /\ IsWork(Idle) /\ Idle.stage = "idle" /\ Idle.spec = FirstSpec /\ Idle.uid = 0 /\ Idle.now = 0
  /\ NoFailure.n = 0 /\ NoFailure.uid = 0
BY Zenon DEF IsEntry, IsPayload, Own, NoEntry, NoObject, Nothing, NoKey, IsWork, Idle, NoFailure

(* An idle reconcile promises nothing. *)
LEMMA IdleWork == ASSUME work' = Idle PROVE WorkInv'
BY Empty, Zenon DEF WorkInv, Served, BackoffExact, RestartKeepsData

LEMMA Tracked ==
  ASSUME NEW p, IsPayload(p), NEW spec, NEW tracked, tracked = ommCachePayload(p, spec)
  PROVE  IsPayload(tracked) /\ tracked.from = p.from /\ tracked.by = p.by /\ tracked.at = p.at
<1>1. PICK cutdown : cutdown = FilterOMMs(p, spec.sel) BY Zenon
<1>2. PICK some : cutdown = [p EXCEPT !.has = some] BY <1>1, Zenon DEF FilterOMMs
<1>3. cutdown = [v |-> p.v, has |-> some, from |-> p.from, by |-> p.by, cut |-> p.cut, at |-> p.at]
        BY <1>2, Zenon DEF IsPayload
<1>4. tracked = [cutdown EXCEPT !.cut = spec.sel] BY <1>1, Zenon DEF ommCachePayload
<1>5. tracked = [v |-> p.v, has |-> some, from |-> p.from, by |-> p.by, cut |-> spec.sel, at |-> p.at]
        BY <1>3, <1>4, Zenon
<1> QED BY <1>5 DEF IsPayload

LEMMA InitSource == Init => SourceInv
<1> SUFFICES ASSUME Init PROVE SourceInv BY Zenon
<1>1. FirstSpec \in Specs BY SpecsAssumption, Zenon
<1>2. Shape BY <1>1, Empty DEF Init, Shape
<1>3. PICK legacy \in LegacyObjects(FirstSpec) : durable = [hashed |-> NoObject, legacy |-> legacy]
        BY Zenon DEF Init
<1>4. Own(legacy) /\ (legacy.uid = 0 \/ legacy.uid = 1)
  <2>1. CASE legacy = NoObject BY <2>1, Empty, Zenon
  <2>2. CASE legacy # NoObject
    <3> DEFINE p == Catalogue(1, FirstSpec.url, 1, 0)
               tracked == ommCachePayload(p, FirstSpec)
    <3>a. IsPayload(p) /\ p.from = FirstSpec.url /\ p.by = 1 /\ p.at = 0 BY Zenon DEF Catalogue, IsPayload
    <3>1. IsPayload(tracked) /\ tracked.from = FirstSpec.url /\ tracked.by = 1 /\ tracked.at = 0
            BY <3>a, Tracked
    <3>2. legacy.payload = tracked /\ legacy.fetchedAt = 0 /\ legacy.fetchKey = fetchInputKey(FirstSpec) /\ legacy.uid = 1
      BY <1>3, <2>2 DEF LegacyObjects
    <3> HIDE DEF tracked
    <3> QED BY <3>1, <3>2 DEF Own, fetchInputKey
  <2> QED BY <2>1, <2>2, Zenon
<1>5. Kept BY <1>3, <1>4, Empty DEF Init, Kept
<1>6. BackoffInv BY Empty DEF Init, BackoffInv
<1>7. SecuredInv BY Zenon DEF Init, SecuredInv
<1>8. WorkInv BY Empty, Zenon DEF Init, WorkInv, Served, BackoffExact, RestartKeepsData
<1> QED BY <1>2, <1>5, <1>6, <1>7, <1>8, Zenon DEF SourceInv

(* What happens to a reconcile in progress when neither it nor what it relies on changes. *)
LEMMA SameWork ==
  ASSUME WorkInv, work' = work, cache' = cache, asked' = asked, secured' = secured \/ secured' = Nowhere, Shape
  PROVE  WorkInv'
<1>1. work.spec.url # Nowhere BY SpecsAssumption, Zenon DEF Shape
<1>2. BackoffExact' BY Zenon DEF WorkInv, BackoffExact, Holds, HoldsUntil
<1>3. Served' = Served BY Zenon DEF Served
<1> QED BY <1>1, <1>2, <1>3, Zenon DEF WorkInv, RestartKeepsData, matchingCache

LEMMA EnvironmentStep ==
  ASSUME SourceInv,
         \/ Tick \/ Publish \/ Delete \/ Recreate \/ (\E spec \in Specs : EditSpec(spec))
         \/ (\E url : SiblingFetches(url)) \/ (\E url, etag : SiblingRestores(url, etag)) \/ UNCHANGED vars
  PROVE  SourceInv'
<1>0. Shape /\ WorkInv BY Zenon DEF SourceInv
<1>1. work' = work /\ cache' = cache /\ asked' = asked
  BY Zenon DEF Tick, Publish, Delete, Recreate, EditSpec, SiblingFetches, SiblingRestores, vars
<1>2. CASE Recreate
  <2>1. /\ eph' = [live |-> TRUE, uid |-> eph.uid + 1, spec |-> FirstSpec] /\ clock' = clock /\ secured' = Nowhere
        /\ eph'.uid = eph.uid + 1 /\ eph.uid \in Nat
    BY <1>0, <1>2, Zenon DEF Recreate, Shape
  <2>2. PICK legacy \in {durable.legacy, NoObject} : durable' = [hashed |-> NoObject, legacy |-> legacy]
    BY <1>2, Zenon DEF Recreate
  <2>3. Shape' BY <1>0, <1>1, <2>1, <2>2, SpecsAssumption DEF Shape
  <2>4. durable'.hashed = NoObject /\ durable'.legacy = legacy BY <2>2, Zenon
  <2>5. Own(legacy) /\ legacy.uid \in Nat /\ legacy.uid <= eph.uid BY <1>0, <2>2, Empty
                                                                      DEF SourceInv, Kept, Shape
  <2>6. Kept' BY <1>0, <1>1, <2>1, <2>4, <2>5, Empty DEF SourceInv, Kept, Own
  <2>7. BackoffInv' BY <1>0, <1>1, <2>1, <2>4, <2>5, Empty DEF SourceInv, BackoffInv, Armed, HoldsUntil
  <2>8. SecuredInv' BY <2>1, Zenon DEF SecuredInv
  <2>9. WorkInv' BY <1>0, <1>1, <2>1, SameWork, Zenon
  <2> QED BY <2>3, <2>6, <2>7, <2>8, <2>9, Zenon DEF SourceInv
<1>3. CASE ~Recreate
  <2>1. durable' = durable /\ secured' = secured
    BY <1>3, Zenon DEF Tick, Publish, Delete, EditSpec, SiblingFetches, SiblingRestores, vars
  <2>2. eph'.uid = eph.uid /\ (eph'.live => eph.live) /\ eph'.spec \in Specs
        /\ eph' = [live |-> eph'.live, uid |-> eph'.uid, spec |-> eph'.spec]
    <3>1. CASE Delete BY <1>0, <3>1, Zenon DEF Shape, Delete
    <3>2. CASE \E spec \in Specs : EditSpec(spec)
      <4>1. PICK spec \in Specs : eph' = [eph EXCEPT !.spec = spec] BY <3>2, Zenon DEF EditSpec
      <4>2. eph' = [live |-> eph.live, uid |-> eph.uid, spec |-> spec] BY <1>0, <4>1, Zenon DEF Shape
      <4> QED BY <4>2, Zenon
    <3>3. CASE eph' = eph BY <1>0, <3>3, Zenon DEF Shape
    <3> QED BY <1>3, <3>1, <3>2, <3>3, Zenon DEF Tick, Publish, SiblingFetches, SiblingRestores, vars
  <2>3. clock' = clock \/ clock' = clock + 1
    BY <1>3, Zenon DEF Tick, Publish, Delete, EditSpec, SiblingFetches, SiblingRestores, vars
  <2>4. Shape'
    <3>1. clock' \in Nat /\ work.now <= clock' BY <1>0, <2>3 DEF Shape
    <3> QED BY <1>0, <1>1, <2>1, <2>2, <3>1, Zenon DEF Shape
  <2>5. Kept' BY <1>1, <2>1, <2>2, Zenon DEF SourceInv, Kept, Own
  <2>6. BackoffInv' BY <1>1, <2>1, <2>2, Zenon DEF SourceInv, BackoffInv, Armed, HoldsUntil
  <2>7. SecuredInv' BY <2>1, Zenon DEF SourceInv, SecuredInv
  <2>8. WorkInv' BY <1>0, <1>1, <2>1, SameWork, Zenon
  <2> QED BY <2>4, <2>5, <2>6, <2>7, <2>8, Zenon DEF SourceInv
<1> QED BY <1>2, <1>3, Zenon

LEMMA IdleStep == SourceInv /\ (Restart \/ ReconcileGone \/ Finish) => SourceInv'
<1> SUFFICES ASSUME SourceInv, Restart \/ ReconcileGone \/ Finish PROVE SourceInv' BY Zenon
<1>0. clock' = clock /\ eph' = eph /\ durable' = durable /\ secured' = secured
        BY Zenon DEF Restart, ReconcileGone, Finish
<1>1. /\ work' = Idle \/ (work' = work /\ work.stage = "idle")
      /\ cache' = cache \/ cache' = NoEntry
      /\ asked' = asked \/ asked' = NoFailure
  BY Zenon DEF Restart, ReconcileGone, Finish
<1>2. Shape' BY <1>0, <1>1, Empty, SpecsAssumption DEF SourceInv, Shape
<1>3. Kept' BY <1>0, <1>1, Empty, Zenon DEF SourceInv, Kept, Own
<1>4. SecuredInv' BY <1>0, Zenon DEF SourceInv, SecuredInv
<1>5. BackoffInv'
  <2>0. eph.uid \in Nat BY Zenon DEF SourceInv, Shape
  <2>1. CASE Restart BY <1>0, <2>0, <2>1, Empty DEF Restart, BackoffInv
  <2>2. CASE ReconcileGone
    <3>1. cache' = NoEntry /\ asked' = asked /\ ~eph.live BY <2>2, Zenon DEF ReconcileGone
    <3> QED BY <1>0, <3>1, Empty, Zenon DEF SourceInv, BackoffInv
  <2>3. CASE Finish BY <1>0, <2>3, Zenon DEF Finish, SourceInv, BackoffInv, Armed, HoldsUntil
  <2> QED BY <2>1, <2>2, <2>3, Zenon
<1>6. WorkInv'
  <2>1. CASE work' = Idle BY <2>1, IdleWork, Zenon
  <2>2. CASE work' = work /\ work.stage = "idle" BY <2>2, Zenon
                                                    DEF WorkInv, Served, BackoffExact, RestartKeepsData
  <2> QED BY <1>1, <2>1, <2>2, Zenon
<1> QED BY <1>2, <1>3, <1>4, <1>5, <1>6, Zenon DEF SourceInv

LEMMA OutcomeFields ==
  ASSUME NEW w, IsWork(w), NEW reason, NEW payload, NEW r, r = Outcome(w, reason, payload)
  PROVE  r = [stage |-> "write", now |-> w.now, uid |-> w.uid, spec |-> w.spec, reason |-> reason, payload |-> payload,
              origin |-> w.origin, blind |-> w.blind, cold |-> w.cold]
BY Zenon DEF IsWork, Outcome

(* The reconcile comes to its write without touching anything else. *)
LEMMA ToWrite ==
  ASSUME SourceInv, work.stage = "ask", NEW reason, NEW payload, work' = Outcome(work, reason, payload),
         clock' = clock, eph' = eph, durable' = durable, secured' = secured, cache' = cache, asked' = asked,
         reason # "CachedRepropagation", reason # "FetchFailedServingCache",
         reason \in Healthy \cup Degraded => payload.from = work.spec.url /\ payload.by = work.uid,
         reason \in Wiped => ~matchingCache(cache, work.spec, work.uid)
  PROVE  SourceInv'
<1>0. Shape /\ Kept /\ BackoffInv /\ SecuredInv /\ WorkInv BY Zenon DEF SourceInv
<1>1. work' = [stage |-> "write", now |-> work.now, uid |-> work.uid, spec |-> work.spec, reason |-> reason,
               payload |-> payload, origin |-> work.origin, blind |-> work.blind, cold |-> work.cold]
  BY <1>0, OutcomeFields DEF Shape
<1>2. /\ IsWork(work') /\ work'.stage = "write" /\ work'.reason = reason /\ work'.payload = payload
      /\ work'.now = work.now /\ work'.uid = work.uid /\ work'.spec = work.spec /\ work'.cold = work.cold
  BY <1>1 DEF IsWork
<1>3. Shape' BY <1>0, <1>2, Zenon DEF Shape
<1>4. Kept' /\ BackoffInv' /\ SecuredInv' BY <1>0 DEF Kept, Own, BackoffInv, Armed, HoldsUntil, SecuredInv
<1>5. BackoffExact' BY <1>2, Zenon DEF BackoffExact
<1>6. ~Mirrored => RestartKeepsData' BY <1>0, <1>2, Zenon DEF WorkInv, RestartKeepsData
<1>7. WorkInv' BY <1>2, <1>5, <1>6, Zenon DEF WorkInv, Served
<1> QED BY <1>3, <1>4, <1>7, Zenon DEF SourceInv

LEMMA SetupStep == SourceInv /\ (SetupFails \/ handleInsecureURL) => SourceInv'
<1> SUFFICES ASSUME SourceInv, SetupFails \/ handleInsecureURL PROVE SourceInv' BY Zenon
<1>0. /\ work.stage = "ask" /\ clock' = clock /\ eph' = eph /\ durable' = durable /\ secured' = secured
      /\ cache' = cache /\ asked' = asked
  BY Zenon DEF SetupFails, handleInsecureURL
<1>1. matchingCache(cache, work.spec, work.uid) => cache.payload.from = work.spec.url /\ cache.payload.by = work.uid
  BY DEF SourceInv, Kept, Own, matchingCache, fetchInputKey
<1>2. CASE handleInsecureURL
  <2>1. work' = Outcome(work, "InsecureURL", Nothing) BY <1>2, Zenon DEF handleInsecureURL
  <2> QED BY <1>0, <2>1, ToWrite, Zenon DEF Healthy, Degraded, Wiped
<1>3. CASE SetupFails /\ matchingCache(cache, work.spec, work.uid)
  <2>1. work' = Outcome(work, "FetcherSetupFailedServingCache", cache.payload) BY <1>3, Zenon DEF SetupFails
  <2> QED BY <1>0, <1>1, <1>3, <2>1, ToWrite, Zenon DEF Wiped
<1>4. CASE SetupFails /\ ~matchingCache(cache, work.spec, work.uid)
  <2>1. work' = Outcome(work, "FetcherSetupFailed", Nothing) BY <1>4, Zenon DEF SetupFails
  <2> QED BY <1>0, <1>4, <2>1, ToWrite, Zenon DEF Healthy, Degraded
<1> QED BY <1>2, <1>3, <1>4, Zenon

LEMMA Matching ==
  ASSUME SourceInv, NEW spec, NEW uid, matchingCache(cache, spec, uid)
  PROVE  /\ cache # NoEntry /\ cache.fetchKey = fetchInputKey(spec) /\ cache.uid = uid
         /\ cache.payload.from = spec.url /\ cache.payload.by = uid /\ cache.payload.at = cache.fetchedAt
BY DEF SourceInv, Kept, Own, matchingCache, fetchInputKey

LEMMA BackoffFields ==
  ASSUME NEW c, IsEntry(c), NEW failure, NEW spec, NEW now, NEW r, r = applyFetchBackoff(c, failure, spec, now),
         NEW n, n = Least((IF c.retryKey = retryInputKey(spec) /\ c.class = failure.class THEN c.failures ELSE 0) + 1, FailureCap)
  PROVE  r = [payload |-> c.payload, fetchedAt |-> c.fetchedAt, fetchKey |-> c.fetchKey, uid |-> c.uid,
              next |-> now + fetchRetryDelay(failure, clampRefreshInterval(spec.refresh), n),
              failures |-> n, class |-> failure.class, retryKey |-> retryInputKey(spec)]
<1>1. PICK next : next = now + fetchRetryDelay(failure, clampRefreshInterval(spec.refresh), n) BY Zenon
<1>2. r = [c EXCEPT !.failures = n, !.class = failure.class, !.retryKey = retryInputKey(spec), !.next = next]
  BY <1>1, Zenon DEF applyFetchBackoff
<1> QED BY <1>1, <1>2, Zenon DEF IsEntry

LEMMA CountFrom ==
  ASSUME NEW k \in Nat
  PROVE  Least(k + 1, FailureCap) \in Nat /\ Least(k + 1, FailureCap) > 0
BY SourceAssumption DEF Least

(* A failed answer that the object's own entry takes note of. *)
LEMMA NotedStep ==
  ASSUME SourceInv, work.stage = "ask", NEW failure, matchingCache(cache, work.spec, work.uid),
         cache' = applyFetchBackoff(cache, failure, work.spec, clock), asked' = Noted(failure),
         work' = Outcome(work, "FetchFailedServingCache", cache.payload),
         clock' = clock, eph' = eph, durable' = durable, secured' = secured
  PROVE  SourceInv'
<1>0. Shape /\ Kept /\ BackoffInv /\ SecuredInv /\ WorkInv BY Zenon DEF SourceInv
<1>1. /\ cache # NoEntry /\ cache.fetchKey = fetchInputKey(work.spec) /\ cache.uid = work.uid
      /\ cache.payload.from = work.spec.url /\ cache.payload.by = work.uid
  BY Matching, Zenon
<1>2. work' = [stage |-> "write", now |-> work.now, uid |-> work.uid, spec |-> work.spec,
               reason |-> "FetchFailedServingCache", payload |-> cache.payload, origin |-> work.origin,
               blind |-> work.blind, cold |-> work.cold]
  BY <1>0, OutcomeFields, Zenon DEF Shape
<1> DEFINE same == cache.retryKey = retryInputKey(work.spec) /\ cache.class = failure.class
           noted == /\ asked.uid = work.uid /\ asked.fetchKey = fetchInputKey(work.spec)
                    /\ asked.retryKey = retryInputKey(work.spec) /\ asked.failure.class = failure.class
           n == Least((IF same THEN cache.failures ELSE 0) + 1, FailureCap)
           m == Least((IF noted THEN asked.n ELSE 0) + 1, FailureCap)
<1>3. (IF same THEN cache.failures ELSE 0) = (IF noted THEN asked.n ELSE 0)
      /\ (IF noted THEN asked.n ELSE 0) \in Nat
  <2>1. CASE asked.n = 0 BY <1>0, <2>1, Zenon DEF BackoffInv
  <2>2. CASE asked.n # 0
    <3>1. asked.n \in Nat /\ Armed BY <1>0, <1>1, <2>2 DEF BackoffInv
    <3> QED BY <1>1, <3>1, Zenon DEF Armed
  <2> QED BY <2>1, <2>2, Zenon
<1>4. n = m /\ m \in Nat /\ m > 0 BY <1>3, CountFrom, Zenon
<1>5. cache' = [payload |-> cache.payload, fetchedAt |-> cache.fetchedAt, fetchKey |-> cache.fetchKey, uid |-> cache.uid,
                next |-> clock + fetchRetryDelay(failure, clampRefreshInterval(work.spec.refresh), n),
                failures |-> n, class |-> failure.class, retryKey |-> retryInputKey(work.spec)]
  BY <1>0, BackoffFields DEF Shape
<1>6. asked' = [failure |-> failure, n |-> m, at |-> clock, uid |-> work.uid,
                fetchKey |-> fetchInputKey(work.spec), retryKey |-> retryInputKey(work.spec)]
  BY Zenon DEF Noted
<1> HIDE DEF n, m, same, noted
<1>7. retryInputKey(work.spec)[2] = clampRefreshInterval(work.spec.refresh) BY Zenon DEF retryInputKey
<1>8. HoldsUntil(asked)' = clock + fetchRetryDelay(failure, clampRefreshInterval(work.spec.refresh), m)
  BY <1>6, <1>7 DEF HoldsUntil
<1>9. /\ cache'.payload = cache.payload /\ cache'.fetchedAt = cache.fetchedAt /\ cache'.fetchKey = cache.fetchKey
      /\ cache'.uid = work.uid /\ cache'.failures = m /\ cache'.class = failure.class
      /\ cache'.retryKey = retryInputKey(work.spec) /\ IsEntry(cache')
      /\ cache'.next = clock + fetchRetryDelay(failure, clampRefreshInterval(work.spec.refresh), m)
  BY <1>1, <1>4, <1>5 DEF IsEntry
<1>10. /\ asked'.failure = failure /\ asked'.n = m /\ asked'.at = clock /\ asked'.uid = work.uid
       /\ asked'.fetchKey = fetchInputKey(work.spec) /\ asked'.retryKey = retryInputKey(work.spec)
  BY <1>6
<1>11. /\ IsWork(work') /\ work'.stage = "write" /\ work'.reason = "FetchFailedServingCache" /\ work'.now = work.now
       /\ work'.payload = cache.payload /\ work'.uid = work.uid /\ work'.spec = work.spec
  BY <1>2 DEF IsWork
<1>12. Armed' BY <1>1, <1>8, <1>9, <1>10, Zenon DEF Armed
<1>13. Shape' BY <1>0, <1>9, <1>11, Zenon DEF Shape
<1>14. cache'.uid > 0 /\ cache'.uid \in Nat /\ cache'.uid <= eph.uid BY <1>0, <1>1, <1>9, Zenon DEF Kept
<1>15. Kept' BY <1>0, <1>1, <1>9, <1>14, Zenon DEF Kept, Own
<1>16. BackoffInv'
  <2>1. cache' # NoEntry BY <1>14, Empty
  <2> QED BY <1>0, <1>4, <1>10, <1>12, <2>1 DEF BackoffInv, Shape
<1>17. SecuredInv' BY <1>0, Zenon DEF SecuredInv
<1>18. BackoffExact' BY <1>0, <1>4, <1>10, <1>11, Zenon DEF BackoffExact, Holds, Shape
<1>19. WorkInv' BY <1>1, <1>11, <1>18, Zenon DEF WorkInv, Served, RestartKeepsData, Wiped
<1> QED BY <1>13, <1>15, <1>16, <1>17, <1>19, Zenon DEF SourceInv

LEMMA AnswerFailsStep ==
  ASSUME SourceInv, NEW failure \in Failures, AnswerFails(failure)
  PROVE  SourceInv'
<1>0. work.stage = "ask" /\ clock' = clock /\ eph' = eph /\ durable' = durable /\ secured' = secured
  BY Zenon DEF AnswerFails
<1>1. CASE matchingCache(cache, work.spec, work.uid)
  BY <1>0, <1>1, NotedStep, Zenon DEF AnswerFails
<1>2. CASE ~matchingCache(cache, work.spec, work.uid)
  <2>1. work' = Outcome(work, WipeReason(failure.class, work.spec.url), Nothing) /\ cache' = cache /\ asked' = asked
    BY <1>2, Zenon DEF AnswerFails
  <2>2. failure.class \in {"rateLimited", "auth", "transient"} BY Zenon DEF Failures
  <2>3. WipeReason(failure.class, work.spec.url) \in {"RateLimited", "AuthFailed", "InvalidSourceURL", "FetchFailed"} BY <2>2, Zenon DEF WipeReason
  <2>4. WipeReason(failure.class, work.spec.url) \notin Healthy \cup Degraded BY <2>3, Zenon DEF Healthy, Degraded
  <2> QED BY <1>0, <1>2, <2>1, <2>3, <2>4, ToWrite, Zenon
<1> QED BY <1>1, <1>2, Zenon

LEMMA AnsweredFields ==
  ASSUME SourceInv, NEW reason, NEW payload, NEW origin, NEW blind,
         work' = [Outcome(work, reason, payload) EXCEPT !.origin = origin, !.blind = blind]
  PROVE  work' = [stage |-> "write", now |-> work.now, uid |-> work.uid, spec |-> work.spec, reason |-> reason,
                  payload |-> payload, origin |-> origin, blind |-> blind, cold |-> work.cold]
<1>1. PICK w : w = Outcome(work, reason, payload) BY Zenon
<1>2. w = [stage |-> "write", now |-> work.now, uid |-> work.uid, spec |-> work.spec, reason |-> reason,
           payload |-> payload, origin |-> work.origin, blind |-> work.blind, cold |-> work.cold]
  BY <1>1, OutcomeFields, Zenon DEF SourceInv, Shape
<1>3. work' = [w EXCEPT !.origin = origin, !.blind = blind] BY <1>1, Zenon
<1> QED BY <1>2, <1>3, Zenon

LEMMA Forgotten ==
  ASSUME Shape, eph' = eph, asked' = NoFailure, cache'.failures = 0, cache'.next = 0
  PROVE  BackoffInv'
BY Empty DEF BackoffInv, Shape

LEMMA NothingNoted ==
  ASSUME eph' = eph, asked' = asked, asked.n = 0, asked.uid \in Nat, asked.uid <= eph.uid,
         cache'.failures = 0, cache'.next = 0
  PROVE  BackoffInv'
BY DEF BackoffInv

(* The source has answered: the entry is new and no failure is remembered. *)
LEMMA AnsweredStep ==
  ASSUME SourceInv, work.stage = "ask", NEW payload, NEW kept, NEW reason \in {"NotModified", "FetchSucceeded"},
         NEW origin, NEW blind, IsPayload(kept), kept.from = work.spec.url, kept.by = work.uid, kept.at = clock,
         payload.from = work.spec.url, payload.by = work.uid,
         cache' = [payload |-> kept, fetchedAt |-> clock, fetchKey |-> fetchInputKey(work.spec), uid |-> work.uid, next |-> 0,
                   failures |-> 0, class |-> "transient", retryKey |-> <<"", 0>>],
         work' = [stage |-> "write", now |-> work.now, uid |-> work.uid, spec |-> work.spec, reason |-> reason,
                  payload |-> payload, origin |-> origin, blind |-> blind, cold |-> work.cold],
         asked' = NoFailure, clock' = clock, eph' = eph,
         NEW hashed, durable' = [hashed |-> hashed, legacy |-> durable.legacy],
         Own(hashed), hashed # NoObject => hashed.uid = eph.uid,
         hashed # NoObject => \E spec \in Specs : hashed.fetchKey = fetchInputKey(spec),
         SecuredInv'
  PROVE  SourceInv'
<1>0. Shape /\ Kept BY Zenon DEF SourceInv
<1>1. durable'.hashed = hashed /\ durable'.legacy = durable.legacy BY Zenon
<1>2. Shape'
  <2>1. IsWork(work') /\ work'.stage = "write" /\ work'.now = work.now /\ work'.uid = work.uid /\ work'.spec = work.spec
    BY Zenon DEF IsWork
  <2>2. IsEntry(cache') /\ cache'.payload = kept BY Zenon DEF IsEntry
  <2> QED BY <1>0, <1>1, <2>1, <2>2, Zenon DEF Shape
<1>3. fetchInputKey(work.spec)[2] = work.spec.url BY Zenon DEF fetchInputKey
<1>4. Kept' BY <1>0, <1>1, <1>3, Zenon DEF Kept, Own, Shape
<1>5. BackoffInv'
  <2>1. cache'.failures = 0 /\ cache'.next = 0 BY Zenon
  <2> QED BY <1>0, <2>1, Forgotten, Zenon
<1>6. WorkInv' BY Zenon DEF WorkInv, Served, BackoffExact, RestartKeepsData, Wiped
<1> QED BY <1>2, <1>4, <1>5, <1>6, Zenon DEF SourceInv

LEMMA AnswerReservesStep == SourceInv /\ AnswerReserves => SourceInv'
<1> SUFFICES ASSUME SourceInv, AnswerReserves PROVE SourceInv' BY Zenon
<1>0. /\ matchingCache(cache, work.spec, work.uid) /\ work.stage = "ask"
      /\ clock' = clock /\ eph' = eph /\ durable' = durable /\ secured' = secured /\ asked' = NoFailure
  BY Zenon DEF AnswerReserves
<1>1. cache.payload.from = work.spec.url /\ cache.payload.by = work.uid BY <1>0, Matching, Zenon
<1>2. PICK kept : kept = [cache.payload EXCEPT !.at = clock] BY Zenon
<1>3. kept = [v |-> cache.payload.v, has |-> cache.payload.has, from |-> cache.payload.from, by |-> cache.payload.by,
              cut |-> cache.payload.cut, at |-> clock]
  BY <1>2, Zenon DEF SourceInv, Shape, IsPayload
<1>4. IsPayload(kept) /\ kept.from = work.spec.url /\ kept.by = work.uid /\ kept.at = clock
        BY <1>1, <1>3, Zenon DEF IsPayload
<1>5. cache' = [payload |-> kept, fetchedAt |-> clock, fetchKey |-> fetchInputKey(work.spec), uid |-> work.uid, next |-> 0,
                failures |-> 0, class |-> "transient", retryKey |-> <<"", 0>>]
  BY <1>2, Zenon DEF AnswerReserves, Entry
<1>a. PICK origin, blind : work' = [Outcome(work, "NotModified", cache.payload) EXCEPT !.origin = origin, !.blind = blind]
  BY Zenon DEF AnswerReserves
<1>6. work' = [stage |-> "write", now |-> work.now, uid |-> work.uid, spec |-> work.spec, reason |-> "NotModified",
               payload |-> cache.payload, origin |-> origin, blind |-> blind, cold |-> work.cold]
  BY <1>a, AnsweredFields, Zenon
<1>7. SecuredInv' BY <1>0, Zenon DEF SourceInv, SecuredInv
<1>8. durable' = [hashed |-> durable.hashed, legacy |-> durable.legacy] BY <1>0, Zenon DEF SourceInv, Shape
<1>9. /\ Own(durable.hashed) /\ (durable.hashed # NoObject => durable.hashed.uid = eph.uid)
      /\ durable.hashed # NoObject => \E spec \in Specs : durable.hashed.fetchKey = fetchInputKey(spec)
  BY <1>0, Zenon DEF SourceInv, Kept
<1> QED BY <1>0, <1>1, <1>4, <1>5, <1>6, <1>7, <1>8, <1>9, AnsweredStep, Zenon

LEMMA PersistKeeps ==
  ASSUME SourceInv, NEW spec \in Specs, NEW at, NEW etag, NEW tracked, tracked.from = spec.url, tracked.by = eph.uid,
         tracked.at = at, IsPayload(tracked), NEW object, object = persistOMMCache(durable.hashed, tracked, spec, eph.uid, at, etag)
  PROVE  /\ Own(object) /\ (object # NoObject => object.uid = eph.uid)
         /\ object # NoObject => \E other \in Specs : object.fetchKey = fetchInputKey(other)
         /\ ~Mirrored /\ tracked.has # {} => object # NoObject /\ object.fetchKey[2] = spec.url
         /\ tracked.has = {} => object = durable.hashed
<1>0. Kept /\ eph.uid > 0 /\ eph.uid \in Nat BY Zenon DEF SourceInv, Shape
<1>1. CASE object = durable.hashed /\ (tracked.has = {} \/ SameDigest(durable.hashed.payload, tracked))
  <2>1. ASSUME ~Mirrored, tracked.has # {} PROVE object # NoObject /\ object.fetchKey[2] = spec.url
    <3>1. durable.hashed.payload.has = tracked.has /\ durable.hashed.payload.from = tracked.from
      BY <1>1, <2>1, Zenon DEF SameDigest
    <3>2. durable.hashed # NoObject BY <2>1, <3>1 DEF NoObject, Nothing
    <3> QED BY <1>0, <1>1, <3>1, <3>2, Zenon DEF Kept, Own
  <2> QED BY <1>0, <1>1, <2>1, Zenon DEF Kept
<1>2. CASE tracked.has # {} /\ object = [payload |-> tracked, fetchedAt |-> at, fetchKey |-> fetchInputKey(spec),
                                          uid |-> eph.uid, etag |-> etag]
  <2>1. fetchInputKey(spec)[2] = spec.url BY Zenon DEF fetchInputKey
  <2>2. object.uid # 0 BY <1>0, <1>2
  <2>3. object # NoObject BY <2>2, Empty, Zenon
  <2> QED BY <1>2, <2>1, <2>3 DEF Own
<1> QED BY <1>1, <1>2, Zenon DEF persistOMMCache

LEMMA AnswerOkStep ==
  ASSUME SourceInv, NEW persists \in BOOLEAN, AnswerOk(persists)
  PROVE  SourceInv'
<1>0. Shape /\ Kept /\ SecuredInv /\ work.spec \in Specs BY Zenon DEF SourceInv, Shape
<1>1. work.stage = "ask" /\ clock' = clock /\ eph' = eph /\ asked' = NoFailure BY Zenon DEF AnswerOk
<1> DEFINE url      == work.spec.url
           body     == IF NotModified THEN shared[url].body ELSE version
           fetched  == [Catalogue(body, url, work.uid, clock) EXCEPT !.has = IF body = 0 THEN {} ELSE @]
           etag     == IF work.spec.type = "CelesTrak" THEN version ELSE 0
           stored   == persists /\ eph.live /\ work.uid = eph.uid
<1>2. PICK payload : payload = fetched BY Zenon
<1>3. PICK tracked : tracked = ommCachePayload(payload, work.spec) BY Zenon
<1>4. PICK has : payload = [v |-> body, has |-> has, from |-> url, by |-> work.uid, cut |-> {}, at |-> clock]
  BY <1>2, Zenon DEF Catalogue
<1>5. IsPayload(payload) /\ payload.from = url /\ payload.by = work.uid /\ payload.at = clock
        BY <1>4, Zenon DEF IsPayload
<1>6. tracked.from = url /\ tracked.by = work.uid /\ tracked.at = clock /\ IsPayload(tracked)
        BY <1>3, <1>5, Tracked
<1>7. /\ cache' = Entry(payload, clock, work.spec, work.uid)
      /\ durable' = IF stored
                    THEN [durable EXCEPT !.hashed = persistOMMCache(@, tracked, work.spec, work.uid, clock, etag)]
                    ELSE durable
      /\ secured' = IF stored /\ tracked.has # {} THEN url ELSE secured
      /\ \E reason \in {"NotModified", "FetchSucceeded"} : \E blind :
           work' = [Outcome(work, reason, payload) EXCEPT !.origin = version, !.blind = blind]
  BY <1>2, <1>3, Zenon DEF AnswerOk
<1> HIDE DEF body, fetched, etag, stored
<1>8. PICK reason \in {"NotModified", "FetchSucceeded"} : \E blind :
        work' = [Outcome(work, reason, payload) EXCEPT !.origin = version, !.blind = blind]
  BY <1>7, Zenon
<1>b. PICK blind : work' = [Outcome(work, reason, payload) EXCEPT !.origin = version, !.blind = blind]
        BY <1>8, Zenon
<1>9. work' = [stage |-> "write", now |-> work.now, uid |-> work.uid, spec |-> work.spec, reason |-> reason,
               payload |-> payload, origin |-> version, blind |-> blind, cold |-> work.cold]
  BY <1>b, AnsweredFields, Zenon
<1>10. cache' = [payload |-> payload, fetchedAt |-> clock, fetchKey |-> fetchInputKey(work.spec), uid |-> work.uid,
                 next |-> 0, failures |-> 0, class |-> "transient", retryKey |-> <<"", 0>>]
  BY <1>7, Zenon DEF Entry
<1>11. CASE ~stored
  <2>1. durable' = [hashed |-> durable.hashed, legacy |-> durable.legacy] /\ durable' = durable /\ secured' = secured
    BY <1>0, <1>7, <1>11, Zenon DEF Shape
  <2>2. /\ Own(durable.hashed) /\ (durable.hashed # NoObject => durable.hashed.uid = eph.uid)
        /\ durable.hashed # NoObject => \E spec \in Specs : durable.hashed.fetchKey = fetchInputKey(spec)
    BY <1>0, Zenon DEF Kept
  <2>3. SecuredInv' BY <1>0, <2>1, Zenon DEF SecuredInv
  <2> QED BY <1>1, <1>5, <1>9, <1>10, <2>1, <2>2, <2>3, AnsweredStep, Zenon
<1>12. CASE stored
  <2>1. work.uid = eph.uid BY <1>12, Zenon DEF stored
  <2>2. PICK hashed : hashed = persistOMMCache(durable.hashed, tracked, work.spec, eph.uid, clock, etag)
          BY Zenon
  <2>3. durable' = [durable EXCEPT !.hashed = hashed] BY <1>7, <1>12, <2>1, <2>2, Zenon
  <2>4. durable' = [hashed |-> hashed, legacy |-> durable.legacy] BY <1>0, <2>3, Zenon DEF Shape
  <2>5. /\ Own(hashed) /\ (hashed # NoObject => hashed.uid = eph.uid)
        /\ hashed # NoObject => \E spec \in Specs : hashed.fetchKey = fetchInputKey(spec)
        /\ ~Mirrored /\ tracked.has # {} => hashed # NoObject /\ hashed.fetchKey[2] = url
        /\ tracked.has = {} => hashed = durable.hashed
    <3>1. work.spec \in Specs /\ tracked.from = work.spec.url /\ tracked.by = eph.uid
            BY <1>0, <1>6, <2>1, Zenon DEF Shape
    <3>2. tracked.at = clock /\ IsPayload(tracked) BY <1>6, Zenon
    <3> QED BY <2>2, <3>1, <3>2, PersistKeeps
  <2>6. durable'.hashed = hashed BY <2>4, Zenon
  <2>7. SecuredInv'
    <3>1. CASE tracked.has = {} BY <1>0, <1>7, <2>5, <2>6, <3>1, Zenon DEF SecuredInv
    <3>2. CASE tracked.has # {} BY <1>7, <1>12, <2>5, <2>6, <3>2, Zenon DEF SecuredInv
    <3> QED BY <3>1, <3>2, Zenon
  <2> QED BY <1>1, <1>5, <1>9, <1>10, <2>4, <2>5, <2>7, AnsweredStep, Zenon
<1> QED BY <1>11, <1>12, Zenon

LEMMA Clamped ==
  ASSUME NEW spec \in Specs
  PROVE  /\ clampRefreshInterval(spec.refresh) \in Int
         /\ clampRefreshInterval(spec.refresh) = Least(MaxRefresh, Greatest(MinRefresh, spec.refresh))
BY SpecsAssumption, SourceAssumption DEF clampRefreshInterval, Least, Greatest

LEMMA EntryFields ==
  ASSUME NEW payload, NEW at, NEW spec, NEW uid, NEW c, c = Entry(payload, at, spec, uid)
  PROVE  /\ c.payload = payload /\ c.fetchedAt = at /\ c.fetchKey = fetchInputKey(spec)
         /\ c.uid = uid /\ c.failures = 0 /\ c.next = 0 /\ IsEntry(c)
BY Zenon DEF Entry, IsEntry

(* What a reconcile finds in memory, or restores to it. *)
LEMMA Restored ==
  ASSUME SourceInv, eph.live, NEW readable \in BOOLEAN, NEW which,
         which = (IF readable THEN Restorable(eph.spec, eph.uid) ELSE "none"),
         NEW c, c = restoreOMMCache(which, eph.spec, eph.uid)
  PROVE  /\ IsEntry(c) /\ Own(c)
         /\ c # NoEntry => c.uid > 0 /\ c.uid \in Nat /\ c.uid <= eph.uid
         /\ c = cache \/ (c # NoEntry /\ cache = NoEntry /\ asked.n = 0 /\ c.failures = 0 /\ c.next = 0)
         /\ readable /\ cache = NoEntry /\ ~Mirrored /\ secured = eph.spec.url => matchingCache(c, eph.spec, eph.uid)
         /\ LET d == copyCacheForward(which)
            IN  /\ d = durable \/ (d = [hashed |-> durable.legacy, legacy |-> durable.legacy] /\ durable.hashed = NoObject)
                /\ d # durable => durable.legacy.uid = eph.uid /\ durable.legacy.fetchKey = fetchInputKey(eph.spec)
<1>0. Shape /\ Kept /\ BackoffInv /\ SecuredInv /\ eph.spec \in Specs /\ eph.uid \in Nat /\ eph.uid > 0
  BY Zenon DEF SourceInv, Shape
<1>1. \/ which = "none"
      \/ /\ which = "hashed" /\ cache = NoEntry
         /\ durable.hashed.uid = eph.uid /\ durable.hashed.fetchKey = fetchInputKey(eph.spec)
      \/ /\ which = "legacy" /\ cache = NoEntry
         /\ durable.legacy.uid = eph.uid /\ durable.legacy.fetchKey = fetchInputKey(eph.spec)
  BY Zenon DEF Restorable, hydrateFromCacheObject
<1>2. fetchInputKey(eph.spec)[2] = eph.spec.url BY Zenon DEF fetchInputKey
<1>3. ASSUME NEW object, Own(object), object.uid = eph.uid, cache = NoEntry,
             object.fetchKey = fetchInputKey(eph.spec), c = Entry(object.payload, object.fetchedAt, eph.spec, eph.uid),
             durable.hashed.uid = eph.uid \/ durable.legacy.uid = eph.uid
      PROVE  /\ IsEntry(c) /\ Own(c)
             /\ c # NoEntry /\ c.uid = eph.uid /\ cache = NoEntry /\ asked.n = 0 /\ c.failures = 0 /\ c.next = 0
             /\ matchingCache(c, eph.spec, eph.uid)
  <2>1. /\ c.payload = object.payload /\ c.fetchedAt = object.fetchedAt /\ c.fetchKey = fetchInputKey(eph.spec)
        /\ c.uid = eph.uid /\ c.failures = 0 /\ c.next = 0 /\ IsEntry(c)
    BY <1>3, EntryFields
  <2>2. Own(c) BY <1>3, <2>1, Zenon DEF Own
  <2>3. c # NoEntry BY <1>0, <2>1, Empty
  <2>4. asked.n = 0 BY <1>0, <1>3 DEF BackoffInv
  <2> QED BY <1>3, <2>1, <2>2, <2>3, <2>4, Zenon DEF matchingCache
<1>4. CASE which = "none"
  <2>1. c = cache BY <1>4, Zenon DEF restoreOMMCache
  <2>2. copyCacheForward(which) = durable BY <1>4, Zenon DEF copyCacheForward
  <2>3. ~(readable /\ cache = NoEntry /\ ~Mirrored /\ secured = eph.spec.url)
    <3> SUFFICES ASSUME readable, cache = NoEntry, ~Mirrored, secured = eph.spec.url PROVE FALSE BY Zenon
    <3>1. durable.hashed # NoObject /\ durable.hashed.fetchKey[2] = eph.spec.url
      BY <1>0, SpecsAssumption, Zenon DEF SecuredInv
    <3>2. PICK spec \in Specs : durable.hashed.fetchKey = fetchInputKey(spec) BY <1>0, <3>1, Zenon DEF Kept
    <3>3. spec.url = eph.spec.url BY <3>1, <3>2 DEF fetchInputKey
    <3>4. durable.hashed.fetchKey = fetchInputKey(eph.spec) BY <1>0, <3>2, <3>3, SpecsAssumption, Zenon
                                                               DEF fetchInputKey
    <3>5. hydrateFromCacheObject(durable.hashed, eph.spec, eph.uid)
      BY <1>0, <3>1, <3>4, Zenon DEF hydrateFromCacheObject, Kept
    <3> QED BY <1>4, <3>5, Zenon DEF Restorable
  <2> QED BY <1>0, <2>1, <2>2, <2>3, Zenon DEF Shape, Kept
<1>5. CASE which = "hashed"
  <2>1. c = Entry(durable.hashed.payload, durable.hashed.fetchedAt, eph.spec, eph.uid)
          BY <1>5, Zenon DEF restoreOMMCache
  <2>2. copyCacheForward(which) = durable BY <1>5, Zenon DEF copyCacheForward
  <2> QED BY <1>0, <1>1, <1>3, <1>5, <2>1, <2>2 DEF Kept, Shape
<1>6. CASE which = "legacy"
  <2>1. c = Entry(durable.legacy.payload, durable.legacy.fetchedAt, eph.spec, eph.uid)
          BY <1>6, Zenon DEF restoreOMMCache
  <2>2. PICK d : d = copyCacheForward(which) BY Zenon
  <2>3. d = durable \/ (d = [hashed |-> durable.legacy, legacy |-> durable.legacy] /\ durable.hashed = NoObject)
    BY <1>0, <1>6, <2>2, Zenon DEF copyCacheForward, Shape
  <2> QED BY <1>0, <1>1, <1>3, <1>6, <2>1, <2>2, <2>3, Zenon DEF Kept, Shape
<1> QED BY <1>1, <1>4, <1>5, <1>6, Zenon

(* The cache after a reconcile has begun, whatever it does next. *)
LEMMA BegunStep ==
  ASSUME SourceInv,
         IsEntry(cache'), Own(cache'), cache' # NoEntry => cache'.uid > 0 /\ cache'.uid \in Nat /\ cache'.uid <= eph.uid,
         cache' = cache \/ (cache' # NoEntry /\ cache = NoEntry /\ asked.n = 0 /\ cache'.failures = 0 /\ cache'.next = 0),
         NEW hashed, durable' = [hashed |-> hashed, legacy |-> durable.legacy],
         \/ hashed = durable.hashed
         \/ /\ hashed = durable.legacy /\ durable.hashed = NoObject
            /\ durable.legacy.uid = eph.uid /\ durable.legacy.fetchKey = fetchInputKey(eph.spec),
         clock' = clock, eph' = eph, asked' = asked, secured' = secured,
         NEW stage \in {"ask", "write"}, NEW reason, NEW payload, NEW cold,
         work' = [stage |-> stage, now |-> clock, uid |-> eph.uid, spec |-> eph.spec, reason |-> reason,
                  payload |-> payload, origin |-> 0, blind |-> FALSE, cold |-> cold]
  PROVE  Shape' /\ Kept' /\ BackoffInv' /\ SecuredInv'
<1>0. Shape /\ Kept /\ BackoffInv /\ SecuredInv BY Zenon DEF SourceInv
<1>1. durable'.hashed = hashed /\ durable'.legacy = durable.legacy
      /\ durable' = [hashed |-> durable'.hashed, legacy |-> durable'.legacy]
  BY Zenon
<1>2. IsWork(work') /\ work'.now = clock /\ work'.uid = eph.uid /\ work'.spec = eph.spec /\ work'.stage = stage
  BY Zenon DEF IsWork
<1>3. Shape'
  <2>1. IsPayload(cache'.payload) BY Zenon DEF Own
  <2> QED BY <1>0, <1>1, <1>2, <2>1 DEF Shape
<1>4. Kept' BY <1>0, <1>1, Zenon DEF Kept, Shape
<1>5. SecuredInv' BY <1>0, <1>1, Zenon DEF SecuredInv
<1>6. BackoffInv'
  <2>1. CASE cache' = cache
    <3>1. Armed => Armed' BY <2>1, Zenon DEF Armed, HoldsUntil
    <3> QED BY <1>0, <1>1, <2>1, <3>1, Zenon DEF BackoffInv
  <2>2. CASE cache' # cache
    <3>1. asked.n = 0 /\ cache'.failures = 0 /\ cache'.next = 0 BY <2>2, Zenon
    <3>2. asked.uid \in Nat /\ asked.uid <= eph.uid BY <1>0, Zenon DEF BackoffInv
    <3> QED BY <3>1, <3>2, NothingNoted, Zenon
  <2> QED BY <2>1, <2>2, Zenon
<1> QED BY <1>3, <1>4, <1>5, <1>6, Zenon

LEMMA ReconcileStep ==
  ASSUME SourceInv, NEW readable \in BOOLEAN, Reconcile(readable)
  PROVE  SourceInv'
<1>0. Shape /\ BackoffInv /\ eph.live /\ eph.spec \in Specs /\ eph.uid \in Nat /\ clock \in Nat
      /\ clock' = clock /\ eph' = eph /\ asked' = asked /\ secured' = secured
  BY Zenon DEF SourceInv, Shape, Reconcile
<1> DEFINE which == IF readable THEN Restorable(eph.spec, eph.uid) ELSE "none"
           c     == restoreOMMCache(which, eph.spec, eph.uid)
           cold  == readable /\ cache = NoEntry
           begun == [Idle EXCEPT !.now = clock, !.uid = eph.uid, !.spec = eph.spec, !.cold = cold]
           serve == cacheServe(c, eph.spec, eph.uid, clock)
<1>1. cache' = c /\ durable' = copyCacheForward(which) BY Zenon DEF Reconcile
<1>2. work' = CASE serve = "window"  -> Outcome(begun, "CachedRepropagation", c.payload)
                [] serve = "backoff" -> Outcome(begun, "FetchFailedServingCache", c.payload)
                [] serve = "none"    -> [begun EXCEPT !.stage = "ask"]
  BY Zenon DEF Reconcile
<1> HIDE DEF which, c, cold, begun, serve
<1>3. /\ IsEntry(c) /\ Own(c) /\ (c # NoEntry => c.uid > 0 /\ c.uid \in Nat /\ c.uid <= eph.uid)
      /\ c = cache \/ (c # NoEntry /\ cache = NoEntry /\ asked.n = 0 /\ c.failures = 0 /\ c.next = 0)
      /\ cold /\ ~Mirrored /\ secured = eph.spec.url => matchingCache(c, eph.spec, eph.uid)
  BY <1>0, Restored DEF which, c, cold
<1>4. PICK w : w = begun BY Zenon
<1>5. w = [stage |-> "idle", now |-> clock, uid |-> eph.uid, spec |-> eph.spec, reason |-> "", payload |-> Nothing,
           origin |-> 0, blind |-> FALSE, cold |-> cold]
  BY <1>4, Zenon DEF begun, Idle
<1>6. IsWork(w) BY <1>5, Zenon DEF IsWork
<1>7. matchingCache(c, eph.spec, eph.uid) => c.payload.from = eph.spec.url /\ c.payload.by = eph.uid /\ c.payload.at = c.fetchedAt
  BY <1>3 DEF matchingCache, Own, fetchInputKey
<1>8. /\ serve = "window" => matchingCache(c, eph.spec, eph.uid) /\ clock - c.fetchedAt < clampRefreshInterval(eph.spec.refresh)
      /\ serve = "backoff" => matchingCache(c, eph.spec, eph.uid) /\ clock < c.next /\ c.retryKey = retryInputKey(eph.spec)
      /\ serve = "none" /\ matchingCache(c, eph.spec, eph.uid) /\ c.retryKey = retryInputKey(eph.spec) => ~(clock < c.next)
      /\ serve \in {"window", "backoff", "none"}
  BY Zenon DEF serve, cacheServe
<1>9. asked.n > 0 /\ asked.uid = eph.uid /\ asked.fetchKey = fetchInputKey(eph.spec) =>
        c = cache /\ Armed /\ matchingCache(c, eph.spec, eph.uid)
  BY <1>0, <1>3 DEF BackoffInv, Armed, matchingCache
<1>10. ASSUME NEW stage \in {"ask", "write"}, NEW reason, NEW payload,
              work' = [stage |-> stage, now |-> clock, uid |-> eph.uid, spec |-> eph.spec, reason |-> reason,
                       payload |-> payload, origin |-> 0, blind |-> FALSE, cold |-> cold]
       PROVE  Shape' /\ Kept' /\ BackoffInv' /\ SecuredInv'
  <2>1. PICK hashed : /\ durable' = [hashed |-> hashed, legacy |-> durable.legacy]
                      /\ \/ hashed = durable.hashed
                         \/ /\ hashed = durable.legacy /\ durable.hashed = NoObject
                            /\ durable.legacy.uid = eph.uid /\ durable.legacy.fetchKey = fetchInputKey(eph.spec)
    <3>1. /\ durable' = durable \/ (durable' = [hashed |-> durable.legacy, legacy |-> durable.legacy] /\ durable.hashed = NoObject)
          /\ durable' # durable => durable.legacy.uid = eph.uid /\ durable.legacy.fetchKey = fetchInputKey(eph.spec)
      BY <1>0, <1>1, Restored, Zenon DEF which, c
    <3> QED BY <1>0, <3>1, Zenon DEF Shape
  <2> QED BY <1>0, <1>1, <1>3, <1>10, <2>1, BegunStep, Zenon
<1>11. CASE serve = "window"
  <2>1. work' = Outcome(w, "CachedRepropagation", c.payload) BY <1>2, <1>4, <1>11, Zenon
  <2>2. work' = [stage |-> "write", now |-> clock, uid |-> eph.uid, spec |-> eph.spec, reason |-> "CachedRepropagation",
                 payload |-> c.payload, origin |-> 0, blind |-> FALSE, cold |-> cold]
    <3>1. PICK p : p = c.payload BY Zenon
    <3>2. work' = Outcome(w, "CachedRepropagation", p) BY <2>1, <3>1, Zenon
    <3> QED BY <1>5, <3>1, <3>2, Zenon DEF Outcome
  <2>3. Shape' /\ Kept' /\ BackoffInv' /\ SecuredInv' BY <1>10, <2>2, Zenon
  <2>4. WorkInv' BY <1>7, <1>8, <1>11, <2>2, Zenon DEF WorkInv, Served, BackoffExact, RestartKeepsData, Wiped
  <2> QED BY <2>3, <2>4, Zenon DEF SourceInv
<1>12. CASE serve = "backoff"
  <2>1. work' = Outcome(w, "FetchFailedServingCache", c.payload) BY <1>2, <1>4, <1>12, Zenon
  <2>2. work' = [stage |-> "write", now |-> clock, uid |-> eph.uid, spec |-> eph.spec, reason |-> "FetchFailedServingCache",
                 payload |-> c.payload, origin |-> 0, blind |-> FALSE, cold |-> cold]
    <3>1. PICK p : p = c.payload BY Zenon
    <3>2. work' = Outcome(w, "FetchFailedServingCache", p) BY <2>1, <3>1, Zenon
    <3> QED BY <1>5, <3>1, <3>2, Zenon DEF Outcome
  <2>3. Shape' /\ Kept' /\ BackoffInv' /\ SecuredInv' BY <1>10, <2>2, Zenon
  <2>4. c.next # 0 BY <1>0, <1>8, <1>12
  <2>5. asked.n > 0 /\ c = cache /\ Armed
    <3>1. asked.n # 0 BY <1>0, <1>3, <2>4, Zenon DEF BackoffInv
    <3>2. c = cache /\ c # NoEntry BY <1>3, <1>8, <1>12, <3>1, Zenon DEF matchingCache
    <3> QED BY <1>0, <3>1, <3>2 DEF BackoffInv
  <2>6. BackoffExact' BY <1>0, <1>8, <1>12, <2>2, <2>5, Zenon
                         DEF BackoffExact, Holds, HoldsUntil, Armed, matchingCache
  <2>7. WorkInv' BY <1>7, <1>8, <1>12, <2>2, <2>6, Zenon DEF WorkInv, Served, RestartKeepsData, Wiped
  <2> QED BY <2>3, <2>7, Zenon DEF SourceInv
<1>13. CASE serve = "none"
  <2>1. work' = [w EXCEPT !.stage = "ask"] BY <1>2, <1>4, <1>13, Zenon
  <2>2. work' = [stage |-> "ask", now |-> clock, uid |-> eph.uid, spec |-> eph.spec, reason |-> "",
                 payload |-> Nothing, origin |-> 0, blind |-> FALSE, cold |-> cold]
    BY <1>5, <2>1, Zenon
  <2>3. Shape' /\ Kept' /\ BackoffInv' /\ SecuredInv' BY <1>10, <2>2, Zenon
  <2>4. asked.n > 0 /\ asked.uid = eph.uid /\ asked.fetchKey = fetchInputKey(eph.spec)
        /\ asked.retryKey = retryInputKey(eph.spec) => ~(clock < HoldsUntil(asked))
    BY <1>8, <1>9, <1>13, Zenon DEF Armed
  <2>5. BackoffExact' BY <1>0, <2>2, <2>4, Zenon DEF BackoffExact, Holds, HoldsUntil
  <2>6. ~Mirrored /\ cold /\ secured = eph.spec.url => matchingCache(c, eph.spec, eph.uid) BY <1>3, Zenon
  <2>7. WorkInv' BY <1>0, <1>1, <2>2, <2>5, <2>6, Zenon DEF WorkInv, Served, RestartKeepsData
  <2> QED BY <2>3, <2>7, Zenon DEF SourceInv
<1> QED BY <1>8, <1>11, <1>12, <1>13, Zenon

LEMMA NextStep == SourceInv /\ [Next]_vars => SourceInv'
BY EnvironmentStep, IdleStep, SetupStep, AnswerFailsStep, AnswerReservesStep, AnswerOkStep, ReconcileStep,
   Zenon DEF Next, Worker

(* OwnPayload, for all specs, restarts, siblings and older releases: what  *)
(* is propagated is the object's own, as matchingCache and                 *)
(* hydrateFromCacheObject compare both the source and the UID.             *)
THEOREM PayloadIsOwn == Spec => []OwnPayload
<1>1. SourceInv => OwnPayload BY Zenon DEF SourceInv, WorkInv, OwnPayload
<1> QED BY <1>1, InitSource, NextStep, PTL DEF Spec

(* WindowIsRecent, for all intervals: no restart or 304 makes elements     *)
(* count as fetched later than the source vouched for them.                *)
THEOREM WindowsAreRecent == Spec => []WindowIsRecent
<1>1. SourceInv => WindowIsRecent
  <2>1. Shape => clampRefreshInterval(work.spec.refresh) = Least(MaxRefresh, Greatest(MinRefresh, work.spec.refresh))
    BY Clamped, Zenon DEF Shape
  <2> QED BY <2>1, Zenon DEF SourceInv, WorkInv, WindowIsRecent
<1> QED BY <1>1, InitSource, NextStep, PTL DEF Spec

(* BackoffExact, for all delays and caps: applyFetchBackoff and cacheServe *)
(* hold a failed source back neither shorter nor longer than the last      *)
(* failure of the object's own requests asks.                              *)
THEOREM BackoffIsExact == Spec => []BackoffExact
<1>1. SourceInv => BackoffExact BY Zenon DEF SourceInv, WorkInv
<1> QED BY <1>1, InitSource, NextStep, PTL DEF Spec

(* RestartKeepsData, when no two sources publish the same elements: a      *)
(* payload that persistOMMCache reported durable is restored by a process  *)
(* that starts with an empty memory.                                       *)
THEOREM RestartRestores == ~Mirrored => (Spec => []RestartKeepsData)
<1> SUFFICES ASSUME ~Mirrored PROVE Spec => []RestartKeepsData BY Zenon
<1>1. SourceInv => RestartKeepsData BY Zenon DEF SourceInv, WorkInv
<1> QED BY <1>1, InitSource, NextStep, PTL DEF Spec
(***************************************************************************)
(* The shared fetcher.  A validator that the object itself seeded goes     *)
(* with the payload that it restored, until either is replaced.            *)
(***************************************************************************)
(* A payload holds every satellite of the catalogue that its selector keeps. *)
Whole(p) == p.has = IF p.v = 0 THEN {} ELSE IF p.cut = {} THEN Sats ELSE Sats \cap p.cut
Tagged(object) == Whole(object.payload) /\ (object.etag # 0 => object.payload.v = object.etag)
Conditional(url) == \E spec \in Specs : spec.url = url /\ spec.type = "CelesTrak"

(* The validator and body s of a URL, next to the entry c of the object e. *)
Vouches(s, url, c, e) ==
  /\ s = [etag |-> s.etag, body |-> s.body, by |-> s.by]
  /\ s.body # 0 => s.body = s.etag
  /\ s.by \in Nat /\ s.by <= e.uid
  /\ s.by # 0 => Conditional(url)
  /\ s.by # 0 /\ s.by = c.uid /\ c.fetchKey[2] = url /\ c.payload.has # {} /\ s.body = 0 /\ s.etag # 0 => c.payload.v = s.etag
  /\ e.live /\ c = NoEntry => s.by # e.uid

FetcherInv ==
  /\ version \in Nat /\ version > 0
  /\ shared = [url \in Urls |-> shared[url]]
  /\ \A url \in Urls : Vouches(shared[url], url, cache, eph)
  /\ Whole(cache.payload) /\ Tagged(durable.hashed) /\ Tagged(durable.legacy)
  /\ OwnFetchIsCurrent

LEMMA WholeNothing == Whole(NoEntry.payload) /\ Tagged(NoObject)
BY Zenon DEF Whole, Tagged, NoEntry, NoObject, Nothing

LEMMA WholeTracked ==
  ASSUME NEW p, IsPayload(p), Whole(p), p.cut = {}, NEW spec, NEW tracked, tracked = ommCachePayload(p, spec)
  PROVE  Whole(tracked) /\ tracked.v = p.v
<1>1. PICK some : some = IF spec.sel = {} THEN p.has ELSE p.has \cap spec.sel BY Zenon
<1>2. PICK cutdown : cutdown = FilterOMMs(p, spec.sel) BY Zenon
<1>3. cutdown = [p EXCEPT !.has = some] BY <1>1, <1>2, Zenon DEF FilterOMMs
<1>4. cutdown = [v |-> p.v, has |-> some, from |-> p.from, by |-> p.by, cut |-> p.cut, at |-> p.at]
        BY <1>3, Zenon DEF IsPayload
<1>5. tracked = [cutdown EXCEPT !.cut = spec.sel] BY <1>2, Zenon DEF ommCachePayload
<1>6. tracked = [v |-> p.v, has |-> some, from |-> p.from, by |-> p.by, cut |-> spec.sel, at |-> p.at]
        BY <1>4, <1>5, Zenon
<1>7. tracked.v = p.v /\ tracked.has = some /\ tracked.cut = spec.sel BY <1>6
<1>8. some = IF p.v = 0 THEN {} ELSE IF spec.sel = {} THEN Sats ELSE Sats \cap spec.sel BY <1>1, Zenon DEF Whole
<1> QED BY <1>7, <1>8, Zenon DEF Whole

(* A validator that is nobody's own vouches for nothing. *)
LEMMA NobodysValidator ==
  ASSUME NEW etag, NEW body, body # 0 => body = etag, NEW url, NEW c, NEW e, e.uid \in Nat, e.uid > 0
  PROVE  Vouches([etag |-> etag, body |-> body, by |-> 0], url, c, e)
BY DEF Vouches

LEMMA StillVouches ==
  ASSUME NEW s, NEW url, NEW c, NEW e, Vouches(s, url, c, e), NEW d, NEW f,
         d.uid = c.uid, d.fetchKey = c.fetchKey, d.payload.has = c.payload.has, d.payload.v = c.payload.v,
         d = NoEntry => c = NoEntry, f.uid = e.uid, f.live => e.live
  PROVE  Vouches(s, url, d, f)
BY Zenon DEF Vouches

LEMMA OneUrl ==
  ASSUME shared = [u \in Urls |-> shared[u]], NEW url, NEW r, shared' = [shared EXCEPT ![url] = r],
         Vouches(r, url, cache', eph'), \A u \in Urls : u # url => Vouches(shared[u], u, cache', eph')
  PROVE  shared' = [u \in Urls |-> shared'[u]] /\ \A u \in Urls : Vouches(shared'[u], u, cache', eph')
<1>1. DOMAIN shared = Urls BY Zenon
<1>2. shared' = [u \in Urls |-> IF u = url THEN r ELSE shared[u]] BY <1>1, Zenon
<1> QED BY <1>2, Zenon

(* The reconcile in flight as it was, gone, or with no answer of the source. *)
LEMMA NoNewAnswer ==
  ASSUME OwnFetchIsCurrent, work' = work \/ ~Answered'
  PROVE  OwnFetchIsCurrent'
BY Zenon DEF OwnFetchIsCurrent, Answered, Complete

LEMMA InitFetcher == Init => FetcherInv
<1> SUFFICES ASSUME Init PROVE FetcherInv BY Zenon
<1>1. version \in Nat /\ version > 0 /\ cache = NoEntry /\ work = Idle /\ eph.uid = 1 BY DEF Init
<1>2. shared = [url \in Urls |-> NoValidator] BY Zenon DEF Init
<1>3. \A url \in Urls : Vouches(NoValidator, url, cache, eph) BY <1>1, NobodysValidator DEF NoValidator
<1>4. PICK legacy \in LegacyObjects(FirstSpec) : durable = [hashed |-> NoObject, legacy |-> legacy]
        BY Zenon DEF Init
<1>5. Tagged(legacy)
  <2>1. CASE legacy = NoObject BY <2>1, WholeNothing, Zenon
  <2>2. CASE legacy # NoObject
    <3>1. PICK p : p = Catalogue(1, FirstSpec.url, 1, 0) BY Zenon
    <3>2. IsPayload(p) /\ Whole(p) /\ p.cut = {} /\ p.v = 1 BY <3>1 DEF Catalogue, IsPayload, Whole
    <3>3. PICK tracked : tracked = ommCachePayload(p, FirstSpec) BY Zenon
    <3>4. Whole(tracked) /\ tracked.v = 1 BY <3>2, <3>3, WholeTracked, Zenon
    <3>5. legacy.payload = tracked /\ (legacy.etag = 1 \/ legacy.etag = 0)
            BY <1>4, <2>2, <3>1, <3>3 DEF LegacyObjects
    <3> QED BY <3>4, <3>5, Zenon DEF Tagged
  <2> QED BY <2>1, <2>2, Zenon
<1>6. OwnFetchIsCurrent BY <1>1, Empty, Zenon DEF OwnFetchIsCurrent, Answered
<1> QED BY <1>1, <1>2, <1>3, <1>4, <1>5, <1>6, WholeNothing, Zenon DEF FetcherInv

LEMMA FetcherEnvironment ==
  ASSUME FetcherInv, SourceInv,
         \/ Tick \/ Publish \/ Delete \/ Recreate \/ (\E spec \in Specs : EditSpec(spec))
         \/ (\E url : SiblingFetches(url)) \/ (\E url, etag : SiblingRestores(url, etag)) \/ UNCHANGED vars
  PROVE  FetcherInv'
<1>0. Shape BY Zenon DEF SourceInv
<1>1. work' = work /\ cache' = cache /\ (version' = version \/ version' = version + 1)
  BY Zenon DEF Tick, Publish, Delete, Recreate, EditSpec, SiblingFetches, SiblingRestores, vars
<1>2. version' \in Nat /\ version' > 0 /\ OwnFetchIsCurrent' /\ Whole(cache.payload)'
  BY <1>1, NoNewAnswer DEF FetcherInv
<1>3. CASE Recreate
  <2>1. shared' = shared /\ eph' = [live |-> TRUE, uid |-> eph.uid + 1, spec |-> FirstSpec]
          BY <1>3, Zenon DEF Recreate
  <2>2. PICK legacy \in {durable.legacy, NoObject} : durable' = [hashed |-> NoObject, legacy |-> legacy]
    BY <1>3, Zenon DEF Recreate
  <2>3. eph.uid \in Nat /\ eph'.uid = eph.uid + 1 BY <1>0, <2>1, Zenon DEF Shape
  <2>4. \A url \in Urls : Vouches(shared[url], url, cache, eph') BY <2>3 DEF FetcherInv, Vouches
  <2> QED BY <1>1, <1>2, <2>1, <2>2, <2>4, WholeNothing, Zenon DEF FetcherInv
<1>4. CASE ~Recreate
  <2>1. durable' = durable
    BY <1>4, Zenon DEF Tick, Publish, Delete, EditSpec, SiblingFetches, SiblingRestores, vars
  <2>2. eph'.uid = eph.uid /\ (eph'.live => eph.live)
    <3>1. CASE Delete BY <1>0, <3>1, Zenon DEF Shape, Delete
    <3>2. CASE \E spec \in Specs : EditSpec(spec) BY <1>0, <3>2, Zenon DEF Shape, EditSpec
    <3>3. CASE eph' = eph BY <3>3, Zenon
    <3> QED BY <1>4, <3>1, <3>2, <3>3, Zenon DEF Tick, Publish, SiblingFetches, SiblingRestores, vars
  <2>3. \A url \in Urls : Vouches(shared[url], url, cache', eph') BY <1>1, <2>2, StillVouches, Zenon
                                                                     DEF FetcherInv
  <2>4. CASE shared' = shared BY <1>1, <1>2, <2>1, <2>3, <2>4, Zenon DEF FetcherInv
  <2>5. ASSUME NEW url, NEW etag, NEW body, body # 0 => body = etag,
               shared' = [shared EXCEPT ![url] = [etag |-> etag, body |-> body, by |-> 0]]
        PROVE  FetcherInv'
    <3>1. eph'.uid \in Nat /\ eph'.uid > 0 BY <1>0, <2>2, Zenon DEF Shape
    <3>2. Vouches([etag |-> etag, body |-> body, by |-> 0], url, cache', eph')
            BY <2>5, <3>1, NobodysValidator, Zenon
    <3>3. shared' = [u \in Urls |-> shared'[u]] /\ \A u \in Urls : Vouches(shared'[u], u, cache', eph')
      BY <2>3, <2>5, <3>2, OneUrl, Zenon DEF FetcherInv
    <3> QED BY <1>2, <2>1, <3>3, Zenon DEF FetcherInv
  <2>6. CASE \E url : SiblingFetches(url) BY <2>5, <2>6, Zenon DEF SiblingFetches, StoreDownload
  <2>7. CASE \E url, etag : SiblingRestores(url, etag)
    <3>1. PICK url, etag : SiblingRestores(url, etag) BY <2>7, Zenon
    <3>2. CASE url \in Urls
      <4>1. PICK s : s = shared[url] BY Zenon
      <4>2. s = [etag |-> s.etag, body |-> s.body, by |-> s.by] /\ s.etag = 0 /\ (s.body # 0 => s.body = s.etag)
        BY <3>1, <3>2, <4>1, Zenon DEF FetcherInv, Vouches, SiblingRestores
      <4>3. [s EXCEPT !.etag = etag, !.by = 0] = [etag |-> etag, body |-> s.body, by |-> 0]
        <5>1. PICK e, b, y : s = [etag |-> e, body |-> b, by |-> y] BY <4>2, Zenon
        <5>2. PICK r : r = [s EXCEPT !.etag = etag, !.by = 0] BY Zenon
        <5>3. r = [etag |-> etag, body |-> b, by |-> 0] BY <5>1, <5>2, Zenon
        <5>4. s.body = b BY <5>1, Zenon
        <5> QED BY <5>2, <5>3, <5>4, Zenon
      <4>4. shared' = [shared EXCEPT ![url] = [etag |-> etag, body |-> s.body, by |-> 0]]
        BY <3>1, <4>1, <4>3, Zenon DEF SiblingRestores
      <4> QED BY <2>5, <4>2, <4>4, Zenon
    <3>3. CASE url \notin Urls
      <4>1. shared' = shared BY <3>1, <3>3, Zenon DEF FetcherInv, SiblingRestores
      <4> QED BY <2>4, <4>1, Zenon
    <3> QED BY <3>2, <3>3, Zenon
  <2> QED BY <1>4, <2>4, <2>6, <2>7, Zenon DEF Tick, Publish, Delete, EditSpec, vars
<1> QED BY <1>3, <1>4, Zenon

LEMMA FetcherIdle == FetcherInv /\ SourceInv /\ (Restart \/ ReconcileGone \/ Finish) => FetcherInv'
<1> SUFFICES ASSUME FetcherInv, SourceInv, Restart \/ ReconcileGone \/ Finish PROVE FetcherInv' BY Zenon
<1>0. version' = version /\ eph' = eph /\ durable' = durable /\ eph.uid \in Nat /\ eph.uid > 0
  BY Zenon DEF Restart, ReconcileGone, Finish, SourceInv, Shape
<1>1. OwnFetchIsCurrent'
  <2>1. work' = work \/ work' = Idle BY Zenon DEF Restart, ReconcileGone, Finish
  <2>2. work' = Idle => ~Answered' BY Empty, Zenon DEF Answered
  <2> QED BY <2>1, <2>2, NoNewAnswer, Zenon DEF FetcherInv
<1>2. Whole(cache.payload)' BY WholeNothing, Zenon DEF FetcherInv, Restart, ReconcileGone, Finish
<1>3. shared' = [url \in Urls |-> shared'[url]] /\ \A url \in Urls : Vouches(shared'[url], url, cache', eph')
  <2>1. CASE Restart
    <3>1. shared' = [url \in Urls |-> NoValidator] BY <2>1, Zenon DEF Restart
    <3>2. \A url \in Urls : Vouches(NoValidator, url, cache', eph') BY <1>0, NobodysValidator, Zenon
                                                                       DEF NoValidator
    <3> QED BY <3>1, <3>2, Zenon
  <2>2. CASE ReconcileGone
    <3>1. shared' = shared /\ cache' = NoEntry /\ ~eph.live BY <2>2, Zenon DEF ReconcileGone
    <3>2. \A url \in Urls : Vouches(shared[url], url, NoEntry, eph) BY <3>1, Empty, Zenon
                                                                       DEF FetcherInv, Vouches
    <3> QED BY <1>0, <3>1, <3>2, Zenon DEF FetcherInv
  <2>3. CASE Finish BY <1>0, <2>3, Zenon DEF Finish, FetcherInv
  <2> QED BY <2>1, <2>2, <2>3, Zenon
<1> QED BY <1>0, <1>1, <1>2, <1>3, Zenon DEF FetcherInv

(* No answer of the source, or one that is an error. *)
LEMMA FetcherRefused ==
  ASSUME FetcherInv, SourceInv, SetupFails \/ handleInsecureURL \/ \E failure \in Failures : AnswerFails(failure)
  PROVE  FetcherInv'
<1>0. version' = version /\ eph' = eph /\ durable' = durable /\ shared' = shared /\ Shape
  BY Zenon DEF SetupFails, handleInsecureURL, AnswerFails, SourceInv
<1>1. /\ cache'.uid = cache.uid /\ cache'.fetchKey = cache.fetchKey /\ cache'.payload = cache.payload
      /\ cache' = NoEntry => cache = NoEntry
  <2>1. CASE cache' = cache BY <2>1, Zenon
  <2>2. CASE \E failure \in Failures : AnswerFails(failure) /\ matchingCache(cache, work.spec, work.uid)
    <3>1. PICK failure \in Failures : cache' = applyFetchBackoff(cache, failure, work.spec, clock) /\ matchingCache(cache, work.spec, work.uid)
      BY <2>2, Zenon DEF AnswerFails
    <3>2. PICK n : n = Least((IF cache.retryKey = retryInputKey(work.spec) /\ cache.class = failure.class THEN cache.failures ELSE 0) + 1, FailureCap)
      BY Zenon
    <3>3. cache' = [payload |-> cache.payload, fetchedAt |-> cache.fetchedAt, fetchKey |-> cache.fetchKey, uid |-> cache.uid,
                    next |-> clock + fetchRetryDelay(failure, clampRefreshInterval(work.spec.refresh), n),
                    failures |-> n, class |-> failure.class, retryKey |-> retryInputKey(work.spec)]
      BY <1>0, <3>1, <3>2, BackoffFields DEF Shape
    <3>4. cache.uid # 0
      <4>1. cache # NoEntry BY <3>1, Zenon DEF matchingCache
      <4>2. cache # NoEntry => cache.uid > 0 /\ cache.uid \in Nat BY Zenon DEF SourceInv, Kept
      <4> QED BY <4>1, <4>2
    <3>5. cache'.uid = cache.uid /\ cache'.fetchKey = cache.fetchKey /\ cache'.payload = cache.payload
            BY <3>3, Zenon
    <3> QED BY <3>4, <3>5, Empty, Zenon
  <2> QED BY <2>1, <2>2, Zenon DEF SetupFails, handleInsecureURL, AnswerFails
<1>2. ~Answered'
  <2>1. ASSUME NEW reason, NEW payload, work' = Outcome(work, reason, payload), reason \notin {"NotModified", "FetchSucceeded"}
        PROVE  ~Answered'
    <3>1. work'.reason = reason BY <1>0, <2>1, OutcomeFields DEF Shape
    <3> QED BY <2>1, <3>1, Zenon DEF Answered
  <2>2. CASE SetupFails BY <2>1, <2>2 DEF SetupFails
  <2>3. CASE handleInsecureURL BY <2>1, <2>3 DEF handleInsecureURL
  <2>4. CASE \E failure \in Failures : AnswerFails(failure)
    <3>1. PICK failure \in Failures : AnswerFails(failure) BY <2>4, Zenon
    <3>2. failure.class \in {"rateLimited", "auth", "transient"} BY Zenon DEF Failures
    <3>3. WipeReason(failure.class, work.spec.url) \in {"RateLimited", "AuthFailed", "InvalidSourceURL", "FetchFailed"}
            BY <3>2, Zenon DEF WipeReason
    <3>4. WipeReason(failure.class, work.spec.url) \notin {"NotModified", "FetchSucceeded"} BY <3>3, Zenon
    <3>5. work' = Outcome(work, "FetchFailedServingCache", cache.payload) \/ work' = Outcome(work, WipeReason(failure.class, work.spec.url), Nothing)
      BY <3>1, Zenon DEF AnswerFails
    <3> QED BY <2>1, <3>4, <3>5
  <2> QED BY <2>2, <2>3, <2>4, Zenon
<1>3. \A url \in Urls : Vouches(shared[url], url, cache', eph) BY <1>1, StillVouches, Zenon DEF FetcherInv
<1>4. OwnFetchIsCurrent' BY <1>2, NoNewAnswer, Zenon DEF FetcherInv
<1> QED BY <1>0, <1>1, <1>3, <1>4, Zenon DEF FetcherInv

(* A payload cut down to the selector or not at all; what the selector asks for; an answer of the source. *)
CutFor(p, sel) == p.cut \in {{}, sel}
Satisfies(p, sel) == FilterOMMs(p, sel).has = IF sel = {} THEN Sats ELSE sel \cap Sats
Serves(reason, payload, blind) ==
  work' = [stage |-> "write", now |-> work.now, uid |-> work.uid, spec |-> work.spec, reason |-> reason,
           payload |-> payload, origin |-> version, blind |-> blind, cold |-> work.cold]

(* A whole payload, cut down to the selector or not at all, holds what the selector asks for. *)
LEMMA WholeSelected ==
  ASSUME NEW p, Whole(p), p.v # 0, NEW sel, CutFor(p, sel), IsPayload(p)
  PROVE  Satisfies(p, sel)
<1>1. PICK some : some = IF sel = {} THEN p.has ELSE p.has \cap sel BY Zenon
<1>2. PICK cutdown : cutdown = FilterOMMs(p, sel) BY Zenon
<1>3. cutdown = [p EXCEPT !.has = some] BY <1>1, <1>2, Zenon DEF FilterOMMs
<1>4. cutdown = [v |-> p.v, has |-> some, from |-> p.from, by |-> p.by, cut |-> p.cut, at |-> p.at]
        BY <1>3, Zenon DEF IsPayload
<1>5. FilterOMMs(p, sel).has = some BY <1>2, <1>4
<1>6. some = IF sel = {} THEN Sats ELSE sel \cap Sats BY <1>1, Zenon DEF Whole, CutFor
<1> QED BY <1>5, <1>6, Zenon DEF Satisfies

(* An answer that passes on a whole payload of the current version. *)
LEMMA CurrentAnswer ==
  ASSUME Shape, NEW reason, NEW payload, NEW blind, IsPayload(payload), Whole(payload), version # 0,
         Serves(reason, payload, blind), ~blind => payload.v = version
  PROVE  OwnFetchIsCurrent'
<1>1. work'.blind = blind /\ work'.payload = payload /\ work'.spec = work.spec /\ work'.origin = version
        BY Zenon DEF Serves
<1> SUFFICES ASSUME ~blind, CutFor(payload, work.spec.sel)
             PROVE  Complete'
  BY <1>1, Zenon DEF OwnFetchIsCurrent, CutFor
<1>2. payload.v = version /\ payload.v # 0 BY Zenon
<1>3. Satisfies(payload, work.spec.sel) BY <1>2, WholeSelected, Zenon
<1>4. FilterOMMs(payload, work.spec.sel).has = IF work.spec.sel = {} THEN Sats ELSE work.spec.sel \cap Sats
  BY <1>3, Zenon DEF Satisfies
<1> QED BY <1>1, <1>2, <1>4, Zenon DEF Complete, FilterOMMs

LEMMA FetcherReserves == FetcherInv /\ SourceInv /\ AnswerReserves => FetcherInv'
<1> SUFFICES ASSUME FetcherInv, SourceInv, AnswerReserves PROVE FetcherInv' BY Zenon
<1>0. /\ matchingCache(cache, work.spec, work.uid) /\ work.stage = "ask" /\ NotModified /\ shared[work.spec.url].body = 0
      /\ version' = version /\ eph' = eph /\ durable' = durable /\ shared' = shared /\ cache.payload.has # {}
  BY Zenon DEF AnswerReserves
<1>1. Shape /\ Kept /\ version # 0 BY DEF SourceInv, FetcherInv
<1>2. cache # NoEntry /\ cache.fetchKey = fetchInputKey(work.spec) /\ cache.uid = work.uid /\ work.uid > 0 /\ work.uid \in Nat
  BY <1>0, <1>1, Matching, Zenon DEF Kept
<1>3. PICK kept : kept = [cache.payload EXCEPT !.at = clock] BY Zenon
<1>4. kept = [v |-> cache.payload.v, has |-> cache.payload.has, from |-> cache.payload.from, by |-> cache.payload.by,
              cut |-> cache.payload.cut, at |-> clock]
  BY <1>1, <1>3, Zenon DEF Shape, IsPayload
<1>5. kept.v = cache.payload.v /\ kept.has = cache.payload.has /\ kept.cut = cache.payload.cut BY <1>4, Zenon
<1>6. cache' = Entry(kept, clock, work.spec, work.uid) BY <1>3, Zenon DEF AnswerReserves
<1>7. cache'.payload = kept /\ cache'.fetchKey = fetchInputKey(work.spec) /\ cache'.uid = work.uid
        BY <1>6, EntryFields
<1>8. \A url \in Urls : Vouches(shared[url], url, cache', eph)
  <2>1. cache' # NoEntry BY <1>2, <1>7, Empty
  <2> QED BY <1>2, <1>5, <1>7, <2>1, StillVouches, Zenon DEF FetcherInv
<1>9. PICK blind : /\ blind = (shared[work.spec.url].by # work.uid)
                   /\ work' = [Outcome(work, "NotModified", cache.payload) EXCEPT !.origin = version, !.blind = blind]
  BY Zenon DEF AnswerReserves
<1>a. work' = [Outcome(work, "NotModified", cache.payload) EXCEPT !.origin = version, !.blind = blind]
        BY <1>9, Zenon
<1>b. ~blind => shared[work.spec.url].by = work.uid BY <1>9, Zenon
<1>10. work' = [stage |-> "write", now |-> work.now, uid |-> work.uid, spec |-> work.spec, reason |-> "NotModified",
                payload |-> cache.payload, origin |-> version, blind |-> blind, cold |-> work.cold]
  BY <1>a, AnsweredFields, Zenon
<1>11. ~blind => cache.payload.v = version
  <2>1. work.spec.url \in Urls /\ cache.fetchKey[2] = work.spec.url BY <1>1, <1>2 DEF Shape, Urls, fetchInputKey
  <2>2. Vouches(shared[work.spec.url], work.spec.url, cache, eph) BY <2>1, Zenon DEF FetcherInv
  <2>3. shared[work.spec.url].etag = version BY <1>0, Zenon DEF NotModified
  <2> SUFFICES ASSUME ~blind PROVE cache.payload.v = version BY Zenon
  <2>4. shared[work.spec.url].by = work.uid BY <1>b, Zenon
  <2>5. shared[work.spec.url].by # 0 BY <1>2, <2>4
  <2> QED BY <1>0, <1>1, <1>2, <2>1, <2>2, <2>3, <2>4, <2>5, Zenon DEF Vouches
<1>12. OwnFetchIsCurrent'
  <2>1. Serves("NotModified", cache.payload, blind) BY <1>10, Zenon DEF Serves
  <2>2. IsPayload(cache.payload) /\ Whole(cache.payload) BY <1>1, Zenon DEF Shape, FetcherInv
  <2> QED BY <1>1, <1>11, <2>1, <2>2, CurrentAnswer, Zenon
<1>13. Whole(kept) BY <1>5, Zenon DEF FetcherInv, Whole
<1> QED BY <1>0, <1>7, <1>8, <1>12, <1>13, Zenon DEF FetcherInv

(* A stored copy keeps its own validator; one whose elements are the same is left as it is. *)
LEMMA PersistTagged ==
  ASSUME NEW object, Tagged(object), NEW tracked, Whole(tracked), NEW spec, NEW uid, NEW at, NEW etag,
         tracked.has # {} /\ etag # 0 => tracked.v = etag
  PROVE  Tagged(persistOMMCache(object, tracked, spec, uid, at, etag))
<1>1. PICK o : o = persistOMMCache(object, tracked, spec, uid, at, etag) BY Zenon
<1>2. CASE o = object BY <1>1, <1>2, Zenon
<1>3. CASE tracked.has # {} /\ o = [payload |-> tracked, fetchedAt |-> at, fetchKey |-> fetchInputKey(spec), uid |-> uid, etag |-> etag]
  BY <1>1, <1>3 DEF Tagged
<1> QED BY <1>1, <1>2, <1>3, Zenon DEF persistOMMCache

LEMMA FetcherOk ==
  ASSUME FetcherInv, SourceInv, NEW persists \in BOOLEAN, AnswerOk(persists)
  PROVE  FetcherInv'
<1>0. Shape /\ work.spec \in Specs /\ version \in Nat /\ version > 0 /\ eph.uid \in Nat /\ eph.uid > 0
      /\ version' = version /\ eph' = eph /\ work.stage = "ask" /\ work.uid > 0
  BY Zenon DEF SourceInv, Shape, FetcherInv, AnswerOk
<1> DEFINE url      == work.spec.url
           reserve  == /\ NotModified /\ shared[url].body = 0
                       /\ matchingCache(cache, work.spec, work.uid) /\ cache.payload.has # {}
           body     == IF NotModified THEN shared[url].body ELSE version
           fetched  == [Catalogue(body, url, work.uid, clock) EXCEPT !.has = IF body = 0 THEN {} ELSE @]
           etag     == IF work.spec.type = "CelesTrak" THEN version ELSE 0
           stored   == persists /\ eph.live /\ work.uid = eph.uid
<1>1. PICK payload : payload = fetched BY Zenon
<1>2. payload = [v |-> body, has |-> IF body = 0 THEN {} ELSE Sats, from |-> url, by |-> work.uid, cut |-> {}, at |-> clock]
  BY <1>1, Zenon DEF Catalogue
<1>3. PICK tracked : tracked = ommCachePayload(payload, work.spec) BY Zenon
<1>4. /\ cache' = Entry(payload, clock, work.spec, work.uid)
      /\ shared' = IF work.spec.type = "CelesTrak" /\ ~NotModified THEN StoreDownload(url) ELSE shared
      /\ durable' = IF stored
                    THEN [durable EXCEPT !.hashed = persistOMMCache(@, tracked, work.spec, work.uid, clock, etag)]
                    ELSE durable
      /\ \E reason \in {"NotModified", "FetchSucceeded"} :
           work' = [Outcome(work, reason, payload) EXCEPT !.origin = version, !.blind = (body = 0)]
  BY <1>1, <1>3, Zenon DEF AnswerOk
<1>5. url \in Urls /\ Vouches(shared[url], url, cache, eph) BY <1>0, Zenon DEF Urls, FetcherInv
<1>6. body = 0 \/ body = version BY <1>5, Zenon DEF Vouches, NotModified
<1>7. NotModified => work.spec.type = "CelesTrak" /\ body = shared[url].body BY Zenon DEF NotModified
<1>8. ~NotModified => body = version BY Zenon
<1> HIDE DEF body, fetched, etag, stored, reserve
<1>9. /\ IsPayload(payload) /\ payload.v = body /\ payload.cut = {} /\ payload.has = (IF body = 0 THEN {} ELSE Sats) /\ Whole(payload)
  BY <1>2, Zenon DEF IsPayload, Whole
<1>10. Whole(tracked) /\ tracked.v = body BY <1>3, <1>9, WholeTracked, Zenon
<1>11. cache'.payload = payload /\ cache'.fetchKey = fetchInputKey(work.spec) /\ cache'.uid = work.uid /\ cache' # NoEntry
  <2>1. cache'.payload = payload /\ cache'.fetchKey = fetchInputKey(work.spec) /\ cache'.uid = work.uid
          BY <1>4, EntryFields
  <2> QED BY <1>0, <2>1, Empty
<1>12. fetchInputKey(work.spec)[2] = url BY Zenon DEF fetchInputKey
<1>13. \A u \in Urls : u # url => Vouches(shared[u], u, cache', eph)
  BY <1>11, <1>12, Zenon DEF FetcherInv, Vouches
<1>14. shared' = [u \in Urls |-> shared'[u]] /\ \A u \in Urls : Vouches(shared'[u], u, cache', eph')
  <2>1. CASE work.spec.type = "CelesTrak" /\ ~NotModified
    <3>1. shared' = [shared EXCEPT ![url] = [etag |-> version, body |-> version, by |-> 0]]
            BY <1>4, <2>1, Zenon DEF StoreDownload
    <3>2. Vouches([etag |-> version, body |-> version, by |-> 0], url, cache', eph')
            BY <1>0, NobodysValidator, Zenon
    <3>3. shared = [u \in Urls |-> shared[u]] BY Zenon DEF FetcherInv
    <3> QED BY <1>0, <1>13, <3>1, <3>2, <3>3, OneUrl, Zenon
  <2>2. CASE ~(work.spec.type = "CelesTrak" /\ ~NotModified)
    <3>1. shared' = shared BY <1>4, <2>2, Zenon
    <3>2. Vouches(shared[url], url, cache', eph)
      <4>1. CASE NotModified BY <1>5, <1>7, <1>9, <1>11, <4>1, Zenon DEF Vouches
      <4>2. CASE ~NotModified
        <5>1. shared[url].by = 0 BY <1>0, <1>5, <2>2, <4>2, SpecsAssumption, Zenon DEF Vouches, Conditional
        <5> QED BY <1>5, <1>11, <5>1, Zenon DEF Vouches
      <4> QED BY <4>1, <4>2, Zenon
    <3> QED BY <1>0, <1>13, <3>1, <3>2, Zenon DEF FetcherInv
  <2> QED BY <2>1, <2>2, Zenon
<1>15. Tagged(durable.hashed)' /\ Tagged(durable.legacy)'
  <2>1. CASE ~stored BY <1>4, <2>1, Zenon DEF FetcherInv
  <2>2. CASE stored
    <3>1. PICK hashed : hashed = persistOMMCache(durable.hashed, tracked, work.spec, work.uid, clock, etag)
            BY Zenon
    <3>2. durable' = [durable EXCEPT !.hashed = hashed] BY <1>4, <2>2, <3>1, Zenon
    <3>3. durable' = [hashed |-> hashed, legacy |-> durable.legacy] BY <1>0, <3>2, Zenon DEF Shape
    <3>4. tracked.has # {} /\ etag # 0 => tracked.v = etag BY <1>6, <1>10, Zenon DEF etag, Whole
    <3>5. Tagged(hashed) BY <1>10, <3>1, <3>4, PersistTagged, Zenon DEF FetcherInv
    <3> QED BY <3>3, <3>5, Zenon DEF FetcherInv
  <2> QED BY <2>1, <2>2, Zenon
<1>16. OwnFetchIsCurrent'
  <2>1. PICK reason \in {"NotModified", "FetchSucceeded"} :
          work' = [Outcome(work, reason, payload) EXCEPT !.origin = version, !.blind = (body = 0)]
    BY <1>4, Zenon
  <2>2. PICK blind : blind = (body = 0) BY Zenon
  <2>3. work' = [Outcome(work, reason, payload) EXCEPT !.origin = version, !.blind = blind] BY <2>1, <2>2, Zenon
  <2>4. work' = [stage |-> "write", now |-> work.now, uid |-> work.uid, spec |-> work.spec, reason |-> reason,
                 payload |-> payload, origin |-> version, blind |-> blind, cold |-> work.cold]
    BY <2>3, AnsweredFields, Zenon
  <2>5. ~blind => payload.v = version BY <1>6, <1>9, <2>2, Zenon
  <2>6. Serves(reason, payload, blind) BY <2>4, Zenon DEF Serves
  <2>7. version # 0 BY <1>0
  <2> QED BY <1>0, <1>9, <2>5, <2>6, <2>7, CurrentAnswer, Zenon
<1> QED BY <1>0, <1>9, <1>11, <1>14, <1>15, <1>16, Zenon DEF FetcherInv

LEMMA FetcherReconcile ==
  ASSUME FetcherInv, SourceInv, NEW readable \in BOOLEAN, Reconcile(readable)
  PROVE  FetcherInv'
<1>0. /\ Shape /\ eph.live /\ eph.spec \in Specs /\ eph.uid \in Nat /\ eph.uid > 0 /\ version' = version /\ eph' = eph
      /\ work.stage = "idle"
  BY Zenon DEF SourceInv, Shape, Reconcile
<1> DEFINE which == IF readable THEN Restorable(eph.spec, eph.uid) ELSE "none"
           c     == restoreOMMCache(which, eph.spec, eph.uid)
           w     == [Idle EXCEPT !.now = clock, !.uid = eph.uid, !.spec = eph.spec, !.cold = readable /\ cache = NoEntry]
           serve == cacheServe(c, eph.spec, eph.uid, clock)
           url   == eph.spec.url
<1>1. cache' = c /\ durable' = copyCacheForward(which) /\ shared' = SeedConditionalCache(which, eph.spec, eph.uid)
  BY Zenon DEF Reconcile
<1>2. work' = CASE serve = "window"  -> Outcome(w, "CachedRepropagation", c.payload)
                [] serve = "backoff" -> Outcome(w, "FetchFailedServingCache", c.payload)
                [] serve = "none"    -> [w EXCEPT !.stage = "ask"]
  BY Zenon DEF Reconcile
<1>3. \/ which = "none"
      \/ which \in {"hashed", "legacy"} /\ cache = NoEntry
  BY Zenon DEF Restorable
<1>4. serve \in {"window", "backoff", "none"} BY Zenon DEF cacheServe
<1> HIDE DEF which, c, w, serve
<1>5. ~Answered'
  <2>1. PICK begun : begun = w BY Zenon
  <2>2. IsWork(begun)
    <3>1. begun = [stage |-> "idle", now |-> clock, uid |-> eph.uid, spec |-> eph.spec, reason |-> "", payload |-> Nothing,
                   origin |-> 0, blind |-> FALSE, cold |-> (readable /\ cache = NoEntry)]
      BY <2>1, Zenon DEF w, Idle
    <3> QED BY <3>1, Zenon DEF IsWork
  <2>3. PICK p : p = c.payload BY Zenon
  <2>4. CASE serve = "window"
    <3>1. work' = Outcome(begun, "CachedRepropagation", p) BY <1>2, <2>1, <2>3, <2>4, Zenon
    <3>2. work'.reason = "CachedRepropagation" BY <2>2, <3>1, OutcomeFields
    <3> QED BY <3>2, Zenon DEF Answered
  <2>5. CASE serve = "backoff"
    <3>1. work' = Outcome(begun, "FetchFailedServingCache", p) BY <1>2, <2>1, <2>3, <2>5, Zenon
    <3>2. work'.reason = "FetchFailedServingCache" BY <2>2, <3>1, OutcomeFields
    <3> QED BY <3>2, Zenon DEF Answered
  <2>6. CASE serve = "none"
    <3>1. work' = [begun EXCEPT !.stage = "ask"] BY <1>2, <2>1, <2>6, Zenon
    <3>2. work'.stage = "ask" BY <2>2, <3>1, Zenon DEF IsWork
    <3> QED BY <3>2, Zenon DEF Answered
  <2> QED BY <1>4, <2>4, <2>5, <2>6, Zenon
<1>6. OwnFetchIsCurrent' BY <1>5, NoNewAnswer, Zenon DEF FetcherInv
<1>7. CASE which = "none"
  <2>1. cache' = cache /\ durable' = durable /\ shared' = shared
    BY <1>1, <1>7, Zenon DEF c, restoreOMMCache, copyCacheForward, SeedConditionalCache
  <2> QED BY <1>0, <1>6, <2>1, Zenon DEF FetcherInv
<1>8. CASE which \in {"hashed", "legacy"} /\ cache = NoEntry
  <2>1. PICK object : object = durable[which] BY Zenon
  <2>2. Tagged(object) BY <1>8, <2>1, Zenon DEF FetcherInv
  <2>3. cache' = Entry(object.payload, object.fetchedAt, eph.spec, eph.uid)
          BY <1>1, <1>8, <2>1, Zenon DEF c, restoreOMMCache
  <2>4. cache'.payload = object.payload /\ cache'.fetchKey = fetchInputKey(eph.spec) /\ cache'.uid = eph.uid
          BY <2>3, EntryFields
  <2>5. cache' # NoEntry /\ Whole(cache'.payload) BY <1>0, <2>2, <2>4, Empty DEF Tagged
  <2>6. Tagged(durable.hashed)' /\ Tagged(durable.legacy)'
    <3>1. durable' = durable \/ durable' = [durable EXCEPT !.hashed = durable.legacy]
            BY <1>1, Zenon DEF copyCacheForward
    <3>2. durable' = durable \/ durable' = [hashed |-> durable.legacy, legacy |-> durable.legacy]
            BY <1>0, <3>1, Zenon DEF Shape
    <3> QED BY <3>2 DEF FetcherInv
  <2>7. \A u \in Urls : shared[u].by # eph.uid BY <1>0, <1>8, Zenon DEF FetcherInv, Vouches
  <2>8. \A u \in Urls : Vouches(shared[u], u, cache', eph') BY <1>0, <2>4, <2>5, <2>7, Zenon
                                                               DEF FetcherInv, Vouches
  <2>9. CASE shared' = shared BY <1>0, <1>6, <2>5, <2>6, <2>8, <2>9, Zenon DEF FetcherInv
  <2>10. CASE eph.spec.type = "CelesTrak" /\ shared[url].etag = 0
    <3>1. url \in Urls /\ Conditional(url) BY <1>0, <2>10, Zenon DEF Urls, Conditional
    <3>2. PICK s : s = shared[url] BY Zenon
    <3>3. s = [etag |-> s.etag, body |-> s.body, by |-> s.by] /\ (s.body # 0 => s.body = s.etag) /\ s.etag = 0
      BY <2>10, <3>1, <3>2, Zenon DEF FetcherInv, Vouches
    <3>4. PICK r : r = [s EXCEPT !.etag = object.etag, !.by = eph.uid] BY Zenon
    <3>5. PICK b : b = s.body BY Zenon
    <3>6. r = [etag |-> object.etag, body |-> b, by |-> eph.uid] BY <3>3, <3>4, <3>5, Zenon
    <3>7. shared' = [shared EXCEPT ![url] = r] BY <1>1, <1>8, <2>1, <2>10, <3>2, <3>4, Zenon
                                                  DEF SeedConditionalCache
    <3>8. r.etag = object.etag /\ r.body = 0 /\ r.by = eph.uid /\ r = [etag |-> r.etag, body |-> r.body, by |-> r.by]
      BY <3>3, <3>5, <3>6, Zenon
    <3>9. Vouches(r, url, cache', eph') BY <1>0, <2>2, <2>4, <2>5, <3>1, <3>8 DEF Vouches, Tagged
    <3>10. shared = [u \in Urls |-> shared[u]] BY Zenon DEF FetcherInv
    <3>11. shared' = [u \in Urls |-> shared'[u]] /\ \A u \in Urls : Vouches(shared'[u], u, cache', eph')
      BY <2>8, <3>7, <3>9, <3>10, OneUrl, Zenon
    <3> QED BY <1>0, <1>6, <2>5, <2>6, <3>11, Zenon DEF FetcherInv
  <2> QED BY <1>1, <2>9, <2>10, Zenon DEF SeedConditionalCache
<1> QED BY <1>3, <1>7, <1>8, Zenon

LEMMA NextFetcher == FetcherInv /\ SourceInv /\ [Next]_vars => FetcherInv'
BY FetcherEnvironment, FetcherIdle, FetcherRefused, FetcherReserves, FetcherOk, FetcherReconcile, Zenon
   DEF Next, Worker

(* OwnFetchIsCurrent, for all catalogues, selectors, siblings and          *)
(* restarts: when the source has answered, what is propagated is its       *)
(* current catalogue, unless the validator was seeded from a sibling's     *)
(* copy or the payload was cut down to another selector.  The validator    *)
(* that SeedConditionalCache takes from the object's own copy goes with    *)
(* the very payload that restoreOMMCache puts into memory.                 *)
THEOREM OwnFetchesCurrent == Spec => []OwnFetchIsCurrent
<1>1. FetcherInv => OwnFetchIsCurrent BY Zenon DEF FetcherInv
<1> QED BY <1>1, InitSource, InitFetcher, NextStep, NextFetcher, PTL DEF Spec

(***************************************************************************)
(* Versions.  The copies only move forward, and what is in memory is never *)
(* behind what a restart would bring back.                                 *)
(***************************************************************************)
SameSource(c, object) == c.uid = object.uid /\ c.fetchKey = object.fetchKey

(* The durable copy of an object is only ever replaced by one that is at least as new. *)
DurableNeverGoesBack ==
  [][durable'.hashed # NoObject => durable'.hashed.payload.v >= durable.hashed.payload.v]_vars

(* An entry with elements is at least as new as the durable copy of the same object and source. *)
MemoryNotBehind ==
  cache.payload.has # {} /\ SameSource(cache, durable.hashed) => cache.payload.v >= durable.hashed.payload.v

VersionInv ==
  /\ durable.hashed.payload.v \in Nat /\ durable.hashed.payload.v <= version
  /\ durable.legacy.payload.v \in Nat /\ durable.legacy.payload.v <= version
  /\ cache.payload.v \in Nat
  /\ MemoryNotBehind

(* What a step has to show: the new copy is no older than the one it replaces. *)
Forward == durable'.hashed # NoObject => durable'.hashed.payload.v >= durable.hashed.payload.v

LEMMA NothingIsOldest == NoObject.payload.v = 0 /\ NoEntry.payload.v = 0 /\ NoEntry.payload.has = {}
BY Zenon DEF NoObject, NoEntry, Nothing

LEMMA VersionGrows ==
  ASSUME FetcherInv, [Next]_vars
  PROVE  version \in Nat /\ version' \in Nat /\ version <= version'
<1>1. version' = version \/ version' = version + 1
  BY Zenon
     DEF Next, Worker, Tick, Publish, Delete, Recreate, Restart, EditSpec, SiblingFetches, SiblingRestores, Finish,
         ReconcileGone, SetupFails, handleInsecureURL, AnswerReserves, AnswerOk, AnswerFails, Reconcile, vars
<1>2. version \in Nat BY Zenon DEF FetcherInv
<1> QED BY <1>1, <1>2

(* The copies stay as they are, and the entry keeps its elements or is dropped. *)
LEMMA SameVersions ==
  ASSUME FetcherInv, VersionInv, [Next]_vars, durable' = durable,
         \/ cache' = NoEntry
         \/ /\ cache'.uid = cache.uid /\ cache'.fetchKey = cache.fetchKey
            /\ cache'.payload.v = cache.payload.v /\ cache'.payload.has = cache.payload.has
  PROVE  VersionInv' /\ Forward
<1>1. version \in Nat /\ version' \in Nat /\ version <= version' BY VersionGrows, Zenon
<1>2. PICK h, l : h = durable.hashed.payload.v /\ l = durable.legacy.payload.v BY Zenon
<1>3. h \in Nat /\ l \in Nat /\ h <= version /\ l <= version BY <1>2, Zenon DEF VersionInv
<1>4. h <= version' /\ l <= version' /\ h >= h BY <1>1, <1>3
<1>5. cache'.payload.v \in Nat BY NothingIsOldest DEF VersionInv
<1>6. MemoryNotBehind' BY NothingIsOldest, Zenon DEF VersionInv, MemoryNotBehind, SameSource
<1>7. durable'.hashed.payload.v = h /\ durable'.legacy.payload.v = l BY <1>2, Zenon
<1> QED BY <1>2, <1>3, <1>4, <1>5, <1>6, <1>7, Zenon DEF VersionInv, Forward

LEMMA FailedVersions ==
  ASSUME SourceInv, FetcherInv, VersionInv, [Next]_vars, NEW failure \in Failures, AnswerFails(failure)
  PROVE  VersionInv' /\ Forward
<1>1. durable' = durable BY Zenon DEF AnswerFails
<1>2. CASE cache' = cache BY <1>1, <1>2, SameVersions, Zenon
<1>3. CASE cache' = applyFetchBackoff(cache, failure, work.spec, clock)
  <2>1. IsEntry(cache) BY Zenon DEF SourceInv, Shape
  <2>2. PICK failures, class, retryKey, next :
          cache' = [cache EXCEPT !.failures = failures, !.class = class, !.retryKey = retryKey, !.next = next]
    BY <1>3, Zenon DEF applyFetchBackoff
  <2>3. cache' = [payload |-> cache.payload, fetchedAt |-> cache.fetchedAt, fetchKey |-> cache.fetchKey,
                  uid |-> cache.uid, next |-> next, failures |-> failures, class |-> class, retryKey |-> retryKey]
    BY <2>1, <2>2, Zenon DEF IsEntry
  <2>4. cache'.payload = cache.payload /\ cache'.uid = cache.uid /\ cache'.fetchKey = cache.fetchKey
          BY <2>3, Zenon
  <2> QED BY <1>1, <2>4, SameVersions, Zenon
<1> QED BY <1>2, <1>3, Zenon DEF AnswerFails

LEMMA ReservedVersions ==
  ASSUME SourceInv, FetcherInv, VersionInv, [Next]_vars, AnswerReserves
  PROVE  VersionInv' /\ Forward
<1>1. matchingCache(cache, work.spec, work.uid) /\ durable' = durable BY Zenon DEF AnswerReserves
<1>2. cache.fetchKey = fetchInputKey(work.spec) /\ cache.uid = work.uid BY <1>1, Zenon DEF matchingCache
<1>3. PICK kept : kept = [cache.payload EXCEPT !.at = clock] BY Zenon
<1>4. kept.v = cache.payload.v /\ kept.has = cache.payload.has
  <2>1. kept = [v |-> cache.payload.v, has |-> cache.payload.has, from |-> cache.payload.from,
                by |-> cache.payload.by, cut |-> cache.payload.cut, at |-> clock]
    BY <1>3, Zenon DEF SourceInv, Shape, IsPayload
  <2> QED BY <2>1, Zenon
<1>5. cache' = Entry(kept, clock, work.spec, work.uid) BY <1>3, Zenon DEF AnswerReserves
<1>6. cache'.payload = kept /\ cache'.fetchKey = fetchInputKey(work.spec) /\ cache'.uid = work.uid
  BY <1>5, EntryFields
<1> QED BY <1>1, <1>2, <1>4, <1>6, SameVersions, Zenon

(* What is made durable is the version that the source publishes now. *)
LEMMA OkVersions ==
  ASSUME SourceInv, FetcherInv, VersionInv, [Next]_vars, NEW persists \in BOOLEAN, AnswerOk(persists)
  PROVE  VersionInv' /\ Forward
<1>0. Shape /\ work.spec \in Specs /\ version \in Nat /\ version' = version
  BY Zenon DEF SourceInv, Shape, FetcherInv, AnswerOk
<1> DEFINE url      == work.spec.url
           body     == IF NotModified THEN shared[url].body ELSE version
           fetched  == [Catalogue(body, url, work.uid, clock) EXCEPT !.has = IF body = 0 THEN {} ELSE @]
           etag     == IF work.spec.type = "CelesTrak" THEN version ELSE 0
           stored   == persists /\ eph.live /\ work.uid = eph.uid
<1>1. PICK payload : payload = fetched BY Zenon
<1>2. payload = [v |-> body, has |-> IF body = 0 THEN {} ELSE Sats, from |-> url, by |-> work.uid, cut |-> {}, at |-> clock]
  BY <1>1, Zenon DEF Catalogue
<1>3. PICK tracked : tracked = ommCachePayload(payload, work.spec) BY Zenon
<1>4. /\ cache' = Entry(payload, clock, work.spec, work.uid)
      /\ durable' = IF stored
                    THEN [durable EXCEPT !.hashed = persistOMMCache(@, tracked, work.spec, work.uid, clock, etag)]
                    ELSE durable
  BY <1>1, <1>3, Zenon DEF AnswerOk
<1>5. url \in Urls /\ Vouches(shared[url], url, cache, eph) BY <1>0, Zenon DEF Urls, FetcherInv
<1>6. body = 0 \/ body = version BY <1>5, Zenon DEF Vouches, NotModified
<1> HIDE DEF body, fetched, etag, stored
<1>7. /\ IsPayload(payload) /\ payload.v = body /\ payload.cut = {} /\ Whole(payload)
      /\ payload.has # {} => body = version
  BY <1>2, <1>6, Zenon DEF IsPayload, Whole
<1>8. Whole(tracked) /\ tracked.v = body BY <1>3, <1>7, WholeTracked, Zenon
<1>9. tracked.has # {} => tracked.v = version BY <1>6, <1>8, Zenon DEF Whole
<1>10. cache'.payload = payload BY <1>4, EntryFields
<1>11. cache'.payload.v \in Nat /\ (cache'.payload.has # {} => cache'.payload.v = version)
  BY <1>0, <1>6, <1>7, <1>10
<1>12. PICK hashed :
         /\ durable' = [hashed |-> hashed, legacy |-> durable.legacy]
         /\ hashed = durable.hashed \/ hashed.payload.v = version
  <2>1. CASE ~stored
    <3>1. durable' = [hashed |-> durable.hashed, legacy |-> durable.legacy] BY <1>0, <1>4, <2>1, Zenon DEF Shape
    <3> QED BY <3>1, Zenon
  <2>2. CASE stored
    <3>1. PICK object : object = persistOMMCache(durable.hashed, tracked, work.spec, work.uid, clock, etag)
            BY Zenon
    <3>2. durable' = [durable EXCEPT !.hashed = object] BY <1>4, <2>2, <3>1, Zenon
    <3>3. durable' = [hashed |-> object, legacy |-> durable.legacy] BY <1>0, <3>2, Zenon DEF Shape
    <3>4. CASE object = durable.hashed BY <3>3, <3>4, Zenon
    <3>5. CASE tracked.has # {} /\ object = [payload |-> tracked, fetchedAt |-> clock,
                                             fetchKey |-> fetchInputKey(work.spec), uid |-> work.uid, etag |-> etag]
      <4>1. object.payload.v = version BY <1>9, <3>5, Zenon
      <4> QED BY <3>3, <4>1, Zenon
    <3> QED BY <3>1, <3>4, <3>5, Zenon DEF persistOMMCache
  <2> QED BY <2>1, <2>2, Zenon
<1>13. durable'.hashed = hashed /\ durable'.legacy = durable.legacy BY <1>12, Zenon
<1>14. PICK h : h = hashed.payload.v BY Zenon
<1>15. PICK old \in Nat : old = durable.hashed.payload.v /\ old <= version BY Zenon DEF VersionInv
<1>16. h = old \/ h = version BY <1>12, <1>14, <1>15, Zenon
<1>17. h \in Nat /\ h <= version /\ h >= old /\ version >= h BY <1>0, <1>15, <1>16
<1>18. durable'.hashed.payload.v = h BY <1>13, <1>14, Zenon
<1>19. MemoryNotBehind' BY <1>11, <1>17, <1>18, Zenon DEF MemoryNotBehind
<1> QED BY <1>0, <1>11, <1>13, <1>15, <1>17, <1>18, <1>19, Zenon DEF VersionInv, Forward

(* A restart resumes from the copy itself; one of an older release is copied only to where there is none. *)
LEMMA RestoredVersions ==
  ASSUME SourceInv, FetcherInv, VersionInv, [Next]_vars, NEW readable \in BOOLEAN, Reconcile(readable)
  PROVE  VersionInv' /\ Forward
<1>0. Shape /\ version' = version /\ version \in Nat BY Zenon DEF SourceInv, FetcherInv, Reconcile
<1>1. PICK which : which = IF readable THEN Restorable(eph.spec, eph.uid) ELSE "none" BY Zenon
<1>2. cache' = restoreOMMCache(which, eph.spec, eph.uid) /\ durable' = copyCacheForward(which)
  BY <1>1, Zenon DEF Reconcile
<1>3. \/ which = "none"
      \/ /\ which = "hashed" /\ durable.hashed.uid = eph.uid /\ durable.hashed.fetchKey = fetchInputKey(eph.spec)
      \/ /\ which = "legacy" /\ ~hydrateFromCacheObject(durable.hashed, eph.spec, eph.uid)
  BY <1>1, Zenon DEF Restorable, hydrateFromCacheObject
<1>4. CASE which = "none"
  <2>1. cache' = cache /\ durable' = durable BY <1>2, <1>4, Zenon DEF restoreOMMCache, copyCacheForward
  <2> QED BY <2>1, SameVersions, Zenon
<1>5. PICK h \in Nat, l \in Nat : /\ h = durable.hashed.payload.v /\ l = durable.legacy.payload.v
                                  /\ h <= version /\ l <= version
  BY Zenon DEF VersionInv
<1>6. h >= h /\ l >= l /\ l >= 0 BY <1>5
<1>7. CASE which = "hashed"
  <2>1. durable' = durable BY <1>2, <1>7, Zenon DEF copyCacheForward
  <2>2. cache' = Entry(durable.hashed.payload, durable.hashed.fetchedAt, eph.spec, eph.uid)
    BY <1>2, <1>7, Zenon DEF restoreOMMCache
  <2>3. cache'.payload = durable.hashed.payload BY <2>2, EntryFields
  <2> QED BY <1>0, <1>5, <1>6, <2>1, <2>3, Zenon DEF VersionInv, Forward, MemoryNotBehind
<1>8. CASE which = "legacy" /\ ~hydrateFromCacheObject(durable.hashed, eph.spec, eph.uid)
  <2>1. cache' = Entry(durable.legacy.payload, durable.legacy.fetchedAt, eph.spec, eph.uid)
    BY <1>2, <1>8, Zenon DEF restoreOMMCache
  <2>2. cache'.payload = durable.legacy.payload /\ cache'.fetchKey = fetchInputKey(eph.spec) /\ cache'.uid = eph.uid
    BY <2>1, EntryFields
  <2>3. CASE durable.hashed = NoObject
    <3>1. durable' = [durable EXCEPT !.hashed = durable.legacy] BY <1>2, <1>8, <2>3, Zenon DEF copyCacheForward
    <3>2. durable' = [hashed |-> durable.legacy, legacy |-> durable.legacy] BY <1>0, <3>1, Zenon DEF Shape
    <3>3. durable'.hashed = durable.legacy /\ durable'.legacy = durable.legacy BY <3>2, Zenon
    <3>4. durable.hashed.payload.v = 0 BY <2>3, NothingIsOldest, Zenon
    <3> QED BY <1>0, <1>5, <1>6, <2>2, <3>3, <3>4, Zenon DEF VersionInv, Forward, MemoryNotBehind
  <2>4. CASE durable.hashed # NoObject
    <3>1. durable' = durable BY <1>2, <2>4, Zenon DEF copyCacheForward
    <3>2. ~SameSource(cache', durable'.hashed)
      BY <1>8, <2>2, <2>4, <3>1, Zenon DEF SameSource, hydrateFromCacheObject
    <3> QED BY <1>0, <1>5, <1>6, <2>2, <3>1, <3>2, Zenon DEF VersionInv, Forward, MemoryNotBehind
  <2> QED BY <2>3, <2>4, Zenon
<1> QED BY <1>3, <1>4, <1>7, <1>8, Zenon

LEMMA NextVersion == SourceInv /\ FetcherInv /\ VersionInv /\ [Next]_vars => VersionInv' /\ Forward
<1> SUFFICES ASSUME SourceInv, FetcherInv, VersionInv, [Next]_vars PROVE VersionInv' /\ Forward BY Zenon
<1>1. CASE Recreate
  <2>1. PICK legacy \in {durable.legacy, NoObject} : durable' = [hashed |-> NoObject, legacy |-> legacy]
    BY <1>1, Zenon DEF Recreate
  <2>2. cache' = cache /\ version' = version BY <1>1, Zenon DEF Recreate
  <2>3. durable'.hashed = NoObject /\ durable'.legacy = legacy BY <2>1, Zenon
  <2>4. version \in Nat BY Zenon DEF FetcherInv
  <2>5. PICK v \in Nat : v = cache.payload.v BY Zenon DEF VersionInv
  <2>6. 0 \in Nat /\ 0 <= version /\ v >= 0 BY <2>4, <2>5
  <2>7. MemoryNotBehind' BY <2>2, <2>3, <2>5, <2>6, NothingIsOldest, Zenon DEF MemoryNotBehind
  <2> QED BY <2>1, <2>2, <2>3, <2>6, <2>7, NothingIsOldest, Zenon DEF VersionInv, Forward
<1>2. CASE durable' = durable /\ (cache' = cache \/ cache' = NoEntry)
  BY <1>2, SameVersions, Zenon
<1>3. CASE Worker
  BY <1>2, <1>3, FailedVersions, ReservedVersions, OkVersions, RestoredVersions, Zenon
     DEF Worker, Finish, ReconcileGone, SetupFails, handleInsecureURL
<1>4. CASE \/ Tick \/ Publish \/ Delete \/ Restart \/ (\E spec \in Specs : EditSpec(spec))
           \/ (\E url : SiblingFetches(url) \/ \E etag : SiblingRestores(url, etag)) \/ UNCHANGED vars
  BY <1>2, <1>4, Zenon DEF Tick, Publish, Delete, Restart, EditSpec, SiblingFetches, SiblingRestores, vars
<1> QED BY <1>1, <1>3, <1>4, Zenon DEF Next

LEMMA InitVersion == Init => VersionInv
<1> SUFFICES ASSUME Init PROVE VersionInv BY Zenon
<1>1. version = 1 /\ cache = NoEntry BY Zenon DEF Init
<1>2. PICK legacy \in LegacyObjects(FirstSpec) : durable = [hashed |-> NoObject, legacy |-> legacy]
  BY Zenon DEF Init
<1>3. legacy.payload.v = 0 \/ legacy.payload.v = 1
  <2>1. CASE legacy = NoObject BY <2>1, NothingIsOldest, Zenon
  <2>2. CASE legacy # NoObject
    <3>1. PICK p : p = Catalogue(1, FirstSpec.url, 1, 0) BY Zenon
    <3>2. IsPayload(p) /\ Whole(p) /\ p.cut = {} /\ p.v = 1 BY <3>1 DEF Catalogue, IsPayload, Whole
    <3>3. PICK tracked : tracked = ommCachePayload(p, FirstSpec) BY Zenon
    <3>4. tracked.v = 1 BY <3>2, <3>3, WholeTracked, Zenon
    <3>5. legacy.payload = tracked BY <1>2, <2>2, <3>1, <3>3 DEF LegacyObjects
    <3> QED BY <3>4, <3>5, Zenon
  <2> QED BY <2>1, <2>2, Zenon
<1>4. durable.hashed = NoObject /\ durable.legacy = legacy BY <1>2, Zenon
<1>5. MemoryNotBehind BY <1>1, NothingIsOldest, Zenon DEF MemoryNotBehind
<1>6. durable.legacy.payload.v \in Nat /\ durable.legacy.payload.v <= 1 BY <1>3, <1>4
<1>7. 0 \in Nat /\ 0 <= 1 OBVIOUS
<1> QED BY <1>1, <1>4, <1>5, <1>6, <1>7, NothingIsOldest, Zenon DEF VersionInv

(* The durable copy never goes back: whatever a failing write, a shared validator, an older release or a
   restart in between, persistOMMCache and copyCacheForward replace it only by elements that are at least as
   new. *)
THEOREM DurableMovesForward == Spec => DurableNeverGoesBack
<1>1. SourceInv /\ FetcherInv /\ VersionInv /\ [Next]_vars =>
        [durable'.hashed # NoObject => durable'.hashed.payload.v >= durable.hashed.payload.v]_vars
  BY NextVersion, Zenon DEF Forward
<1> QED
  BY <1>1, InitSource, InitFetcher, InitVersion, NextStep, NextFetcher, NextVersion, PTL
     DEF Spec, DurableNeverGoesBack

(* Elements in memory are never older than those that a restart would resume from: what a healthy reconcile
   made durable, or restored, is what it went on with or older (restoreOMMCache, persistOMMCache). *)
THEOREM MemoryLeadsDurable == Spec => []MemoryNotBehind
<1>1. VersionInv => MemoryNotBehind BY Zenon DEF VersionInv
<1> QED BY <1>1, InitSource, InitFetcher, InitVersion, NextStep, NextFetcher, NextVersion, PTL DEF Spec
=============================================================================
