--------------------------- MODULE EphemerisSource ---------------------------
(***************************************************************************)
(* Where a SatelliteEphemeris gets its orbital elements: the acquisition   *)
(* half of its reconciler.  A reconcile is answered from the in-memory     *)
(* cache while the refresh window or a retry backoff lasts, and otherwise  *)
(* asks the source.  What it obtains is kept in a ConfigMap, from which a  *)
(* restarted process resumes.  The CelesTrak fetcher is shared: its        *)
(* validators and bodies are kept per URL, for all objects.                *)
(*                                                                         *)
(* A payload is a version of the upstream catalogue, with the satellites   *)
(* it still holds.  Time is in ticks of the shortest retry delay.          *)
(***************************************************************************)
EXTENDS Integers, FiniteSets

CONSTANTS
  Specs,              \* the specs users may give: [type, url, sel, cred, refresh]
  FirstSpec,          \* the spec the object is created with
  Sats,               \* satellites in the catalogue
  OffOrigin,          \* Space-Track URLs that are not on the configured origin
  HttpUrls,           \* cleartext URLs, whose host may resolve to a public address
  MinRefresh, MaxRefresh,   \* bounds of the refresh interval
  AuthBackoff,        \* maxAuthRetryBackoff
  RetryAfters,        \* the Retry-After delays a source may ask for
  Mirrored,           \* whether all URLs publish the same elements
  MaxEvents,          \* how many edits, deletions, restarts, publications and steps of siblings may happen
  MaxClock, FailureCap   \* bounds

Nowhere == ""
(* A URL is a place, and is read by one protocol. *)
ASSUME SpecsAssumption ==
  /\ FirstSpec \in Specs
  /\ \A spec \in Specs : spec.url # Nowhere /\ spec.refresh \in Int
  /\ \A spec, other \in Specs : spec.url = other.url => spec.type = other.type
  /\ \A spec \in Specs : spec.url \in OffOrigin => spec.type = "SpaceTrack"
ASSUME SourceAssumption ==
  /\ MinRefresh \in Nat \ {0} /\ MaxRefresh \in Nat /\ MinRefresh =< MaxRefresh /\ AuthBackoff \in Nat \ {0}
  /\ RetryAfters \subseteq Nat /\ Mirrored \in BOOLEAN
  /\ MaxEvents \in Nat /\ MaxClock \in Nat /\ FailureCap \in 1..10

VARIABLES
  clock,
  version,     \* the version of the catalogue that the sources publish
  eph,         \* the stored object: uid and spec
  cache,       \* ommCache: the in-memory entry of the object's name
  durable,     \* the OMM-cache ConfigMaps: the one named after the uid, and one of an older release
  shared,      \* the CelesTrak fetcher: validator and body per URL
  work,        \* the reconcile in flight
  events,      \* how many events of the environment have happened
  asked,       \* history: the last failed answer that the cache entry took note of
  secured      \* history: the source whose payload was last reported durable for this uid

vars == <<clock, version, eph, cache, durable, shared, work, events, asked, secured>>

Urls == {spec.url : spec \in Specs}
(* A payload: its version, the satellites it holds, and, as history, the URL it came from, the object that
   obtained it, the selector it was cut down to ({}: none) and when the source last vouched for it. *)
Nothing == [v |-> 0, has |-> {}, from |-> Nowhere, by |-> 0, cut |-> {}, at |-> 0]
Catalogue(v, url, uid, at) == [v |-> v, has |-> Sats, from |-> url, by |-> uid, cut |-> {}, at |-> at]

(* FilterOMMs: an empty selector keeps every satellite. *)
FilterOMMs(payload, sel) ==
  [payload EXCEPT !.has = IF sel = {} THEN @ ELSE @ \cap sel]

clampRefreshInterval(refresh) ==
  IF refresh < MinRefresh THEN MinRefresh ELSE IF refresh > MaxRefresh THEN MaxRefresh ELSE refresh

Least(a, b) == IF a < b THEN a ELSE b
Greatest(a, b) == IF a < b THEN b ELSE a

(***************************************************************************)
(* Failures and the backoff they arm.                                      *)
(***************************************************************************)
Failures == [class : {"rateLimited"}, retryAfter : RetryAfters]
            \cup [class : {"auth", "transient"}, retryAfter : {0}]

fetchRetryDelay(failure, interval, failures) ==
  CASE failure.class = "rateLimited" -> Greatest(interval, failure.retryAfter)
    [] failure.class = "auth"        -> Least(interval, AuthBackoff)
    [] failure.class = "transient"   -> Least(2 ^ Greatest(failures - 1, 0), interval)

retryInputKey(spec) == <<spec.cred, clampRefreshInterval(spec.refresh)>>
fetchInputKey(spec) == <<spec.type, spec.url>>
NoKey == <<"", Nowhere>>

NoEntry == [payload |-> Nothing, fetchedAt |-> 0, fetchKey |-> NoKey, uid |-> 0, next |-> 0,
            failures |-> 0, class |-> "transient", retryKey |-> <<"", 0>>]
Entry(payload, at, spec, uid) ==
  [payload |-> payload, fetchedAt |-> at, fetchKey |-> fetchInputKey(spec), uid |-> uid, next |-> 0,
   failures |-> 0, class |-> "transient", retryKey |-> <<"", 0>>]

(* Fault: the failures of another class of error still count. *)
BackoffKeepsCount(c, failure, spec, now) ==
  LET failures == Least((IF c.retryKey # retryInputKey(spec) THEN 0 ELSE c.failures) + 1, FailureCap)
  IN  [c EXCEPT !.failures = failures, !.class = failure.class, !.retryKey = retryInputKey(spec),
                !.next = now + fetchRetryDelay(failure, clampRefreshInterval(spec.refresh), failures)]
applyFetchBackoff(c, failure, spec, now) ==
  LET same     == c.retryKey = retryInputKey(spec) /\ c.class = failure.class
      failures == Least((IF same THEN c.failures ELSE 0) + 1, FailureCap)
  IN  [c EXCEPT !.failures = failures, !.class = failure.class, !.retryKey = retryInputKey(spec),
                !.next = now + fetchRetryDelay(failure, clampRefreshInterval(spec.refresh), failures)]

(***************************************************************************)
(* The in-memory entry.                                                    *)
(***************************************************************************)
(* Fault: an entry of the same name is taken for the object's own. *)
MatchingByName(c, spec, uid) == c # NoEntry /\ c.fetchKey = fetchInputKey(spec)
matchingCache(c, spec, uid) == c # NoEntry /\ c.fetchKey = fetchInputKey(spec) /\ c.uid = uid

cacheServe(c, spec, uid, now) ==
  IF ~matchingCache(c, spec, uid) THEN "none"
  ELSE IF now - c.fetchedAt < clampRefreshInterval(spec.refresh) THEN "window"
  ELSE IF now < c.next /\ c.retryKey = retryInputKey(spec) THEN "backoff" ELSE "none"

(***************************************************************************)
(* The durable copy.                                                       *)
(***************************************************************************)
NoObject == [payload |-> Nothing, fetchedAt |-> 0, fetchKey |-> NoKey, uid |-> 0, etag |-> 0]

ommCachePayload(payload, spec) == [FilterOMMs(payload, spec.sel) EXCEPT !.cut = spec.sel]

SameDigest(p, q) == p.v = q.v /\ p.has = q.has /\ (Mirrored \/ p.from = q.from)

(* Fault: the ConfigMap is created and never updated. *)
PersistOnce(object, payload, spec, uid, now, etag) ==
  IF payload.has = {} \/ object # NoObject THEN object
  ELSE [payload |-> payload, fetchedAt |-> now, fetchKey |-> fetchInputKey(spec), uid |-> uid, etag |-> etag]
persistOMMCache(object, payload, spec, uid, now, etag) ==
  IF payload.has = {} \/ SameDigest(object.payload, payload) THEN object
  ELSE [payload |-> payload, fetchedAt |-> now, fetchKey |-> fetchInputKey(spec), uid |-> uid, etag |-> etag]

hydrateFromCacheObject(object, spec, uid) ==
  /\ object # NoObject
  /\ object.uid = uid
  /\ object.fetchKey = fetchInputKey(spec)

(* restoreOMMCache: the object to resume from, if the memory is cold. *)
Restorable(spec, uid) ==
  IF cache # NoEntry THEN "none"
  ELSE IF hydrateFromCacheObject(durable.hashed, spec, uid) THEN "hashed"
  ELSE IF hydrateFromCacheObject(durable.legacy, spec, uid) THEN "legacy" ELSE "none"

(* Fault: a restored entry counts as fetched now. *)
RestoreAsFetched(which, spec, uid) ==
  IF which = "none" THEN cache ELSE Entry(durable[which].payload, clock, spec, uid)
restoreOMMCache(which, spec, uid) ==
  IF which = "none" THEN cache ELSE Entry(durable[which].payload, durable[which].fetchedAt, spec, uid)

copyCacheForward(which) ==
  IF which = "legacy" /\ durable.hashed = NoObject THEN [durable EXCEPT !.hashed = durable.legacy] ELSE durable

SeedConditionalCache(which, spec, uid) ==
  IF which # "none" /\ spec.type = "CelesTrak" /\ shared[spec.url].etag = 0
  THEN [shared EXCEPT ![spec.url] = [@ EXCEPT !.etag = durable[which].etag, !.by = uid]] ELSE shared

(* Per URL: the validator, the body that goes with it and, as history, the object whose durable copy it
   was seeded from (0: none, or a sibling). *)
NoValidator == [etag |-> 0, body |-> 0, by |-> 0]

(* Fault: the validator of a download is kept and its body is not. *)
StoreValidator(url) == [shared EXCEPT ![url].etag = version]
StoreDownload(url) == [shared EXCEPT ![url] = [etag |-> version, body |-> version, by |-> 0]]

(***************************************************************************)
(* The environment: time, the sources, users, restarts, and the other      *)
(* objects that use the shared fetcher.  Reconciles do not overlap.        *)
(***************************************************************************)
Idle == [stage |-> "idle", now |-> 0, uid |-> 0, spec |-> FirstSpec, reason |-> "", payload |-> Nothing,
         origin |-> 0, blind |-> FALSE, cold |-> FALSE]
NoFailure == [failure |-> [class |-> "transient", retryAfter |-> 0], n |-> 0, at |-> 0,
              uid |-> 0, fetchKey |-> NoKey, retryKey |-> <<"", 0>>]

(* ConfigMaps of an older release hold what it last fetched, before the first tick. *)
LegacyObjects(spec) ==
  {NoObject,
   [payload |-> ommCachePayload(Catalogue(1, spec.url, 1, 0), spec), fetchedAt |-> 0,
    fetchKey |-> fetchInputKey(spec), uid |-> 1, etag |-> IF spec.type = "CelesTrak" THEN 1 ELSE 0]}

Init ==
  /\ clock = 0 /\ version = 1
  /\ eph = [live |-> TRUE, uid |-> 1, spec |-> FirstSpec]
  /\ \E legacy \in LegacyObjects(FirstSpec) : durable = [hashed |-> NoObject, legacy |-> legacy]
  /\ cache = NoEntry
  /\ shared = [url \in Urls |-> NoValidator]
  /\ work = Idle /\ events = 0
  /\ asked = NoFailure /\ secured = Nowhere

Event == events < MaxEvents /\ events' = events + 1

Tick ==
  /\ clock < MaxClock /\ work.stage # "write"
  /\ clock' = clock + 1
  /\ UNCHANGED <<version, eph, cache, durable, shared, work, events, asked, secured>>

Publish ==
  /\ version' = version + 1 /\ Event
  /\ UNCHANGED <<clock, eph, cache, durable, shared, work, asked, secured>>

EditSpec(spec) ==
  /\ eph.live /\ spec # eph.spec
  /\ eph' = [eph EXCEPT !.spec = spec]
  /\ Event
  /\ UNCHANGED <<clock, version, cache, durable, shared, work, asked, secured>>

(* Deletion; the garbage collector takes the ConfigMaps with the object. *)
Delete ==
  /\ eph.live
  /\ eph' = [eph EXCEPT !.live = FALSE]
  /\ Event
  /\ UNCHANGED <<clock, version, cache, durable, shared, work, asked, secured>>

Recreate ==
  /\ ~eph.live
  /\ eph' = [live |-> TRUE, uid |-> eph.uid + 1, spec |-> FirstSpec]
  /\ \E legacy \in {durable.legacy, NoObject} : durable' = [hashed |-> NoObject, legacy |-> legacy]
  /\ secured' = Nowhere
  /\ UNCHANGED <<clock, version, cache, shared, work, events, asked>>

Restart ==
  /\ cache' = NoEntry /\ work' = Idle /\ asked' = NoFailure
  /\ shared' = [url \in Urls |-> NoValidator]
  /\ Event
  /\ UNCHANGED <<clock, version, eph, durable, secured>>

(* Another object with the same URL asks the source, or resumes from its own ConfigMap. *)
SiblingFetches(url) ==
  /\ work.stage = "idle" /\ shared[url].body # version
  /\ shared' = StoreDownload(url)
  /\ Event
  /\ UNCHANGED <<clock, version, eph, cache, durable, work, asked, secured>>

SiblingRestores(url, etag) ==
  /\ work.stage = "idle" /\ shared[url].etag = 0
  /\ shared' = [shared EXCEPT ![url] = [@ EXCEPT !.etag = etag, !.by = 0]]
  /\ Event
  /\ UNCHANGED <<clock, version, eph, cache, durable, work, asked, secured>>

(***************************************************************************)
(* The reconcile: restore, serve from the cache or ask, then write.        *)
(***************************************************************************)
Healthy  == {"CachedRepropagation", "NotModified", "FetchSucceeded"}
Degraded == {"FetchFailedServingCache", "FetcherSetupFailedServingCache"}
Wiped    == {"FetcherSetupFailed", "RateLimited", "AuthFailed", "InvalidSourceURL", "FetchFailed"}

Outcome(w, reason, payload) == [w EXCEPT !.stage = "write", !.reason = reason, !.payload = payload]

(* The object is gone: its cache entry goes too. *)
ReconcileGone ==
  /\ work.stage = "idle" /\ ~eph.live /\ cache # NoEntry
  /\ cache' = NoEntry
  /\ UNCHANGED <<clock, version, eph, durable, shared, work, events, asked, secured>>

(* acquireOMMs up to the point where the source has to be asked. *)
Reconcile(readable) ==
  /\ work.stage = "idle" /\ eph.live
  /\ LET which == IF readable THEN Restorable(eph.spec, eph.uid) ELSE "none"
         c     == restoreOMMCache(which, eph.spec, eph.uid)
         w     == [Idle EXCEPT !.now = clock, !.uid = eph.uid, !.spec = eph.spec,
                               !.cold = readable /\ cache = NoEntry]
         serve == cacheServe(c, eph.spec, eph.uid, clock)
     IN  /\ cache' = c
         /\ durable' = copyCacheForward(which)
         /\ shared' = SeedConditionalCache(which, eph.spec, eph.uid)
         /\ work' = CASE serve = "window"  -> Outcome(w, "CachedRepropagation", c.payload)
                      [] serve = "backoff" -> Outcome(w, "FetchFailedServingCache", c.payload)
                      [] serve = "none"    -> [w EXCEPT !.stage = "ask"]
  /\ UNCHANGED <<clock, version, eph, events, asked, secured>>

(* fetcherForSource fails: the Secret of a Space-Track source cannot be used. *)
SetupFails ==
  /\ work.stage = "ask" /\ work.spec.type = "SpaceTrack"
  /\ work' = IF matchingCache(cache, work.spec, work.uid)
             THEN Outcome(work, "FetcherSetupFailedServingCache", cache.payload)
             ELSE Outcome(work, "FetcherSetupFailed", Nothing)
  /\ UNCHANGED <<clock, version, eph, cache, durable, shared, events, asked, secured>>

handleInsecureURL ==
  /\ work.stage = "ask" /\ work.spec.url \in HttpUrls
  /\ work' = Outcome(work, "InsecureURL", Nothing)
  /\ UNCHANGED <<clock, version, eph, cache, durable, shared, events, asked, secured>>

(* classifyFetchError: an off-origin URL is a reason of its own, and transient to the backoff. *)
WipeReason(class, url) ==
  CASE class = "rateLimited" -> "RateLimited"
    [] class = "auth"        -> "AuthFailed"
    [] class = "transient"   -> IF url \in OffOrigin THEN "InvalidSourceURL" ELSE "FetchFailed"

(* History: how many failures of this class in a row, for the same retry inputs. *)
Noted(failure) ==
  LET same == /\ asked.uid = work.uid /\ asked.fetchKey = fetchInputKey(work.spec)
              /\ asked.retryKey = retryInputKey(work.spec) /\ asked.failure.class = failure.class
  IN  [failure |-> failure, n |-> Least((IF same THEN asked.n ELSE 0) + 1, FailureCap), at |-> clock, uid |-> work.uid,
       fetchKey |-> fetchInputKey(work.spec), retryKey |-> retryInputKey(work.spec)]

(* The source answers with an error, or not at all; a URL off the origin is refused before it is asked. *)
AnswerFails(failure) ==
  /\ work.stage = "ask"
  /\ failure.class = "auth" => work.spec.type = "SpaceTrack"
  /\ work.spec.url \in OffOrigin => failure.class = "transient"
  /\ IF matchingCache(cache, work.spec, work.uid)
     THEN /\ cache' = applyFetchBackoff(cache, failure, work.spec, clock)
          /\ work' = Outcome(work, "FetchFailedServingCache", cache.payload)
          /\ asked' = Noted(failure)
     ELSE /\ work' = Outcome(work, WipeReason(failure.class, work.spec.url), Nothing)
          /\ UNCHANGED <<cache, asked>>
  /\ UNCHANGED <<clock, version, eph, durable, shared, events, secured>>

NotModified == work.spec.type = "CelesTrak" /\ shared[work.spec.url].etag = version

(* Not modified, and the fetcher has no body: the object's own entry is served once more. *)
AnswerReserves ==
  /\ work.stage = "ask" /\ NotModified /\ shared[work.spec.url].body = 0
  /\ matchingCache(cache, work.spec, work.uid) /\ cache.payload.has # {}
  /\ cache' = Entry([cache.payload EXCEPT !.at = clock], clock, work.spec, work.uid)
  /\ work' = [Outcome(work, "NotModified", cache.payload)
               EXCEPT !.origin = version, !.blind = shared[work.spec.url].by # work.uid]
  /\ asked' = NoFailure
  /\ UNCHANGED <<clock, version, eph, durable, shared, events, secured>>

(* Any other success: the entry is replaced and, if the API server lets it, made durable. *)
AnswerOk(persists) ==
  LET url      == work.spec.url
      reserve  == /\ NotModified /\ shared[url].body = 0
                  /\ matchingCache(cache, work.spec, work.uid) /\ cache.payload.has # {}
      body     == IF NotModified THEN shared[url].body ELSE version
      payload  == [Catalogue(body, url, work.uid, clock) EXCEPT !.has = IF body = 0 THEN {} ELSE @]
      tracked  == ommCachePayload(payload, work.spec)
      etag     == IF work.spec.type = "CelesTrak" THEN version ELSE 0
      stored   == persists /\ eph.live /\ work.uid = eph.uid
  IN  /\ work.stage = "ask" /\ ~reserve /\ url \notin OffOrigin
      /\ cache' = Entry(payload, clock, work.spec, work.uid)
      /\ shared' = IF work.spec.type = "CelesTrak" /\ ~NotModified THEN StoreDownload(url) ELSE shared
      /\ durable' = IF stored
                    THEN [durable EXCEPT !.hashed = persistOMMCache(@, tracked, work.spec, work.uid, clock, etag)]
                    ELSE durable
      /\ secured' = IF stored /\ tracked.has # {} THEN url ELSE secured
      /\ work' = [Outcome(work, IF NotModified THEN "NotModified" ELSE "FetchSucceeded", payload)
                   EXCEPT !.origin = version, !.blind = body = 0]
      /\ asked' = NoFailure
      /\ UNCHANGED <<clock, version, eph, events>>

(* The states are propagated and the status is written, or not: the cache does not depend on it. *)
Finish ==
  /\ work.stage = "write"
  /\ work' = Idle
  /\ UNCHANGED <<clock, version, eph, cache, durable, shared, events, asked, secured>>

Worker ==
  \/ Finish \/ ReconcileGone \/ SetupFails \/ handleInsecureURL \/ AnswerReserves
  \/ \E persists \in BOOLEAN : AnswerOk(persists)
  \/ \E failure \in Failures : AnswerFails(failure)
  \/ \E readable \in BOOLEAN : Reconcile(readable)

Next ==
  \/ Tick \/ Publish \/ Delete \/ Recreate \/ Restart \/ Worker
  \/ \E spec \in Specs : EditSpec(spec)
  \/ \E url \in {spec.url : spec \in {s \in Specs : s.type = "CelesTrak"}} :
       SiblingFetches(url) \/ \E etag \in 1..version : SiblingRestores(url, etag)

Spec == Init /\ [][Next]_vars

(***************************************************************************)
(* Properties                                                              *)
(***************************************************************************)
Served == work.stage = "write" /\ work.reason \in Healthy \cup Degraded

(* What a reconcile propagates was obtained by this very object, from the source that its spec names: no
   edit, re-creation, restart, older release or sibling makes it use another's (matchingCache,
   hydrateFromCacheObject). *)
OwnPayload == Served =>
  work.payload.from = work.spec.url /\ work.payload.by = work.uid

Holds(failure) == failure.n > 0 /\ failure.uid = work.uid /\ failure.fetchKey = fetchInputKey(work.spec)
                  /\ failure.retryKey = retryInputKey(work.spec)
HoldsUntil(failure) == failure.at + fetchRetryDelay(failure.failure, failure.retryKey[2], failure.n)

(* After a failed answer the source is left alone for as long as that failure asks (fetchRetryDelay), as
   long as the process lives and the user changes neither source, credentials nor interval; and no longer:
   a reconcile that a backoff holds back is held back by the last failure of its own object, source and
   retry inputs, counted within its own class of error (applyFetchBackoff). *)
BackoffExact ==
  /\ work.stage = "ask" /\ Holds(asked) => ~(work.now < HoldsUntil(asked))
  /\ work.stage = "write" /\ work.reason = "FetchFailedServingCache" =>
       Holds(asked) /\ (work.now < HoldsUntil(asked) \/ work.now <= asked.at)

(* CachedRepropagation is said only of data that the source vouched for within the refresh interval, also
   after a restart: the durable copy keeps its time. *)
WindowIsRecent ==
  work.stage = "write" /\ work.reason = "CachedRepropagation" =>
    work.now - work.payload.at < Least(MaxRefresh, Greatest(MinRefresh, work.spec.refresh))

(* When the source has answered, what is propagated is its current catalogue for the satellites of the
   selector. *)
Complete ==
  LET selected == IF work.spec.sel = {} THEN Sats ELSE work.spec.sel \cap Sats
  IN  work.payload.v = work.origin /\ FilterOMMs(work.payload, work.spec.sel).has = selected
Answered == work.stage = "write" /\ work.reason \in {"NotModified", "FetchSucceeded"}
FetchedIsCurrent == Answered => Complete

(* The same, unless the validators came from a sibling's durable copy, or the payload from a copy that was
   cut down to another selector. *)
OwnFetchIsCurrent == Answered /\ ~work.blind /\ work.payload.cut \in {{}, work.spec.sel} => Complete

(* A restart does not lose data: if the durable copy of this source was written and can be read, a failing
   source or Secret does not wipe what was published (restoreOMMCache). *)
RestartKeepsData == work.stage = "write" /\ work.reason \in Wiped /\ work.cold => secured # work.spec.url

=============================================================================
