------------------------------ MODULE NTNSlice ------------------------------
(***************************************************************************)
(* The NTNSlice reconciler (internal/controller/ntnslice_controller.go)    *)
(* for one slice name, between the API server that stores the object, the  *)
(* informer cache it reads from, its own in-memory state and the metrics   *)
(* source.  A reconcile is three steps, so that everything else can happen *)
(* between them: it reads and decides, it writes the status (optimistic    *)
(* concurrency), and only then commits its memory.  This module follows    *)
(* the path decision and the anti-flap clocks; SliceReport follows the     *)
(* conditions, the events and the counter of the same reconcile.           *)
(***************************************************************************)
EXTENDS Failover

CONSTANTS
  Triggers, Margin, SwitchbackDelay, ConfirmationSamples, MinTerrestrialDwell, \* spec.failoverPolicy
  Readings,       \* the readings the terrestrial link may show
  Timestamped,    \* TRUE: a Prometheus reader behind the stale cache; FALSE: annotations
  MaxStaleness,   \* metricsMaxStaleness
  Second,         \* ticks per second, the granularity of a serialised time
  MaxSkew,        \* how far behind the wall clock of a leader may be, or step
  TrackSeen,      \* whether the history variable seen is kept
  MaxClock, MaxFailovers, MaxGeneration, MaxUid, DegradedCap, SettleBy  \* bounds

ASSUME PolicyAssumption ==
  /\ Margin \in Nat /\ SwitchbackDelay \in Nat /\ ConfirmationSamples \in Nat \ {0}
  /\ MinTerrestrialDwell \in Nat /\ MaxStaleness \in Nat
  /\ Timestamped \in BOOLEAN /\ TrackSeen \in BOOLEAN /\ Readings # {}
(* Readers and the trigger parser refuse NaN and the infinities: what is compared is a number. *)
ASSUME NumberAssumption ==
  /\ \A t \in Triggers : ParseTrigger(t) => t.value \in Int
  /\ \A r \in Readings, metric \in MetricNames : r.value[metric] \in Int
ASSUME BoundAssumption ==
  /\ Second \in Nat \ {0} /\ MaxSkew \in Nat /\ MaxClock \in Nat /\ MaxFailovers \in Nat
  /\ MaxGeneration \in Nat /\ MaxUid \in Nat /\ SettleBy \in Nat
  /\ DegradedCap \in Nat /\ DegradedCap >= ConfirmationSamples

VARIABLES
  clock,          \* the time on the process's monotonic clock
  behind,         \* how far its wall clock has stepped back since the process started
  sample,         \* the newest sample the metrics source has served: [at, reading]
  slice,          \* the stored object
  cached,         \* the informer cache's copy of it
  flapState,      \* the flapState map entry of this name
  staleCache,     \* the stale-cache entry of the slice's metrics reader
  work,           \* the reconcile in flight
  settled,        \* "no" until the environment settles for good, then how
  evidence,       \* history: the unbroken runs of the evaluations that were recorded
  seen,           \* history: the same of all evaluations, recorded or not
  handback        \* history: the last durable quality-driven hand-back

vars == <<clock, behind, sample, slice, cached, flapState, staleCache, work, settled, evidence, seen, handback>>
history == <<evidence, seen, handback>>

policy == [triggers |-> Triggers, margin |-> Margin, delay |-> SwitchbackDelay,
           samples |-> ConfirmationSamples, dwell |-> MinTerrestrialDwell]

(* What time.Now reads: the wall clock agrees with the monotonic one unless it is stepped back. *)
Wall == clock - behind

(* metav1.Time serialises whole seconds. *)
Trunc(t) == t - (t % Second)

Contacts   == {"unknown", "available", "unavailable"}
AnyReading == CHOOSE r \in Readings : TRUE
(* How a read of the metrics source can go; a new sample carries its reading. *)
Fetches ==
  [kind : {"new"}, reading : Readings] \cup [kind : {"same", "failed", "unbuildable"}, reading : {AnyReading}]

NoStatus == [path |-> Terrestrial, count |-> 0, lastSwitchback |-> 0]
NewSlice(uid) == [uid |-> uid, generation |-> 1, phase |-> "live", status |-> NoStatus]

(* A dwell clock in memory is a Go time: stamp is its wall reading and state.lastSwitchback its monotonic
   reading, which one that was parsed from status does not have. *)
NoEntry == [uid |-> 0, generation |-> 0, state |-> NoFlapState, stamp |-> 0]
NoStale == [uid |-> 0, reading |-> AnyReading, freshAt |-> 0, observedAt |-> 0]
NoEvidence == [uid |-> 0, generation |-> 0, degraded |-> 0, last |-> 0, recovered |-> 0]
Idle    == [stage |-> "idle", now |-> 0, wall |-> 0, base |-> NewSlice(0), status |-> NoStatus,
            flap |-> NoEntry, decision |-> "Stay", contact |-> "unknown", evidence |-> NoEvidence]

Init ==
  /\ clock = Second /\ behind = 0
  /\ sample = [at |-> 0, reading |-> AnyReading]
  /\ slice = NewSlice(1) /\ cached = NewSlice(1)
  /\ flapState = NoEntry /\ staleCache = NoStale /\ work = Idle
  /\ settled = "no"
  /\ evidence = NoEvidence /\ seen = NoEvidence /\ handback = 0

(***************************************************************************)
(* The environment: time, the users of the API, the informer.              *)
(***************************************************************************)
Tick ==
  /\ clock < MaxClock
  /\ clock' = clock + 1
  /\ UNCHANGED <<behind, sample, slice, cached, flapState, staleCache, work, settled, history>>

(* The wall clock is set back under a running process: a correction by NTP, a migrated machine. *)
StepBack(skew) ==
  /\ settled = "no" /\ behind + skew <= MaxSkew /\ Wall - skew >= Second
  /\ behind' = behind + skew
  /\ UNCHANGED <<clock, sample, slice, cached, flapState, staleCache, work, settled, history>>

InformerSync ==
  /\ cached # slice
  /\ cached' = slice
  /\ UNCHANGED <<clock, behind, sample, slice, flapState, staleCache, work, settled, history>>

EditSpec ==
  /\ settled = "no" /\ slice.phase = "live" /\ slice.generation < MaxGeneration
  /\ slice' = [slice EXCEPT !.generation = @ + 1]
  /\ UNCHANGED <<clock, behind, sample, cached, flapState, staleCache, work, settled, history>>

Delete ==
  /\ settled = "no" /\ slice.phase = "live" /\ slice.uid < MaxUid
  /\ slice' = [slice EXCEPT !.phase = "terminating"]
  /\ UNCHANGED <<clock, behind, sample, cached, flapState, staleCache, work, settled, history>>

(* A deletion that bypasses the finalizer. *)
ForceDelete ==
  /\ settled = "no" /\ slice.phase # "gone" /\ slice.uid < MaxUid
  /\ slice' = [slice EXCEPT !.phase = "gone"]
  /\ UNCHANGED <<clock, behind, sample, cached, flapState, staleCache, work, settled, history>>

Recreate ==
  /\ slice.phase = "gone" /\ slice.uid < MaxUid
  /\ slice' = NewSlice(slice.uid + 1)
  /\ handback' = 0
  /\ UNCHANGED <<clock, behind, sample, cached, flapState, staleCache, work, settled, evidence, seen>>

(* From now on the link stays degraded under a usable pass, or the satellite has set for good.
   It happens early enough for the bounds on time and failovers not to matter afterwards. *)
Settle(how) ==
  /\ settled = "no" /\ clock <= SettleBy /\ slice.phase = "live" /\ slice.status.count < MaxFailovers
  /\ settled' = how
  /\ UNCHANGED <<clock, behind, sample, slice, cached, flapState, staleCache, work, history>>

(***************************************************************************)
(* History: what an unbroken run of evaluations has shown.  A gap, another *)
(* policy or another object breaks a run; degraded counts the distinct     *)
(* observations of a degraded run and recovered is when a confirmed        *)
(* recovery began.                                                         *)
(***************************************************************************)
NoEvidenceOf(object) ==
  [uid |-> object.uid, generation |-> object.generation, degraded |-> 0, last |-> 0, recovered |-> 0]

Current(e, object) ==
  IF e.uid = object.uid /\ e.generation = object.generation THEN e ELSE NoEvidenceOf(object)

Extended(e, reading, observedAt) ==
  LET degraded  == terrestrialDegraded(Triggers, reading)
      recovered == ~degraded /\ terrestrialConfirmedRecovered(Triggers, reading, Margin)
      counted   == e.degraded = DegradedCap \/ (observedAt # 0 /\ observedAt = e.last)
  IN  [ uid |-> e.uid, generation |-> e.generation,
        degraded  |-> IF ~degraded THEN 0 ELSE IF counted THEN e.degraded ELSE e.degraded + 1,
        last      |-> IF degraded THEN observedAt ELSE 0,
        recovered |-> IF ~recovered THEN 0 ELSE IF e.recovered = 0 THEN clock ELSE e.recovered ]

(***************************************************************************)
(* The metrics source and its reader.                                      *)
(***************************************************************************)
(* The source can answer so now: a new sample has a new timestamp, and annotations never fail. *)
CanFetch(fetch) ==
  IF Timestamped
  THEN /\ fetch.kind = "new"  => sample.at < clock
       /\ fetch.kind = "same" => sample.at # 0
  ELSE fetch.kind = "new"

SampleAfter(fetch) ==
  IF Timestamped /\ fetch.kind = "new" THEN [at |-> clock, reading |-> fetch.reading] ELSE sample

(* staleCache.Read: a fetched sample is remembered with the time it was fetched. *)
StaleCacheAfter(fetch) ==
  IF Timestamped /\ fetch.kind \in {"new", "same"}
  THEN [uid |-> cached.uid, reading |-> SampleAfter(fetch).reading,
        freshAt |-> clock, observedAt |-> SampleAfter(fetch).at]
  ELSE staleCache

(* A fetched sample, a replay of the last one within the freshness bound, or nothing usable. *)
readPathQuality(fetch) ==
  CASE fetch.kind = "new"  -> [reliable |-> TRUE, reading |-> fetch.reading,
                               observedAt |-> IF Timestamped THEN clock ELSE 0]
    [] fetch.kind = "same" -> [reliable |-> TRUE, reading |-> sample.reading, observedAt |-> sample.at]
    [] fetch.kind = "failed" /\ staleCache.uid = cached.uid ->
         [reliable |-> clock - staleCache.freshAt <= MaxStaleness,
          reading |-> staleCache.reading, observedAt |-> staleCache.observedAt]
    [] OTHER -> [reliable |-> FALSE, reading |-> AnyReading, observedAt |-> 0]

(***************************************************************************)
(* The anti-flap state kept in memory.                                     *)
(***************************************************************************)
(* Fault: the entry is found by name alone. *)
LoadByName(object) == [flapState EXCEPT !.uid = object.uid]

(* Fault: the streaks survive a change of the policy. *)
LoadAcrossEdits(object) == IF flapState.uid = object.uid THEN flapState ELSE NoEntry

(* The entry of another object is evicted; that of an older generation keeps only its dwell clock. *)
loadFlapState(object) ==
  IF flapState.uid # object.uid THEN NoEntry
  ELSE IF flapState.generation # object.generation
       THEN [uid |-> object.uid, generation |-> object.generation,
             state |-> [NoFlapState EXCEPT !.lastSwitchback = flapState.state.lastSwitchback],
             stamp |-> flapState.stamp]
       ELSE flapState

(* Fault: the durable dwell clock is not read back. *)
SeedNothing(entry, durable) == entry

Adopted(entry, durable) ==
  [uid |-> entry.uid, generation |-> entry.generation,
   state |-> [entry.state EXCEPT !.lastSwitchback = 0], stamp |-> durable]

(* Fault: a dwell clock dated in the future is believed. *)
SeedFuture(entry, durable) == IF durable > entry.stamp THEN Adopted(entry, durable) ELSE entry

seedLastSwitchbackFromStatus(entry, durable) ==
  IF durable <= Wall /\ durable > entry.stamp THEN Adopted(entry, durable) ELSE entry

(* The seed has cleared a future-dated value before the newer of the two clocks is written. *)
persistLastSwitchbackToStatus(durable, latest) ==
  LET p == IF durable > Wall THEN 0 ELSE durable
  IN  IF latest # 0 /\ (p = 0 \/ Trunc(latest) > p) THEN Trunc(latest) ELSE p

(* Fault: a gap breaks nothing. *)
KeepStreaks == flapState

resetRecoveryStreak ==
  [flapState EXCEPT !.state = [degraded |-> 0, recovery |-> 0,
                               lastSwitchback |-> @.lastSwitchback, cursor |-> @.cursor]]

(* The confirmation counter is compared with confirmationSamples only, so it may stop at DegradedCap. *)
Saturated(st) == [st EXCEPT !.degraded = IF @ > DegradedCap THEN DegradedCap ELSE @]

(***************************************************************************)
(* The reconciler.                                                         *)
(***************************************************************************)
ApplyDecision(status, result) ==
  [ path           |-> result.target,
    count          |-> IF result.decision = "Failover" THEN status.count + 1 ELSE status.count,
    lastSwitchback |-> status.lastSwitchback ]

(* The reconcile has decided; the status write comes next. *)
Decided(result, status, flap, contact, kept) ==
  work' = [stage |-> "write", now |-> clock, wall |-> Wall, base |-> cached, status |-> ApplyDecision(status, result),
           flap |-> flap, decision |-> result.decision, contact |-> contact, evidence |-> kept]

WhenSettled(fetch, contact) ==
  /\ settled = "degraded" =>
       /\ contact = "available" /\ readPathQuality(fetch).reliable
       /\ terrestrialDegraded(Triggers, readPathQuality(fetch).reading)
  /\ settled = "set" => contact = "unavailable"

Starts(fetch, contact) ==
  /\ work.stage = "idle" /\ cached.phase = "live"
  /\ CanFetch(fetch) /\ WhenSettled(fetch, contact)
  /\ sample' = SampleAfter(fetch) /\ staleCache' = StaleCacheAfter(fetch)
  /\ UNCHANGED <<clock, behind, slice, cached, settled, handback>>

Gap(object) ==
  /\ flapState' = resetRecoveryStreak
  /\ evidence' = NoEvidenceOf(object)
  /\ seen' = IF TrackSeen THEN NoEvidenceOf(object) ELSE seen

(* Satellite availability unknown: hold the path and break the streaks. *)
HoldUnknown(fetch, contact) ==
  /\ Starts(fetch, contact)
  /\ contact = "unknown"
  /\ Gap(cached)
  /\ Decided(Stay(cached.status.path), cached.status, NoEntry, contact, evidence')

(* Metrics unreliable: fail static and break the streaks. *)
FailStatic(fetch, contact) ==
  /\ Starts(fetch, contact)
  /\ contact # "unknown" /\ ~readPathQuality(fetch).reliable
  /\ Gap(cached)
  /\ Decided(EvaluateSafeHold(cached.status.path, contact = "available"), cached.status,
             NoEntry, contact, evidence')

(* What an evaluation starts from: the newer of the dwell clocks in memory and in status. *)
Seeded == seedLastSwitchbackFromStatus(loadFlapState(cached), cached.status.lastSwitchback)

(* now.Sub compares monotonic readings, or wall readings when one of the two has no other. *)
SeededState ==
  [Seeded.state EXCEPT !.lastSwitchback = IF @ = 0 /\ Seeded.stamp # 0 THEN Seeded.stamp + behind ELSE @]

Evaluation(quality, contact) ==
  EvaluateFailoverWithAntiFlap(
    cached.status.path, policy, quality.reading, quality.observedAt, contact = "available", clock, SeededState)

(* What an evaluation leaves for memory and for status, which is written first. *)
EntryOf(eval, contact) ==
  LET handsBack == HandBack(eval.result, cached.status.path, contact = "available") IN
  [uid |-> cached.uid, generation |-> cached.generation,
   state |-> Saturated([eval.state EXCEPT !.lastSwitchback = IF handsBack THEN @ ELSE Seeded.state.lastSwitchback]),
   stamp |-> IF handsBack THEN Wall ELSE Seeded.stamp]
StatusOf(eval, contact) ==
  [cached.status EXCEPT !.lastSwitchback = persistLastSwitchbackToStatus(@, EntryOf(eval, contact).stamp)]

(* Metrics reliable and availability known: the anti-flap engine decides. *)
EvaluateQuality(fetch, contact) ==
  LET quality == readPathQuality(fetch) IN
  /\ Starts(fetch, contact)
  /\ contact # "unknown" /\ quality.reliable
  /\ \E eval \in {Evaluation(quality, contact)} :
       /\ eval.result.decision = "Failover" => cached.status.count < MaxFailovers
       /\ Decided(eval.result, StatusOf(eval, contact), EntryOf(eval, contact), contact,
                  Extended(Current(evidence, cached), quality.reading, quality.observedAt))
  /\ flapState' = loadFlapState(cached)
  /\ seen' = IF TrackSeen THEN Extended(Current(seen, cached), quality.reading, quality.observedAt) ELSE seen
  /\ UNCHANGED evidence

(* The API server's side of an accepted status update. *)
Accept ==
  /\ work.base = slice
  /\ slice' = [slice EXCEPT !.status = work.status]
  /\ handback' = IF work.decision = "Switchback" /\ work.contact = "available" THEN work.now ELSE handback

WriteStatus ==
  /\ work.stage = "write"
  /\ Accept
  /\ work' = [work EXCEPT !.stage = "commit"]
  /\ UNCHANGED <<clock, behind, sample, cached, flapState, staleCache, settled, evidence, seen>>

(* An unchanged status is not written at all. *)
SkipWrite ==
  /\ work.stage = "write" /\ work.status = work.base.status
  /\ work' = [work EXCEPT !.stage = "commit"]
  /\ UNCHANGED <<clock, behind, sample, slice, cached, flapState, staleCache, settled, history>>

(* Fault: memory is committed although the write failed. *)
WriteFailsCommitting ==
  /\ work.stage = "write" /\ (work.base # slice \/ settled = "no")
  /\ flapState' = IF work.flap = NoEntry THEN flapState ELSE work.flap
  /\ work' = Idle
  /\ UNCHANGED <<clock, behind, sample, slice, cached, staleCache, settled, history>>

(* A conflict, or any other API error: the reconcile returns it and will be retried. *)
WriteFails ==
  /\ work.stage = "write" /\ (work.base # slice \/ settled = "no")
  /\ work' = Idle
  /\ UNCHANGED <<clock, behind, sample, slice, cached, flapState, staleCache, settled, history>>

(* The update is applied but its answer is lost: an error to the reconciler. *)
WriteReplyLost ==
  /\ work.stage = "write" /\ settled = "no"
  /\ Accept
  /\ work' = Idle
  /\ UNCHANGED <<clock, behind, sample, cached, flapState, staleCache, settled, evidence, seen>>

(* storeFlapState, once the status is durable. *)
Commit ==
  /\ work.stage = "commit"
  /\ flapState' = IF work.flap = NoEntry THEN flapState ELSE work.flap
  /\ evidence' = work.evidence
  /\ work' = Idle
  /\ UNCHANGED <<clock, behind, sample, slice, cached, staleCache, settled, seen, handback>>

(* The object is gone from the cache: evict the reader and the anti-flap entry. *)
ReconcileGone ==
  /\ work.stage = "idle" /\ cached.phase = "gone"
  /\ flapState' = NoEntry /\ staleCache' = NoStale
  /\ UNCHANGED <<clock, behind, sample, slice, cached, work, settled, history>>

(* handleSliceFinalizer: release the entry, then remove the finalizer unless the update fails. *)
ReconcileDeleted ==
  /\ work.stage = "idle" /\ cached.phase = "terminating"
  /\ flapState' = NoEntry
  /\ \/ cached = slice /\ slice' = [slice EXCEPT !.phase = "gone"]
     \/ UNCHANGED slice
  /\ UNCHANGED <<clock, behind, sample, cached, staleCache, work, settled, history>>

(* A restart or a leader handoff, possibly to a node whose clock is behind. *)
Handoff(skew) ==
  /\ settled = "no" /\ Wall - skew >= Second
  /\ clock' = Wall - skew /\ behind' = 0
  /\ flapState' = NoEntry /\ staleCache' = NoStale /\ work' = Idle
  /\ UNCHANGED <<sample, slice, cached, settled, history>>

Reconcile ==
  \/ \E fetch \in Fetches, contact \in Contacts :
       HoldUnknown(fetch, contact) \/ FailStatic(fetch, contact) \/ EvaluateQuality(fetch, contact)
  \/ ReconcileGone \/ ReconcileDeleted

Next ==
  \/ Tick \/ InformerSync \/ EditSpec \/ Delete \/ ForceDelete \/ Recreate
  \/ \E how \in {"degraded", "set"} : Settle(how)
  \/ \E skew \in 1..MaxSkew : StepBack(skew)
  \/ \E skew \in 0..MaxSkew : Handoff(skew)
  \/ Reconcile \/ WriteStatus \/ SkipWrite \/ WriteFails \/ WriteReplyLost \/ Commit

Spec == Init /\ [][Next]_vars

(***************************************************************************)
(* Controller-runtime requeues every slice and retries every error, so its *)
(* worker never stops; the informer catches up; the clock advances.        *)
(***************************************************************************)
Worker == Reconcile \/ WriteStatus \/ SkipWrite \/ WriteFails \/ Commit

Fairness == WF_vars(Tick) /\ WF_vars(InformerSync) /\ WF_vars(Worker)

FairSpec == Spec /\ Fairness

(***************************************************************************)
(* Properties.                                                             *)
(***************************************************************************)
FlapStates == [degraded : 0..DegradedCap, recovery : Nat, lastSwitchback : Nat, cursor : Nat]
Statuses   == [path : {Terrestrial, Satellite}, count : Nat, lastSwitchback : Nat]
Objects    == [uid : Nat, generation : Nat, phase : {"live", "terminating", "gone"}, status : Statuses]
Entries    == [uid : Nat, generation : Nat, state : FlapStates, stamp : Nat]
Evidences  == [uid : Nat, generation : Nat, degraded : 0..DegradedCap, last : Nat, recovered : Nat]
Works      == [stage : {"idle", "write", "commit"}, now : Nat, wall : Nat, base : Objects, status : Statuses,
               flap : Entries, decision : Decision, contact : Contacts, evidence : Evidences]

(* Every variable keeps its shape: the stored object, the cache's copy, memory and the reconcile in flight. *)
TypeOK ==
  /\ clock \in Nat /\ behind \in 0..MaxSkew /\ behind < clock
  /\ sample \in [at : Nat, reading : Readings]
  /\ slice \in Objects /\ cached \in Objects
  /\ flapState \in Entries
  /\ staleCache \in [uid : Nat, reading : Readings, freshAt : Nat, observedAt : Nat]
  /\ work \in Works
  /\ handback \in Nat
  /\ settled \in {"no", "degraded", "set"}
  /\ evidence \in Evidences /\ seen \in Evidences

(* The decision in flight is one the API server would accept: it was made on the stored version. *)
Acceptable(decision) == work.stage = "write" /\ work.decision = decision /\ work.base = slice

(* status.lastSwitchbackTime is exactly the whole second of the last durable hand-back from an
   available satellite, whatever writes failed, were retried or lost their answer and whichever
   process made them: min-dwell survives a restart, and no pass-ended return ever starts it. *)
DurableDwellClock == slice.status.lastSwitchback = Trunc(handback)

(* The in-memory dwell clock is never ahead of the durable one: memory is committed only after the
   status write, so a hand-back that was never recorded cannot hold the slice on terrestrial. *)
NoSpeculativeDwell ==
  flapState.uid = slice.uid => Trunc(flapState.stamp) <= slice.status.lastSwitchback

(* No failover that the API server would accept falls within minTerrestrialDwell of the last durable
   quality-driven hand-back (to the whole second status keeps), across restarts and stale reads. *)
MinDwellHonoured ==
  Acceptable("Failover") /\ handback # 0 => work.now - Trunc(handback) >= MinTerrestrialDwell

(* A failover rests on confirmationSamples distinct degraded observations, consecutive among the
   evaluations that were recorded for this object and this spec generation, with no gap between. *)
FailoverConfirmed ==
  work.stage = "write" /\ work.decision = "Failover" => work.evidence.degraded >= ConfirmationSamples

(* The path leaves the satellite only because a known pass ended, or because recorded evaluations
   confirmed recovery without a gap for the whole switchbackDelay. *)
SwitchbackJustified ==
  work.stage = "write" /\ work.decision = "Switchback" =>
    \/ work.contact = "unavailable"
    \/ /\ work.contact = "available" /\ work.evidence.recovered # 0
       /\ work.now - work.evidence.recovered >= SwitchbackDelay

(* Streaks over every evaluation, recorded or not: a reconcile whose status write is dropped
   only ever delays the next transition. *)
DroppedWriteOnlyDelays ==
  /\ work.stage = "write" /\ work.decision = "Failover" => seen.degraded >= ConfirmationSamples
  /\ work.stage = "write" /\ work.decision = "Switchback" /\ work.contact = "available" =>
       seen.recovered # 0 /\ work.now - seen.recovered >= SwitchbackDelay

(* A dwell clock that another leader dated in the future is neither enforced nor kept: an evaluation never
   records a lastSwitchbackTime, nor stores a dwell clock, later than its own clock.  When that clock has been
   set back under the process, what it wrote before may lie ahead of it, by no more than it was set back. *)
NeverFutureDwell ==
  work.stage # "idle" /\ work.flap # NoEntry =>
    work.status.lastSwitchback <= work.now /\ work.flap.stamp <= work.now

(* A degradation that lasts, under a usable pass and reliable telemetry, does end on the satellite:
   the confirmation and dwell gates only delay. *)
SustainedDegradationFailsOver ==
  settled = "degraded" ~> slice.status.path = Satellite

(* A slice whose satellite has set for good does return to terrestrial: neither the dead-band nor the delay
   and dwell gates of EvaluateFailoverWithAntiFlap hold it, whatever writes fail on the way. *)
SetSatelliteIsLeft ==
  settled = "set" ~> slice.status.path = Terrestrial
=============================================================================
