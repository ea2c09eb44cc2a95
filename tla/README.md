# A TLA+ development of ntn-operators

ntn-operators is a Kubernetes operator for non-terrestrial networks. Four
controllers reconcile four custom resources and meet only through the API server:

| Part | Source | State it owns | Operations |
|---|---|---|---|
| NTNSlice controller | `internal/controller/ntnslice_controller.go` | slice status (active path, dwell clock, conditions), in-memory anti-flap map, gauge series, finalizer | reconcile: read quality, read availability, decide, write status, commit memory, announce; finalize |
| Failover engine | `pkg/slice/failover.go` | none (pure) | triggers, hysteresis, anti-flap, fail-static |
| Path-quality readers | `pkg/slice/metrics/*` | last fresh sample per slice, reader and client pools | read, replay within the staleness bound, evict |
| SatelliteEphemeris controller | `internal/controller/satelliteephemeris_controller.go`, `..._ommcache_persist.go` | propagated states, pass windows, fetch backoff, durable OMM cache | fetch or serve from cache, propagate, write, sweep passes, write again |
| Fetchers | `pkg/ephemeris/*_fetcher.go` | validators, session | conditional GET, login and query |
| NTNCellConfig controller | `internal/controller/ntncellconfig_controller.go` | push markers, conditions, finalizer | apply ConfigMap, push ephemeris, push runtime update, clean up |
| OCUDU provider | `pkg/provider/ocudu/*` | ConfigMaps, gNB over WebSocket | apply, adopt, clean up, push |
| GroundStationLifecycle controller | `internal/controller/groundstationlifecycle_controller.go`, `pkg/lifecycle` | phase, firmware update, health | find node, check health, start, finish or time out an update |

The SatelliteEphemeris controller produces pass windows; the NTNSlice controller
consumes them to decide whether a satellite is usable, and the NTNCellConfig
controller pushes propagated states to the gNB. Ground stations are the observers
of the pass windows.

What makes the system hard is common to all four: reads come from an informer
cache that lags; a status update is refused when the object has changed and may be
applied although its answer is lost; memory is lost on every leader handoff; the
next leader's clock may be behind; an object may be deleted and created again under
its name; and a sample of telemetry may be late, missing, repeated or replayed.

## Modules

| Module | Models |
|---|---|
| `Failover` | the engine, as operators over paths, triggers, readings and anti-flap state |
| `FailoverCases` | the engine on every combination of small inputs |
| `NTNSlice` | one slice name: the reconcile as read-and-decide, write, commit, between API server, cache, memory and metrics source |
| `PathPolicy` | the promise of `failoverPolicy`: the stored path changes only on confirmed evidence, after the dwell, or because a pass ended |
| `NTNSlicePolicy` | the refinement mapping from `NTNSlice` to `PathPolicy` |
| `SliceReport` | the same reconcile seen by its observers: conditions, events, counter |
| `SliceSeries` | several slices that share gauge series, and their finalizers |
| `EphemerisSource` | where an ephemeris gets its elements: in-memory and durable cache, backoff, the fetcher shared with siblings |
| `Passes` | pass windows as operators: horizon, rounding, order, cap; and `checkSatelliteAvailability`, which reads them |
| `PassPrediction` | the two status writes of an ephemeris around its pass sweep, with stations and spec edited meanwhile, and the slices as readers |
| `CellArtifact` | the ConfigMap of a cell: finalizer, apply, read-back, bootstrap push, clean-up, each API call a step |
| `RuntimePush` | an ephemeris, a cell and a gNB: heartbeat, freshness gates, push, satellite switch, status |
| `GroundStation` | one ground station: health, phases, firmware updates and the maintenance window |
| `NTNSliceTyping`, `NTNSliceStreaks`, `NTNSliceDwell` | theorems about `NTNSlice`, `NTNSlicePolicy` and `FailoverCases`, each module using the lemmas of the one before |
| `SliceReportProofs` | theorems about `SliceReport` and `SliceSeries` |
| `EphemerisSourceProofs`, `CellArtifactProofs`, `RuntimePushProofs` | theorems about the module they are named after |
| `GroundSegmentProofs` | theorems about `GroundStation`, `PassPrediction` and `Passes` |
| `MC...` | specs, readings, skies and maps for TLC |

Definitions introduced by a comment that starts with "Fault:" are mutated forms of
the definition that follows them. Nothing refers to them.

### The slice

The three steps of `NTNSlice` are the reconciler's own. `HoldUnknown`, `FailStatic`
and `EvaluateQuality` are the three cases of its decision switch, with everything up
to the status write; `WriteStatus`, `SkipWrite`, `WriteFails` and `WriteReplyLost`
are the ways `persistStatusIfChanged` can go; `Commit` is `storeFlapState`.
`ReconcileGone` and `ReconcileDeleted` are the two early returns. A second reconcile
of the same name never overlaps the first (controller-runtime serialises a key), but
time, edits, deletions, cache updates and handoffs all happen between the steps.
`slice` is the stored object and `cached` the copy a reconcile reads; `flapState` is
the map entry of the name and `staleCache` the entry of its metrics reader.

`evidence`, `seen` and `handback` are history variables: no action reads them. They
record which evaluations formed an unbroken run, so that properties can speak of the
observations themselves and not of the counters that summarise them. `settled`
constrains only the environment: once it is set, the link stays degraded under a
usable pass, or the satellite has set for good.

Data is abstracted to what the decisions tell apart. A trigger is a record, a
reading gives a number per metric and the set of metrics without a source, and
time is a natural number of ticks, `Second` of which make the whole second to which
a serialised time is truncated. `clock` is the monotonic reading of `time.Now` and `Wall`
its wall reading, which `StepBack` sets back under a running process and `Handoff` replaces
by that of another node. A dwell clock in memory keeps both readings (`lastSwitchback`,
`stamp`), one that was read back from status only the wall reading, and `now.Sub` compares
accordingly (`SeededState`). QoS, security and billing fields, reasons, messages
and logs are left out. Satellite availability is an input with the values available,
unavailable and unknown; how it comes about is in `Passes` and `PassPrediction`.

`SliceSeries` assumes that a slice keeps its reference, and, with `DeleteUnadopted`
off, that it is not deleted before its first reconcile. Its names (`SeriesNext`,
`CacheSync`, `turns`) differ from those of `SliceReport`, so that one module can have the
theorems of both; `GroundStation` (`StationNext`, `HealthCheck`, `time`) and
`PassPrediction` are kept apart in the same way.

### The ephemeris

`EphemerisSource` splits the acquisition half of the reconciler where the source is
asked. `Reconcile` restores the durable copy (`restoreOMMCache`), copies an older
release's forward and asks `cacheServe`; `SetupFails`, `handleInsecureURL`,
`AnswerFails`, `AnswerReserves` and `AnswerOk` are the ways the question can end;
`Finish` is the status write. A payload is a version of the catalogue with the satellites
it holds; as history it carries the URL and UID it was fetched for and the time the
source vouched for it. A Space-Track URL off the configured origin (`OffOrigin`) is
refused before it is asked. `asked` records the last failed answer and `secured` the
source of the last payload reported durable. Siblings act only through the fetcher they
share (`SiblingFetches`, `SiblingRestores`).

`PassPrediction` has the other half: `Reconcile` up to write A, `WriteA`, the sweep
(`predictPasses`, `handlePassPredictionFailure`) and `WriteB`. The input hash is the
singleton of what it digests. The sky is an input: for each place a set of passes with
exact ends, which `Passes` cuts to the sweep, rounds, sorts and caps as the predictor does.

`RuntimePush` has the heartbeat (`Propagate`) that stamps states `Lead` ahead, and its
consumer. Time is relative there: what carries an epoch counts the ticks until it, and
a marker is that of the present states or of earlier ones, and every edit of the
ephemeris ages the markers, since they hash its generation. The system then runs for
ever in finitely many states, which the liveness properties need.

### The cell

`CellArtifact` makes every API call of a reconcile a step: finalizer, read, create or
update, read-back, status, and for a deletion read, delete, finalizer. Users edit the
cell and change, replace or remove the map between any two of them. The history fields
`foreign` and `touched` of a map say that it never was the provider's, and that a user
changed it since the provider wrote it. Rendering is reduced to what the file depends
on. In `RuntimePush` the apply is one condition, `broken`; the push has the stages
gates, resolve (allow-list and credential), exchange and persist. `ReplyLost` and
`NotDelivered` are the ways an exchange fails after and before the gNB has taken the frame.
The exchange is over within `wsDialTimeout`; the read of the credential has no timeout of
its own, and one that takes longer than the margin leaves over is counted as a fault.

### The ground station

`GroundStation` has the operators `reconcileHealth` and `reconcileFirmware` (split into
`ContinueUpdate` and `StartUpdate`) and one action per outcome of the reconcile
(`HealthCheck` is the one that has something to store). The
controller keeps nothing in memory, so a reconcile that read an old copy can only skip
its write or be refused: `fresh` says whether the cache shows the stored version, and
`ReconcileStale` and the stage `conflict` stand for the reconciles without effect. What
the node shows is chosen anew at every reconcile. A tick is a minute, so the truncation
of the start time to seconds does not show, and one instant stands for the several calls
of `now` in a reconcile. `lastHealthCheck` is reduced to whether it is set, which is what
makes a reconcile of a healthy station write; conditions are reduced to status or reason.
Lookup errors and several matching nodes are one case, as in the code except for a reason.

## Runs

| Run | Shows |
|---|---|
| `engine_cases` | placeholders have no influence; a margin only delays |
| `slice_annotations` | types; the dwell clock in status is the second of the last durable hand-back and is honoured; memory is not ahead of it; returns from the satellite are justified; the stored path refines `PathPolicy`; a lasting degradation fails over, within a dwell too, and a set satellite is left. Edits, handoffs, stale reads, failed and lost writes |
| `slice_recreate` | a timestamped source behind the stale cache, deletion, re-creation under the same name clocks that run behind and clocks that are set back: nothing of the old object and no replay confirms a failover; a dwell clock that another leader dated in the future is dropped |
| `slice_report` | a durable transition is announced and counted once, or never when its reply was lost or the process ended first; conditions belong to one evaluation |
| `slice_series` | concurrent finalizers never leave a dead series |
| `eph_source` | what is propagated is the object's own; backoffs are exact; the refresh window is counted from when the source vouched; a source that answered is shown whole and current; a restart keeps what was durable |
| `eph_passes` | windows that are vouched for are those of the live inputs; a contact holds until its end; no satellite is crowded out; no write vouches for old inputs; predictions catch up |
| `cell_artifact` | foreign maps are untouched; applied means written; nothing is left behind; deletion completes; a cell converges |
| `cell_push` | a reported push was taken; a switch is not repeated; no passed epoch is delivered unless the credential read outlasts the margin; staleness is noticed; states reach the gNB |
| `station` | an update's clock is its own; no update outlives its timeout; updates begin inside the window of the stored spec; a station whose node is healthy for good becomes Running |
| `slice_replay`, `cell_stale` | disagreements between comments and code, described below |

Bounds. In the slice, `confirmationSamples` is 2, the least number for which a streak can
be broken, replayed or inherited. The clock runs long enough for a failover, a recovery,
the delay, a hand-back, the dwell and a second failover. In `slice_annotations` the link may
settle as degraded up to the tick of a hand-back (`SettleBy`), and the clock outlasts the dwell
from there (`MaxClock`), so the dwell gate closes on a lasting degradation and has to open
again. One trigger with readings on
either side of it and in the dead-band covers every answer the engine distinguishes;
`engine_cases` varies triggers, metrics and margins separately. Two object incarnations
and two generations suffice for inheritance, which is always between neighbours.
`DegradedCap` saturates a counter that is only compared with `confirmationSamples`.
`slice_series` has three slices, so that two can finalize while a third lives, over
two references. It may stop, because names are created a bounded number of times.

`MaxEvents` bounds what the environment does in the other modules: edits, deletions,
restarts, failing calls. Two or three are enough for the orders at stake, an edit and a
fault around one reconcile or an edit and its undoing. `eph_source` has a CelesTrak URL
with two selectors and intervals outside the bounds on both sides, a Space-Track URL with
two credentials and one that is off the origin; the clock spans a window, a backoff and a
Retry-After. `eph_passes` has more passes than the cap, passes that rounding shortens,
and elements that age out during a pass. `cell_artifact` starts with no map, a leftover
or an impostor, and users may put an impostor or another controller's map in the way; it
may stop, because a cell at rest is not requeued for ever in the model. `cell_push` keeps
the order of the code's constants, `Timeout <= Margin < Lead - Period`, which is an
assumption of the module; it has three satellites and room for the states of two, so that
the cap is met. `station` has a day of three ticks with a window over midnight, an empty
one and none, a timeout of one tick, two versions of which one is offered, and time for
two updates.

Fairness. Controller-runtime retries every error, and a reconcile of a live object asks
to be requeued or is woken by a watch, so the reconciler's own steps together (`Worker`,
`Checker`) are weakly fair. Informers resynchronise (`InformerSync`), requeue timers fire
(`TimerFires`), the cluster collects garbage (`GarbageCollect`), a producer that has not
stalled propagates on its heartbeat (`Propagate`), and clocks advance (`Tick`,
`TimePasses`). Nothing is assumed about metrics, contacts, nodes or upstream sources
except through `settled`, and the liveness properties of the other modules start when the
bounded events are used up. `SetSatelliteIsLeft` is checked with a metrics source that
answers.

## Disagreements

Two are kept as runs:

* `slice_replay`: after a telemetry gap, a replay of a sample that was already counted
  switches back at once. The gap clears the recovery clock, the cursor keeps the replay
  from starting a new one, and the engine skips the delay when the clock is zero.
* `cell_stale`: while `ApplyCellConfig` or its read-back keeps failing, the reconcile
  returns before the currency gates, so a cell whose epoch has run out stays push-ready.

The others can be seen by checking the property named here, or by setting the constant:

* `DroppedWriteOnlyDelays` (`NTNSlice`, `TrackSeen = TRUE`): a dropped status write forgets
  the evaluation, also one that would have broken a streak, so the next transition can come
  early (`ntnslice_controller.go:537` says it only delays).
* `NeverFutureDwell` with `work.wall` for `work.now` (`NTNSlice`, `MaxSkew > 0`): when the
  wall clock is set back under a process whose memory has the dwell clock, the future value
  is cleared from status and written again from memory in the same evaluation
  (`ntnslice_controller.go:445`), while the comment at `ntnslice_controller.go:187` says that
  only values up to the present are written. It lies ahead by no more than the step.
* `UpdateBounded` with `RemovedWhileUpdating = TRUE` (`GroundStation`): when `spec.firmware`
  is removed during an update, the timeout is no longer looked at.
* `NoDeadSeries` with `DeleteUnadopted = TRUE` (`SliceSeries`): a slice deleted before it got
  its finalizer, and still live in the cache, keeps the shared series from being released.
* `FetchedIsCurrent` (`EphemerisSource`): validators seeded from a durable copy make the
  shared fetcher send a conditional request on behalf of an object that holds no body, or a
  body cut to another selector; the 304 is then reported as a success over what it has.
* `RestartKeepsData` with `Mirrored = TRUE` (`EphemerisSource`): when the source is edited to
  a URL with the same elements, `persistOMMCache` finds the payload unchanged and keeps the
  old source's key, so a restart does not restore it.
* `WindowsReflectInputs` (`PassPrediction`): an absent station has no version in the input
  signature, so one that is created and removed around a sweep leaves windows under a
  signature that is current again (`ntnslice_controller.go:902` states the contract).
* `FirstPassIsSeen` with two satellites of the same bounded name (`Label` not injective):
  `capPerSatellite` counts them as one, and one can crowd out the other.
* A satellite switch that is removed and added again before any push succeeds is not sent
  again, as its digest is still that of the last delivery (`ntncellconfig_controller.go:894`).
* `DeliveredAhead` without `work.waited <= Slack` (`RuntimePush`): the gate compares the epoch
  with `epochSkewMargin` (`ntncellconfig_controller.go:768`), the Secret is read from the API
  server after it and without a timeout (`ntncellconfig_controller.go:858`), and the exchange
  has `wsDialTimeout` only from its dial on. A slow read lets an epoch that has passed be
  pushed, which the comment on the margin (`ntncellconfig_controller.go:120`) excludes.
* A ConfigMap deleted between apply and read-back is reported as ready without being
  verified (`ntncellconfig_controller.go:390`).
* A dropped fan-out is said to be recovered by the cells' own requeue
  (`ntncellconfig_controller.go:1374`), which several reasons do not ask for; the next
  heartbeat recovers it.
* The contact candidate stays in status when metrics become unreliable and `FailoverReady`
  turns Unknown.
* `EvaluateRecovery` clamps `threshold - margin` at zero, so a `>` trigger on RSRP, which is
  negative, recovers without its margin.

## Proofs

Each theorem holds for every value of the constants that satisfies the named assumptions
of the module, which TLC evaluates on the instances it checks. None of the properties
is inductive; the invariants below say what has to be added and why. Most leaves that
need no arithmetic name Zenon as their prover; the others are left to the SMT solver.

`NTNSliceTyping`, `NTNSliceStreaks` and `NTNSliceDwell` (`PolicyAssumption`,
`NumberAssumption`: triggers that parse and readings are numbers, `BoundAssumption`):

* `TypeCorrect`: `TypeOK`. It says among other things that the stored path is never
  `unavailable`, which needs the result type of each engine function.
* `PlaceholdersNeverMatter`, `HysteresisDelays`: `PlaceholderNeverMatters` and
  `HysteresisOnlyDelays`, for any triggers, readings, margins and delays. Two readings that
  agree on the metrics with a source (`SameLive`) get the same answer from each function of
  the engine in turn.
* `StricterOnlyDelays`: of two policies with the same triggers, the one with the larger
  margin, delay, dwell and number of confirmations decides the same or stays, on every state,
  reading and time. Each threshold is monotone on its own (`RecoveryShrinks`,
  `MayReturnShrinks`); the theorem adds that together they do not undo each other.
* `DwellNeverFuture`: `NeverFutureDwell`, for any skew and any step back. `FutureInv` says that
  neither memory nor the reconcile in flight has a dwell clock stamped later than the monotonic
  present; the stored one may be ahead after a handoff, and `EvaluationPast` shows that it is
  then dropped.
* `FailoversConfirmed`: `FailoverConfirmed`, for both kinds of source. `StreakInv` relates
  the counters of the engine to the recorded evaluations: a streak in memory, or waiting to
  be committed, is no longer than the recorded run of the same object and generation, and
  its cursor is the last sample of that run. A replay is not counted twice because the cursor
  never passes the newest sample (`UpToDate`) and what the stale cache replays is that
  sample (`SampleInv`).
* `SwitchbacksJustified`: `SwitchbackJustified`, for a source without timestamps and with
  `MaxSkew = 0`. `RecoveryInv`: the recovery clock in memory started no earlier than the
  recorded recovery. With timestamps the property fails (`slice_replay`); without the
  second hypothesis, start and end of a recovery may be read on two clocks.
* `DwellClockDurable`, `DwellNeverSpeculative`, `DwellHonoured`: `DurableDwellClock`,
  `NoSpeculativeDwell` and `MinDwellHonoured`, when `MaxSkew = 0`, that is when a new
  leader's clock is not behind and no clock is set back. `DwellInv` adds that no clock is
  ahead of the present; a cached copy and the base of the reconcile in flight are no newer an
  incarnation than the stored object, and their dwell clock is no later than its; the memory
  entry, and the entry waiting to be committed, agree with the durable clock of the same
  object; and the reconcile in flight carries the clock its write will make durable. The
  engine enters through `HandBack`, the only place that moves the dwell clock, and
  `SeededDwell`. Truncation to seconds is monotone (`TruncMonotone`).
* `DwellHonouredUnderSkew`: what remains of the dwell for any `MaxSkew`. With clocks that
  disagree the stored dwell clock need not be that of the last hand-back, since a new leader
  may take it for future and drop it; but whatever past clock the stored object shows is waited for.
  `ReadingInv`: the wall reading of a dwell clock in memory is no later than its monotonic
  reading, so measuring the dwell by the latter never shortens it (`WallNoLater`).
  `BaseDwellInv` says so of the version a decision was made on, and a write is accepted only
  on that version.
* `SetSatelliteReturns`: the safety part of `SetSatelliteIsLeft`. Each of the three cases of
  the decision switch returns to terrestrial when no satellite is available (`DecidesReturn`);
  `Returned` is then never left.
* `ReconcilerImplementsPolicy`: the refinement of `PathPolicy`, under the hypotheses of
  `SwitchbacksJustified`. `PathInv` ties the decision in flight to what it does to the path;
  an accepted write is then a failover with its confirmations and dwell, a hand-back with its
  recovery, or the end of a pass, by the theorems above, and every other step leaves the
  stored path alone.

`SliceReportProofs` (`SeriesAssumption`, and `DeleteUnadopted` off for the first):

* `SeriesReleased`: `NoDeadSeries`. `SeriesInv` says that every series has a slice that
  exists and is not about to lose its finalizer, that a live copy in the cache is the
  stored incarnation, and that a release works on an incarnation the cache showed as
  terminating. Of two concurrent finalizers the second therefore sees the first as
  terminating and does not count it.
* `EventsOnceUnlessCutOff`, `CounterMatchesStatus`, `ConditionsOfOneEvaluation`:
  `AnnouncedOnceUnlessCutOff`, `CounterInStep` and `ConditionsAgree`, for any bounds. `ReportInv`
  adds that the reconcile in flight is `Truthful`: what it will announce is exactly the
  transitions from the version it was decided on to the status it will write. As a write is
  accepted only on that version, these are the transitions that become durable. `cutOff`
  counts the exceptions the statement makes: transitions whose reply was lost, and those of
  a reconcile that a restart ended between its write and its events.

`EphemerisSourceProofs` (`SpecsAssumption`, `SourceAssumption`):

* `PayloadIsOwn`: `OwnPayload`. Everything kept under a key and a UID came from that source,
  for that object, at the recorded time (`Own`), in memory and in both ConfigMaps.
* `WindowsAreRecent`: `WindowIsRecent`, from the same.
* `BackoffIsExact`: `BackoffExact`. `BackoffInv` ties the cache entry to the last noted
  failure (`Armed`): same object, source and retry inputs, the class and count, and the time
  to wait for. It also has to say when the entry may be missing after a failure: only when
  the object is gone, or a newer one has nothing durable to restore.
* `RestartRestores`: `RestartKeepsData`, when `Mirrored` is off. `SecuredInv`: what was
  reported durable is in the ConfigMap of the UID under that source.
* `OwnFetchesCurrent`: `OwnFetchIsCurrent`. `FetcherInv` says that every payload is `Whole`,
  that is complete for the selector it was cut to; that a stored validator belongs to the
  version it is stored with (`Tagged`); and of the shared fetcher (`Vouches`) that a body goes
  with its validator, and that a validator which the object itself seeded, as long as no body
  has come, is that of the object's entry. An object without an entry has seeded none.
* `DurableMovesForward`, `MemoryLeadsDurable`: versions. `VersionInv` bounds every stored
  version by that of the source and says that elements in memory are not behind the durable
  copy of the same object and source. A 304 keeps what memory has, a body is the newest
  version, a restart brings back the durable copy itself, and the copy of an older release
  is only moved to where there is none, so persisting never goes back.

`GroundSegmentProofs` (`StationAssumption`: windows lie within a day, as `parseHHMM`
ensures; `PassesAssumption`; `PredictionAssumption`: names are numbered in their order, times
are integers; `SkyAssumption`: finitely many stations, and finitely many passes over each
place):

* `UpdateClockOwn`: `StartedIsThisUpdate`.
* `UpdateTimesOut`: `UpdateBounded`, if `spec.firmware` is not removed during an update.
  `UpdateInv` adds that a station that is updating has a firmware spec, and for the reconcile
  in flight that what it will store goes on with the update of the stored status, within the
  timeout, or begins one dated with its own time.
* `UpdatesBeginInWindow`: `UpdateBeginsInWindow`, for windows of any length. `WindowTicks`
  shows that the two comparisons of `IsWithinMaintenanceWindow`, and their other form over
  midnight, are the count of ticks from the start to the end.
* `WindowsAreCurrent`: `ResolvedWindowsReflectInputs`. A station is, with each version, live,
  then terminating, then absent. A signature shows what was so once (`Older`), and an edit
  takes a station past everything that was ever signed of it (`Onward`), so a signature that
  is current was current all along, and the windows beside it are those of a sweep now.
* `WritesVouchForInputsRead`: `NoWriteVouchesForOldInputs`, a property of steps.
* `ContactsHold`: `ContactHoldsUntilItsEnd`, for any sky and resolution of time. By
  `WindowsAreCurrent` the windows are those of a sweep now; each lies within a pass of the
  sky, because cutting and rounding only shorten (`ClippedWindow`) and the cap only removes
  (`CapKeeps`); and the contact is one of them (`ContactIsWindow`), since among the active
  windows of fresh elements there is one that no other precedes (`SoonestExists`, from the
  fact that naturals are well founded), and its `validUntil` is no later than its end and the
  expiry of its elements.
* `FirstPassesSeen`, `WindowsFitStatus`: `FirstPassIsSeen`, and that no status holds more
  windows than `MaxPassWindows`. Both assume that bounded names are distinct: passes of two
  satellites of one bounded name may tie in `lessPass`, and the cap on sets then keeps both
  where the loop of the code keeps either. The first also assumes no more satellites than
  windows, without which the cap cannot serve all of them. A window is kept by its rank, the
  number of windows before it; `lessPass` is a strict total order (`LessPassOrder`), so
  ranks are injective and no more windows are kept than there are ranks below the cap. The
  passes within the quota are told apart by satellite and rank, so that all of them fit
  under the cap, the first pass of each satellite among them.
* `ChecksReachRunning`: the safety part of `ConvergesToRunning`. `ChecksLeft` ranks a status
  by the checks it is away from Running, and a check of a healthy station lowers it.

`CellArtifactProofs` (`ArtifactAssumption`, `MapsAssumption`):

* `AppliedWasWritten`, `CleanedUp`, `ForeignSafe`: `AppliedMeansWritten`, `NothingLeftBehind`
  and `ForeignMapUntouched`. `ArtifactInv` follows a reconcile from call to call: which map
  it may update or delete, what the stages after the write know of the file, and that
  either the object is still the one it has read or status vouches for nothing.
  `MapsAssumption` says what the history fields mean of a map that others made.
* `DeletionsDescend`: the safety part of `DeletionCompletes`. `DeletionRank` counts the steps
  of the worker that a deletion is away from its end. A reconcile that was under way when the
  object was deleted runs out through its status write; the clean-up after it is `Undisturbed`
  and goes through, also when the garbage collector takes the map first.
* `RestLasts`: the safety part of `CellConverges`. `AtRest` is kept by every step, and none
  writes the map.

`RuntimePushProofs` (`PushAssumption`):

* `PushedWasTaken`: `PushedMeansTaken`; the marker that a success records is that of the frame,
  and nothing but a later frame, or states and edits that age all markers, replaces what the
  gNB took.
* `SwitchAppliedOnce`: `SwitchNotRepeated`; switches applied, in flight and still owed
  together never exceed those asked for and those whose record was lost.
* `EpochAhead`: `DeliveredAhead`; while the credential is read, the epoch is further ahead than
  the margin less the ticks waited, and during an exchange further than its timeout, both as
  long as the wait was within `Slack = Margin - Timeout`.
* `PushedSatelliteIsSelected`: `SelectedInv` says that a frame leaves only while the recorded
  push is out of date, and carries the satellite selected then. The selection changes only
  with the states, which age the marker, or with the spec, which makes the write a conflict.
* `ReadyIsWatched`: the safety part of `StaleIsNoticed`. `WatchInv`: a reconcile about to end
  either asks for a requeue or takes the report back.

Only model-checked: the liveness properties, as fairness and ENABLED are outside the
prover: `SustainedDegradationFailsOver`, `SetSatelliteIsLeft`, `PredictionsCatchUp`,
`DeletionCompletes`, `CellConverges`, `StaleIsNoticed`, `StatesReachTheGnb` and
`ConvergesToRunning`. For five of them the part without fairness is a theorem above: the rank
that steps lower, the state that no step leaves, or the wake-up that is always pending. These
statements, and the others that name no property of a run, are about definitions of the proof
modules and were found to hold on the instances of the runs before they were proved.

## Not modelled

* SGP4, coordinate transforms and the search for a pass: floating-point numerics. The sky
  is an input of `PassPrediction`, the states are sets of satellites in `RuntimePush`.
* OMM parsing and YAML rendering: text.
* The Space-Track login session. Login and query run under one mutex, so no answer is mixed
  up between objects; a failed login is one of the failures of `EphemerisSource`.
* The pools of metrics readers and HTTP clients, which memoise stateless clients.
* QoS, security and billing fields of a slice; the wording of conditions and events; event
  throttling; the advisory on the SIB19 cadence; gauges that nothing reads back.
* An edit of a slice's ephemeris reference, which leaves the old gauge series behind.
* Address filters, flags and wiring of the manager, the demonstration exporter, generated code.
* `NTNSlice` and `PassPrediction` are not composed: the slice takes its availability as an
  input, and `PassPrediction` states what the contact it is given can be relied on for.
