------------------------- MODULE SliceReportProofs --------------------------
(***************************************************************************)
(* Theorems about what slices show to the outside: the conditions, events  *)
(* and counter of SliceReport, for every bound, and the shared gauge series *)
(* of SliceSeries, for any number of slices, references and incarnations,  *)
(* when every slice that is deleted has been adopted by its reconciler.    *)
(***************************************************************************)
EXTENDS SliceReport, SliceSeries, TLAPS

(***************************************************************************)
(* The gauge series that slices share.                                     *)
(***************************************************************************)
Objects == [uid : Nat, phase : {"live", "terminating", "gone"}, finalizer : BOOLEAN, ref : Refs]
Works   == [step : {"idle", "gauge", "release", "remove"}, uid : Nat, ref : Refs]

Types ==
  /\ api \in [Slices -> Objects] /\ cache \in [Slices -> Objects] /\ turns \in [Slices -> Works]
  /\ series \subseteq Refs

(* The reconcile of s is about to remove the finalizer of the stored object itself. *)
Leaving(s) == turns[s].step = "remove" /\ turns[s].uid = api[s].uid

(* What the cache shows of s was stored, and a copy that is live shows the stored incarnation, which still exists. *)
CacheLags(s) ==
  /\ cache[s].uid <= api[s].uid
  /\ cache[s].uid = api[s].uid => cache[s].ref = api[s].ref
  /\ cache[s].phase = "live" => cache[s].uid = api[s].uid /\ api[s].phase # "gone"
  /\ api[s].phase = "live" /\ cache[s].uid = api[s].uid => cache[s].phase = "live"

(* A gauge is set for a slice that has its finalizer; a release works on an incarnation that the cache showed terminating. *)
WorkHolds(s) ==
  /\ turns[s].step = "gauge" =>
       turns[s].uid = api[s].uid /\ turns[s].ref = api[s].ref /\ api[s].phase # "gone"
  /\ turns[s].step \in {"release", "remove"} =>
       /\ turns[s].uid <= cache[s].uid
       /\ cache[s].phase = "live" => turns[s].uid < cache[s].uid
       /\ turns[s].uid = api[s].uid => turns[s].ref = api[s].ref

(* Every series has a slice behind it that exists and is not about to go. *)
Kept == \A ref \in series : \E s \in Slices : api[s].phase # "gone" /\ api[s].ref = ref /\ ~Leaving(s)

SeriesInv == Types /\ Kept /\ \A s \in Slices : CacheLags(s) /\ WorkHolds(s)

(* A slice that is not being reconciled. *)
LEMMA IdleTyped == NoTurn \in Works /\ NoTurn.step = "idle"
<1>1. (CHOOSE r \in Refs : TRUE) \in Refs BY SeriesAssumption, Zenon
<1> QED BY <1>1, Zenon DEF NoTurn, Works

(* Incarnations are numbered. *)
LEMMA Uids ==
  ASSUME Types, NEW t \in Slices
  PROVE  api[t].uid \in Nat /\ cache[t].uid \in Nat /\ turns[t].uid \in Nat
BY Zenon DEF Types, Objects, Works

(* Adding the finalizer changes nothing else of an object. *)
LEMMA Adopted ==
  ASSUME NEW o \in Objects
  PROVE  LET adopted == [o EXCEPT !.finalizer = TRUE]
         IN  adopted \in Objects /\ adopted.uid = o.uid /\ adopted.phase = o.phase /\ adopted.ref = o.ref
BY Zenon DEF Objects

(* No slice exists at first, and no series. *)
LEMMA InitSeries == SeriesInit => SeriesInv
<1> SUFFICES ASSUME SeriesInit PROVE SeriesInv BY Zenon
<1>2. PICK ref \in [Slices -> Refs] : api = [s \in Slices |-> Absent(0, ref[s])]
  BY Zenon DEF SeriesInit
<1>3. Types BY IdleTyped, <1>2, Zenon DEF SeriesInit, Types, Absent, Objects
<1> QED BY <1>2, <1>3 DEF SeriesInit, SeriesInv, Kept, CacheLags, WorkHolds, Absent, NoTurn

(* Creation, deletion and the informer: the environment keeps every series backed. *)
LEMMA EnvironmentStep ==
  ASSUME SeriesInv, ~DeleteUnadopted, NEW s \in Slices,
         (\E ref \in Refs : Create(s, ref)) \/ Delete(s) \/ CacheSync(s)
  PROVE  SeriesInv'
<1> USE DEF SeriesInv, Types, Objects, Works
<1>1. ASSUME NEW ref \in Refs, Create(s, ref) PROVE SeriesInv'
  <2>1. Types' BY <1>1 DEF Create
  <2>2. Kept' BY <1>1 DEF Create, Kept, Leaving
  <2>3. ASSUME NEW t \in Slices PROVE CacheLags(t)' /\ WorkHolds(t)'
    BY <1>1 DEF Create, CacheLags, WorkHolds
  <2> QED BY <2>1, <2>2, <2>3, Zenon
<1>2. ASSUME Delete(s) PROVE SeriesInv'
  <2>1. Types' BY <1>2 DEF Delete
  <2>2. Kept' BY <1>2 DEF Delete, Kept, Leaving
  <2>3. ASSUME NEW t \in Slices PROVE CacheLags(t)' /\ WorkHolds(t)'
    BY <1>2 DEF Delete, CacheLags, WorkHolds
  <2> QED BY <2>1, <2>2, <2>3, Zenon
<1>3. ASSUME CacheSync(s) PROVE SeriesInv'
  <2>1. Types' BY <1>3, Zenon DEF CacheSync
  <2>2. Kept' BY <1>3 DEF CacheSync, Kept, Leaving
  <2>3. ASSUME NEW t \in Slices PROVE CacheLags(t)' /\ WorkHolds(t)'
    <3>1. cache' = [cache EXCEPT ![s] = api[s]] /\ api' = api /\ turns' = turns
      BY <1>3, Zenon DEF CacheSync
    <3>2. CASE t # s BY <3>1, <3>2, Zenon DEF CacheLags, WorkHolds
    <3>3. CASE t = s
      <4>1. cache'[t] = api[t] BY <3>1, <3>3, Zenon
      <4>2. CacheLags(t)' BY <3>1, <4>1 DEF CacheLags
      <4>3. CacheLags(t) /\ WorkHolds(t) BY Zenon
      <4>4. WorkHolds(t)'
        <5> HIDE DEF SeriesInv, Types, Objects, Works
        <5> QED BY <3>1, <4>1, <4>3, Uids DEF CacheLags, WorkHolds, SeriesInv
      <4> QED BY <4>2, <4>4, Zenon
    <3> QED BY <3>2, <3>3, Zenon
  <2> QED BY <2>1, <2>2, <2>3, Zenon
<1> QED BY <1>1, <1>2, <1>3, Zenon

(* The reconcile of a live slice: the gauge it sets is backed by the slice itself. *)
LEMMA LiveStep ==
  ASSUME SeriesInv, NEW s \in Slices, EnsureFinalizer(s) \/ SetGauge(s)
  PROVE  SeriesInv'
<1> USE DEF SeriesInv, Types, Objects, Works
<1>1. ASSUME EnsureFinalizer(s) PROVE SeriesInv'
  <2> DEFINE gauge == [step |-> "gauge", uid |-> cache[s].uid, ref |-> cache[s].ref]
  <2>1. api' \in [Slices -> Objects] /\ \A t \in Slices :
          api'[t].uid = api[t].uid /\ api'[t].phase = api[t].phase /\ api'[t].ref = api[t].ref
    <3>1. CASE UNCHANGED api BY <3>1, Zenon
    <3>2. CASE api' = [api EXCEPT ![s].finalizer = TRUE]
      <4>1. api' = [api EXCEPT ![s] = [api[s] EXCEPT !.finalizer = TRUE]] BY <3>2, Zenon
      <4>2. api[s] \in Objects BY Zenon
      <4> HIDE DEF SeriesInv, Types, Objects, Works
      <4>3. api \in [Slices -> Objects] BY Zenon DEF SeriesInv, Types
      <4> QED BY <4>1, <4>2, <4>3, Adopted, Zenon
    <3> QED BY <1>1, <3>1, <3>2, Zenon DEF EnsureFinalizer
  <2>2. cache' = cache /\ series' = series /\ cache[s].phase = "live"
        /\ (turns' = turns \/ turns' = [turns EXCEPT ![s] = gauge])
    BY <1>1, Zenon DEF EnsureFinalizer
  <2>t. gauge \in Works BY Zenon
  <2>3. Types'
    <3>1. turns' \in [Slices -> Works]
      <4> HIDE DEF gauge, Objects, Works
      <4> QED BY <2>2, <2>t, Zenon
    <3> QED BY <2>1, <2>2, <3>1, Zenon
  <2>w. \A t \in Slices : turns'[t] = turns[t] \/ (t = s /\ turns'[t] = gauge)
    BY <2>2, <2>t, Zenon
  <2>g. gauge.step = "gauge" /\ gauge.uid = cache[s].uid /\ gauge.ref = cache[s].ref BY Zenon
  <2> HIDE DEF gauge
  <2>4. \A t \in Slices : Leaving(t)' => Leaving(t) BY <2>1, <2>w, <2>g, Zenon DEF Leaving
  <2>5. Kept' BY <2>1, <2>2, <2>4 DEF Kept
  <2>6. ASSUME NEW t \in Slices PROVE CacheLags(t)' /\ WorkHolds(t)'
    BY <2>1, <2>2, <2>w, <2>g DEF CacheLags, WorkHolds
  <2> QED BY <2>3, <2>5, <2>6, Zenon
<1>2. ASSUME SetGauge(s) PROVE SeriesInv'
  <2>1. Types'
    BY <1>2, IdleTyped, Zenon DEF SetGauge
  <2>2. Kept'
    <3> SUFFICES ASSUME NEW ref \in series'
                 PROVE  \E t \in Slices : (api[t].phase # "gone" /\ api[t].ref = ref /\ ~Leaving(t))'
      BY Zenon DEF Kept
    <3>1. CASE ref = turns[s].ref
      BY <1>2, <3>1, Zenon DEF SetGauge, WorkHolds, Leaving, NoTurn
    <3>2. CASE ref \in series
      BY <1>2, <3>2, Zenon DEF SetGauge, Kept, Leaving, NoTurn
    <3> QED BY <1>2, <3>1, <3>2, Zenon DEF SetGauge
  <2>3. ASSUME NEW t \in Slices PROVE CacheLags(t)' /\ WorkHolds(t)'
    BY <1>2, Zenon DEF SetGauge, CacheLags, WorkHolds, NoTurn
  <2> QED BY <2>1, <2>2, <2>3, Zenon
<1> QED BY <1>1, <1>2, Zenon

(* A release that leaves the series finds a live copy of another slice, which exists and is not leaving. *)
LEMMA ReleaseStep ==
  ASSUME SeriesInv, NEW s \in Slices, ReleaseSeries(s)
  PROVE  SeriesInv'
<1> USE DEF SeriesInv, Types, Objects, Works
<1>0. api' = api /\ cache' = cache /\ series' \subseteq series /\ turns[s].step = "release"
      /\ (turns' = [turns EXCEPT ![s].step = "remove"] \/ turns' = [turns EXCEPT ![s] = NoTurn])
  BY Zenon DEF ReleaseSeries
<1>1. Types'
  <2>1. CASE turns' = [turns EXCEPT ![s].step = "remove"]
    <3>1. [turns[s] EXCEPT !.step = "remove"] \in Works BY Zenon
    <3> QED BY <1>0, <2>1, <3>1, Zenon
  <2>2. CASE turns' = [turns EXCEPT ![s] = NoTurn] BY <1>0, <2>2, IdleTyped, Zenon
  <2> QED BY <1>0, <2>1, <2>2, Zenon
<1>2. ASSUME NEW t \in Slices PROVE CacheLags(t)' /\ WorkHolds(t)'
  BY <1>0, IdleTyped DEF CacheLags, WorkHolds
<1>3. Kept'
  <2> SUFFICES ASSUME NEW ref \in series'
               PROVE  \E t \in Slices : (api[t].phase # "gone" /\ api[t].ref = ref /\ ~Leaving(t))'
    BY Zenon DEF Kept
  <2>1. PICK t \in Slices : api[t].phase # "gone" /\ api[t].ref = ref /\ ~Leaving(t)
    BY Zenon DEF ReleaseSeries, Kept
  <2>2. CASE t # s \/ turns'[s].step # "remove" \/ turns[s].uid # api[s].uid
    BY <2>1, <2>2 DEF ReleaseSeries, Leaving, NoTurn
  <2>3. CASE t = s /\ turns'[s].step = "remove" /\ turns[s].uid = api[s].uid
    <3>1. turns[s].ref = ref BY <2>1, <2>3, Zenon DEF ReleaseSeries, WorkHolds
    <3>2. ephemerisMetricReferenced(ref, s) BY <2>3, <3>1 DEF ReleaseSeries, NoTurn
    <3>3. PICK u \in Slices : u # s /\ cache[u].phase = "live" /\ cache[u].ref = ref
      BY <3>2, Zenon DEF ephemerisMetricReferenced
    <3>4. api[u].phase # "gone" /\ api[u].ref = ref /\ ~Leaving(u)
      BY <3>3 DEF CacheLags, WorkHolds, Leaving
    <3> QED BY <3>3, <3>4, Zenon DEF ReleaseSeries, Leaving
  <2> QED BY <2>2, <2>3, Zenon
<1> QED BY <1>1, <1>2, <1>3, Zenon

(* The rest of a finalization. *)
LEMMA FinalizeStep ==
  ASSUME SeriesInv, NEW s \in Slices, StartFinalize(s) \/ RemoveFinalizer(s) \/ RemoveFails(s)
  PROVE  SeriesInv'
<1> USE DEF SeriesInv, Types, Objects, Works
<1>1. ASSUME StartFinalize(s) PROVE SeriesInv'
  <2>1. Types' BY <1>1, Zenon DEF StartFinalize
  <2>2. Kept' BY <1>1, Zenon DEF StartFinalize, Kept, Leaving
  <2>3. ASSUME NEW t \in Slices PROVE CacheLags(t)' /\ WorkHolds(t)'
    BY <1>1 DEF StartFinalize, CacheLags, WorkHolds
  <2> QED BY <2>1, <2>2, <2>3, Zenon
<1>2. ASSUME RemoveFinalizer(s) PROVE SeriesInv'
  <2>1. Types' BY <1>2, IdleTyped, Zenon DEF RemoveFinalizer, Absent
  <2>2. Kept' BY <1>2 DEF RemoveFinalizer, Kept, Leaving, NoTurn, Absent
  <2>3. ASSUME NEW t \in Slices PROVE CacheLags(t)' /\ WorkHolds(t)'
    BY <1>2 DEF RemoveFinalizer, CacheLags, WorkHolds, NoTurn, Absent
  <2> QED BY <2>1, <2>2, <2>3, Zenon
<1>3. ASSUME RemoveFails(s) PROVE SeriesInv'
  <2>1. Types' BY <1>3, IdleTyped, Zenon DEF RemoveFails
  <2>2. Kept' BY <1>3, Zenon DEF RemoveFails, Kept, Leaving, NoTurn
  <2>3. ASSUME NEW t \in Slices PROVE CacheLags(t)' /\ WorkHolds(t)'
    BY <1>3, Zenon DEF RemoveFails, CacheLags, WorkHolds, NoTurn
  <2> QED BY <2>1, <2>2, <2>3, Zenon
<1> QED BY <1>1, <1>2, <1>3, Zenon

(* handleSliceFinalizer and ephemerisMetricReferenced: for any number of slices that share references, any
   interleaving of their finalizations and any lag of the cache, no series outlives its last slice. *)
THEOREM SeriesReleased == ~DeleteUnadopted => (SeriesSpec => []NoDeadSeries)
<1> SUFFICES ASSUME ~DeleteUnadopted PROVE SeriesSpec => []NoDeadSeries BY Zenon
<1>1. SeriesInv /\ [SeriesNext]_seriesVars => SeriesInv'
  <2> SUFFICES ASSUME SeriesInv, [SeriesNext]_seriesVars PROVE SeriesInv' BY Zenon
  <2>1. CASE UNCHANGED seriesVars
    BY <2>1, Zenon DEF SeriesInv, seriesVars, Types, Kept, CacheLags, WorkHolds, Leaving
  <2>2. CASE SeriesNext
    BY <2>2, EnvironmentStep, LiveStep, ReleaseStep, FinalizeStep, Zenon DEF SeriesNext
  <2> QED BY <2>1, <2>2, Zenon
<1>2. SeriesInv => NoDeadSeries
  BY Zenon DEF SeriesInv, Kept, NoDeadSeries
<1> QED BY InitSeries, <1>1, <1>2, PTL DEF SeriesSpec

(***************************************************************************)
(* What one slice reports.  The three properties are not inductive: what a *)
(* write makes durable and what the commit announces were both fixed by    *)
(* the evaluation before it.                                               *)
(***************************************************************************)
Triggers == [status : Tristate, generation : Nat]
Statuses ==
  [path : {"terrestrial", "satellite"}, count : Nat, ready : Tristate, candidate : BOOLEAN,
   stale : Tristate, triggers : Triggers]
StoredSlices == [generation : Nat, status : Statuses]
Reconciles ==
  [stage : {"idle", "write", "commit"}, base : StoredSlices, status : Statuses,
   decision : {"Stay", "Failover", "Switchback"}, pending : SUBSET {"MetricsStale", "InertTriggers"}]

Agrees(status) == status.stale = "Unknown" => status.ready = "Unknown" /\ status.triggers.status = "Unknown"
Failovers == IF work.decision = "Failover" THEN 1 ELSE 0

(* The reconcile in flight announces exactly the transitions that its write makes durable. *)
Truthful ==
  /\ Agrees(work.status)
  /\ work.status.count = work.base.status.count + Failovers
  /\ \A k \in EventKinds : k \in Announced <=> Transition(k, work.base.status, work.status)

ReportTypes ==
  /\ slice \in StoredSlices /\ cached \in StoredSlices /\ work \in Reconciles
  /\ failoverTotal \in Nat /\ counterBase \in Nat
  /\ owed \in [EventKinds -> Int] /\ cutOff \in [EventKinds -> Nat]

ReportInv ==
  /\ ReportTypes
  /\ Agrees(slice.status) /\ Agrees(cached.status)
  /\ work.stage = "write" => Truthful
  /\ \A k \in EventKinds : owed[k] = cutOff[k] + IF work.stage = "commit" /\ k \in Announced THEN 1 ELSE 0
  /\ CounterInStep

(* The empty report. *)
LEMMA NoReportTyped == NoStatus \in Statuses /\ Idle \in Reconciles /\ Idle.stage = "idle" /\ Agrees(NoStatus)
BY Zenon DEF NoStatus, Idle, NewSlice, Statuses, Triggers, StoredSlices, Reconciles, Tristate, Agrees

(* The operators of the report, field by field. *)
LEMMA EvaluatedStatus ==
  ASSUME NEW s \in Statuses, NEW quality \in Qualities, NEW contact \in Contacts, NEW inert \in BOOLEAN,
         NEW generation \in Nat,
         NEW r, r = TriggersStatus(ReadyStatus(QualityStatus(s, quality), quality, contact), generation, quality, inert)
  PROVE  /\ r \in Statuses /\ r.path = s.path /\ r.count = s.count
         /\ Agrees(r)
         /\ r.stale = "True" <=> quality \in {"stale", "tooStale"}
         /\ r.triggers.generation = generation
         /\ r.triggers.status = "False" <=> Reliable(quality) /\ inert
<1> DEFINE q == QualityStatus(s, quality)
           d == ReadyStatus(q, quality, contact)
<1>1. /\ q \in Statuses /\ q.path = s.path /\ q.count = s.count
      /\ q.stale = "True" <=> quality \in {"stale", "tooStale"}
      /\ q.stale = "Unknown" <=> quality = "unusable"
      /\ ~Reliable(quality) => q.ready = "Unknown"
  <2>1. CASE quality = "fresh"
    BY <2>1, Zenon DEF QualityStatus, Reliable, Statuses, Tristate
  <2> QED BY <2>1, Zenon DEF QualityStatus, Reliable, Statuses, Tristate, Qualities
<1> HIDE DEF q
<1>2. /\ d \in Statuses /\ d.path = q.path /\ d.count = q.count /\ d.stale = q.stale
      /\ ~Reliable(quality) => d = q
  <2>1. CASE Reliable(quality) /\ contact = "unknown"
    BY <1>1, <2>1, Zenon DEF ReadyStatus, Statuses, Tristate
  <2>2. CASE Reliable(quality) /\ contact # "unknown"
    BY <1>1, <2>2, Zenon DEF ReadyStatus, Statuses, Tristate, Contacts
  <2>3. CASE ~Reliable(quality)
    BY <1>1, <2>3, Zenon DEF ReadyStatus
  <2> QED BY <2>1, <2>2, <2>3, Zenon
<1> HIDE DEF d
<1> DEFINE t == [status |-> IF ~Reliable(quality) THEN "Unknown" ELSE IF inert THEN "False" ELSE "True",
                 generation |-> generation]
<1>3. r = [d EXCEPT !.triggers = t]
  BY Zenon DEF TriggersStatus, d, q
<1>t. t \in Triggers
  BY Zenon DEF Triggers, Tristate
<1>4. /\ r \in Statuses /\ r.path = d.path /\ r.count = d.count /\ r.stale = d.stale /\ r.ready = d.ready
      /\ r.triggers = t
  <2> HIDE DEF t
  <2> QED BY <1>2, <1>3, <1>t, Zenon DEF Statuses
<1>5. Reliable(quality) \/ quality \in {"tooStale", "unusable"}
  BY Zenon DEF Reliable, Qualities
<1> QED BY <1>1, <1>2, <1>3, <1>4, <1>5 DEF Agrees, Reliable

(* A decision moves the path and counts a failover; the conditions stay. *)
LEMMA DecidedStatus ==
  ASSUME NEW s \in Statuses, NEW decision \in {"Stay", "Failover", "Switchback"},
         NEW r, r = DecisionStatus(s, decision)
  PROVE  /\ r \in Statuses /\ r.stale = s.stale /\ r.ready = s.ready /\ r.triggers = s.triggers
         /\ r.path = IF decision = "Failover" THEN "satellite" ELSE IF decision = "Switchback" THEN "terrestrial" ELSE s.path
         /\ r.count = s.count + IF decision = "Failover" THEN 1 ELSE 0
<1>1. CASE decision = "Failover"
  <2>1. r = [s EXCEPT !.path = "satellite", !.count = @ + 1]
    BY <1>1, Zenon DEF DecisionStatus
  <2>2. r = [path |-> "satellite", count |-> s.count + 1, ready |-> s.ready, candidate |-> s.candidate,
             stale |-> s.stale, triggers |-> s.triggers]
    BY <2>1, Zenon DEF Statuses
  <2> QED BY <1>1, <2>2 DEF Statuses
<1>2. CASE decision = "Switchback"
  <2>1. r = [s EXCEPT !.path = "terrestrial"]
    BY <1>2, Zenon DEF DecisionStatus
  <2> QED BY <1>2, <2>1 DEF Statuses
<1>3. CASE decision = "Stay"
  <2>1. r = s
    BY <1>3, Zenon DEF DecisionStatus
  <2> QED BY <1>3, <2>1 DEF Statuses
<1> QED BY <1>1, <1>2, <1>3, Zenon

(* An evaluation announces exactly the transitions from the version it read to the status it will write. *)
LEMMA ReconcileReport ==
  ASSUME ReportInv, NEW quality \in Qualities, NEW contact \in Contacts, NEW inert \in BOOLEAN,
         NEW decision \in {"Stay", "Failover", "Switchback"}, Reconcile(quality, contact, inert, decision)
  PROVE  ReportInv'
<1> DEFINE s == cached.status
           e == TriggersStatus(ReadyStatus(QualityStatus(s, quality), quality, contact), cached.generation, quality, inert)
           r == DecisionStatus(e, decision)
<1>1. /\ work.stage = "idle" /\ decision \in Possible(s.path, quality, contact)
      /\ work' = [stage |-> "write", base |-> cached, status |-> r, decision |-> decision,
                  pending |-> PendingEvents(cached, quality, inert)]
      /\ UNCHANGED <<slice, cached, failoverTotal, counterBase, owed, cutOff>>
  BY Zenon DEF Reconcile
<1>2. s \in Statuses /\ cached \in StoredSlices /\ cached.generation \in Nat
  BY Zenon DEF ReportInv, ReportTypes, StoredSlices
<1> HIDE DEF s
<1>3. /\ e \in Statuses /\ e.path = s.path /\ e.count = s.count /\ Agrees(e)
      /\ e.stale = "True" <=> quality \in {"stale", "tooStale"}
      /\ e.triggers.generation = cached.generation
      /\ e.triggers.status = "False" <=> Reliable(quality) /\ inert
  BY <1>2, EvaluatedStatus
<1> HIDE DEF e
<1>4. /\ r \in Statuses /\ r.stale = e.stale /\ r.ready = e.ready /\ r.triggers = e.triggers
      /\ r.path = IF decision = "Failover" THEN "satellite" ELSE IF decision = "Switchback" THEN "terrestrial" ELSE e.path
      /\ r.count = e.count + IF decision = "Failover" THEN 1 ELSE 0
  BY <1>3, DecidedStatus
<1> HIDE DEF r
<1>5. PendingEvents(cached, quality, inert) \in SUBSET {"MetricsStale", "InertTriggers"}
  BY Zenon DEF PendingEvents
<1>6. work' \in Reconciles /\ work'.stage = "write" /\ work'.status = r /\ work'.base = cached
      /\ work'.decision = decision /\ work'.pending = PendingEvents(cached, quality, inert)
  BY <1>1, <1>2, <1>4, <1>5, Zenon DEF Reconciles
<1>7. Agrees(work'.status) /\ work'.status.count = work'.base.status.count + Failovers'
  BY <1>3, <1>4, <1>6, Zenon DEF Agrees, Failovers, s
<1>8. ASSUME NEW k \in EventKinds
      PROVE  k \in Announced' <=> Transition(k, s, r)
  <2>1. CASE k = "FailoverTriggered"
    BY <1>1, <1>3, <1>4, <1>5, <1>6, <2>1, Zenon DEF Announced, Transition, Possible
  <2>2. CASE k = "Switchback"
    BY <1>1, <1>3, <1>4, <1>5, <1>6, <2>2, Zenon DEF Announced, Transition, Possible
  <2>3. CASE k = "MetricsStale"
    BY <1>1, <1>3, <1>4, <1>6, <2>3, Zenon DEF Announced, Transition, PendingEvents, s
  <2>4. CASE k = "InertTriggers"
    <3>1. r.triggers.status = "False" => r.triggers = [status |-> "False", generation |-> cached.generation]
      BY <1>3, <1>4, Zenon DEF Statuses, Triggers
    <3>2. k \in Announced' <=> Reliable(quality) /\ inert /\ InertEpisode(cached)
      BY <1>6, <2>4, Zenon DEF Announced, PendingEvents
    <3> QED BY <1>3, <1>4, <2>4, <3>1, <3>2, Zenon DEF Transition, InertEpisode, s
  <2> QED BY <2>1, <2>2, <2>3, <2>4, Zenon DEF EventKinds
<1>9. Truthful'
  BY <1>6, <1>7, <1>8, Zenon DEF Truthful, s
<1>10. CounterInStep'
  BY <1>1, <1>6, Zenon DEF ReportInv, CounterInStep, Uncounted
<1> QED BY <1>1, <1>6, <1>9, <1>10, Zenon DEF ReportInv, ReportTypes

(* A status that a reconcile may store, as the API server stores it. *)
LEMMA AcceptedSlice ==
  ASSUME ReportInv, work.stage = "write", Accept
  PROVE  /\ slice' \in StoredSlices /\ slice'.status = work.status /\ Agrees(slice'.status)
         /\ slice'.status.count = slice.status.count + Failovers
         /\ \A k \in EventKinds : k \in Announced <=> Transition(k, slice.status, work.status)
<1>1. slice \in StoredSlices /\ work.status \in Statuses /\ Truthful
  BY Zenon DEF ReportInv, ReportTypes, Reconciles
<1>2. slice' = [slice EXCEPT !.status = work.status] /\ work.base = slice
  BY Zenon DEF Accept
<1>3. slice' \in StoredSlices /\ slice'.status = work.status
  BY <1>1, <1>2, Zenon DEF StoredSlices
<1> QED BY <1>1, <1>2, <1>3, Zenon DEF Truthful

(* The histories count one event kind at a time. *)
LEMMA Counted ==
  ASSUME NEW kinds, NEW history
  PROVE  /\ history \in [EventKinds -> Nat] => Plus(history, kinds) \in [EventKinds -> Nat]
         /\ history \in [EventKinds -> Int] => Plus(history, kinds) \in [EventKinds -> Int]
         /\ \A k \in EventKinds : Plus(history, kinds)[k] = history[k] + IF k \in kinds THEN 1 ELSE 0
BY DEF Plus

(* A step to the commit keeps what the reconcile will announce. *)
LEMMA ToCommit ==
  ASSUME work \in Reconciles, work' = [work EXCEPT !.stage = "commit"]
  PROVE  /\ work' \in Reconciles /\ work'.stage = "commit" /\ work'.decision = work.decision
         /\ Announced' = Announced
<1>1. /\ work' \in Reconciles /\ work'.stage = "commit" /\ work'.decision = work.decision
      /\ work'.pending = work.pending
  BY Zenon DEF Reconciles
<1> QED BY <1>1, Zenon DEF Announced

(* The status becomes durable, or was so already. *)
LEMMA WriteReport ==
  ASSUME ReportInv, WriteStatus \/ SkipWrite
  PROVE  ReportInv'
<1>1. /\ work.stage = "write" /\ work \in Reconciles /\ work' = [work EXCEPT !.stage = "commit"]
      /\ UNCHANGED <<cached, failoverTotal, counterBase, cutOff>>
  BY Zenon DEF ReportInv, ReportTypes, WriteStatus, SkipWrite
<1>2. /\ work' \in Reconciles /\ work'.stage = "commit" /\ work'.decision = work.decision
      /\ Announced' = Announced
  BY <1>1, ToCommit, Zenon
<1>3. CASE WriteStatus
  <2>1. /\ slice' \in StoredSlices /\ slice'.status = work.status /\ Agrees(slice'.status)
        /\ slice'.status.count = slice.status.count + Failovers
        /\ \A k \in EventKinds : k \in Announced <=> Transition(k, slice.status, work.status)
    BY <1>1, <1>3, AcceptedSlice, Zenon DEF WriteStatus
  <2>2. owed' = Plus(owed, Transitions)
    BY <1>3, Zenon DEF WriteStatus
  <2>3. /\ owed \in [EventKinds -> Int] /\ cutOff \in [EventKinds -> Nat]
        /\ \A k \in EventKinds : owed[k] = cutOff[k] + 0
    BY <1>1, Zenon DEF ReportInv, ReportTypes
  <2>4. /\ owed' \in [EventKinds -> Int]
        /\ \A k \in EventKinds : owed'[k] = cutOff[k] + IF k \in Announced THEN 1 ELSE 0
    BY <2>1, <2>2, <2>3, Counted DEF Transitions
  <2>5. CounterInStep'
    <3>1. slice.status.count \in Nat /\ failoverTotal \in Nat /\ counterBase \in Nat
      BY Zenon DEF ReportInv, ReportTypes, StoredSlices, Statuses
    <3>2. failoverTotal = slice.status.count - counterBase
      BY <1>1, <3>1 DEF ReportInv, CounterInStep, Uncounted
    <3>3. Uncounted' = Failovers
      BY <1>2, Zenon DEF Uncounted, Failovers
    <3> QED BY <1>1, <2>1, <3>1, <3>2, <3>3 DEF CounterInStep, Failovers
  <2> QED BY <1>1, <1>2, <2>1, <2>4, <2>5, Zenon DEF ReportInv, ReportTypes
<1>4. CASE SkipWrite
  <2>1. UNCHANGED <<slice, owed, cutOff>> /\ work.status = work.base.status /\ Truthful
    BY <1>1, <1>4, Zenon DEF SkipWrite, CanSkipWrite, ReportInv
  <2>2. \A k \in EventKinds : ~Transition(k, work.status, work.status)
    <3> SUFFICES ASSUME NEW k \in EventKinds PROVE ~Transition(k, work.status, work.status)
      BY Zenon
    <3>1. CASE k \in {"FailoverTriggered", "Switchback"}
      BY <3>1, Zenon DEF Transition
    <3>2. CASE k \in {"MetricsStale", "InertTriggers"}
      BY <3>2, Zenon DEF Transition
    <3> QED BY <3>1, <3>2, Zenon DEF EventKinds
  <2>3. \A k \in EventKinds : k \notin Announced
    BY <2>1, <2>2, Zenon DEF Truthful
  <2>4. work.decision # "Failover"
    BY <2>3, Zenon DEF Announced, EventKinds
  <2>5. CounterInStep'
    BY <1>1, <1>2, <2>1, <2>4, Zenon DEF ReportInv, CounterInStep, Uncounted
  <2> QED BY <1>1, <1>2, <2>1, <2>3, <2>5, Zenon DEF ReportInv, ReportTypes
<1> QED BY <1>3, <1>4, Zenon

(* The reconcile ends: announced, refused, lost or cut short by a restart. *)
LEMMA EndReport ==
  ASSUME ReportInv, WriteFails \/ WriteReplyLost \/ Commit \/ Restart
  PROVE  ReportInv'
<1>1. work' = Idle /\ cached' = cached /\ Idle \in Reconciles /\ Uncounted' = 0
  BY NoReportTyped, Zenon DEF WriteFails, WriteReplyLost, Commit, Restart, Uncounted
<1>2. /\ slice.status.count \in Nat /\ failoverTotal \in Nat /\ counterBase \in Nat
      /\ failoverTotal + Uncounted = slice.status.count - counterBase
      /\ Uncounted \in Nat
  BY Zenon DEF ReportInv, ReportTypes, StoredSlices, Statuses, CounterInStep, Uncounted
<1>3. /\ work'.stage = "idle" /\ slice \in StoredSlices
      /\ owed \in [EventKinds -> Int] /\ cutOff \in [EventKinds -> Nat]
  BY <1>1, NoReportTyped, Zenon DEF ReportInv, ReportTypes
<1>4. CASE WriteFails
  <2>1. work.stage = "write" /\ UNCHANGED <<slice, failoverTotal, counterBase, owed, cutOff>>
    BY <1>4, Zenon DEF WriteFails
  <2>2. CounterInStep'
    BY <1>1, <1>2, <2>1, Zenon DEF CounterInStep, Uncounted
  <2> QED BY <1>1, <1>3, <2>1, <2>2, Zenon DEF ReportInv, ReportTypes
<1>5. CASE WriteReplyLost
  <2>1. /\ work.stage = "write" /\ Accept /\ failoverTotal' = failoverTotal
        /\ owed' = Plus(owed, Transitions) /\ cutOff' = Plus(cutOff, Transitions)
        /\ counterBase' = counterBase + Failovers
    BY <1>5, Zenon DEF WriteReplyLost, Failovers
  <2>2. /\ slice' \in StoredSlices /\ Agrees(slice'.status)
        /\ slice'.status.count = slice.status.count + Failovers
    BY <2>1, AcceptedSlice, Zenon
  <2>3. CounterInStep' /\ counterBase' \in Nat
    <3>1. Failovers \in Nat /\ Uncounted = 0
      BY <2>1, Zenon DEF Failovers, Uncounted
    <3> QED BY <1>1, <1>2, <2>1, <2>2, <3>1 DEF CounterInStep
  <2>4. \A k \in EventKinds : owed[k] = cutOff[k] + 0
    BY <2>1, Zenon DEF ReportInv
  <2>5. /\ owed' \in [EventKinds -> Int] /\ cutOff' \in [EventKinds -> Nat]
        /\ \A k \in EventKinds : owed'[k] = cutOff'[k] + 0
    BY <1>3, <2>1, <2>4, Counted
  <2> QED BY <1>1, <1>2, <1>3, <2>1, <2>2, <2>3, <2>5, Zenon DEF ReportInv, ReportTypes
<1>6. CASE Commit
  <2>1. /\ work.stage = "commit" /\ failoverTotal' = failoverTotal + Uncounted
        /\ owed' = [k \in EventKinds |-> owed[k] - IF k \in Announced THEN 1 ELSE 0]
        /\ UNCHANGED <<slice, counterBase, cutOff>>
    BY <1>6, Zenon DEF Commit
  <2>2. owed' \in [EventKinds -> Int] /\ \A k \in EventKinds : owed'[k] = cutOff[k] + 0
    BY <1>3, <2>1 DEF ReportInv
  <2>3. CounterInStep' /\ failoverTotal' \in Nat
    BY <1>1, <1>2, <2>1 DEF CounterInStep
  <2> QED BY <1>1, <1>2, <1>3, <2>1, <2>2, <2>3, Zenon DEF ReportInv, ReportTypes
<1>7. CASE Restart
  <2>1. /\ failoverTotal' = 0 /\ counterBase' = slice.status.count
        /\ cutOff' = Plus(cutOff, IF work.stage = "commit" THEN Announced ELSE {})
        /\ UNCHANGED <<slice, owed>>
    BY <1>7, Zenon DEF Restart
  <2>2. CounterInStep'
    BY <1>1, <1>2, <2>1 DEF CounterInStep
  <2>3. \A k \in EventKinds : owed[k] = cutOff[k] + IF work.stage = "commit" /\ k \in Announced THEN 1 ELSE 0
    BY Zenon DEF ReportInv
  <2>4. cutOff' \in [EventKinds -> Nat] /\ \A k \in EventKinds : owed[k] = cutOff'[k] + 0
    BY <1>3, <2>1, <2>3, Counted
  <2> QED BY <1>1, <1>2, <1>3, <2>1, <2>2, <2>4 DEF ReportInv, ReportTypes
<1> QED BY <1>4, <1>5, <1>6, <1>7, Zenon

(* The operator starts on a slice with nothing reported. *)
LEMMA InitReport == Init => ReportInv
<1> SUFFICES ASSUME Init PROVE ReportInv
  BY Zenon
<1>1. /\ slice = NewSlice /\ cached = NewSlice /\ work = Idle /\ failoverTotal = 0 /\ counterBase = 0
      /\ owed = [k \in EventKinds |-> 0] /\ cutOff = [k \in EventKinds |-> 0]
  BY Zenon DEF Init
<1>2. NewSlice \in StoredSlices /\ NewSlice.status = NoStatus /\ NoStatus.count = 0
  BY NoReportTyped, Zenon DEF NewSlice, StoredSlices, NoStatus
<1>3. CounterInStep
  BY <1>1, <1>2, NoReportTyped DEF CounterInStep, Uncounted
<1> QED BY <1>1, <1>2, <1>3, NoReportTyped DEF ReportInv, ReportTypes

(* Every step keeps reports truthful; the informer and the users only move the versions around them. *)
LEMMA NextReport == ReportInv /\ [Next]_vars => ReportInv'
<1> SUFFICES ASSUME ReportInv, [Next]_vars PROVE ReportInv'
  BY Zenon
<1>1. CASE InformerSync
  BY <1>1, Zenon
     DEF InformerSync, ReportInv, ReportTypes, Truthful, Announced, Failovers, CounterInStep, Uncounted
<1>2. CASE EditSpec
  <2>1. slice \in StoredSlices /\ slice' = [slice EXCEPT !.generation = @ + 1]
    BY <1>2, Zenon DEF EditSpec, ReportInv, ReportTypes
  <2>2. slice' \in StoredSlices /\ slice'.status = slice.status
    BY <2>1 DEF StoredSlices
  <2> QED BY <1>2, <2>2, Zenon
             DEF EditSpec, ReportInv, ReportTypes, Truthful, Announced, Failovers, CounterInStep, Uncounted
<1>3. CASE \E quality \in Qualities, contact \in Contacts, inert \in BOOLEAN,
            decision \in {"Stay", "Failover", "Switchback"} : Reconcile(quality, contact, inert, decision)
  BY <1>3, ReconcileReport, Zenon
<1>4. CASE UNCHANGED vars
  BY <1>4, Zenon DEF vars, ReportInv, ReportTypes, Truthful, Announced, Failovers, CounterInStep, Uncounted
<1> QED BY <1>1, <1>2, <1>3, <1>4, WriteReport, EndReport, Zenon DEF Next

(* persistStatusIfChanged and what Reconcile does after it: over any number of reconciles, retries and
   processes, each transition that became durable is announced by exactly one event, except those whose
   write lost its answer or whose process ended before the announcement, which are announced by none. *)
THEOREM EventsOnceUnlessCutOff == Spec => []AnnouncedOnceUnlessCutOff
<1>1. ReportInv => AnnouncedOnceUnlessCutOff
  <2> SUFFICES ASSUME ReportInv, work.stage # "commit", NEW k \in EventKinds PROVE owed[k] = cutOff[k]
    BY Zenon DEF AnnouncedOnceUnlessCutOff
  <2>1. owed[k] = cutOff[k] + 0 /\ cutOff[k] \in Nat
    BY Zenon DEF ReportInv, ReportTypes
  <2> QED BY <2>1
<1> QED BY <1>1, InitReport, NextReport, PTL DEF Spec

(* FailoverTotal counts each recorded failover of this process once, whatever writes fail. *)
THEOREM CounterMatchesStatus == Spec => []CounterInStep
<1>1. ReportInv => CounterInStep
  BY Zenon DEF ReportInv
<1> QED BY <1>1, InitReport, NextReport, PTL DEF Spec

(* readPathQuality, setMetricsDegraded, failoverReadyCondition and reportInertTriggers: no stored status
   keeps FailoverReady or TriggersReady from an earlier reading beside an unknown metric freshness. *)
THEOREM ConditionsOfOneEvaluation == Spec => []ConditionsAgree
<1>1. ReportInv => ConditionsAgree
  BY Zenon DEF ReportInv, ConditionsAgree, Agrees
<1> QED BY <1>1, InitReport, NextReport, PTL DEF Spec
=============================================================================
