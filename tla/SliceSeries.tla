----------------------------- MODULE SliceSeries -----------------------------
(***************************************************************************)
(* The SatellitePassAvailable gauge and the metrics-cleanup finalizer of   *)
(* the NTNSlices of one namespace (handleSliceFinalizer and Step 5 of      *)
(* Reconcile).  The series of an ephemeris is shared by every slice that   *)
(* references it, slices are reconciled concurrently, and all of them read *)
(* one informer cache that lags behind the API server.                     *)
(***************************************************************************)
EXTENDS Integers

CONSTANTS Slices, Refs,
          DeleteUnadopted,  \* whether a slice may be deleted before its first reconcile
          MaxUid            \* bound: how often a name is created

ASSUME SeriesAssumption == DeleteUnadopted \in BOOLEAN /\ MaxUid \in Nat /\ Refs # {}

VARIABLES
  api,      \* [name -> the stored slice]
  cache,    \* [name -> the informer's copy]
  turns,     \* [name -> the reconcile in flight]
  series    \* the ephemeris references that have a series

seriesVars == <<api, cache, turns, series>>

NoTurn == [step |-> "idle", uid |-> 0, ref |-> CHOOSE r \in Refs : TRUE]
Absent(uid, ref) == [uid |-> uid, phase |-> "gone", finalizer |-> FALSE, ref |-> ref]

SeriesInit ==
  /\ \E ref \in [Slices -> Refs] : api = [s \in Slices |-> Absent(0, ref[s])]
  /\ cache = api
  /\ turns = [s \in Slices |-> NoTurn]
  /\ series = {}

Create(s, ref) ==
  /\ api[s].phase = "gone" /\ api[s].uid < MaxUid
  /\ api' = [api EXCEPT ![s] = [uid |-> @.uid + 1, phase |-> "live", finalizer |-> FALSE, ref |-> ref]]
  /\ UNCHANGED <<cache, turns, series>>

(* The API server removes an object without a finalizer at once. *)
Delete(s) ==
  /\ api[s].phase = "live" /\ (api[s].finalizer \/ DeleteUnadopted)
  /\ api' = [api EXCEPT ![s].phase = IF api[s].finalizer THEN "terminating" ELSE "gone"]
  /\ UNCHANGED <<cache, turns, series>>

CacheSync(s) ==
  /\ cache[s] # api[s]
  /\ cache' = [cache EXCEPT ![s] = api[s]]
  /\ UNCHANGED <<api, turns, series>>

(***************************************************************************)
(* A reconcile of a live slice: the finalizer is added before anything     *)
(* else, then the gauge is set.                                            *)
(***************************************************************************)
EnsureFinalizer(s) ==
  /\ turns[s].step = "idle" /\ cache[s].phase = "live"
  /\ \/ /\ cache[s].finalizer                         \* nothing to do
        /\ UNCHANGED api
        /\ turns' = [turns EXCEPT ![s] = [step |-> "gauge", uid |-> cache[s].uid, ref |-> cache[s].ref]]
     \/ /\ ~cache[s].finalizer /\ cache[s] = api[s]   \* the update is accepted
        /\ api' = [api EXCEPT ![s].finalizer = TRUE]
        /\ turns' = [turns EXCEPT ![s] = [step |-> "gauge", uid |-> cache[s].uid, ref |-> cache[s].ref]]
     \/ /\ ~cache[s].finalizer /\ cache[s] # api[s]   \* conflict or not found: an error
        /\ UNCHANGED <<api, turns>>
  /\ UNCHANGED <<cache, series>>

(* Step 5: written only when availability is known; a failed status write does not undo it. *)
SetGauge(s) ==
  /\ turns[s].step = "gauge"
  /\ series' \in {series, series \cup {turns[s].ref}}
  /\ turns' = [turns EXCEPT ![s] = NoTurn]
  /\ UNCHANGED <<api, cache>>

(***************************************************************************)
(* A reconcile of a terminating slice.                                     *)
(***************************************************************************)
StartFinalize(s) ==
  /\ turns[s].step = "idle" /\ cache[s].phase = "terminating" /\ cache[s].finalizer
  /\ turns' = [turns EXCEPT ![s] = [step |-> "release", uid |-> cache[s].uid, ref |-> cache[s].ref]]
  /\ UNCHANGED <<api, cache, series>>

(* Fault: a terminating sibling still counts as a reference. *)
ReferencedByAny(ref, deleting) ==
  \E s \in Slices : s # deleting /\ cache[s].phase # "gone" /\ cache[s].ref = ref

ephemerisMetricReferenced(ref, deleting) ==
  \E s \in Slices : s # deleting /\ cache[s].phase = "live" /\ cache[s].ref = ref

ReleaseSeries(s) ==
  /\ turns[s].step = "release"
  /\ \/ /\ series' = IF ephemerisMetricReferenced(turns[s].ref, s) THEN series ELSE series \ {turns[s].ref}
        /\ turns' = [turns EXCEPT ![s].step = "remove"]
     \/ /\ turns' = [turns EXCEPT ![s] = NoTurn]          \* the list failed: retry
        /\ UNCHANGED series
  /\ UNCHANGED <<api, cache>>

RemoveFinalizer(s) ==
  /\ turns[s].step = "remove"
  /\ api' = IF api[s].uid = turns[s].uid THEN [api EXCEPT ![s] = Absent(@.uid, @.ref)] ELSE api
  /\ turns' = [turns EXCEPT ![s] = NoTurn]
  /\ UNCHANGED <<cache, series>>

(* The update that removes the finalizer fails, and the whole release is retried. *)
RemoveFails(s) ==
  /\ turns[s].step = "remove"
  /\ turns' = [turns EXCEPT ![s] = NoTurn]
  /\ UNCHANGED <<api, cache, series>>

SeriesNext ==
  \E s \in Slices :
    \/ \E ref \in Refs : Create(s, ref)
    \/ Delete(s) \/ CacheSync(s) \/ EnsureFinalizer(s) \/ SetGauge(s)
    \/ StartFinalize(s) \/ ReleaseSeries(s) \/ RemoveFinalizer(s) \/ RemoveFails(s)

SeriesSpec == SeriesInit /\ [][SeriesNext]_seriesVars

(***************************************************************************)
(* Properties.                                                             *)
(***************************************************************************)
(* No dead series: every series belongs to a slice that still exists or is being reconciled.  Whatever
   the interleaving of concurrent finalizations, stale lists and retries, the last slice to go that
   references an ephemeris releases its series. *)
NoDeadSeries ==
  \A ref \in series : \E s \in Slices :
    (api[s].phase # "gone" /\ api[s].ref = ref) \/ (turns[s].step # "idle" /\ turns[s].ref = ref)
=============================================================================
