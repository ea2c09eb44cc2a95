---------------------------- MODULE CellArtifact -----------------------------
(***************************************************************************)
(* The ConfigMap of an NTNCellConfig: finalizer, ApplyCellConfig, the      *)
(* read-back, the bootstrap ephemeris push and the clean-up, as separate   *)
(* API calls of one reconcile, while users edit the object and the map.    *)
(***************************************************************************)
EXTENDS Integers

CONSTANTS
  Specs,            \* what a spec may say: [k, eph, ref, known]
  FirstSpec,
  FirstMaps,        \* the ConfigMaps that may be there before
  UserMaps,         \* the ConfigMaps that a user may put there
  MaxEvents         \* bound on what users do and on failing calls, together

(* k: the koffset (0 is none).  eph: the static ephemeris (0 is none).  ref: whether an ephemerisRef is set. *)
(* known: whether the provider type is registered.                                                           *)
ASSUME ArtifactAssumption ==
  /\ Specs \subseteq [k : Nat, eph : Nat, ref : BOOLEAN, known : BOOLEAN]
  /\ FirstSpec \in Specs /\ MaxEvents \in Nat

VARIABLES
  cr,               \* the object: [phase, uid, gen, fin, spec, status]
  cm,               \* the ConfigMap: [uid, owner, labelled, data, koffset], and two history fields
  serial,           \* the last uid given to a ConfigMap
  fetched,          \* status.lastUpdated of the referenced ephemeris
  ready,            \* the ConfigApplyReady series: absent, 0 or 1
  work,             \* the reconcile in progress
  events

vars == <<cr, cm, serial, fetched, ready, work, events>>

(***************************************************************************)
(* ConfigMaps.  uid 0 is no map; owner 0 is nobody, -1 another controller. *)
(* History: `foreign`, no map that the provider ever owned or may adopt;   *)
(* `touched`, changed by a user since the provider last wrote it.          *)
(***************************************************************************)
NoData == [k |-> 0, eph |-> 0]
NoMap == [uid |-> 0, owner |-> 0, labelled |-> FALSE, data |-> NoData, koffset |-> 0,
          foreign |-> FALSE, touched |-> FALSE]

IsControlledBy(map, uid) == map.owner = uid
isOperatorManaged(map) == map.labelled

(* Fault: the labels alone make a leftover. *)
LabelledLeftover(map) == isOperatorManaged(map)
isAdoptableLeftover(map) == map.owner = 0 /\ isOperatorManaged(map) /\ map.data # NoData

Maps == [uid : Nat, owner : Int, labelled : BOOLEAN, data : [k : Nat, eph : Nat], koffset : Nat,
         foreign : BOOLEAN, touched : BOOLEAN]

(* What the history fields mean of a map that others made: nobody's of ours, or changed since. *)
MadeByOthers(map) ==
  /\ map \in Maps
  /\ map.foreign \/ map.touched
  /\ map.foreign => map.uid # 0 /\ map.owner <= 0 /\ ~isAdoptableLeftover(map)
ASSUME MapsAssumption ==
  /\ \A map \in FirstMaps : map = NoMap \/ (MadeByOthers(map) /\ map.uid <= 1)
  /\ \A map \in UserMaps : MadeByOthers(map)

(* GenerateConfig: the whole file is a function of the spec; it fails without exactly one ephemeris. *)
Renderable(spec) == spec.eph # 0
GenerateConfig(spec) == [k |-> spec.k, eph |-> spec.eph]

Rendered(map, uid, spec) ==
  [map EXCEPT !.owner = uid, !.labelled = TRUE, !.data = GenerateConfig(spec), !.koffset = spec.k, !.touched = FALSE]

(* Fault: the koffset annotation alone tells whether the map is current. *)
CurrentByKoffset(map, uid, spec) == IsControlledBy(map, uid) /\ map.koffset = spec.k
(* Fault: stripped labels are not noticed. *)
CurrentUnlabelled(map, uid, spec) ==
  IsControlledBy(map, uid) /\ map.data = GenerateConfig(spec) /\ map.koffset = spec.k
AlreadyCurrent(map, uid, spec) ==
  /\ IsControlledBy(map, uid) /\ isOperatorManaged(map)
  /\ map.data = GenerateConfig(spec) /\ map.koffset = spec.k

(***************************************************************************)
(* Users, the garbage collector, and what goes wrong.                      *)
(***************************************************************************)
NoStatus == [applied |-> "none", at |-> 0, koffset |-> 0, ref |-> FALSE, pushed |-> "none", pushedAt |-> 0, marker |-> 0]
Born(uid, spec) == [phase |-> "live", uid |-> uid, gen |-> 1, fin |-> FALSE, spec |-> spec, status |-> NoStatus]
Idle == [stage |-> "idle", seen |-> Born(0, FirstSpec), status |-> NoStatus, map |-> NoMap]

Init ==
  /\ cr = Born(1, FirstSpec)
  /\ cm \in FirstMaps /\ serial = 1
  /\ fetched = 1 /\ ready = "absent" /\ work = Idle /\ events = 0

Event == events < MaxEvents /\ events' = events + 1

EditSpec ==
  /\ Event
  /\ cr.phase = "live"
  /\ \E spec \in Specs \ {cr.spec} : cr' = [cr EXCEPT !.spec = spec, !.gen = @ + 1]
  /\ UNCHANGED <<cm, serial, fetched, ready, work>>

Fetched ==
  /\ Event
  /\ fetched' = fetched + 1
  /\ UNCHANGED <<cr, cm, serial, ready, work>>

(* The API server keeps an object that is being deleted as long as it has a finalizer. *)
Delete ==
  /\ Event
  /\ cr.phase = "live"
  /\ cr' = [cr EXCEPT !.phase = IF cr.fin THEN "deleting" ELSE "gone"]
  /\ UNCHANGED <<cm, serial, fetched, ready, work>>

Recreate ==
  /\ Event
  /\ cr.phase = "gone"
  /\ cr' = Born(cr.uid + 1, FirstSpec)
  /\ UNCHANGED <<cm, serial, fetched, ready, work>>

(* A user removes the map, strips its labels or its owner, changes the file, or puts another map in its place. *)
TouchMap ==
  /\ Event
  /\ \/ cm.uid # 0 /\ cm' = NoMap
     \/ cm.uid # 0 /\ cm' = [cm EXCEPT !.labelled = FALSE, !.touched = TRUE]
     \/ cm.uid # 0 /\ LET map == [cm EXCEPT !.owner = 0, !.touched = TRUE]
                      IN  cm' = [map EXCEPT !.foreign = cm.foreign /\ ~isAdoptableLeftover(map)]
     \/ cm.uid # 0 /\ cm' = [cm EXCEPT !.data.eph = 0, !.touched = TRUE]
  /\ UNCHANGED <<cr, serial, fetched, ready, work>>

ReplaceMap ==
  /\ Event
  /\ serial' = serial + 1
  /\ \E map \in UserMaps : cm' = [map EXCEPT !.uid = serial']
  /\ UNCHANGED <<cr, fetched, ready, work>>

GarbageCollect ==
  /\ cm.owner > 0
  /\ cm.owner # cr.uid \/ cr.phase = "gone"
  /\ cm' = NoMap
  /\ UNCHANGED <<cr, serial, fetched, ready, work, events>>

(* The operator restarts: the gauges start empty. *)
Restart ==
  /\ Event
  /\ work' = Idle
  /\ ready' = "absent"
  /\ UNCHANGED <<cr, cm, serial, fetched>>

(***************************************************************************)
(* The reconcile.  Each step ends in one API call; `seen` is the copy of   *)
(* the object it works on, and `map` the copy of the ConfigMap.            *)
(***************************************************************************)
Step(stage) == work.stage = stage
Continue(stage) == work' = [work EXCEPT !.stage = stage]
Finish == work' = Idle

(* A call fails: the reconcile ends with an error and is retried. *)
CallFails ==
  /\ work.stage \in {"finalize", "delete", "unfinalize", "persist"}
  /\ Event
  /\ Finish
  /\ UNCHANGED <<cr, cm, serial, fetched, ready>>

(* Where a reconcile of the copy goes once it has read the map: the early returns, the clean-up or the apply. *)
Classified(map, uid) ==
  CASE map.uid = 0 -> "create"
    [] map.uid # 0 /\ (IsControlledBy(map, uid) \/ isAdoptableLeftover(map)) -> "update"
    [] OTHER -> "foreign"

ApplyOutcome(obj, map) ==
  CASE ~Renderable(obj.spec) -> "failed"
    [] Renderable(obj.spec) /\ Classified(map, obj.uid) = "foreign" -> "failed"
    [] Renderable(obj.spec) /\ AlreadyCurrent(map, obj.uid, obj.spec) -> "readback"
    [] OTHER -> Classified(map, obj.uid)

(* Fault: the map is looked for only when the status names it. *)
CleanupByRef(obj, map) ==
  IF obj.status.ref /\ map.uid # 0 /\ IsControlledBy(map, obj.uid) THEN "delete" ELSE "unfinalize"
(* Fault: a map of someone else is an error of the clean-up. *)
CleanupInsists(obj, map) ==
  CASE map.uid = 0 -> "unfinalize" [] map.uid # 0 /\ Classified(map, obj.uid) = "update" -> "delete" [] OTHER -> "idle"
CleanupOutcome(obj, map) ==
  IF \/ obj.spec.known /\ Classified(map, obj.uid) = "update"
     \/ ~obj.spec.known /\ obj.status.ref /\ map.uid # 0 /\ IsControlledBy(map, obj.uid)
  THEN "delete" ELSE "unfinalize"

Unapplied(st, gen, verdict) == [st EXCEPT !.applied = verdict, !.at = gen, !.koffset = 0]

ReleaseSeries == ready' = "absent"

ReconcileDeleting ==
  /\ Step("idle") /\ cr.phase = "deleting"
  /\ ReleaseSeries
  /\ work' = [stage |-> CleanupOutcome(cr, cm), seen |-> cr, status |-> cr.status, map |-> cm]
  /\ UNCHANGED <<cr, cm, serial, fetched, events>>

ReconcileLive ==
  /\ Step("idle") /\ cr.phase = "live"
  /\ LET stage == CASE ~cr.fin -> "finalize"
                    [] cr.fin /\ ~cr.spec.known -> "persist"
                    [] OTHER -> ApplyOutcome(cr, cm)
         failed == cr.fin /\ (~cr.spec.known \/ stage = "failed")
     IN  /\ work' = [stage |-> IF failed THEN "persist" ELSE stage, seen |-> cr, map |-> cm,
                     status |-> IF failed THEN Unapplied(cr.status, cr.gen, "False") ELSE cr.status]
         /\ ready' = IF failed THEN "0" ELSE ready
  /\ UNCHANGED <<cr, cm, serial, fetched, events>>

AddFinalizer ==
  /\ Step("finalize")
  /\ cr' = IF cr = work.seen THEN [cr EXCEPT !.fin = TRUE] ELSE cr
  /\ Finish
  /\ UNCHANGED <<cm, serial, fetched, ready, events>>

(***************************************************************************)
(* ApplyCellConfig.                                                        *)
(***************************************************************************)
ApplyFails ==
  /\ work' = [work EXCEPT !.stage = "persist", !.status = Unapplied(@, work.seen.gen, "False")]
  /\ ready' = "0"
  /\ UNCHANGED <<cr, cm, serial, fetched>>

ApplyCallFails ==
  /\ work.stage \in {"create", "update"}
  /\ Event
  /\ ApplyFails

CreateMap ==
  /\ Step("create") /\ cm.uid = 0
  /\ serial' = serial + 1
  /\ cm' = Rendered([NoMap EXCEPT !.uid = serial'], work.seen.uid, work.seen.spec)
  /\ Continue("readback")
  /\ UNCHANGED <<cr, fetched, ready, events>>

(* AlreadyExists: the map is read again and classified. *)
LoseCreateRace ==
  /\ Step("create") /\ cm.uid # 0
  /\ \/ Classified(cm, work.seen.uid) = "foreign" /\ ApplyFails
     \/ /\ Classified(cm, work.seen.uid) = "update"
        /\ work' = [work EXCEPT !.stage = ApplyOutcome(work.seen, cm), !.map = cm]
        /\ UNCHANGED <<cr, cm, serial, fetched, ready>>
  /\ UNCHANGED events

UpdateMap ==
  /\ Step("update") /\ cm = work.map
  /\ cm' = Rendered(cm, work.seen.uid, work.seen.spec)
  /\ Continue("readback")
  /\ UNCHANGED <<cr, serial, fetched, ready, events>>

UpdateConflicts ==
  /\ Step("update") /\ cm # work.map
  /\ ApplyFails
  /\ UNCHANGED events

(***************************************************************************)
(* GetCellStatus, and the push of a static ephemeris.                      *)
(***************************************************************************)
Verified(st, gen, map) ==
  [st EXCEPT !.applied = "True", !.at = gen, !.koffset = map.koffset, !.ref = map.uid # 0]

isEphemerisPushUpToDate(st, gen, marker) == st.pushed = "True" /\ st.pushedAt = gen /\ st.marker = marker

NotPushed(st) == [st EXCEPT !.pushed = "none", !.pushedAt = 0, !.marker = 0]
Pushed(st, gen, marker) == [st EXCEPT !.pushed = "True", !.pushedAt = gen, !.marker = marker]
PushFailed(st, gen) == [st EXCEPT !.pushed = "False", !.pushedAt = gen, !.marker = 0]

ReadBack ==
  /\ Step("readback")
  /\ \/ cm.uid = 0 \/ IsControlledBy(cm, work.seen.uid)
  /\ LET st == Verified(work.status, work.seen.gen, cm)
     IN  work' = CASE ~work.seen.spec.ref -> [work EXCEPT !.stage = "persist", !.status = NotPushed(st)]
                   [] work.seen.spec.ref /\ isEphemerisPushUpToDate(st, work.seen.gen, fetched) ->
                        [work EXCEPT !.stage = "persist", !.status = st]
                   [] OTHER -> [work EXCEPT !.stage = "push", !.status = st]
  /\ ready' = "1"
  /\ UNCHANGED <<cr, cm, serial, fetched, events>>

ReadBackFails ==
  /\ Step("readback")
  /\ \/ cm.uid # 0 /\ ~IsControlledBy(cm, work.seen.uid) /\ UNCHANGED events
     \/ Event
  /\ work' = [work EXCEPT !.stage = "persist", !.status = [@ EXCEPT !.applied = "Unknown", !.at = work.seen.gen]]
  /\ ready' = "0"
  /\ UNCHANGED <<cr, cm, serial, fetched>>

(* replaceEphemeris: the block is exchanged where it is found, the rest of the file stays. *)
replaceEphemeris(data, eph) == [data EXCEPT !.eph = eph]

PushEphemerisUpdate ==
  /\ Step("push")
  /\ cm.uid # 0 /\ IsControlledBy(cm, work.seen.uid) /\ cm.data.eph # 0
  /\ cm' = [cm EXCEPT !.data = replaceEphemeris(@, work.seen.spec.eph)]
  /\ work' = [work EXCEPT !.stage = "persist", !.status = Pushed(@, work.seen.gen, fetched)]
  /\ UNCHANGED <<cr, serial, fetched, ready, events>>

PushFails ==
  /\ Step("push")
  /\ \/ (cm.uid = 0 \/ ~IsControlledBy(cm, work.seen.uid) \/ cm.data.eph = 0) /\ UNCHANGED events
     \/ Event
  /\ work' = [work EXCEPT !.stage = "persist", !.status = PushFailed(@, work.seen.gen)]
  /\ UNCHANGED <<cr, cm, serial, fetched, ready>>

persistStatusIfChanged ==
  /\ Step("persist")
  /\ cr' = IF cr = work.seen THEN [cr EXCEPT !.status = work.status] ELSE cr
  /\ Finish
  /\ UNCHANGED <<cm, serial, fetched, ready, events>>

(***************************************************************************)
(* Cleanup and the end of the object.                                      *)
(***************************************************************************)
(* Fault: the delete goes by name. *)
SameName(map) == cm.uid # 0
UidHolds(map) == cm.uid = map.uid

DeleteMap ==
  /\ Step("delete")
  /\ cm' = IF UidHolds(work.map) THEN NoMap ELSE cm
  /\ IF UidHolds(work.map) \/ cm.uid = 0 THEN Continue("unfinalize") ELSE Finish
  /\ UNCHANGED <<cr, serial, fetched, ready, events>>

RemoveFinalizer ==
  /\ Step("unfinalize")
  /\ cr' = IF cr = work.seen THEN [cr EXCEPT !.phase = "gone", !.fin = FALSE] ELSE cr
  /\ Finish
  /\ UNCHANGED <<cm, serial, fetched, ready, events>>

Worker ==
  \/ ReconcileDeleting \/ ReconcileLive \/ AddFinalizer \/ CallFails
  \/ CreateMap \/ LoseCreateRace \/ UpdateMap \/ UpdateConflicts \/ ApplyCallFails
  \/ ReadBack \/ ReadBackFails \/ PushEphemerisUpdate \/ PushFails \/ persistStatusIfChanged
  \/ DeleteMap \/ RemoveFinalizer

Next ==
  \/ EditSpec \/ Fetched \/ Delete \/ Recreate \/ TouchMap \/ ReplaceMap \/ GarbageCollect \/ Restart
  \/ Worker

Spec == Init /\ [][Next]_vars

(* Edits, deletions and errors requeue, and the garbage collector is part of the cluster. *)
FairSpec == Spec /\ WF_vars(Worker) /\ WF_vars(GarbageCollect)

(***************************************************************************)
(* Properties.                                                             *)
(***************************************************************************)
(* No step of a reconcile changes or deletes a ConfigMap that belongs to   *)
(* someone else, even one that took the name after the provider looked at  *)
(* it: ownership checks of ApplyCellConfig, PushEphemerisUpdate and        *)
(* Cleanup, resourceVersion on updates, the UID precondition on deletes.   *)
ForeignMapUntouched == [][Worker /\ cm.foreign => cm' = cm]_vars

(* ConfigApplied=True of the live generation means that the file is the one  *)
(* of the live spec, unless a user changed or removed it since: no edit that *)
(* overtakes a reconcile is reported as applied.                             *)
AppliedMeansWritten ==
  /\ cr.phase = "live" /\ cr.status.applied = "True" /\ cr.status.at = cr.gen
  /\ cm.uid # 0 /\ ~cm.foreign /\ ~cm.touched
  => cm.data = GenerateConfig(cr.spec) /\ cm.owner = cr.uid

(* When an object is gone, so is its map, unless a user changed it; only an *)
(* object of an unregistered provider may leave it to the garbage           *)
(* collector, and then with the owner reference that takes (handleFinalizer,*)
(* Cleanup).                                                                *)
NothingLeftBehind ==
  cr.phase = "gone" /\ cm.uid # 0 /\ ~cm.foreign /\ ~cm.touched =>
    cm.owner > 0 /\ (cm.owner = cr.uid => ~cr.spec.known)

(* Once nothing fails, a deletion goes through whatever stands in the map's *)
(* place: a UID conflict or a foreign map does not hold the finalizer.      *)
DeletionCompletes == events = MaxEvents /\ cr.phase = "deleting" ~> cr.phase = "gone"

(* Once nothing is edited, a cell with a registered provider and no foreign  *)
(* map in the way is applied, whole, and reported ready.                     *)
Obstructed == cm.uid # 0 /\ Classified(cm, cr.uid) = "foreign"
CellConverges ==
  events = MaxEvents /\ cr.phase = "live" /\ cr.spec.known /\ Renderable(cr.spec) ~>
    \/ Obstructed
    \/ /\ cm.data = GenerateConfig(cr.spec) /\ cm.owner = cr.uid /\ cm.labelled
       /\ ready = "1" /\ cr.status.applied = "True" /\ cr.status.koffset = cr.spec.k
=============================================================================
