-------------------------- MODULE CellArtifactProofs -------------------------
(***************************************************************************)
(* The ConfigMap of a cell, for any specs, maps and number of events: no   *)
(* foreign map is touched, what is reported as applied was written, and    *)
(* nothing of a deleted cell is left behind; once nothing fails a deletion *)
(* comes to its end and a cell that is applied is left alone.              *)
(***************************************************************************)
EXTENDS CellArtifact, TLAPS

Verdicts == {"none", "True", "False", "Unknown"}
Stages   == {"idle", "finalize", "create", "update", "readback", "push", "persist", "delete", "unfinalize"}
Statuses == [applied : Verdicts, at : Nat, koffset : Nat, ref : BOOLEAN, pushed : Verdicts, pushedAt : Nat, marker : Nat]
Objects  == [phase : {"live", "deleting", "gone"}, uid : Nat, gen : Nat, fin : BOOLEAN, spec : Specs, status : Statuses]
Works    == [stage : Stages, seen : Objects, status : Statuses, map : Maps]

Shape ==
  /\ cr \in Objects /\ cm \in Maps /\ work \in Works /\ serial \in Nat /\ fetched \in Nat
  /\ cr.uid > 0 /\ cr.status.at <= cr.gen
  /\ cm.uid <= serial /\ work.map.uid <= serial

(* A map of someone else is one that no ownership check lets through. *)
Foreigners == cm.foreign => cm.uid # 0 /\ cm.owner <= 0 /\ ~isAdoptableLeftover(cm)

(* A map that the provider wrote and that nobody changed since; then it is the one of this object and spec. *)
Ours == cm.uid # 0 /\ ~cm.foreign /\ ~cm.touched
Written(uid, spec) == Ours => cm.data = GenerateConfig(spec) /\ cm.owner = uid

(* The status vouches for the live generation. *)
Vouched == cr.phase = "live" /\ cr.status.applied = "True" /\ cr.status.at = cr.gen

(* A reconcile works on the live generation, or on one that the status does not vouch for any more. *)
Current == cr.uid = work.seen.uid /\ cr.gen = work.seen.gen /\ cr.spec = work.seen.spec
SeenInv ==
  work.stage # "idle" =>
    /\ 0 < work.seen.uid /\ work.seen.uid <= cr.uid
    /\ work.status.at <= work.seen.gen
    /\ Current \/ ~Vouched
    /\ work.stage \in {"delete", "unfinalize"} =>
         work.seen.phase = "deleting" /\ (cr.uid = work.seen.uid => cr.phase # "live")

StageInv ==
  /\ work.stage = "create" => Renderable(work.seen.spec)
  /\ work.stage = "update" => work.map.uid # 0 /\ ~work.map.foreign
  /\ work.stage = "delete" => work.map.uid # 0 /\ (cm.uid = work.map.uid => ~cm.foreign)
  /\ work.stage \in {"readback", "push"} => Written(work.seen.uid, work.seen.spec)
  /\ work.stage = "persist" /\ work.status.applied = "True" => Written(work.seen.uid, work.seen.spec)

(* Only an object with its finalizer has a map, and the clean-up has removed it before the finalizer goes. *)
Owned == Ours /\ cm.owner = cr.uid
OwnerInv ==
  /\ Ours => 0 < cm.owner /\ cm.owner <= cr.uid
  /\ cr.phase = "live" /\ ~cr.fin => ~Owned
  /\ cr.phase = "gone" => ~Owned \/ ~cr.spec.known
  /\ work.stage \in {"create", "update"} /\ work.seen.uid = cr.uid => cr.fin /\ cr.phase # "gone"
  /\ work.stage = "unfinalize" /\ cr = work.seen => ~Owned \/ ~cr.spec.known

ArtifactInv == Shape /\ Foreigners /\ SeenInv /\ StageInv /\ OwnerInv /\ (Vouched => Written(cr.uid, cr.spec))

LEMMA Typed ==
  /\ NoMap \in Maps /\ ~NoMap.foreign /\ NoMap.uid = 0
  /\ NoStatus \in Statuses /\ NoStatus.applied = "none" /\ NoStatus.at = 0
  /\ Idle \in Works /\ Idle.stage = "idle" /\ Idle.map = NoMap
  /\ \A uid \in Nat : Born(uid, FirstSpec) \in Objects
<1>1. NoMap \in Maps /\ ~NoMap.foreign /\ NoMap.uid = 0 BY DEF NoMap, NoData, Maps
<1>2. NoStatus \in Statuses /\ NoStatus.applied = "none" /\ NoStatus.at = 0
        BY Zenon DEF NoStatus, Statuses, Verdicts
<1>3. \A uid \in Nat : Born(uid, FirstSpec) \in Objects BY <1>2, ArtifactAssumption, Zenon DEF Born, Objects
<1>4. Idle \in Works /\ Idle.stage = "idle" /\ Idle.map = NoMap BY <1>1, <1>2, <1>3, Zenon
                                                                   DEF Idle, Works, Stages
<1> QED BY <1>1, <1>2, <1>3, <1>4, Zenon

LEMMA InitArtifact == Init => ArtifactInv
<1> SUFFICES ASSUME Init PROVE ArtifactInv BY Zenon
<1>1. cm = NoMap \/ (MadeByOthers(cm) /\ cm.uid <= 1) BY MapsAssumption, Zenon DEF Init
<1>2. cm \in Maps /\ ~Ours /\ cm.uid \in Nat /\ cm.uid <= 1 /\ Foreigners
  BY <1>1, Typed DEF MadeByOthers, Maps, Ours, Foreigners
<1>3. cr \in Objects /\ cr.uid = 1 /\ cr.gen = 1 /\ cr.status = NoStatus /\ cr.phase = "live"
  BY Typed, Zenon DEF Init, Born
<1>4. Shape BY <1>2, <1>3, Typed DEF Init, Shape
<1>5. SeenInv /\ StageInv BY Typed, Zenon DEF Init, SeenInv, StageInv
<1>6. OwnerInv BY <1>2, <1>3, Typed, Zenon DEF Init, OwnerInv, Owned
<1> QED BY <1>2, <1>3, <1>4, <1>5, <1>6, Typed, Zenon DEF ArtifactInv, Vouched

(* A map that is removed, changed or replaced by others. *)
LEMMA OthersStep ==
  ASSUME ArtifactInv, cr' = cr, work' = work, fetched' = fetched,
         serial' \in Nat, serial <= serial',
         cm' \in Maps, cm'.uid <= serial', ~Ours', Foreigners',
         cm'.foreign => cm'.uid > serial \/ (cm'.uid = cm.uid /\ cm.foreign)
  PROVE  ArtifactInv'
<1>1. Shape /\ Shape'
  BY DEF ArtifactInv, Shape, Works, Maps
<1>2. work.map.uid \in Nat /\ work.map.uid <= serial /\ cm'.uid \in Nat /\ serial \in Nat
  BY Zenon DEF ArtifactInv, Shape, Works, Maps
<1>3. Vouched' = Vouched /\ Current' = Current BY Zenon DEF Vouched, Current
<1>4. SeenInv' BY <1>3, Zenon DEF ArtifactInv, SeenInv
<1>5. Written(work.seen.uid, work.seen.spec)' /\ Written(cr.uid, cr.spec)' BY Zenon DEF Written
<1>6. StageInv' BY <1>2, <1>5 DEF ArtifactInv, StageInv
<1>7. OwnerInv' BY Zenon DEF ArtifactInv, OwnerInv, Owned
<1> QED BY <1>1, <1>4, <1>5, <1>6, <1>7, Zenon DEF ArtifactInv

LEMMA MapStep == ArtifactInv /\ (TouchMap \/ ReplaceMap \/ GarbageCollect) => ArtifactInv'
<1> SUFFICES ASSUME ArtifactInv, TouchMap \/ ReplaceMap \/ GarbageCollect PROVE ArtifactInv' BY Zenon
<1>0. cm \in Maps /\ serial \in Nat /\ cm.uid <= serial /\ Foreigners BY Zenon DEF ArtifactInv, Shape
<1>1. ASSUME cm' = NoMap, cr' = cr, work' = work, fetched' = fetched, serial' = serial PROVE ArtifactInv'
  <2>1. ~Ours' /\ Foreigners' BY <1>1, Typed, Zenon DEF Ours, Foreigners
  <2> QED BY <1>0, <1>1, <2>1, Typed, OthersStep
<1>2. CASE GarbageCollect BY <1>1, <1>2, Zenon DEF GarbageCollect
<1>3. CASE ReplaceMap
  <2>1. PICK map \in UserMaps : cm' = [map EXCEPT !.uid = serial'] BY <1>3, Zenon DEF ReplaceMap
  <2>2. MadeByOthers(map) BY MapsAssumption, Zenon
  <2>3. serial' = serial + 1 /\ cr' = cr /\ work' = work /\ fetched' = fetched BY <1>3, Zenon DEF ReplaceMap
  <2>4. cm' \in Maps /\ cm'.uid = serial + 1 /\ cm'.owner = map.owner /\ cm'.labelled = map.labelled
        /\ cm'.data = map.data /\ cm'.foreign = map.foreign /\ cm'.touched = map.touched
    BY <1>0, <2>1, <2>2, <2>3 DEF MadeByOthers, Maps
  <2>5. ~Ours' BY <2>2, <2>4, Zenon DEF Ours, MadeByOthers
  <2>6. Foreigners' BY <1>0, <2>2, <2>4 DEF Foreigners, MadeByOthers, isAdoptableLeftover, isOperatorManaged
  <2> QED BY <1>0, <2>3, <2>4, <2>5, <2>6, OthersStep
<1>4. CASE TouchMap
  <2>1. cr' = cr /\ work' = work /\ fetched' = fetched /\ serial' = serial BY <1>4, Zenon DEF TouchMap
  <2>2. ASSUME cm' \in Maps, cm'.uid = cm.uid, cm'.touched = TRUE, Foreigners', cm'.foreign => cm.foreign
        PROVE  ArtifactInv'
    <3>1. ~Ours' BY <2>2, Zenon DEF Ours
    <3> QED BY <1>0, <2>1, <2>2, <3>1, OthersStep
  <2>3. CASE cm' = NoMap BY <1>1, <2>1, <2>3, Zenon
  <2>4. CASE cm' = [cm EXCEPT !.labelled = FALSE, !.touched = TRUE]
    <3>1. cm' \in Maps /\ cm'.uid = cm.uid /\ cm'.touched = TRUE /\ cm'.labelled = FALSE
          /\ cm'.owner = cm.owner /\ cm'.foreign = cm.foreign
      BY <1>0, <2>4, Zenon DEF Maps
    <3>2. Foreigners' BY <1>0, <3>1, Zenon DEF Foreigners, isAdoptableLeftover, isOperatorManaged
    <3> QED BY <2>2, <3>1, <3>2, Zenon
  <2>5. CASE cm' = [[cm EXCEPT !.owner = 0, !.touched = TRUE] EXCEPT
                      !.foreign = cm.foreign /\ ~isAdoptableLeftover([cm EXCEPT !.owner = 0, !.touched = TRUE])]
    <3>0. PICK map : map = [cm EXCEPT !.owner = 0, !.touched = TRUE] BY Zenon
    <3>a. map = [uid |-> cm.uid, owner |-> 0, labelled |-> cm.labelled, data |-> cm.data, koffset |-> cm.koffset,
                 foreign |-> cm.foreign, touched |-> TRUE]
      BY <1>0, <3>0, Zenon DEF Maps
    <3>1. map \in Maps /\ map.uid = cm.uid /\ map.touched = TRUE /\ map.owner = 0
      BY <1>0, <3>a DEF Maps
    <3> DEFINE kept == cm.foreign /\ ~isAdoptableLeftover(map)
    <3>2. kept \in BOOLEAN BY Zenon
    <3>3. cm' = [map EXCEPT !.foreign = kept] BY <2>5, <3>0, Zenon
    <3>b. kept => cm.foreign /\ ~isAdoptableLeftover(map) BY Zenon
    <3> HIDE DEF kept
    <3>4. cm' \in Maps /\ cm'.uid = cm.uid /\ cm'.touched = TRUE /\ cm'.owner = 0
          /\ cm'.labelled = map.labelled /\ cm'.data = map.data /\ cm'.foreign = kept
      BY <1>0, <3>1, <3>2, <3>3, Zenon DEF Maps
    <3>5. cm'.foreign => cm.foreign /\ ~isAdoptableLeftover(map) BY <3>4, <3>b, Zenon
    <3>6. Foreigners' BY <1>0, <3>1, <3>4, <3>5 DEF Foreigners, isAdoptableLeftover, isOperatorManaged
    <3> QED BY <2>2, <3>4, <3>5, <3>6, Zenon
  <2>6. CASE cm' = [cm EXCEPT !.data.eph = 0, !.touched = TRUE]
    <3>1. cm' \in Maps /\ cm'.uid = cm.uid /\ cm'.touched = TRUE /\ cm'.labelled = cm.labelled
          /\ cm'.owner = cm.owner /\ cm'.foreign = cm.foreign /\ cm'.data = [cm.data EXCEPT !.eph = 0]
      BY <1>0, <2>6, Zenon DEF Maps
    <3>2. cm.data = NoData => cm'.data = NoData BY <3>1 DEF NoData
    <3>3. Foreigners' BY <1>0, <3>1, <3>2, Zenon DEF Foreigners, isAdoptableLeftover, isOperatorManaged
    <3> QED BY <2>2, <3>1, <3>3, Zenon
  <2> QED BY <1>4, <2>3, <2>4, <2>5, <2>6, Zenon DEF TouchMap
<1> QED BY <1>2, <1>3, <1>4, Zenon

(* A user edits, deletes or recreates the object: the status vouches for nothing any more. *)
LEMMA UserStep ==
  ASSUME ArtifactInv, cm' = cm, serial' = serial, fetched' = fetched, work' = work,
         cr' \in Objects, cr'.uid > 0, cr'.status.at <= cr'.gen, ~Vouched', cr.uid <= cr'.uid,
         cr'.phase = "live" => cr'.uid = cr.uid + 1 \/ (cr'.uid = cr.uid /\ cr.phase = "live" /\ cr'.fin = cr.fin),
         cr'.phase = "deleting" => cr'.uid = cr.uid /\ cr.phase = "live" /\ cr'.fin,
         cr'.phase = "gone" => cr'.uid = cr.uid /\ cr.phase = "live" /\ ~cr.fin,
         cr'.uid = cr.uid /\ cr'.phase # "gone" => cr'.fin = cr.fin
  PROVE  ArtifactInv'
<1>1. Shape' BY Zenon DEF ArtifactInv, Shape
<1>2. Foreigners' BY Zenon DEF ArtifactInv, Foreigners
<1>3. /\ cr.uid \in Nat /\ cr'.uid \in Nat /\ cm.owner \in Int /\ work.seen.uid \in Nat
      /\ cr'.phase \in {"live", "deleting", "gone"}
  BY Zenon DEF ArtifactInv, Shape, Objects, Works, Maps
<1>4. SeenInv' BY <1>3 DEF ArtifactInv, SeenInv
<1>5. Ours' = Ours /\ StageInv' BY Zenon DEF ArtifactInv, StageInv, Written, Ours
<1>6. OwnerInv'
  <2>1. Ours => 0 < cm.owner /\ cm.owner <= cr.uid BY Zenon DEF ArtifactInv, OwnerInv
  <2>2. Owned' => cr'.uid = cr.uid /\ Owned BY <1>3, <1>5, <2>1 DEF Owned
  <2>3. cr.phase = "live" /\ ~cr.fin => ~Owned BY Zenon DEF ArtifactInv, OwnerInv
  <2>4. work.stage \in {"create", "update"} /\ work.seen.uid = cr'.uid => cr'.fin /\ cr'.phase # "gone"
    <3>1. work.stage # "idle" => work.seen.uid <= cr.uid BY Zenon DEF ArtifactInv, SeenInv
    <3>2. work.stage \in {"create", "update"} /\ work.seen.uid = cr.uid => cr.fin /\ cr.phase # "gone"
      BY Zenon DEF ArtifactInv, OwnerInv
    <3> QED BY <1>3, <3>1, <3>2
  <2>5. work.stage = "unfinalize" /\ cr' = work.seen => FALSE
    <3>1. work.stage = "unfinalize" => work.seen.phase = "deleting" /\ (cr.uid = work.seen.uid => cr.phase # "live")
      BY Zenon DEF ArtifactInv, SeenInv
    <3> QED BY <3>1, Zenon
  <2> QED BY <1>3, <1>5, <2>1, <2>2, <2>3, <2>4, <2>5 DEF OwnerInv
<1> QED BY <1>1, <1>2, <1>4, <1>5, <1>6, Zenon DEF ArtifactInv

LEMMA ObjectStep == ArtifactInv /\ (EditSpec \/ Delete \/ Recreate) => ArtifactInv'
<1> SUFFICES ASSUME ArtifactInv, EditSpec \/ Delete \/ Recreate PROVE ArtifactInv' BY Zenon
<1>0. cr \in Objects /\ cr.uid \in Nat /\ cr.gen \in Nat /\ cr.status.at \in Nat /\ cr.status.at <= cr.gen /\ cr.uid > 0
  BY Zenon DEF ArtifactInv, Shape, Objects, Statuses
<1>1. cm' = cm /\ serial' = serial /\ fetched' = fetched /\ work' = work BY Zenon DEF EditSpec, Delete, Recreate
<1>2. CASE EditSpec
  <2>1. PICK spec \in Specs : cr' = [cr EXCEPT !.spec = spec, !.gen = @ + 1] BY <1>2, Zenon DEF EditSpec
  <2>a. cr' = [phase |-> cr.phase, uid |-> cr.uid, gen |-> cr.gen + 1, fin |-> cr.fin, spec |-> spec, status |-> cr.status]
    BY <1>0, <2>1, Zenon DEF Objects
  <2>2. cr' \in Objects /\ cr'.uid = cr.uid /\ cr'.gen = cr.gen + 1 /\ cr'.phase = cr.phase /\ cr'.fin = cr.fin
        /\ cr'.status = cr.status
    BY <1>0, <2>a DEF Objects
  <2>3. cr.phase = "live" BY <1>2, Zenon DEF EditSpec
  <2>4. ~Vouched' BY <1>0, <2>2 DEF Vouched
  <2> QED BY <1>0, <1>1, <2>2, <2>3, <2>4, UserStep
<1>3. CASE Delete
  <2>1. cr.phase = "live" /\ cr' = [cr EXCEPT !.phase = IF cr.fin THEN "deleting" ELSE "gone"]
          BY <1>3, Zenon DEF Delete
  <2>2. cr' \in Objects /\ cr'.uid = cr.uid /\ cr'.gen = cr.gen /\ cr'.fin = cr.fin /\ cr'.status = cr.status
        /\ cr'.phase = IF cr.fin THEN "deleting" ELSE "gone"
    BY <1>0, <2>1, Zenon DEF Objects
  <2>3. ~Vouched' BY <2>2, Zenon DEF Vouched
  <2> QED BY <1>0, <1>1, <2>1, <2>2, <2>3, UserStep
<1>4. CASE Recreate
  <2>1. cr.phase = "gone" /\ cr' = Born(cr.uid + 1, FirstSpec) BY <1>4, Zenon DEF Recreate
  <2>2. cr' \in Objects BY <1>0, <2>1, Typed
  <2>3. cr'.uid = cr.uid + 1 /\ cr'.gen = 1 /\ cr'.status = NoStatus /\ cr'.phase = "live"
          BY <2>1, Zenon DEF Born
  <2>4. ~Vouched' BY <2>3, Typed, Zenon DEF Vouched
  <2> QED BY <1>0, <1>1, <2>2, <2>3, <2>4, Typed, UserStep
<1> QED BY <1>2, <1>3, <1>4, Zenon

(* A reconcile ends: nothing, the finalizer, the status or the end of the object is written. *)
LEMMA EndStep ==
  ASSUME ArtifactInv, cm' = cm, serial' = serial, fetched' = fetched, work' = Idle,
         cr' \in Objects, cr'.uid = cr.uid, cr'.status.at <= cr'.gen,
         Vouched' => Written(cr.uid, cr.spec) /\ cr'.spec = cr.spec,
         cr'.phase = "live" /\ ~cr'.fin => ~Owned,
         cr'.phase = "gone" => ~Owned \/ ~cr'.spec.known
  PROVE  ArtifactInv'
<1>1. Shape' BY Typed DEF ArtifactInv, Shape
<1>2. Foreigners' BY Zenon DEF ArtifactInv, Foreigners
<1>3. SeenInv' /\ StageInv' BY Typed, Zenon DEF SeenInv, StageInv
<1>4. Ours' = Ours /\ Owned' = Owned BY Zenon DEF Ours, Owned
<1>5. OwnerInv' BY <1>4, Typed, Zenon DEF ArtifactInv, OwnerInv
<1>6. Vouched' => Written(cr.uid, cr.spec)' BY <1>4, Zenon DEF Written
<1> QED BY <1>1, <1>2, <1>3, <1>5, <1>6, Zenon DEF ArtifactInv

LEMMA FinishStep ==
  ArtifactInv /\ (Restart \/ CallFails \/ AddFinalizer \/ persistStatusIfChanged \/ RemoveFinalizer) => ArtifactInv'
<1> SUFFICES ASSUME ArtifactInv, Restart \/ CallFails \/ AddFinalizer \/ persistStatusIfChanged \/ RemoveFinalizer
             PROVE  ArtifactInv'
  BY Zenon
<1>0. /\ cr \in Objects /\ cr.status.at <= cr.gen /\ (Vouched => Written(cr.uid, cr.spec))
      /\ work \in Works /\ work.status \in Statuses
      /\ cr.phase = "live" /\ ~cr.fin => ~Owned
      /\ cr.phase = "gone" => ~Owned \/ ~cr.spec.known
  BY Zenon DEF ArtifactInv, Shape, OwnerInv, Works
<1>1. cm' = cm /\ serial' = serial /\ fetched' = fetched /\ work' = Idle
  BY Zenon DEF Restart, CallFails, AddFinalizer, persistStatusIfChanged, RemoveFinalizer, Finish
<1>2. CASE cr' = cr
  <2>1. Vouched' = Vouched BY <1>2, Zenon DEF Vouched
  <2> QED BY <1>0, <1>1, <1>2, <2>1, EndStep, Zenon
<1>3. CASE AddFinalizer /\ cr' = [cr EXCEPT !.fin = TRUE]
  <2>1. cr' \in Objects /\ cr'.uid = cr.uid /\ cr'.gen = cr.gen /\ cr'.phase = cr.phase /\ cr'.status = cr.status
        /\ cr'.spec = cr.spec /\ cr'.fin = TRUE
    BY <1>0, <1>3, Zenon DEF Objects
  <2>2. Vouched' = Vouched BY <2>1, Zenon DEF Vouched
  <2> QED BY <1>0, <1>1, <2>1, <2>2, EndStep, Zenon
<1>4. CASE persistStatusIfChanged /\ cr = work.seen /\ cr' = [cr EXCEPT !.status = work.status]
  <2>1. cr' \in Objects /\ cr'.uid = cr.uid /\ cr'.gen = cr.gen /\ cr'.phase = cr.phase /\ cr'.status = work.status
        /\ cr'.spec = cr.spec /\ cr'.fin = cr.fin
    BY <1>0, <1>4, Zenon DEF Objects
  <2>2. work.stage = "persist" BY <1>4, Zenon DEF persistStatusIfChanged, Step
  <2>3. work.status.at <= cr.gen BY <1>4, <2>2, Zenon DEF ArtifactInv, SeenInv
  <2>4. work.status.applied = "True" => Written(cr.uid, cr.spec) BY <1>4, <2>2, Zenon DEF ArtifactInv, StageInv
  <2>5. Vouched' => Written(cr.uid, cr.spec) BY <2>1, <2>4, Zenon DEF Vouched
  <2> QED BY <1>0, <1>1, <2>1, <2>3, <2>5, EndStep, Zenon
<1>5. CASE RemoveFinalizer /\ cr = work.seen /\ cr' = [cr EXCEPT !.phase = "gone", !.fin = FALSE]
  <2>1. cr' \in Objects /\ cr'.uid = cr.uid /\ cr'.gen = cr.gen /\ cr'.phase = "gone" /\ cr'.status = cr.status
        /\ cr'.spec = cr.spec
    BY <1>0, <1>5, Zenon DEF Objects
  <2>2. work.stage = "unfinalize" BY <1>5, Zenon DEF RemoveFinalizer, Step
  <2>3. ~Owned \/ ~cr.spec.known BY <1>5, <2>2, Zenon DEF ArtifactInv, OwnerInv
  <2>4. ~Vouched' BY <2>1, Zenon DEF Vouched
  <2> QED BY <1>0, <1>1, <2>1, <2>3, <2>4, EndStep, Zenon
<1> QED
  <2>1. CASE cr' # cr
    BY <1>3, <1>4, <1>5, <2>1, Zenon
       DEF Restart, CallFails, AddFinalizer, persistStatusIfChanged, RemoveFinalizer
  <2> QED BY <1>2, <2>1, Zenon

(* A step of the reconcile that changes neither the object nor the map. *)
LEMMA WorkStep ==
  ASSUME ArtifactInv, cr' = cr, cm' = cm, serial' = serial, fetched' = fetched,
         work' \in Works, work'.map.uid <= serial, SeenInv', StageInv',
         work'.stage \in {"create", "update"} /\ work'.seen.uid = cr.uid => cr.fin /\ cr.phase # "gone",
         work'.stage = "unfinalize" /\ cr = work'.seen => ~Owned \/ ~cr.spec.known
  PROVE  ArtifactInv'
<1>1. Shape' /\ Foreigners' BY Zenon DEF ArtifactInv, Shape, Foreigners
<1>2. Ours' = Ours /\ Owned' = Owned /\ Vouched' = Vouched BY Zenon DEF Ours, Owned, Vouched
<1>3. OwnerInv' BY <1>2, Zenon DEF ArtifactInv, OwnerInv
<1>4. Written(cr.uid, cr.spec)' = Written(cr.uid, cr.spec) BY <1>2, Zenon DEF Written
<1> QED BY <1>1, <1>2, <1>3, <1>4, Zenon DEF ArtifactInv

(* The reconcile goes on with the same copy of the object to persist a status, or to another call. *)
LEMMA GoOn ==
  ASSUME ArtifactInv, cr' = cr, cm' = cm, serial' = serial, fetched' = fetched,
         work' \in Works, work.stage \in {"create", "update", "readback", "push"},
         work'.stage \in {"push", "persist"}, work'.seen = work.seen, work'.map = work.map,
         work'.status.at <= work.seen.gen,
         work'.stage = "push" \/ work'.status.applied = "True" => Written(work.seen.uid, work.seen.spec)
  PROVE  ArtifactInv'
<1>1. work'.map.uid <= serial BY Zenon DEF ArtifactInv, Shape
<1>2. Vouched' = Vouched /\ Current' = Current BY Zenon DEF Vouched, Current
<1>3. Written(work.seen.uid, work.seen.spec)' = Written(work.seen.uid, work.seen.spec)
        BY Zenon DEF Written, Ours
<1>4. SeenInv' BY <1>2, Zenon DEF ArtifactInv, SeenInv
<1>5. StageInv' BY <1>3, Zenon DEF StageInv
<1> QED BY <1>1, <1>4, <1>5, WorkStep, Zenon

LEMMA UnappliedTyped ==
  ASSUME NEW st \in Statuses, NEW gen \in Nat
  PROVE  LET no == Unapplied(st, gen, "False") IN no \in Statuses /\ no.at = gen /\ no.applied = "False"
BY Zenon DEF Statuses, Verdicts, Unapplied

LEMMA VerifiedTyped ==
  ASSUME NEW st \in Statuses, NEW gen \in Nat, NEW map \in Maps
  PROVE  Verified(st, gen, map) \in Statuses /\ Verified(st, gen, map).at = gen
BY Zenon DEF Statuses, Verdicts, Verified, Maps

LEMMA PushTyped ==
  ASSUME NEW st \in Statuses, NEW gen \in Nat
  PROVE  /\ NotPushed(st) \in Statuses /\ NotPushed(st).at = st.at
         /\ PushFailed(st, gen) \in Statuses /\ PushFailed(st, gen).at = st.at
         /\ \A marker \in Nat : Pushed(st, gen, marker) \in Statuses /\ Pushed(st, gen, marker).at = st.at
<1> USE DEF Statuses, Verdicts
<1>1. NotPushed(st) \in Statuses /\ NotPushed(st).at = st.at BY Zenon DEF NotPushed
<1>2. PushFailed(st, gen) \in Statuses /\ PushFailed(st, gen).at = st.at BY Zenon DEF PushFailed
<1>3. ASSUME NEW marker \in Nat PROVE Pushed(st, gen, marker) \in Statuses /\ Pushed(st, gen, marker).at = st.at
  BY Zenon DEF Pushed
<1> QED BY <1>1, <1>2, <1>3, Zenon

LEMMA Restated ==
  ASSUME work \in Works, NEW stage \in Stages, NEW st \in Statuses,
         work' = [work EXCEPT !.stage = stage, !.status = st]
  PROVE  work' \in Works /\ work'.stage = stage /\ work'.status = st /\ work'.seen = work.seen /\ work'.map = work.map
<1>1. work' = [stage |-> stage, seen |-> work.seen, status |-> st, map |-> work.map] BY Zenon DEF Works
<1> QED BY <1>1, Zenon DEF Works

LEMMA FailingStep ==
  ArtifactInv /\ (ApplyCallFails \/ UpdateConflicts \/ ReadBackFails \/ PushFails \/ ReadBack) => ArtifactInv'
<1> SUFFICES ASSUME ArtifactInv, ApplyCallFails \/ UpdateConflicts \/ ReadBackFails \/ PushFails \/ ReadBack
             PROVE  ArtifactInv'
  BY Zenon
<1>0. /\ work \in Works /\ work.status \in Statuses /\ work.seen.gen \in Nat /\ cm \in Maps /\ fetched \in Nat
      /\ work.status.at \in Nat
  BY Zenon DEF ArtifactInv, Shape, Works, Objects, Statuses
<1>1. cr' = cr /\ cm' = cm /\ serial' = serial /\ fetched' = fetched
  BY Zenon DEF ApplyCallFails, UpdateConflicts, ApplyFails, ReadBackFails, PushFails, ReadBack
<1>2. CASE ApplyCallFails \/ UpdateConflicts
  <2> DEFINE st == Unapplied(work.status, work.seen.gen, "False")
  <2>1. st \in Statuses /\ st.at = work.seen.gen /\ st.applied = "False" BY <1>0, UnappliedTyped, Zenon
  <2>2. work' = [work EXCEPT !.stage = "persist", !.status = st]
    BY <1>0, <1>2, Zenon DEF ApplyCallFails, UpdateConflicts, ApplyFails
  <2>3. work.stage \in {"create", "update"} BY <1>2 DEF ApplyCallFails, UpdateConflicts, Step
  <2> HIDE DEF st
  <2>4. work' \in Works /\ work'.stage = "persist" /\ work'.status = st /\ work'.seen = work.seen /\ work'.map = work.map
    BY <1>0, <2>1, <2>2, Restated, Zenon DEF Stages
  <2> QED BY <1>0, <1>1, <2>1, <2>3, <2>4, GoOn
<1>3. CASE ReadBackFails
  <2> DEFINE st == [work.status EXCEPT !.applied = "Unknown", !.at = work.seen.gen]
  <2>1. st \in Statuses /\ st.at = work.seen.gen /\ st.applied = "Unknown" BY <1>0, Zenon DEF Statuses, Verdicts
  <2>2. work' = [work EXCEPT !.stage = "persist", !.status = st] BY <1>0, <1>3, Zenon DEF ReadBackFails
  <2>3. work.stage = "readback" BY <1>3, Zenon DEF ReadBackFails, Step
  <2> HIDE DEF st
  <2>4. work' \in Works /\ work'.stage = "persist" /\ work'.status = st /\ work'.seen = work.seen /\ work'.map = work.map
    BY <1>0, <2>1, <2>2, Restated, Zenon DEF Stages
  <2> QED BY <1>0, <1>1, <2>1, <2>3, <2>4, GoOn
<1>4. ASSUME work.stage \in {"readback", "push"}
      PROVE  Written(work.seen.uid, work.seen.spec) /\ work.status.at <= work.seen.gen
  BY <1>4, Zenon DEF ArtifactInv, StageInv, SeenInv
<1>5. CASE PushFails
  <2> DEFINE st == PushFailed(work.status, work.seen.gen)
  <2>1. st \in Statuses /\ st.at = work.status.at BY <1>0, PushTyped, Zenon
  <2>2. work' = [work EXCEPT !.stage = "persist", !.status = st] BY <1>0, <1>5, Zenon DEF PushFails
  <2>3. work.stage = "push" BY <1>5 DEF PushFails, Step
  <2> HIDE DEF st
  <2>4. work' \in Works /\ work'.stage = "persist" /\ work'.status = st /\ work'.seen = work.seen /\ work'.map = work.map
    BY <1>0, <2>1, <2>2, Restated, Zenon DEF Stages
  <2> QED BY <1>0, <1>1, <1>4, <2>1, <2>3, <2>4, GoOn, Zenon
<1>6. CASE ReadBack
  <2>3. work.stage = "readback" BY <1>6, Zenon DEF ReadBack, Step
  <2> DEFINE st == Verified(work.status, work.seen.gen, cm)
  <2>1. st \in Statuses /\ st.at = work.seen.gen BY <1>0, VerifiedTyped, Zenon
  <2>2. NotPushed(st) \in Statuses /\ NotPushed(st).at = st.at BY <1>0, <2>1, PushTyped, Zenon
  <2>4. \E stage \in {"push", "persist"}, s \in {st, NotPushed(st)} :
          work' = [work EXCEPT !.stage = stage, !.status = s]
    BY <1>6, Zenon DEF ReadBack
  <2> HIDE DEF st
  <2>5. PICK stage \in {"push", "persist"}, s \in {st, NotPushed(st)} :
          work' = [work EXCEPT !.stage = stage, !.status = s]
    BY <2>4, Zenon
  <2>6. stage \in Stages /\ s \in Statuses /\ s.at = work.seen.gen BY <2>1, <2>2, Zenon DEF Stages
  <2>7. work' \in Works /\ work'.stage = stage /\ work'.status = s /\ work'.seen = work.seen /\ work'.map = work.map
    BY <1>0, <2>5, <2>6, Restated, Zenon
  <2> QED BY <1>0, <1>1, <1>4, <2>3, <2>6, <2>7, GoOn
<1> QED BY <1>2, <1>3, <1>5, <1>6, Zenon

(* What the ownership checks let through is no foreign map. *)
LEMMA Checked ==
  ASSUME ArtifactInv, NEW obj \in Objects, obj.uid > 0
  PROVE  /\ IsControlledBy(cm, obj.uid) => ~cm.foreign
         /\ Classified(cm, obj.uid) = "update" => cm.uid # 0 /\ ~cm.foreign
         /\ cm.uid # 0 /\ IsControlledBy(cm, obj.uid) => Classified(cm, obj.uid) = "update"
         /\ AlreadyCurrent(cm, obj.uid, obj.spec) => Written(obj.uid, obj.spec)
         /\ ApplyOutcome(obj, cm) \in {"failed", "readback", "create", "update"}
         /\ ApplyOutcome(obj, cm) = "readback" => AlreadyCurrent(cm, obj.uid, obj.spec)
         /\ ApplyOutcome(obj, cm) = "update" => Classified(cm, obj.uid) = "update"
         /\ ApplyOutcome(obj, cm) # "failed" => Renderable(obj.spec)
         /\ Renderable(obj.spec) /\ Classified(cm, obj.uid) = "update" => ApplyOutcome(obj, cm) # "failed"
<1>0. cm \in Maps /\ cm.owner \in Int /\ obj.uid \in Nat /\ Foreigners
        BY Zenon DEF ArtifactInv, Shape, Maps, Objects
<1>1. IsControlledBy(cm, obj.uid) => ~cm.foreign BY <1>0 DEF IsControlledBy, Foreigners
<1>2. Classified(cm, obj.uid) = "update" => cm.uid # 0 /\ (IsControlledBy(cm, obj.uid) \/ isAdoptableLeftover(cm))
  BY Zenon DEF Classified
<1>3. cm.uid # 0 /\ IsControlledBy(cm, obj.uid) => Classified(cm, obj.uid) = "update" BY Zenon DEF Classified
<1>4. Classified(cm, obj.uid) = "update" => cm.uid # 0 /\ ~cm.foreign BY <1>0, <1>1, <1>2, Zenon DEF Foreigners
<1>5. AlreadyCurrent(cm, obj.uid, obj.spec) => Written(obj.uid, obj.spec)
        BY Zenon DEF AlreadyCurrent, Written, IsControlledBy
<1>6. Classified(cm, obj.uid) \in {"create", "update", "foreign"} BY Zenon DEF Classified
<1>7. \/ ApplyOutcome(obj, cm) = "failed"
      \/ ApplyOutcome(obj, cm) = "readback" /\ AlreadyCurrent(cm, obj.uid, obj.spec)
      \/ ApplyOutcome(obj, cm) = Classified(cm, obj.uid) /\ Classified(cm, obj.uid) # "foreign"
  <2>1. CASE ~Renderable(obj.spec) BY <2>1, Zenon DEF ApplyOutcome
  <2>2. CASE Renderable(obj.spec) /\ Classified(cm, obj.uid) # "foreign" BY <2>2, Zenon DEF ApplyOutcome
  <2>3. CASE Renderable(obj.spec) /\ Classified(cm, obj.uid) = "foreign"
    <3>1. ~AlreadyCurrent(cm, obj.uid, obj.spec) BY <1>3, <2>3, Zenon DEF AlreadyCurrent, Classified
    <3> QED BY <2>3, <3>1, Zenon DEF ApplyOutcome
  <2> QED BY <2>1, <2>2, <2>3, Zenon
<1>8. ApplyOutcome(obj, cm) # "failed" => Renderable(obj.spec)
  <2>1. CASE ~Renderable(obj.spec) BY <2>1, Zenon DEF ApplyOutcome
  <2> QED BY <2>1, Zenon
<1>9. Renderable(obj.spec) /\ Classified(cm, obj.uid) = "update" => ApplyOutcome(obj, cm) # "failed"
  <2>1. CASE Renderable(obj.spec) /\ Classified(cm, obj.uid) # "foreign"
    <3>1. ApplyOutcome(obj, cm) = "readback" \/ ApplyOutcome(obj, cm) = Classified(cm, obj.uid)
      BY <2>1, Zenon DEF ApplyOutcome
    <3> QED BY <1>6, <2>1, <3>1, Zenon
  <2> QED BY <2>1, Zenon
<1> QED BY <1>1, <1>3, <1>4, <1>5, <1>6, <1>7, <1>8, <1>9, Zenon

LEMMA ReconcileStep == ArtifactInv /\ (ReconcileDeleting \/ ReconcileLive) => ArtifactInv'
<1> SUFFICES ASSUME ArtifactInv, ReconcileDeleting \/ ReconcileLive PROVE ArtifactInv' BY Zenon
<1>0. /\ cr \in Objects /\ cr.uid > 0 /\ cr.uid \in Nat /\ cr.status \in Statuses /\ cr.status.at <= cr.gen /\ cr.gen \in Nat
      /\ cm \in Maps /\ cm.uid <= serial
  BY Zenon DEF ArtifactInv, Shape, Objects
<1>1. cr' = cr /\ cm' = cm /\ serial' = serial /\ fetched' = fetched BY Zenon
                                                                        DEF ReconcileDeleting, ReconcileLive
<1>2. ASSUME NEW stage \in Stages, NEW st \in Statuses, st.at <= cr.gen,
             work' = [stage |-> stage, seen |-> cr, status |-> st, map |-> cm],
             stage \in {"delete", "unfinalize"} => cr.phase = "deleting",
             stage \in {"update", "delete"} => cm.uid # 0 /\ ~cm.foreign,
             stage = "readback" => Written(cr.uid, cr.spec),
             stage = "persist" => st.applied # "True",
             stage # "push", stage = "create" => Renderable(cr.spec),
             stage \in {"create", "update"} => cr.fin /\ cr.phase # "gone",
             stage = "unfinalize" => ~Owned \/ ~cr.spec.known
      PROVE  ArtifactInv'
  <2>1. work' \in Works /\ work'.stage = stage /\ work'.seen = cr /\ work'.status = st /\ work'.map = cm
    BY <1>0, <1>2, Zenon DEF Works
  <2>2. SeenInv' BY <1>0, <1>1, <1>2, <2>1 DEF SeenInv, Current
  <2>3. Written(cr.uid, cr.spec)' = Written(cr.uid, cr.spec) BY <1>1, Zenon DEF Written, Ours
  <2>4. StageInv' BY <1>1, <1>2, <2>1, <2>3, Zenon DEF StageInv
  <2> QED BY <1>0, <1>1, <1>2, <2>1, <2>2, <2>4, WorkStep, Zenon
<1>3. CASE ReconcileDeleting
  <2> DEFINE stage == CleanupOutcome(cr, cm)
  <2>1. cr.phase = "deleting" /\ work' = [stage |-> stage, seen |-> cr, status |-> cr.status, map |-> cm]
    BY <1>3, Zenon DEF ReconcileDeleting
  <2>2. stage = "delete" \/ stage = "unfinalize" BY Zenon DEF CleanupOutcome
  <2>3. stage = "delete" => cm.uid # 0 /\ ~cm.foreign BY <1>0, Checked, Zenon DEF CleanupOutcome
  <2>4. stage = "unfinalize" => ~Owned \/ ~cr.spec.known
    <3>1. Owned => cm.uid # 0 /\ IsControlledBy(cm, cr.uid) BY Zenon DEF Owned, Ours, IsControlledBy
    <3> QED BY <1>0, <3>1, Checked, Zenon DEF CleanupOutcome
  <2> HIDE DEF stage
  <2> QED BY <1>0, <1>2, <2>1, <2>2, <2>3, <2>4, Zenon DEF Stages
<1>4. CASE ReconcileLive
  <2> DEFINE no == Unapplied(cr.status, cr.gen, "False")
  <2>1. no \in Statuses /\ no.at = cr.gen /\ no.applied = "False" BY <1>0, UnappliedTyped, Zenon
  <2>2. cr.phase = "live" BY <1>4, Zenon DEF ReconcileLive
  <2>3. \/ ~cr.fin /\ work' = [stage |-> "finalize", seen |-> cr, map |-> cm, status |-> cr.status]
        \/ work' = [stage |-> "persist", seen |-> cr, map |-> cm, status |-> no]
        \/ /\ cr.fin /\ ApplyOutcome(cr, cm) # "failed"
           /\ work' = [stage |-> ApplyOutcome(cr, cm), seen |-> cr, map |-> cm, status |-> cr.status]
    BY <1>4, Zenon DEF ReconcileLive
  <2> HIDE DEF no
  <2>4. CASE work' = [stage |-> "finalize", seen |-> cr, map |-> cm, status |-> cr.status]
    BY <1>0, <1>2, <2>4, Zenon DEF Stages
  <2>5. CASE work' = [stage |-> "persist", seen |-> cr, map |-> cm, status |-> no]
    BY <1>0, <1>2, <2>1, <2>5 DEF Stages
  <2>6. ASSUME cr.fin, ApplyOutcome(cr, cm) # "failed",
               work' = [stage |-> ApplyOutcome(cr, cm), seen |-> cr, map |-> cm, status |-> cr.status]
        PROVE  ArtifactInv'
    <3>1. PICK stage \in {"readback", "create", "update"} :
            /\ work' = [stage |-> stage, seen |-> cr, status |-> cr.status, map |-> cm]
            /\ Renderable(cr.spec)
            /\ stage = "readback" => Written(cr.uid, cr.spec)
            /\ stage = "update" => cm.uid # 0 /\ ~cm.foreign
      BY <1>0, <2>6, Checked, Zenon
    <3> QED BY <1>0, <1>2, <2>2, <2>6, <3>1, Zenon DEF Stages
  <2> QED BY <2>3, <2>4, <2>5, <2>6, Zenon
<1> QED BY <1>3, <1>4, Zenon

LEMMA LoseCreateRaceStep == ArtifactInv /\ LoseCreateRace => ArtifactInv'
<1> SUFFICES ASSUME ArtifactInv, LoseCreateRace PROVE ArtifactInv' BY Zenon
<1>0. /\ work \in Works /\ work.status \in Statuses /\ work.seen \in Objects /\ work.seen.gen \in Nat /\ cm \in Maps
      /\ cm.uid <= serial
  BY Zenon DEF ArtifactInv, Shape, Works, Objects
<1>1. cr' = cr /\ cm' = cm /\ serial' = serial /\ fetched' = fetched BY Zenon DEF LoseCreateRace, ApplyFails
<1>2. work.stage = "create" BY Zenon DEF LoseCreateRace, Step
<1>3. work.seen.uid > 0 BY <1>2, Zenon DEF ArtifactInv, SeenInv
<1>4. CASE ApplyFails
  <2> DEFINE st == Unapplied(work.status, work.seen.gen, "False")
  <2>1. st \in Statuses /\ st.at = work.seen.gen /\ st.applied = "False" BY <1>0, UnappliedTyped, Zenon
  <2>2. work' = [work EXCEPT !.stage = "persist", !.status = st] BY <1>0, <1>4 DEF ApplyFails
  <2> HIDE DEF st
  <2>4. work' \in Works /\ work'.stage = "persist" /\ work'.status = st /\ work'.seen = work.seen /\ work'.map = work.map
    BY <1>0, <2>1, <2>2, Restated, Zenon DEF Stages
  <2> QED BY <1>0, <1>1, <1>2, <2>1, <2>4, GoOn
<1>5. CASE work' = [work EXCEPT !.stage = ApplyOutcome(work.seen, cm), !.map = cm] /\ Classified(cm, work.seen.uid) = "update"
  <2>1. PICK stage \in Stages :
          /\ stage = ApplyOutcome(work.seen, cm)
          /\ stage \in {"readback", "create", "update"}
          /\ stage = "readback" => Written(work.seen.uid, work.seen.spec)
    <3>1. Renderable(work.seen.spec) BY <1>2, Zenon DEF ArtifactInv, StageInv
    <3> QED BY <1>0, <1>3, <1>5, <3>1, Checked, Zenon DEF Stages
  <2>2. work' = [stage |-> stage, seen |-> work.seen, status |-> work.status, map |-> cm]
          BY <1>0, <1>5, <2>1, Zenon DEF Works
  <2>3. work' \in Works /\ work'.stage = stage /\ work'.seen = work.seen /\ work'.status = work.status /\ work'.map = cm
    BY <1>0, <2>2, Zenon DEF Works
  <2>4. Vouched' = Vouched /\ Current' = Current BY <1>1, <2>3, Zenon DEF Vouched, Current
  <2>5. SeenInv' BY <1>1, <1>2, <2>1, <2>3, <2>4, Zenon DEF ArtifactInv, SeenInv
  <2>6. Written(work.seen.uid, work.seen.spec)' = Written(work.seen.uid, work.seen.spec)
          BY <1>1, <2>3, Zenon DEF Written, Ours
  <2>7. cm.uid # 0 /\ ~cm.foreign BY <1>0, <1>3, <1>5, Checked, Zenon
  <2>a. Renderable(work.seen.spec) BY <1>2, Zenon DEF ArtifactInv, StageInv
  <2>8. StageInv' BY <1>1, <2>a, <2>1, <2>3, <2>6, <2>7, Zenon DEF StageInv
  <2>9. work.seen.uid = cr.uid => cr.fin /\ cr.phase # "gone" BY <1>2, Zenon DEF ArtifactInv, OwnerInv
  <2> QED BY <1>0, <1>1, <2>1, <2>3, <2>5, <2>8, <2>9, WorkStep, Zenon
<1> QED BY <1>4, <1>5, Zenon DEF LoseCreateRace

(* The provider writes the map, for an object that is not gone. *)
LEMMA RenderStep == ArtifactInv /\ (CreateMap \/ UpdateMap) => ArtifactInv'
<1> SUFFICES ASSUME ArtifactInv, CreateMap \/ UpdateMap PROVE ArtifactInv' BY Zenon
<1>0. /\ work \in Works /\ work.seen \in Objects /\ work.seen.spec \in Specs /\ work.seen.uid \in Nat /\ cm \in Maps
      /\ cm.uid <= serial /\ serial \in Nat /\ work.map.uid <= serial /\ work.map.uid \in Nat /\ cm.uid \in Nat
      /\ cr \in Objects /\ cr.uid \in Nat
  BY Zenon DEF ArtifactInv, Shape, Works, Objects, Maps
<1>1. cr' = cr /\ fetched' = fetched /\ work' = [work EXCEPT !.stage = "readback"]
  BY Zenon DEF CreateMap, UpdateMap, Continue
<1>2. work.stage \in {"create", "update"} BY Zenon DEF CreateMap, UpdateMap, Step
<1>3. work' \in Works /\ work'.stage = "readback" /\ work'.seen = work.seen /\ work'.status = work.status /\ work'.map = work.map
  BY <1>0, <1>1, Zenon DEF Works, Stages
<1>4. PICK map \in Maps : /\ cm' = Rendered(map, work.seen.uid, work.seen.spec) /\ map.uid # 0 /\ ~map.foreign
                          /\ map.uid <= serial' /\ serial' \in Nat /\ serial <= serial'
  <2>1. CASE CreateMap
    <3>1. serial' = serial + 1 /\ cm' = Rendered([NoMap EXCEPT !.uid = serial'], work.seen.uid, work.seen.spec)
      BY <2>1, Zenon DEF CreateMap
    <3>2. PICK map : map = [NoMap EXCEPT !.uid = serial'] BY Zenon
    <3>3. PICK n \in Nat : n = serial + 1 BY <1>0
    <3>4. map = [uid |-> n, owner |-> 0, labelled |-> FALSE, data |-> NoData, koffset |-> 0,
                 foreign |-> FALSE, touched |-> FALSE]
      BY <3>1, <3>2, <3>3, Zenon DEF NoMap
    <3>5. NoData \in [k : Nat, eph : Nat] BY Zenon DEF NoData
    <3>6. map \in Maps /\ map.uid = n /\ map.foreign = FALSE BY <3>4, <3>5 DEF Maps
    <3>7. n # 0 /\ n <= serial' /\ serial' \in Nat /\ serial <= serial' BY <1>0, <3>1, <3>3
    <3>8. cm' = Rendered(map, work.seen.uid, work.seen.spec) BY <3>1, <3>2, Zenon
    <3> QED BY <3>6, <3>7, <3>8, Zenon
  <2>2. CASE UpdateMap
    <3>1. serial' = serial /\ cm' = Rendered(cm, work.seen.uid, work.seen.spec) /\ cm = work.map /\ work.stage = "update"
      BY <2>2, Zenon DEF UpdateMap, Step
    <3>2. work.map.uid # 0 /\ ~work.map.foreign BY <3>1, Zenon DEF ArtifactInv, StageInv
    <3> QED BY <1>0, <3>1, <3>2
  <2> QED BY <2>1, <2>2, Zenon
<1>5. /\ work.seen.spec \in [k : Nat, eph : Nat, ref : BOOLEAN, known : BOOLEAN]
      /\ GenerateConfig(work.seen.spec) \in [k : Nat, eph : Nat]
  BY <1>0, ArtifactAssumption, Zenon DEF GenerateConfig
<1>6. /\ cm' \in Maps /\ cm'.uid = map.uid /\ cm'.owner = work.seen.uid /\ cm'.data = GenerateConfig(work.seen.spec)
      /\ cm'.foreign = map.foreign
  <2>1. PICK data \in [k : Nat, eph : Nat] : data = GenerateConfig(work.seen.spec) BY <1>5, Zenon
  <2>2. work.seen.spec.k \in Nat BY <1>5, Zenon
  <2>3. cm' = [uid |-> map.uid, owner |-> work.seen.uid, labelled |-> TRUE, data |-> data,
               koffset |-> work.seen.spec.k, foreign |-> map.foreign, touched |-> FALSE]
    BY <1>4, <2>1, Zenon DEF Rendered, Maps
  <2> QED BY <1>0, <2>1, <2>2, <2>3 DEF Maps
<1>7. Shape' BY <1>0, <1>1, <1>3, <1>4, <1>6 DEF ArtifactInv, Shape
<1>8. Foreigners' BY <1>4, <1>6, Zenon DEF Foreigners
<1>9. Vouched' = Vouched /\ Current' = Current BY <1>1, <1>3, Zenon DEF Vouched, Current
<1>10. SeenInv' BY <1>1, <1>2, <1>3, <1>9, Zenon DEF ArtifactInv, SeenInv
<1>11. Written(work.seen.uid, work.seen.spec)' BY <1>3, <1>6, Zenon DEF Written
<1>12. StageInv' BY <1>3, <1>11, Zenon DEF StageInv
<1>13. 0 < work.seen.uid /\ work.seen.uid <= cr.uid /\ (Current \/ ~Vouched)
         BY <1>2, Zenon DEF ArtifactInv, SeenInv
<1>14. OwnerInv'
  <2>1. work.seen.uid = cr.uid => cr.fin /\ cr.phase # "gone" BY <1>2, Zenon DEF ArtifactInv, OwnerInv
  <2>2. Owned' => work.seen.uid = cr.uid BY <1>1, <1>6, Zenon DEF Owned
  <2> QED BY <1>1, <1>3, <1>6, <1>13, <2>1, <2>2, Zenon DEF OwnerInv
<1>15. Vouched' => Written(cr.uid, cr.spec)' BY <1>1, <1>3, <1>9, <1>11, <1>13, Zenon DEF Written, Current
<1> QED BY <1>7, <1>8, <1>10, <1>12, <1>14, <1>15, Zenon DEF ArtifactInv

LEMMA PushStep == ArtifactInv /\ PushEphemerisUpdate => ArtifactInv'
<1> SUFFICES ASSUME ArtifactInv, PushEphemerisUpdate PROVE ArtifactInv' BY Zenon
<1>0. /\ work \in Works /\ work.status \in Statuses /\ work.seen \in Objects /\ work.seen.spec \in Specs /\ fetched \in Nat
      /\ work.seen.gen \in Nat /\ cm \in Maps /\ cm.data \in [k : Nat, eph : Nat]
  BY Zenon DEF ArtifactInv, Shape, Works, Objects, Maps
<1>1. /\ cr' = cr /\ fetched' = fetched /\ serial' = serial /\ work.stage = "push" /\ IsControlledBy(cm, work.seen.uid)
      /\ cm' = [cm EXCEPT !.data = replaceEphemeris(@, work.seen.spec.eph)]
  BY Zenon DEF PushEphemerisUpdate, Step
<1>2. /\ Written(work.seen.uid, work.seen.spec) /\ work.status.at <= work.seen.gen /\ 0 < work.seen.uid
      /\ Current \/ ~Vouched
  BY <1>1, Zenon DEF ArtifactInv, StageInv, SeenInv
<1>3. ~cm.foreign BY <1>0, <1>1, <1>2, Checked, Zenon
<1>4. work.seen.spec.eph \in Nat BY <1>0, ArtifactAssumption, Zenon
<1>5. replaceEphemeris(cm.data, work.seen.spec.eph) = [k |-> cm.data.k, eph |-> work.seen.spec.eph]
  BY <1>0 DEF replaceEphemeris
<1>6. PICK data \in [k : Nat, eph : Nat] : data = [k |-> cm.data.k, eph |-> work.seen.spec.eph]
        BY <1>0, <1>4, Zenon
<1>7. /\ cm' \in Maps /\ cm'.uid = cm.uid /\ cm'.owner = cm.owner /\ cm'.foreign = cm.foreign /\ cm'.touched = cm.touched
      /\ cm'.data = data
  BY <1>0, <1>1, <1>5, <1>6, Zenon DEF Maps
<1>8. cm.data = GenerateConfig(work.seen.spec) => data = GenerateConfig(work.seen.spec)
        BY <1>6 DEF GenerateConfig
<1>9. PICK st \in Statuses : st = Pushed(work.status, work.seen.gen, fetched) /\ st.at = work.status.at
        BY <1>0, PushTyped
<1>10. work' = [work EXCEPT !.stage = "persist", !.status = st] BY <1>0, <1>9, Zenon DEF PushEphemerisUpdate
<1>11. work' \in Works /\ work'.stage = "persist" /\ work'.status = st /\ work'.seen = work.seen /\ work'.map = work.map
  BY <1>0, <1>10, Restated, Zenon DEF Stages
<1>12. Shape' /\ Foreigners' BY <1>1, <1>3, <1>7, <1>11, Zenon DEF ArtifactInv, Shape, Foreigners
<1>13. Ours' = Ours /\ Owned' = Owned /\ Vouched' = Vouched /\ Current' = Current
  BY <1>1, <1>7, <1>11, Zenon DEF Ours, Owned, Vouched, Current
<1>14. SeenInv' BY <1>1, <1>2, <1>9, <1>11, <1>13, Zenon DEF ArtifactInv, SeenInv
<1>15. Written(work.seen.uid, work.seen.spec)' BY <1>2, <1>7, <1>8, <1>11, <1>13, Zenon DEF Written
<1>16. StageInv' BY <1>11, <1>15, Zenon DEF StageInv
<1>17. OwnerInv' BY <1>1, <1>7, <1>11, <1>13, Zenon DEF ArtifactInv, OwnerInv
<1>18. Vouched' => Written(cr.uid, cr.spec)' BY <1>1, <1>2, <1>11, <1>13, <1>15, Zenon DEF Written, Current
<1> QED BY <1>12, <1>14, <1>16, <1>17, <1>18, Zenon DEF ArtifactInv

LEMMA DeleteMapStep == ArtifactInv /\ DeleteMap => ArtifactInv'
<1> SUFFICES ASSUME ArtifactInv, DeleteMap PROVE ArtifactInv' BY Zenon
<1>0. /\ work \in Works /\ cm \in Maps /\ serial \in Nat /\ cr \in Objects /\ cr.status.at <= cr.gen
      /\ (Vouched => Written(cr.uid, cr.spec)) /\ work.stage = "delete"
      /\ cr.phase = "live" /\ ~cr.fin => ~Owned
      /\ cr.phase = "gone" => ~Owned \/ ~cr.spec.known
  BY Zenon DEF ArtifactInv, Shape, DeleteMap, Step, OwnerInv
<1>1. cr' = cr /\ fetched' = fetched /\ serial' = serial BY Zenon DEF DeleteMap
<1>2. CASE work' = Idle /\ cm' = cm
  <2>1. Vouched' = Vouched BY <1>1, Zenon DEF Vouched
  <2> QED BY <1>0, <1>1, <1>2, <2>1, EndStep, Zenon
<1>3. CASE work' = [work EXCEPT !.stage = "unfinalize"] /\ cm'.uid = 0 /\ cm' \in Maps /\ ~cm'.foreign
  <2>1. work' \in Works /\ work'.stage = "unfinalize" /\ work'.seen = work.seen /\ work'.status = work.status /\ work'.map = work.map
    BY <1>0, <1>3, Zenon DEF Works, Stages
  <2>2. Shape' BY <1>1, <1>3, <2>1 DEF ArtifactInv, Shape
  <2>3. ~Ours' /\ ~Owned' /\ Foreigners' BY <1>3, Zenon DEF Ours, Owned, Foreigners
  <2>4. Vouched' = Vouched /\ Current' = Current BY <1>1, <2>1, Zenon DEF Vouched, Current
  <2>5. SeenInv' BY <1>0, <1>1, <2>1, <2>4, Zenon DEF ArtifactInv, SeenInv
  <2>6. StageInv' BY <2>1, Zenon DEF StageInv
  <2>7. OwnerInv' BY <2>1, <2>3, Zenon DEF OwnerInv
  <2>8. Written(cr.uid, cr.spec)' BY <2>3, Zenon DEF Written
  <2> QED BY <2>2, <2>3, <2>5, <2>6, <2>7, <2>8, Zenon DEF ArtifactInv
<1>4. \/ work' = Idle /\ cm' = cm
      \/ work' = [work EXCEPT !.stage = "unfinalize"] /\ (cm' = NoMap \/ (cm' = cm /\ cm.uid = 0))
  BY Zenon DEF DeleteMap, Continue, Finish, UidHolds
<1>5. cm.uid = 0 => ~cm.foreign BY Zenon DEF ArtifactInv, Foreigners
<1> QED BY <1>0, <1>2, <1>3, <1>4, <1>5, Typed, Zenon

LEMMA NextStep == ArtifactInv /\ [Next]_vars => ArtifactInv'
<1> SUFFICES ASSUME ArtifactInv, [Next]_vars PROVE ArtifactInv' BY Zenon
<1>1. CASE Fetched \/ UNCHANGED vars
  <2>1. /\ cr' = cr /\ cm' = cm /\ serial' = serial /\ work' = work
        /\ fetched' \in Nat
    BY <1>1 DEF Fetched, vars, ArtifactInv, Shape
  <2>2. Shape' /\ Foreigners' BY <2>1, Zenon DEF ArtifactInv, Shape, Foreigners
  <2>3. Ours' = Ours /\ Owned' = Owned /\ Vouched' = Vouched /\ Current' = Current
    BY <2>1, Zenon DEF Ours, Owned, Vouched, Current
  <2>4. SeenInv' /\ StageInv' /\ OwnerInv' BY <2>1, <2>3 DEF ArtifactInv, SeenInv, StageInv, OwnerInv, Written
  <2>5. Vouched' => Written(cr.uid, cr.spec)' BY <2>1, <2>3, Zenon DEF ArtifactInv, Written
  <2> QED BY <2>2, <2>4, <2>5, Zenon DEF ArtifactInv
<1> QED
  BY <1>1, MapStep, ObjectStep, FinishStep, FailingStep, ReconcileStep, LoseCreateRaceStep, RenderStep,
     PushStep, DeleteMapStep, Zenon
  DEF Next, Worker

(* AppliedMeansWritten, for all specs, maps and numbers of edits and       *)
(* failures: what status reports as applied at the live generation is what *)
(* ApplyCellConfig wrote for it.                                           *)
THEOREM AppliedWasWritten == Spec => []AppliedMeansWritten
<1>1. ArtifactInv => AppliedMeansWritten
  BY Zenon DEF ArtifactInv, AppliedMeansWritten, Vouched, Written, Ours
<1> QED BY <1>1, InitArtifact, NextStep, PTL DEF Spec

(* NothingLeftBehind, for all specs, maps and numbers of events: Cleanup   *)
(* runs before the finalizer goes, and a map it does not remove keeps the  *)
(* owner reference that garbage collection needs.                          *)
THEOREM CleanedUp == Spec => []NothingLeftBehind
<1>1. ArtifactInv => NothingLeftBehind
  BY Zenon DEF ArtifactInv, NothingLeftBehind, OwnerInv, Owned, Ours
<1> QED BY <1>1, InitArtifact, NextStep, PTL DEF Spec

(* ForeignMapUntouched, for all maps that a user may put in the way at any *)
(* moment: the ownership checks, the resourceVersion of the update and the *)
(* UID precondition of the delete suffice together.                        *)
THEOREM ForeignSafe == Spec => ForeignMapUntouched
<1>1. ArtifactInv /\ Worker /\ cm.foreign => cm' = cm
  <2> SUFFICES ASSUME ArtifactInv, Worker, cm.foreign, cm' # cm PROVE FALSE BY Zenon
  <2>1. CreateMap \/ UpdateMap \/ PushEphemerisUpdate \/ DeleteMap
    BY Zenon
       DEF Worker, ReconcileDeleting, ReconcileLive, AddFinalizer, CallFails, LoseCreateRace, UpdateConflicts,
           ApplyCallFails, ApplyFails, ReadBack, ReadBackFails, PushFails, persistStatusIfChanged, RemoveFinalizer
  <2>2. CASE CreateMap BY <2>2, Zenon DEF CreateMap, ArtifactInv, Foreigners
  <2>3. CASE UpdateMap BY <2>3, Zenon DEF UpdateMap, Step, ArtifactInv, StageInv
  <2>4. CASE PushEphemerisUpdate
    <3>1. work.seen \in Objects BY Zenon DEF ArtifactInv, Shape, Works
    <3>2. work.seen.uid > 0 BY <2>4, Zenon DEF PushEphemerisUpdate, Step, ArtifactInv, SeenInv
    <3> QED BY <2>4, <3>1, <3>2, Checked, Zenon DEF PushEphemerisUpdate
  <2>5. CASE DeleteMap BY <2>5, Zenon DEF DeleteMap, Step, UidHolds, ArtifactInv, StageInv
  <2> QED BY <2>1, <2>2, <2>3, <2>4, <2>5, Zenon
<1>2. ArtifactInv /\ [Next]_vars => [Worker /\ cm.foreign => cm' = cm]_vars BY <1>1, Zenon
<1> QED BY <1>2, InitArtifact, NextStep, PTL DEF Spec, ForeignMapUntouched

(***************************************************************************)
(* How far a deletion is from its end, in steps of the worker.             *)
(***************************************************************************)
StageRank == [idle |-> 3, finalize |-> 4, persist |-> 4, push |-> 5, readback |-> 6, update |-> 7, create |-> 8,
              delete |-> 5, unfinalize |-> 4]

(* A clean-up whose copies still hold: it ends in the removal of the finalizer without another look. *)
Undisturbed(w, object, map) ==
  /\ w.seen = object
  /\ w.stage = "unfinalize" \/ (w.stage = "delete" /\ map.uid \in {0, w.map.uid})

DeletionRank(w, object, map) == StageRank[w.stage] - (IF Undisturbed(w, object, map) THEN 3 ELSE 0)

(* The safety part of DeletionCompletes: once nothing is edited and nothing fails, each step of the worker
   ends the deletion or brings it closer, and no other step sets it back. *)
DeletionDescends ==
  [][events = MaxEvents /\ cr.phase = "deleting" =>
       /\ Worker =>
            \/ cr'.phase = "gone"
            \/ cr'.phase = "deleting" /\ DeletionRank(work', cr', cm') < DeletionRank(work, cr, cm)
       /\ ~Worker => cr' = cr /\ DeletionRank(work', cr', cm') <= DeletionRank(work, cr, cm)]_vars

LEMMA RankValues ==
  ASSUME NEW w, NEW object, NEW map
  PROVE  LET rank == DeletionRank(w, object, map) IN
         /\ w.stage = "idle" => rank = 3
         /\ w.stage = "finalize" \/ w.stage = "persist" => rank = 4
         /\ w.stage = "push" => rank = 5
         /\ w.stage = "readback" => rank = 6
         /\ w.stage = "update" => rank = 7
         /\ w.stage = "create" => rank = 8
         /\ w.stage = "delete" /\ ~Undisturbed(w, object, map) => rank = 5
         /\ w.stage = "delete" /\ Undisturbed(w, object, map) => rank = 2
         /\ w.stage = "unfinalize" /\ w.seen # object => rank = 4
         /\ w.stage = "unfinalize" /\ w.seen = object => rank = 1
<1> DEFINE stage == w.stage
<1>1. stage \notin {"delete", "unfinalize"} => ~Undisturbed(w, object, map) BY Zenon DEF Undisturbed
<1>2. stage = "unfinalize" => (Undisturbed(w, object, map) <=> w.seen = object) BY Zenon DEF Undisturbed
<1> HIDE DEF stage
<1>3. DeletionRank(w, object, map) = StageRank[stage] - (IF Undisturbed(w, object, map) THEN 3 ELSE 0)
  BY Zenon DEF DeletionRank, stage
<1>4. PICK rank, at : rank = DeletionRank(w, object, map) /\ at = StageRank[stage] BY Zenon
<1>5. /\ Undisturbed(w, object, map) => rank = at - 3
      /\ ~Undisturbed(w, object, map) => rank = at - 0
  BY <1>3, <1>4, Zenon
<1>6. /\ stage = "idle" => at = 3
      /\ stage = "finalize" \/ stage = "persist" \/ stage = "unfinalize" => at = 4
      /\ stage = "push" \/ stage = "delete" => at = 5
      /\ stage = "readback" => at = 6
      /\ stage = "update" => at = 7
      /\ stage = "create" => at = 8
  BY <1>4 DEF StageRank
<1>7. /\ ~Undisturbed(w, object, map) /\ at = 3 => rank = 3
      /\ ~Undisturbed(w, object, map) /\ at = 4 => rank = 4
      /\ ~Undisturbed(w, object, map) /\ at = 5 => rank = 5
      /\ ~Undisturbed(w, object, map) /\ at = 6 => rank = 6
      /\ ~Undisturbed(w, object, map) /\ at = 7 => rank = 7
      /\ ~Undisturbed(w, object, map) /\ at = 8 => rank = 8
      /\ Undisturbed(w, object, map) /\ at = 5 => rank = 2
      /\ Undisturbed(w, object, map) /\ at = 4 => rank = 1
  BY <1>5
<1> QED BY <1>1, <1>2, <1>4, <1>6, <1>7, Zenon DEF stage

(* A step of the worker on an object that is being deleted, with nothing left to fail: the rank before and after. *)
Descends(before, after) ==
  DeletionRank(work, cr, cm) = before /\ DeletionRank(work', cr', cm') = after /\ cr'.phase = cr.phase

(* The end of a reconcile. *)
LEMMA EndDescends ==
  ASSUME ArtifactInv, AddFinalizer \/ persistStatusIfChanged
  PROVE  Descends(4, 3)
<1>1. work.stage = "finalize" \/ work.stage = "persist" BY Zenon DEF AddFinalizer, persistStatusIfChanged, Step
<1>2. work'.stage = "idle" BY Typed, Zenon DEF AddFinalizer, persistStatusIfChanged, Finish
<1>3. cr'.phase = cr.phase
  BY Zenon DEF ArtifactInv, Shape, Objects, AddFinalizer, persistStatusIfChanged
<1> QED BY <1>1, <1>2, <1>3, RankValues, Zenon DEF Descends

(* Each step of the apply, of the read-back and of the push is followed by a later one, or by the status write. *)
LEMMA ApplyDescends ==
  ASSUME ArtifactInv, events = MaxEvents,
         \/ CreateMap \/ LoseCreateRace \/ UpdateMap \/ UpdateConflicts
         \/ ReadBack \/ ReadBackFails \/ PushEphemerisUpdate \/ PushFails
  PROVE  \E before, after \in 1..8 : after < before /\ Descends(before, after)
<1>0. work \in Works /\ DOMAIN work = {"stage", "seen", "status", "map"} BY Zenon DEF ArtifactInv, Shape, Works
<1>1. cr' = cr
  BY Zenon
     DEF CreateMap, LoseCreateRace, UpdateMap, UpdateConflicts, ReadBack, ReadBackFails, PushEphemerisUpdate,
               PushFails, ApplyFails
<1>2. ASSUME work.stage = "create", work'.stage = "readback" PROVE Descends(8, 6)
  BY <1>1, <1>2, RankValues, Zenon DEF Descends
<1>3. ASSUME work.stage = "create", work'.stage = "update" PROVE Descends(8, 7)
  BY <1>1, <1>3, RankValues, Zenon DEF Descends
<1>4. ASSUME work.stage = "create", work'.stage = "persist" PROVE Descends(8, 4)
  BY <1>1, <1>4, RankValues, Zenon DEF Descends
<1>5. ASSUME work.stage = "update", work'.stage = "readback" PROVE Descends(7, 6)
  BY <1>1, <1>5, RankValues, Zenon DEF Descends
<1>6. ASSUME work.stage = "update", work'.stage = "persist" PROVE Descends(7, 4)
  BY <1>1, <1>6, RankValues, Zenon DEF Descends
<1>7. ASSUME work.stage = "readback", work'.stage = "persist" PROVE Descends(6, 4)
  BY <1>1, <1>7, RankValues, Zenon DEF Descends
<1>8. ASSUME work.stage = "readback", work'.stage = "push" PROVE Descends(6, 5)
  BY <1>1, <1>8, RankValues, Zenon DEF Descends
<1>9. ASSUME work.stage = "push", work'.stage = "persist" PROVE Descends(5, 4)
  BY <1>1, <1>9, RankValues, Zenon DEF Descends
<1>10. CASE CreateMap
  <2>1. work.stage = "create" /\ work'.stage = "readback" BY <1>0, <1>10, Zenon DEF CreateMap, Step, Continue
  <2> QED BY <1>2, <2>1
<1>11. CASE LoseCreateRace
  <2>1. work.stage = "create" /\ Renderable(work.seen.spec)
    BY <1>11, Zenon DEF LoseCreateRace, Step, ArtifactInv, StageInv
  <2>2. CASE ApplyFails
    <3>1. work'.stage = "persist" BY <1>0, <2>2, Zenon DEF ApplyFails
    <3> QED BY <1>4, <2>1, <3>1
  <2>3. CASE /\ Classified(cm, work.seen.uid) = "update"
             /\ work' = [work EXCEPT !.stage = ApplyOutcome(work.seen, cm), !.map = cm]
    <3>1. work'.stage = ApplyOutcome(work.seen, cm) BY <1>0, <2>3, Zenon
    <3>2. ApplyOutcome(work.seen, cm) = "readback" \/ ApplyOutcome(work.seen, cm) = "update"
      BY <2>1, <2>3 DEF ApplyOutcome
    <3> QED BY <1>2, <1>3, <2>1, <3>1, <3>2
  <2> QED BY <1>11, <2>2, <2>3, Zenon DEF LoseCreateRace
<1>12. CASE UpdateMap
  <2>1. work.stage = "update" /\ work'.stage = "readback" BY <1>0, <1>12, Zenon DEF UpdateMap, Step, Continue
  <2> QED BY <1>5, <2>1
<1>13. CASE UpdateConflicts
  <2>1. work.stage = "update" /\ work'.stage = "persist"
    BY <1>0, <1>13, Zenon DEF UpdateConflicts, Step, ApplyFails
  <2> QED BY <1>6, <2>1
<1>14. CASE ReadBack
  <2>1. work.stage = "readback" BY <1>14, Zenon DEF ReadBack, Step
  <2>2. work'.stage = "persist" \/ work'.stage = "push" BY <1>0, <1>14 DEF ReadBack
  <2> QED BY <1>7, <1>8, <2>1, <2>2
<1>15. CASE ReadBackFails
  <2>1. work.stage = "readback" /\ work'.stage = "persist" BY <1>0, <1>15, Zenon DEF ReadBackFails, Step
  <2> QED BY <1>7, <2>1
<1>16. CASE PushEphemerisUpdate \/ PushFails
  <2>1. work.stage = "push" /\ work'.stage = "persist"
    BY <1>0, <1>16, Zenon DEF PushEphemerisUpdate, PushFails, Step
  <2> QED BY <1>9, <2>1
<1> QED BY <1>10, <1>11, <1>12, <1>13, <1>14, <1>15, <1>16, Zenon

(* The clean-up: undisturbed it goes through, otherwise it starts over from what is there now. *)
LEMMA CleanupDescends ==
  ASSUME ArtifactInv, cr.phase = "deleting", ReconcileDeleting \/ DeleteMap \/ RemoveFinalizer
  PROVE  cr'.phase = "gone" \/ \E before, after \in 1..8 : after < before /\ Descends(before, after)
<1>0. work \in Works /\ DOMAIN work = {"stage", "seen", "status", "map"} BY Zenon DEF ArtifactInv, Shape, Works
<1>1. CASE ReconcileDeleting
  <2>1. work.stage = "idle" /\ cr' = cr /\ cm' = cm /\ work'.seen = cr /\ work'.map = cm
        /\ work'.stage = CleanupOutcome(cr, cm)
    BY <1>1, Zenon DEF ReconcileDeleting, Step
  <2>2. DeletionRank(work, cr, cm) = 3 BY <2>1, RankValues, Zenon
  <2>3. CASE work'.stage = "delete"
    <3>1. Undisturbed(work', cr', cm') BY <2>1, <2>3, Zenon DEF Undisturbed
    <3>2. DeletionRank(work', cr', cm') = 2 BY <2>3, <3>1, RankValues, Zenon
    <3>3. Descends(3, 2) BY <2>1, <2>2, <3>2, Zenon DEF Descends
    <3> QED BY <3>3
  <2>4. CASE work'.stage = "unfinalize"
    <3>1. work'.seen = cr' BY <2>1, Zenon
    <3>2. DeletionRank(work', cr', cm') = 1 BY <2>4, <3>1, RankValues, Zenon
    <3>3. Descends(3, 1) BY <2>1, <2>2, <3>2, Zenon DEF Descends
    <3> QED BY <3>3
  <2> QED BY <2>1, <2>3, <2>4, Zenon DEF CleanupOutcome
<1>2. CASE DeleteMap
  <2>1. work.stage = "delete" /\ cr' = cr BY <1>2, Zenon DEF DeleteMap, Step
  <2>2. CASE UidHolds(work.map) \/ cm.uid = 0
    <3>1. work'.stage = "unfinalize" /\ work'.seen = work.seen BY <1>0, <1>2, <2>2, Zenon
                                                                  DEF DeleteMap, Continue
    <3>2. CASE work.seen = cr
      <4>1. Undisturbed(work, cr, cm) BY <2>1, <2>2, <3>2, Zenon DEF Undisturbed, UidHolds
      <4>2. Descends(2, 1) BY <2>1, <3>1, <3>2, <4>1, RankValues, Zenon DEF Descends
      <4> QED BY <4>2
    <3>3. CASE work.seen # cr
      <4>1. ~Undisturbed(work, cr, cm) BY <3>3, Zenon DEF Undisturbed
      <4>2. Descends(5, 4) BY <2>1, <3>1, <3>3, <4>1, RankValues, Zenon DEF Descends
      <4> QED BY <4>2
    <3> QED BY <3>2, <3>3, Zenon
  <2>3. CASE ~(UidHolds(work.map) \/ cm.uid = 0)
    <3>1. work'.stage = "idle" BY <1>2, <2>3, Typed, Zenon DEF DeleteMap, Finish
    <3>2. ~Undisturbed(work, cr, cm) BY <2>1, <2>3, Zenon DEF Undisturbed, UidHolds
    <3>3. Descends(5, 3) BY <2>1, <3>1, <3>2, RankValues, Zenon DEF Descends
    <3> QED BY <3>3
  <2> QED BY <2>2, <2>3, Zenon
<1>3. CASE RemoveFinalizer
  <2>1. work.stage = "unfinalize" /\ work'.stage = "idle"
    BY <1>3, Typed, Zenon DEF RemoveFinalizer, Step, Finish
  <2>2. CASE cr = work.seen
    BY <1>3, <2>2, Zenon DEF RemoveFinalizer, ArtifactInv, Shape, Objects
  <2>3. CASE cr # work.seen
    <3>1. cr' = cr BY <1>3, <2>3, Zenon DEF RemoveFinalizer
    <3>2. Descends(4, 3) BY <2>1, <2>3, <3>1, RankValues, Zenon DEF Descends
    <3> QED BY <3>2
  <2> QED BY <2>2, <2>3, Zenon
<1> QED BY <1>1, <1>2, <1>3, Zenon

(* The garbage collector never sets a clean-up back: a map that is gone need not be deleted. *)
LEMMA CollectDescends ==
  ASSUME ArtifactInv, GarbageCollect
  PROVE  cr' = cr /\ DeletionRank(work', cr', cm') <= DeletionRank(work, cr, cm)
<1>1. cr' = cr /\ work' = work /\ cm'.uid = 0 BY Typed, Zenon DEF GarbageCollect
<1>2. PICK before, after : before = DeletionRank(work, cr, cm) /\ after = DeletionRank(work', cr', cm') BY Zenon
<1>3. work.stage \in Stages BY Zenon DEF ArtifactInv, Shape, Works
<1>4. CASE work.stage = "delete"
  <2>1. before = 5 \/ before = 2 BY <1>2, <1>4, RankValues, Zenon
  <2>2. Undisturbed(work, cr, cm) => Undisturbed(work', cr', cm') BY <1>1, Zenon DEF Undisturbed
  <2>3. after = 5 \/ after = 2 BY <1>1, <1>2, <1>4, RankValues, Zenon
  <2>4. before = 2 => Undisturbed(work, cr, cm)
    <3>1. ~Undisturbed(work, cr, cm) => before = 5 BY <1>2, <1>4, RankValues, Zenon
    <3> QED BY <3>1
  <2>5. Undisturbed(work', cr', cm') => after = 2 BY <1>1, <1>2, <1>4, RankValues, Zenon
  <2>6. after <= before BY <2>1, <2>2, <2>3, <2>4, <2>5
  <2> QED BY <1>1, <1>2, <2>6, Zenon
<1>5. CASE work.stage # "delete"
  <2>1. Undisturbed(work', cr', cm') <=> Undisturbed(work, cr, cm) BY <1>1, <1>5, Zenon DEF Undisturbed
  <2>2. after = before BY <1>1, <1>2, <2>1, Zenon DEF DeletionRank
  <2>3. before \in Int
    <3>1. before \in {1, 3, 4, 5, 6, 7, 8} BY <1>2, <1>3, <1>5, RankValues, Zenon DEF Stages
    <3> QED BY <3>1
  <2>4. after <= before BY <2>2, <2>3
  <2> QED BY <1>1, <1>2, <2>4, Zenon
<1> QED BY <1>4, <1>5, Zenon

(* Once nothing is edited and nothing fails, at most eight steps of the worker separate a deletion from its end,
   wherever the reconcile in flight stands and whatever map has taken the name: every one of them ends the
   deletion or lowers DeletionRank, and the garbage collector never raises it (handleFinalizer, Cleanup with its
   UID precondition). *)
THEOREM DeletionsDescend == Spec => DeletionDescends
<1>1. ASSUME ArtifactInv, [Next]_vars, events = MaxEvents, cr.phase = "deleting", ~UNCHANGED vars
      PROVE  /\ Worker =>
                  \/ cr'.phase = "gone"
                  \/ cr'.phase = "deleting" /\ DeletionRank(work', cr', cm') < DeletionRank(work, cr, cm)
             /\ ~Worker => cr' = cr /\ DeletionRank(work', cr', cm') <= DeletionRank(work, cr, cm)
  <2>1. ~Event
    <3>1. ~(events < MaxEvents) BY <1>1, ArtifactAssumption
    <3> QED BY <3>1, Zenon DEF Event
  <2>2. ASSUME \E before, after \in 1..8 : after < before /\ Descends(before, after)
        PROVE  cr'.phase = "deleting" /\ DeletionRank(work', cr', cm') < DeletionRank(work, cr, cm)
    <3>1. PICK before \in 1..8, after \in 1..8 : after < before /\ Descends(before, after) BY <2>2, Zenon
    <3> QED BY <1>1, <3>1, Zenon DEF Descends
  <2>3. ASSUME Worker
        PROVE  \/ cr'.phase = "gone"
               \/ cr'.phase = "deleting" /\ DeletionRank(work', cr', cm') < DeletionRank(work, cr, cm)
    <3>1. CASE ReconcileDeleting \/ DeleteMap \/ RemoveFinalizer
      BY <1>1, <2>2, <3>1, CleanupDescends, Zenon
    <3>2. CASE AddFinalizer \/ persistStatusIfChanged
      <4>1. Descends(4, 3) BY <1>1, <3>2, EndDescends, Zenon
      <4>2. \E before, after \in 1..8 : after < before /\ Descends(before, after) BY <4>1
      <4> QED BY <2>2, <4>2, Zenon
    <3>3. CASE \/ CreateMap \/ LoseCreateRace \/ UpdateMap \/ UpdateConflicts
               \/ ReadBack \/ ReadBackFails \/ PushEphemerisUpdate \/ PushFails
      BY <1>1, <2>2, <3>3, ApplyDescends, Zenon
    <3>4. CASE ReconcileLive \/ CallFails \/ ApplyCallFails
      <4>1. cr.phase # "live" BY <1>1, Zenon
      <4> QED BY <2>1, <3>4, <4>1, Zenon DEF ReconcileLive, CallFails, ApplyCallFails
    <3> QED BY <2>3, <3>1, <3>2, <3>3, <3>4, Zenon DEF Worker
  <2>4. ASSUME ~Worker PROVE cr' = cr /\ DeletionRank(work', cr', cm') <= DeletionRank(work, cr, cm)
    <3>1. GarbageCollect
      BY <1>1, <2>1, <2>4, Zenon DEF Next, EditSpec, Fetched, Delete, Recreate, TouchMap, ReplaceMap, Restart
    <3> QED BY <1>1, <3>1, CollectDescends, Zenon
  <2> QED BY <2>3, <2>4, Zenon
<1>2. ArtifactInv /\ [Next]_vars =>
        [events = MaxEvents /\ cr.phase = "deleting" =>
           /\ Worker =>
                \/ cr'.phase = "gone"
                \/ cr'.phase = "deleting" /\ DeletionRank(work', cr', cm') < DeletionRank(work, cr, cm)
           /\ ~Worker => cr' = cr /\ DeletionRank(work', cr', cm') <= DeletionRank(work, cr, cm)]_vars
  BY <1>1, Zenon
<1> QED BY <1>2, InitArtifact, NextStep, PTL DEF Spec, DeletionDescends

(***************************************************************************)
(* A cell at rest.                                                         *)
(***************************************************************************)
(* Vouches for the live generation and its koffset. *)
Reports(st) == st.applied = "True" /\ st.at = cr.gen /\ st.koffset = cr.spec.k

(* Applied whole and reported ready, with nothing on its way that says otherwise. *)
AtRest ==
  /\ events = MaxEvents /\ cr.phase = "live" /\ cr.fin /\ cr.spec.known /\ Renderable(cr.spec)
  /\ AlreadyCurrent(cm, cr.uid, cr.spec) /\ ready = "1" /\ Reports(cr.status)
  /\ work.stage \in {"idle", "readback", "push", "persist"}
  /\ work.stage # "idle" => work.seen = cr
  /\ work.stage \in {"push", "persist"} => Reports(work.status)

(* The safety part of CellConverges: a cell that is at rest stays there, and its map is not written again. *)
CellRests == [][AtRest => AtRest' /\ cm' = cm]_vars

(* The read-back of a map that is current. *)
LEMMA RestingReadBack ==
  ASSUME ArtifactInv, AtRest, ReadBack
  PROVE  AtRest' /\ cm' = cm
<1>1. work.stage = "readback" /\ work.seen = cr /\ cm' = cm /\ cr' = cr /\ events' = events /\ ready' = "1"
  BY Zenon DEF AtRest, ReadBack, Step
<1>2. work.status \in Statuses /\ DOMAIN work = {"stage", "seen", "status", "map"}
  BY Zenon DEF ArtifactInv, Shape, Works
<1>3. PICK st : st = Verified(work.status, work.seen.gen, cm) BY Zenon
<1>4. st.applied = "True" /\ st.at = cr.gen /\ st.koffset = cr.spec.k /\ DOMAIN st = DOMAIN work.status
  BY <1>1, <1>2, <1>3 DEF Verified, Statuses, AtRest, AlreadyCurrent
<1>5. PICK none : none = NotPushed(st) BY Zenon
<1>6. none.applied = "True" /\ none.at = cr.gen /\ none.koffset = cr.spec.k
  BY <1>2, <1>4, <1>5 DEF NotPushed, Statuses
<1>7. \/ work' = [work EXCEPT !.stage = "persist", !.status = none]
      \/ work' = [work EXCEPT !.stage = "persist", !.status = st]
      \/ work' = [work EXCEPT !.stage = "push", !.status = st]
  BY <1>3, <1>5 DEF ReadBack
<1>8. /\ work'.stage = "persist" \/ work'.stage = "push"
      /\ work'.seen = work.seen /\ (work'.status = none \/ work'.status = st)
  BY <1>2, <1>7
<1>9. Reports(work.status)' BY <1>1, <1>4, <1>6, <1>8, Zenon DEF Reports
<1>10. Reports(cr.status)' BY <1>1, Zenon DEF AtRest, Reports
<1> QED BY <1>1, <1>8, <1>9, <1>10, Zenon DEF AtRest

(* The push of an ephemeris that the file already has changes nothing in it. *)
LEMMA RestingPush ==
  ASSUME ArtifactInv, AtRest, PushEphemerisUpdate \/ PushFails
  PROVE  AtRest' /\ cm' = cm
<1>1. work.stage = "push" /\ work.seen = cr /\ cr' = cr /\ ready' = ready /\ Reports(work.status)
  BY Zenon DEF AtRest, PushEphemerisUpdate, PushFails, Step
<1>2. ~Event
  <2>1. ~(events < MaxEvents) BY ArtifactAssumption DEF AtRest
  <2> QED BY <2>1, Zenon DEF Event
<1>3. events' = events BY <1>2, Zenon DEF PushEphemerisUpdate, PushFails
<1>4. work.status \in Statuses /\ DOMAIN work = {"stage", "seen", "status", "map"} /\ cm \in Maps
  BY Zenon DEF ArtifactInv, Shape, Works
<1>5. cm' = cm
  <2>1. CASE PushFails BY <2>1, Zenon DEF PushFails
  <2>2. CASE PushEphemerisUpdate
    <3>1. cm.data = GenerateConfig(cr.spec) BY Zenon DEF AtRest, AlreadyCurrent
    <3>2. replaceEphemeris(cm.data, cr.spec.eph) = cm.data BY <3>1 DEF GenerateConfig, replaceEphemeris
    <3>3. cm' = [cm EXCEPT !.data = replaceEphemeris(cm.data, cr.spec.eph)]
      BY <1>1, <2>2, Zenon DEF PushEphemerisUpdate
    <3> QED BY <1>4, <3>2, <3>3 DEF Maps
  <2> QED BY <2>1, <2>2, Zenon
<1>6. PICK good, bad : good = Pushed(work.status, work.seen.gen, fetched) /\ bad = PushFailed(work.status, work.seen.gen)
  BY Zenon
<1>7. /\ good.applied = work.status.applied /\ good.at = work.status.at /\ good.koffset = work.status.koffset
      /\ bad.applied = work.status.applied /\ bad.at = work.status.at /\ bad.koffset = work.status.koffset
  BY <1>4, <1>6 DEF Pushed, PushFailed, Statuses
<1>8. work' = [work EXCEPT !.stage = "persist", !.status = good] \/ work' = [work EXCEPT !.stage = "persist", !.status = bad]
  BY <1>6, Zenon DEF PushEphemerisUpdate, PushFails
<1>9. work'.stage = "persist" /\ work'.seen = work.seen /\ (work'.status = good \/ work'.status = bad)
  BY <1>4, <1>8
<1>10. Reports(work.status)' /\ Reports(cr.status)' BY <1>1, <1>7, <1>9, Zenon DEF AtRest, Reports
<1> QED BY <1>1, <1>3, <1>5, <1>9, <1>10, Zenon DEF AtRest

(* The status that it writes says what the stored one says of the apply. *)
LEMMA RestingPersist ==
  ASSUME ArtifactInv, AtRest, persistStatusIfChanged
  PROVE  AtRest' /\ cm' = cm
<1>1. work.stage = "persist" /\ work.seen = cr /\ cm' = cm /\ events' = events /\ ready' = ready
      /\ work' = Idle /\ Reports(work.status)
  BY Zenon DEF AtRest, persistStatusIfChanged, Step, Finish
<1>2. cr' = [cr EXCEPT !.status = work.status] BY <1>1, Zenon DEF persistStatusIfChanged
<1>3. DOMAIN cr = {"phase", "uid", "gen", "fin", "spec", "status"} BY Zenon DEF ArtifactInv, Shape, Objects
<1>4. /\ cr'.phase = cr.phase /\ cr'.uid = cr.uid /\ cr'.gen = cr.gen /\ cr'.fin = cr.fin /\ cr'.spec = cr.spec
      /\ cr'.status = work.status
  BY <1>2, <1>3
<1>5. work'.stage = "idle" BY <1>1, Typed, Zenon
<1>6. Reports(cr.status)' BY <1>1, <1>4, Zenon DEF Reports
<1>7. "idle" # "push" /\ "idle" # "persist" OBVIOUS
<1> QED BY <1>1, <1>4, <1>5, <1>6, <1>7, Zenon DEF AtRest

(* A new reconcile finds the map current. *)
LEMMA RestingReconcile ==
  ASSUME ArtifactInv, AtRest, ReconcileLive
  PROVE  AtRest' /\ cm' = cm
<1>1. cm' = cm /\ cr' = cr /\ events' = events /\ work'.seen = cr BY Zenon DEF ReconcileLive
<1>2. Classified(cm, cr.uid) # "foreign" BY DEF AtRest, AlreadyCurrent, Classified
<1>3. ApplyOutcome(cr, cm) = "readback" BY <1>2 DEF AtRest, ApplyOutcome
<1>4. work'.stage = "readback" /\ ready' = ready BY <1>3 DEF AtRest, ReconcileLive
<1>5. Reports(cr.status)' BY <1>1, Zenon DEF AtRest, Reports
<1>6. "readback" # "push" /\ "readback" # "persist" OBVIOUS
<1> QED BY <1>1, <1>4, <1>5, <1>6, Zenon DEF AtRest

(* Once nothing is edited and nothing fails, a cell that is applied and reported so is left alone for good: every
   later reconcile finds its map current, writes neither the file nor another verdict, and a bootstrap push does
   not change the file it pushes (ApplyCellConfig, replaceEphemeris, persistStatusIfChanged). *)
THEOREM RestLasts == Spec => CellRests
<1>1. ASSUME ArtifactInv, [Next]_vars, AtRest, ~UNCHANGED vars PROVE AtRest' /\ cm' = cm
  <2>1. ~Event
    <3>1. ~(events < MaxEvents) BY <1>1, ArtifactAssumption DEF AtRest
    <3> QED BY <3>1, Zenon DEF Event
  <2>2. ~GarbageCollect BY <1>1, Zenon DEF AtRest, AlreadyCurrent, IsControlledBy, GarbageCollect
  <2>3. Worker
    BY <1>1, <2>1, <2>2, Zenon DEF Next, EditSpec, Fetched, Delete, Recreate, TouchMap, ReplaceMap, Restart
  <2>4. work.stage \in {"idle", "readback", "push", "persist"} /\ cr.phase = "live" BY <1>1, Zenon DEF AtRest
  <2>5. ~ReconcileDeleting BY <2>4, Zenon DEF ReconcileDeleting
  <2>6. ~(AddFinalizer \/ CreateMap \/ LoseCreateRace \/ UpdateMap \/ UpdateConflicts \/ DeleteMap \/ RemoveFinalizer)
    BY <2>4, Zenon DEF AddFinalizer, CreateMap, LoseCreateRace, UpdateMap, UpdateConflicts, DeleteMap, RemoveFinalizer, Step
  <2>7. ~(CallFails \/ ApplyCallFails) BY <2>1, Zenon DEF CallFails, ApplyCallFails
  <2>8. ~ReadBackFails
    <3>1. work.stage = "readback" => IsControlledBy(cm, work.seen.uid)
      BY <1>1, Zenon DEF AtRest, AlreadyCurrent
    <3> QED BY <2>1, <3>1, Zenon DEF ReadBackFails, Step
  <2> QED BY <1>1, <2>3, <2>5, <2>6, <2>7, <2>8, RestingReadBack, RestingPush, RestingPersist, RestingReconcile, Zenon
          DEF Worker
<1>2. ArtifactInv /\ [Next]_vars => [AtRest => AtRest' /\ cm' = cm]_vars BY <1>1, Zenon
<1> QED BY <1>2, InitArtifact, NextStep, PTL DEF Spec, CellRests
=============================================================================
