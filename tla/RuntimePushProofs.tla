-------------------------- MODULE RuntimePushProofs --------------------------
(***************************************************************************)
(* Theorems about RuntimePush: what the gNB is given is still ahead, what  *)
(* a cell reports as pushed was taken and is of the satellite it selects,  *)
(* a satellite switch is applied no more often than it was asked for, and  *)
(* a cell that is reported ready is looked at again, for every feed, set   *)
(* of cells, timing that satisfies PushAssumption and number of faults.    *)
(***************************************************************************)
EXTENDS RuntimePush, FiniteSetTheorems, TLAPS

Shape ==
  /\ DOMAIN eph = {"present", "fresh", "left", "inputs"}
  /\ DOMAIN cell = {"spec", "status"}
  /\ DOMAIN cell.status = {"pushed", "observed", "marker", "digest"}
  /\ DOMAIN gnb = {"sat", "left", "took", "received", "switches"}
  /\ DOMAIN work = {"stage", "frame", "status", "waited", "ttl", "gauge", "requeue", "changed", "conflict"}
  /\ DOMAIN work.frame = {"sat", "left", "switch", "marker"}
  /\ DOMAIN work.status = {"pushed", "observed", "marker", "digest"}
  /\ eph.left \in Nat /\ work.waited \in Nat /\ work.ttl \in Nat /\ work.frame.left \in Nat
  /\ gnb.switches \in Nat /\ asked \in Nat /\ lost \in Nat
  /\ work.stage \in {"idle", "resolve", "exchange", "persist"}

(* A frame is in flight from the gates to the end of its exchange. *)
Flying == work.stage \in {"resolve", "exchange"}

(* Unless the credential came too late, the epoch was beyond the margin when it was asked for, and while the
   exchange lasts it is further ahead than the timeout. *)
EpochInv ==
  work.waited <= Slack =>
    /\ work.stage = "resolve" => work.frame.left + work.waited > Margin
    /\ work.stage = "exchange" => work.frame.left > work.ttl

(* The marker that a success will record is that of the frame, which is no older than the recorded one; a
   marker that is about to be recorded was taken. *)
TakenInv ==
  /\ PushedMeansTaken
  /\ Flying =>
       /\ work.frame.marker = work.status.marker
       /\ cell.status.marker = "current" => work.frame.marker = "current"
  /\ work.stage = "persist" /\ work.status.pushed = "True" /\ work.status.marker = "current" =>
       gnb.took = "current"

(* A switch that the present spec still asks for, and one that the frame in flight carries. *)
Owed    == IF cell.spec.switch \in {NoSwitch, cell.status.digest} THEN 0 ELSE 1
Carried == IF work.frame.switch = NoSwitch THEN 0 ELSE 1

(* The status that a success records settles the switch that its frame carries, unless the cell is edited. *)
Settles ==
  work.frame.switch = AttachedSwitch(cell.spec, cell.status) /\ work.status.digest = cell.spec.switch

(* What was applied, is in flight and is still owed never exceeds what was asked for and what went unrecorded. *)
SwitchInv ==
  /\ work.stage = "idle" => gnb.switches + Owed <= asked + lost
  /\ Flying =>
       /\ gnb.switches + Carried <= asked + lost /\ gnb.switches + Owed <= asked + lost
       /\ work.status.observed /\ (work.conflict => ~cell.status.observed)
       /\ ~work.conflict => Settles
  /\ work.stage = "persist" =>
       /\ gnb.switches <= asked + lost /\ gnb.switches + Owed <= asked + lost + Carried
       /\ ~work.changed => work.frame.switch = NoSwitch
       /\ ~work.conflict => Settles \/ (work.frame.switch = NoSwitch /\ work.status.digest = cell.status.digest)

PushInv == Shape /\ EpochInv /\ TakenInv /\ SwitchInv

LEMMA Counts == Owed \in Nat /\ Owed <= 1 /\ Carried \in Nat /\ Carried <= 1
BY DEF Owed, Carried

LEMMA CountsPrimed == Owed' \in Nat /\ Owed' <= 1 /\ Carried' \in Nat /\ Carried' <= 1
BY DEF Owed, Carried

LEMMA InitPush == Init => PushInv
<1> SUFFICES ASSUME Init PROVE PushInv BY Zenon
<1> USE PushAssumption DEF Init, Idle, NoStatus, NoFrame
<1>a. work.frame = NoFrame /\ work.status = NoStatus /\ cell.status = NoStatus /\ work.ttl = 0 /\ work.waited = 0
        BY Zenon DEF Shape
<1>b. asked \in Nat /\ lost \in Nat /\ gnb.switches \in Nat BY Zenon
<1>1. Shape
  <2>1. DOMAIN eph = {"present", "fresh", "left", "inputs"} /\ DOMAIN cell = {"spec", "status"} BY Zenon
  <2>2. DOMAIN gnb = {"sat", "left", "took", "received", "switches"} BY Zenon
  <2>3. DOMAIN work = {"stage", "frame", "status", "waited", "ttl", "gauge", "requeue", "changed", "conflict"} BY Zenon
  <2>4. DOMAIN NoFrame = {"sat", "left", "switch", "marker"} /\ NoFrame.left = 0 BY Zenon
  <2>5. DOMAIN NoStatus = {"pushed", "observed", "marker", "digest"} BY Zenon
  <2>6. work.stage = "idle" /\ eph.left = 0 BY Zenon
  <2> HIDE DEF Init, Idle, NoStatus, NoFrame
  <2> QED BY <1>a, <1>b, <2>1, <2>2, <2>3, <2>4, <2>5, <2>6 DEF Shape
<1>2. EpochInv /\ TakenInv BY Zenon DEF EpochInv, TakenInv, PushedMeansTaken, Flying
<1>3. SwitchInv
  <2>1. work.stage = "idle" /\ gnb.switches = 0 /\ lost = 0 /\ cell.spec = FirstCell /\ cell.status.digest = NoSwitch
    BY Zenon
  <2>2. CASE FirstCell.switch = NoSwitch
    <3>1. Owed = 0 /\ asked = 0 BY <2>1, <2>2, Zenon DEF Owed
    <3> HIDE DEF Init, Idle, NoStatus, NoFrame
    <3>2. gnb.switches + Owed <= asked + lost BY <2>1, <3>1
    <3> QED BY <2>1, <3>2, Zenon DEF SwitchInv, Flying
  <2>3. CASE FirstCell.switch # NoSwitch
    <3>1. asked = 1 BY <2>3, Zenon
    <3> HIDE DEF Init, Idle, NoStatus, NoFrame
    <3>2. gnb.switches + Owed <= asked + lost BY <2>1, <3>1, Counts
    <3> QED BY <2>1, <3>2, Zenon DEF SwitchInv, Flying
  <2> QED BY <2>2, <2>3, Zenon
<1> QED BY <1>1, <1>2, <1>3, Zenon DEF PushInv

(* Steps that touch neither the cell, nor the reconcile in progress, nor the gNB. *)
LEMMA QuietStep ==
  ASSUME PushInv,
         TimerFires \/ NewFeed \/ ElementsAge \/ ProducerStalls \/ ApplyBreaks \/ UNCHANGED vars
  PROVE  PushInv'
<1>1. cell' = cell /\ work' = work /\ gnb' = gnb /\ asked' = asked /\ lost' = lost
  BY Zenon DEF TimerFires, NewFeed, ElementsAge, ProducerStalls, ApplyBreaks, vars
<1>2. eph'.left = eph.left /\ DOMAIN eph' = DOMAIN eph
  BY Zenon
     DEF PushInv, Shape, TimerFires, NewFeed, ElementsAge, ProducerStalls, ApplyBreaks, vars
<1>3. Shape' BY <1>1, <1>2, Zenon DEF PushInv, Shape
<1>4. EpochInv' /\ TakenInv' BY <1>1, Zenon DEF PushInv, EpochInv, TakenInv, PushedMeansTaken, Flying
<1>5. SwitchInv' BY <1>1, Zenon DEF PushInv, SwitchInv, Flying, Owed, Carried, Settles, AttachedSwitch
<1> QED BY <1>3, <1>4, <1>5, Zenon DEF PushInv

LEMMA TickStep == PushInv /\ Tick => PushInv'
<1> SUFFICES ASSUME PushInv, Tick PROVE PushInv' BY Zenon
<1> USE DEF PushInv, Shape
<1>1. /\ work'.stage = work.stage /\ work'.status = work.status /\ work'.changed = work.changed
      /\ work'.conflict = work.conflict /\ work'.ttl = Less(work.ttl)
      /\ work'.waited = IF work.stage = "resolve" /\ work.waited <= Slack THEN work.waited + 1 ELSE work.waited
      /\ work'.frame = [work.frame EXCEPT !.left = Less(work.frame.left)]
      /\ DOMAIN work' = DOMAIN work
  BY Zenon DEF Tick
<1>2. /\ work'.frame.left = Less(work.frame.left) /\ work'.frame.switch = work.frame.switch
      /\ work'.frame.marker = work.frame.marker /\ DOMAIN work'.frame = DOMAIN work.frame
  BY <1>1, Zenon
<1>3. /\ gnb'.took = gnb.took /\ gnb'.switches = gnb.switches /\ DOMAIN gnb' = DOMAIN gnb
      /\ eph'.left = Less(eph.left) /\ DOMAIN eph' = DOMAIN eph
      /\ cell' = cell /\ asked' = asked /\ lost' = lost
  BY Zenon DEF Tick
<1>4. Shape' BY <1>1, <1>2, <1>3 DEF Less
<1>5. EpochInv'
  <2>1. /\ work.waited \in Nat /\ work.ttl \in Nat /\ work.frame.left \in Nat /\ EpochInv
        /\ work.stage = "exchange" => work.ttl > 0
    BY Zenon DEF Tick
  <2> HIDE DEF PushInv, Shape
  <2>2. CASE work.stage = "resolve"
    BY <1>1, <1>2, <2>1, <2>2, PushAssumption DEF EpochInv, Less, Slack
  <2>3. CASE work.stage # "resolve"
    BY <1>1, <1>2, <2>1, <2>3 DEF EpochInv, Less
  <2> QED BY <2>2, <2>3, Zenon
<1>6. TakenInv' BY <1>1, <1>2, <1>3, Zenon DEF TakenInv, PushedMeansTaken, Flying
<1>7. SwitchInv' BY <1>1, <1>2, <1>3, Zenon DEF SwitchInv, Flying, Owed, Carried, Settles, AttachedSwitch
<1> QED BY <1>4, <1>5, <1>6, <1>7, Zenon

(* New states, or a new generation of their object, make every marker that was current an old one, those in
   flight and at the gNB included. *)
LEMMA MarkersStep ==
  ASSUME PushInv, MarkersAge, asked' = asked, lost' = lost,
         eph'.left \in Nat, DOMAIN eph' = {"present", "fresh", "left", "inputs"}
  PROVE  PushInv'
<1> USE DEF PushInv, Shape
<1>1. /\ work'.stage = work.stage /\ work'.changed = work.changed
      /\ work'.conflict = work.conflict /\ work'.ttl = work.ttl /\ work'.waited = work.waited
      /\ work'.frame = [work.frame EXCEPT !.marker = Aged(work.frame.marker)]
      /\ work'.status = [work.status EXCEPT !.marker = Aged(work.status.marker)]
      /\ DOMAIN work' = DOMAIN work
  BY Zenon DEF MarkersAge
<1>2. /\ work'.frame.left = work.frame.left /\ work'.frame.switch = work.frame.switch
      /\ work'.frame.marker = Aged(work.frame.marker) /\ DOMAIN work'.frame = DOMAIN work.frame
      /\ work'.status.pushed = work.status.pushed /\ work'.status.observed = work.status.observed
      /\ work'.status.digest = work.status.digest /\ work'.status.marker = Aged(work.status.marker)
      /\ DOMAIN work'.status = DOMAIN work.status
  BY <1>1, Zenon
<1>3. /\ gnb'.took = Aged(gnb.took) /\ gnb'.switches = gnb.switches /\ DOMAIN gnb' = DOMAIN gnb
      /\ DOMAIN cell' = DOMAIN cell /\ cell'.spec = cell.spec
      /\ cell'.status = [cell.status EXCEPT !.marker = Aged(cell.status.marker)]
  BY Zenon DEF MarkersAge
<1>4. /\ cell'.status.pushed = cell.status.pushed /\ cell'.status.observed = cell.status.observed
      /\ cell'.status.digest = cell.status.digest /\ cell'.status.marker = Aged(cell.status.marker)
      /\ DOMAIN cell'.status = DOMAIN cell.status
  BY <1>3, Zenon
<1>6. Shape' BY <1>1, <1>2, <1>3, <1>4, Zenon
<1>7. EpochInv' BY <1>1, <1>2, Zenon DEF EpochInv
<1>8. TakenInv' BY <1>1, <1>2, <1>3, <1>4 DEF TakenInv, PushedMeansTaken, Flying, Aged
<1>9. SwitchInv' BY <1>1, <1>2, <1>3, <1>4 DEF SwitchInv, Flying, Owed, Carried, Settles, AttachedSwitch
<1> QED BY <1>6, <1>7, <1>8, <1>9, Zenon

LEMMA PropagateStep == PushInv /\ (Propagate \/ EditEphemeris) => PushInv'
<1> SUFFICES ASSUME PushInv, Propagate \/ EditEphemeris PROVE PushInv' BY Zenon
<1>1. CASE Propagate
  <2>1. eph'.left = Lead /\ DOMAIN eph' = {"present", "fresh", "left", "inputs"} BY <1>1, Zenon DEF Propagate
  <2> QED BY <1>1, <2>1, MarkersStep, PushAssumption, Zenon DEF Propagate
<1>2. CASE EditEphemeris
  <2>1. PICK inputs : eph' = [eph EXCEPT !.inputs = inputs] BY <1>2, Zenon DEF EditEphemeris
  <2>2. eph'.left \in Nat /\ DOMAIN eph' = {"present", "fresh", "left", "inputs"} BY <2>1, Zenon DEF PushInv, Shape
  <2> QED BY <1>2, <2>2, MarkersStep, Zenon DEF EditEphemeris
<1> QED BY <1>1, <1>2, Zenon

(* An edit asks for a switch or asks for none; what is in flight will conflict. *)
LEMMA EditCellStep == PushInv /\ EditCell => PushInv'
<1> SUFFICES ASSUME PushInv, EditCell PROVE PushInv' BY Zenon
<1> USE DEF PushInv, Shape
<1>1. PICK c \in Cells :
        /\ cell' = [cell EXCEPT !.spec = c, !.status.observed = FALSE]
        /\ asked' = IF c.switch \notin {NoSwitch, cell.spec.switch} THEN asked + 1 ELSE asked
  BY Zenon DEF EditCell
<1>2. /\ DOMAIN cell' = DOMAIN cell /\ cell'.spec = c
      /\ cell'.status = [cell.status EXCEPT !.observed = FALSE]
  BY <1>1, Zenon
<1>3. /\ cell'.status.pushed = cell.status.pushed /\ ~cell'.status.observed
      /\ cell'.status.digest = cell.status.digest /\ cell'.status.marker = cell.status.marker
      /\ DOMAIN cell'.status = DOMAIN cell.status
  BY <1>2, Zenon
<1>4. /\ work'.stage = work.stage /\ work'.status = work.status /\ work'.changed = work.changed
      /\ work'.ttl = work.ttl /\ work'.waited = work.waited
      /\ work'.frame = work.frame /\ DOMAIN work' = DOMAIN work
      /\ work.stage # "idle" => work'.conflict
  BY Zenon DEF EditCell
<1>5. eph' = eph /\ gnb' = gnb /\ lost' = lost BY Zenon DEF EditCell
<1>6. Shape' BY <1>1, <1>2, <1>3, <1>4, <1>5
<1>7. EpochInv' BY <1>4, Zenon DEF EpochInv
<1>8. TakenInv' BY <1>3, <1>4, <1>5, Zenon DEF TakenInv, PushedMeansTaken, Flying
<1>9. PICK a \in Nat, o \in Nat :
        asked' = a /\ Owed' = o /\ asked <= a /\ o + asked <= Owed + a /\ Carried' = Carried
  <2>1. Carried' = Carried BY <1>4, Zenon DEF Carried
  <2>2. CASE c.switch \in {NoSwitch, cell.spec.switch}
    <3>1. asked' = asked /\ (Owed' = 0 \/ Owed' = Owed) BY <1>1, <1>2, <1>3, <2>2, Zenon DEF Owed
    <3> QED BY <2>1, <3>1, Counts
  <2>3. CASE c.switch \notin {NoSwitch, cell.spec.switch}
    <3>1. asked' = asked + 1 /\ (Owed' = 0 \/ Owed' = 1) BY <1>1, <1>2, <1>3, <2>3, Zenon DEF Owed
    <3> QED BY <2>1, <3>1, Counts
  <2> QED BY <2>2, <2>3, Zenon
<1>10. SwitchInv'
  <2> HIDE DEF PushInv, Shape
  <2>1. gnb.switches \in Nat /\ asked \in Nat /\ lost \in Nat BY Zenon DEF PushInv, Shape
  <2>2. SwitchInv BY Zenon DEF PushInv
  <2>3. CASE work.stage = "idle"
    <3>1. gnb.switches + o <= a + lost BY <1>9, <2>1, <2>2, <2>3, Counts DEF SwitchInv, Flying
    <3> QED BY <1>4, <1>5, <1>9, <2>3, <3>1, Zenon DEF SwitchInv, Flying
  <2>4. CASE Flying
    <3>1. gnb.switches + Carried <= a + lost /\ gnb.switches + o <= a + lost
      BY <1>9, <2>1, <2>2, <2>4, Counts DEF SwitchInv, Flying
    <3>2. work'.status.observed /\ ~cell'.status.observed /\ work'.conflict
      BY <1>3, <1>4, <2>2, <2>4, Zenon DEF SwitchInv, Flying
    <3> QED BY <1>4, <1>5, <1>9, <2>4, <3>1, <3>2, Zenon DEF SwitchInv, Flying
  <2>5. CASE work.stage = "persist"
    <3>1. gnb.switches <= a + lost /\ gnb.switches + o <= a + lost + Carried
      BY <1>9, <2>1, <2>2, <2>5, Counts DEF SwitchInv, Flying
    <3>2. work'.conflict /\ (~work'.changed => work'.frame.switch = NoSwitch)
      BY <1>4, <2>2, <2>5, Zenon DEF SwitchInv, Flying
    <3> QED BY <1>4, <1>5, <1>9, <2>5, <3>1, <3>2, Zenon DEF SwitchInv, Flying
  <2> QED BY <2>3, <2>4, <2>5, Zenon DEF PushInv, Shape, Flying
<1> QED BY <1>6, <1>7, <1>8, <1>10, Zenon

LEMMA RestartStep == PushInv /\ GnbRestarts => PushInv'
<1> SUFFICES ASSUME PushInv, GnbRestarts PROVE PushInv' BY Zenon
<1> USE DEF PushInv, Shape
<1>1. gnb'.took = gnb.took /\ gnb'.switches = gnb.switches /\ DOMAIN gnb' = DOMAIN gnb
  BY Zenon DEF GnbRestarts
<1>2. eph' = eph /\ cell' = cell /\ work' = work /\ asked' = asked /\ lost' = lost
  BY Zenon DEF GnbRestarts
<1>3. Shape' /\ EpochInv' BY <1>1, <1>2, Zenon DEF EpochInv
<1>4. TakenInv' BY <1>1, <1>2, Zenon DEF TakenInv, PushedMeansTaken, Flying
<1>5. SwitchInv' BY <1>1, <1>2, Zenon DEF SwitchInv, Flying, Owed, Carried, Settles, AttachedSwitch
<1> QED BY <1>3, <1>4, <1>5, Zenon

(* A reconcile that ends without an exchange records the digest and the marker that are there. *)
LEMMA ConcludeStep ==
  ASSUME PushInv, work.stage = "idle" \/ Flying, NEW status, NEW gauge, NEW requeue,
         DOMAIN status = {"pushed", "observed", "marker", "digest"},
         status.digest = cell.status.digest, status.marker = cell.status.marker,
         status.pushed = "True" => cell.status.pushed = "True",
         Conclude(status, gauge, requeue, NoFrame),
         gnb' = gnb, cell' = cell, eph' = eph, asked' = asked, lost' = lost
  PROVE  PushInv'
<1> USE DEF PushInv, Shape
<1>1. /\ work'.stage = "persist" /\ work'.status = status /\ work'.waited = 0 /\ work'.ttl = 0 /\ work'.frame = NoFrame
      /\ DOMAIN work' = {"stage", "frame", "status", "waited", "ttl", "gauge", "requeue", "changed", "conflict"}
  BY Zenon DEF Conclude
<1>2. /\ NoFrame.switch = NoSwitch /\ NoFrame.left = 0
      /\ DOMAIN NoFrame = {"sat", "left", "switch", "marker"}
  BY Zenon DEF NoFrame
<1>3. Shape' BY <1>1, <1>2
<1>4. EpochInv' BY <1>1, Zenon DEF EpochInv
<1>5. TakenInv' BY <1>1, Zenon DEF TakenInv, PushedMeansTaken, Flying
<1>6. SwitchInv'
  <2>1. gnb.switches + Owed <= asked + lost BY Zenon DEF SwitchInv, Flying
  <2>2. gnb.switches <= asked + lost BY <2>1, Counts
  <2>3. Owed' = Owed /\ Carried' = 0 BY <1>1, <1>2, Zenon DEF Owed, Carried
  <2>4. gnb.switches + Owed <= asked + lost + 0 BY <2>1, Counts
  <2> HIDE DEF PushInv, Shape
  <2> QED BY <1>1, <1>2, <2>2, <2>3, <2>4, Zenon DEF SwitchInv, Flying
<1> QED BY <1>3, <1>4, <1>5, <1>6, Zenon

LEMMA GatedStep == PushInv /\ (ReconcileUnapplied \/ ReconcileNoRef \/ ReconcileGated) => PushInv'
<1> SUFFICES ASSUME PushInv, ReconcileUnapplied \/ ReconcileNoRef \/ ReconcileGated PROVE PushInv' BY Zenon
<1>1. /\ work.stage = "idle" /\ gnb' = gnb /\ cell' = cell /\ eph' = eph /\ asked' = asked /\ lost' = lost
  BY Zenon DEF ReconcileUnapplied, ReconcileNoRef, ReconcileGated, Take
<1>2. DOMAIN cell.status = {"pushed", "observed", "marker", "digest"} BY Zenon DEF PushInv, Shape
<1>3. CASE \E gauge, requeue : Conclude(cell.status, gauge, requeue, NoFrame)
  BY <1>1, <1>2, <1>3, ConcludeStep, Zenon
<1>4. CASE \E gauge, requeue : Conclude([cell.status EXCEPT !.pushed = ""], gauge, requeue, NoFrame)
  <2> DEFINE status == [cell.status EXCEPT !.pushed = ""]
  <2>1. /\ DOMAIN status = {"pushed", "observed", "marker", "digest"} /\ status.digest = cell.status.digest
        /\ status.marker = cell.status.marker /\ status.pushed # "True"
    BY <1>2, Zenon
  <2> HIDE DEF status
  <2>2. \E gauge, requeue : Conclude(status, gauge, requeue, NoFrame) BY <1>4, Zenon DEF status
  <2> QED BY <1>1, <2>1, <2>2, ConcludeStep, Zenon
<1>5. CASE \E reason : Fails(reason, NoFrame)
  <2> DEFINE status == [cell.status EXCEPT !.pushed = "False", !.observed = TRUE]
  <2>1. /\ DOMAIN status = {"pushed", "observed", "marker", "digest"} /\ status.digest = cell.status.digest
        /\ status.marker = cell.status.marker /\ status.pushed # "True"
    BY <1>2, Zenon
  <2>2. \E gauge, requeue : Conclude(status, gauge, requeue, NoFrame) BY <1>5, Zenon DEF Fails
  <2> HIDE DEF status
  <2> QED BY <1>1, <2>1, <2>2, ConcludeStep, Zenon
<1> QED BY <1>3, <1>4, <1>5, Zenon DEF ReconcileUnapplied, ReconcileNoRef, ReconcileGated

(* The frame leaves with an epoch beyond the margin, and with the switch that the record will settle. *)
LEMMA ReconcilePushStep == PushInv /\ ReconcilePush => PushInv'
<1> SUFFICES ASSUME PushInv, ReconcilePush PROVE PushInv' BY Zenon
<1> USE DEF PushInv, Shape
<1>1. /\ DOMAIN work' = {"stage", "frame", "status", "waited", "ttl", "gauge", "requeue", "changed", "conflict"}
      /\ work'.stage = "resolve" /\ work'.waited = 0 /\ work'.ttl = 0 /\ work'.conflict = FALSE
      /\ work'.frame = [sat |-> selectPropagatedState(cell.spec.norad), left |-> eph.left,
                        switch |-> AttachedSwitch(cell.spec, cell.status), marker |-> "current"]
      /\ work'.status = [pushed |-> "True", observed |-> TRUE, marker |-> "current", digest |-> cell.spec.switch]
  BY Zenon DEF ReconcilePush, Idle
<1>2. /\ work'.frame.left = eph.left /\ work'.frame.marker = "current"
      /\ work'.frame.switch = AttachedSwitch(cell.spec, cell.status)
      /\ DOMAIN work'.frame = {"sat", "left", "switch", "marker"}
      /\ work'.status.marker = "current" /\ work'.status.digest = cell.spec.switch /\ work'.status.observed
      /\ DOMAIN work'.status = {"pushed", "observed", "marker", "digest"}
  BY <1>1
<1>3. gnb' = gnb /\ cell' = cell /\ eph' = eph /\ asked' = asked /\ lost' = lost /\ work.stage = "idle"
  BY Zenon DEF ReconcilePush, Take
<1>4. eph.left > Margin BY Zenon DEF ReconcilePush, pushRuntimeEphemeris, Current
<1>z. 0 \in Nat OBVIOUS
<1>5. Shape' BY <1>1, <1>2, <1>3, <1>z, Zenon
<1>6. EpochInv' BY <1>1, <1>2, <1>4, PushAssumption DEF EpochInv
<1>7. TakenInv' BY <1>1, <1>2, <1>3, Zenon DEF TakenInv, PushedMeansTaken, Flying
<1>8. SwitchInv'
  <2> HIDE DEF PushInv, Shape
  <2>1. gnb.switches + Owed <= asked + lost BY <1>3, Zenon DEF PushInv, SwitchInv, Flying
  <2>2. Owed' = Owed /\ Carried' = Owed BY <1>2, <1>3, Zenon DEF Owed, Carried, AttachedSwitch
  <2>3. Settles' /\ work'.status.observed /\ ~work'.conflict BY <1>1, <1>2, <1>3, Zenon DEF Settles
  <2> QED BY <1>1, <1>3, <2>1, <2>2, <2>3, Zenon DEF SwitchInv, Flying
<1> QED BY <1>5, <1>6, <1>7, <1>8, Zenon

(* The timeout starts when the credential is there: what is left of the margin exceeds it. *)
LEMMA DialStep == PushInv /\ Dial => PushInv'
<1> SUFFICES ASSUME PushInv, Dial PROVE PushInv' BY Zenon
<1> USE DEF PushInv, Shape
<1>1. /\ work.stage = "resolve" /\ work'.stage = "exchange" /\ work'.ttl = Timeout /\ work'.waited = work.waited
      /\ work'.frame = work.frame /\ work'.status = work.status /\ work'.conflict = work.conflict
      /\ DOMAIN work' = DOMAIN work
  BY Zenon DEF Dial
<1>2. gnb' = gnb /\ cell' = cell /\ eph' = eph /\ asked' = asked /\ lost' = lost BY Zenon DEF Dial
<1>3. Shape' BY <1>1, <1>2, PushAssumption, Zenon
<1>4. EpochInv'
  <2>1. work.waited \in Nat /\ work.frame.left \in Nat /\ EpochInv BY Zenon
  <2> HIDE DEF PushInv, Shape
  <2> QED BY <1>1, <2>1, PushAssumption DEF EpochInv, Slack
<1>5. TakenInv' BY <1>1, <1>2, Zenon DEF TakenInv, PushedMeansTaken, Flying
<1>6. SwitchInv' BY <1>1, <1>2, Zenon DEF SwitchInv, Flying, Owed, Carried, Settles, AttachedSwitch
<1> QED BY <1>3, <1>4, <1>5, <1>6, Zenon

(* What applying the frame does to the gNB. *)
LEMMA AppliesEffect ==
  ASSUME PushInv, Applies
  PROVE  /\ gnb'.switches = gnb.switches + Carried /\ gnb'.took = work.frame.marker
         /\ gnb'.left = work.frame.left /\ DOMAIN gnb' = {"sat", "left", "took", "received", "switches"}
<1>1. Cardinality({work.frame.switch} \ {NoSwitch}) = Carried
  <2>1. CASE work.frame.switch = NoSwitch
    <3>1. {work.frame.switch} \ {NoSwitch} = {} BY <2>1, Zenon
    <3> QED BY <2>1, <3>1, FS_EmptySet, Zenon DEF Carried
  <2>2. CASE work.frame.switch # NoSwitch
    <3>1. {work.frame.switch} \ {NoSwitch} = {work.frame.switch} BY <2>2, Zenon
    <3> QED BY <2>2, <3>1, FS_Singleton, Zenon DEF Carried
  <2> QED BY <2>1, <2>2, Zenon
<1> QED BY <1>1, Zenon DEF Applies

LEMMA AcknowledgedStep == PushInv /\ Acknowledged => PushInv'
<1> SUFFICES ASSUME PushInv, Acknowledged PROVE PushInv' BY Zenon
<1> USE DEF PushInv, Shape
<1>1. /\ DOMAIN work' = {"stage", "frame", "status", "waited", "ttl", "gauge", "requeue", "changed", "conflict"}
      /\ work'.stage = "persist" /\ work'.waited = 0 /\ work'.ttl = 0 /\ work'.status = work.status
      /\ work'.conflict = work.conflict /\ work'.frame = [NoFrame EXCEPT !.switch = work.frame.switch]
  BY Zenon DEF Acknowledged, Conclude
<1>f. /\ work'.frame.switch = work.frame.switch /\ work'.frame.left = 0
      /\ DOMAIN work'.frame = {"sat", "left", "switch", "marker"}
  BY <1>1 DEF NoFrame
<1>2. work'.changed = (work.status # cell.status)
  BY Zenon DEF Acknowledged, Conclude
<1>3. cell' = cell /\ eph' = eph /\ asked' = asked /\ lost' = lost /\ work.stage = "exchange" /\ Applies
  BY Zenon DEF Acknowledged
<1>4. /\ gnb'.switches = gnb.switches + Carried /\ gnb'.took = work.frame.marker
      /\ DOMAIN gnb' = {"sat", "left", "took", "received", "switches"}
  BY <1>3, AppliesEffect, Zenon
<1>5. Shape' BY <1>1, <1>f, <1>3, <1>4, Counts
<1>6. EpochInv' BY <1>1, Zenon DEF EpochInv
<1>7. TakenInv'
  BY <1>1, <1>3, <1>4, Zenon DEF TakenInv, PushedMeansTaken, Flying
<1>8. SwitchInv'
  <2> HIDE DEF PushInv, Shape
  <2>0. gnb.switches \in Nat /\ asked \in Nat /\ lost \in Nat BY Zenon DEF PushInv, Shape
  <2>1. gnb.switches + Carried <= asked + lost /\ gnb.switches + Owed <= asked + lost
    BY <1>3, Zenon DEF PushInv, SwitchInv, Flying
  <2>2. Owed' = Owed /\ Carried' = Carried BY <1>1, <1>f, <1>3, Zenon DEF Owed, Carried
  <2>3. (gnb.switches + Carried) + Owed <= asked + lost + Carried BY <2>0, <2>1, Counts
  <2>4. ~work'.conflict => Settles' BY <1>1, <1>f, <1>3, Zenon DEF PushInv, SwitchInv, Flying, Settles, AttachedSwitch
  <2>5. work.status = cell.status => work.frame.switch = NoSwitch
    BY <1>3, Zenon DEF PushInv, SwitchInv, Flying, Settles, AttachedSwitch
  <2>6. ~work'.changed => work'.frame.switch = NoSwitch BY <1>f, <1>2, <2>5, Zenon
  <2> QED BY <1>1, <1>3, <1>4, <2>1, <2>2, <2>3, <2>4, <2>6, Zenon DEF SwitchInv, Flying
<1> QED BY <1>5, <1>6, <1>7, <1>8, Zenon

(* A failed exchange records no delivery; if the frame was applied, its switch is counted as unrecorded. *)
LEMMA FailedStep ==
  ASSUME PushInv, Flying, NEW reason, Fails(reason, NoFrame),
         cell' = cell, eph' = eph, asked' = asked,
         (gnb' = gnb /\ lost' = lost) \/ (Applies /\ lost' = Unrecorded)
  PROVE  PushInv'
<1> DEFINE status == [cell.status EXCEPT !.pushed = "False", !.observed = TRUE]
<1>1. DOMAIN cell.status = {"pushed", "observed", "marker", "digest"} BY Zenon DEF PushInv, Shape
<1>2. /\ DOMAIN status = {"pushed", "observed", "marker", "digest"} /\ status.digest = cell.status.digest
      /\ status.marker = cell.status.marker /\ status.pushed = "False"
  BY <1>1, Zenon
<1>3. PICK gauge, requeue : Conclude(status, gauge, requeue, NoFrame) BY Zenon DEF Fails
<1> HIDE DEF status
<1>4. CASE gnb' = gnb /\ lost' = lost
  BY <1>2, <1>3, <1>4, ConcludeStep, Zenon
<1>5. CASE Applies /\ lost' = Unrecorded
  <2> USE DEF PushInv, Shape
  <2>1. /\ work'.stage = "persist" /\ work'.status = status /\ work'.waited = 0 /\ work'.ttl = 0 /\ work'.frame = NoFrame
        /\ DOMAIN work' = {"stage", "frame", "status", "waited", "ttl", "gauge", "requeue", "changed", "conflict"}
    BY <1>3, Zenon DEF Conclude
  <2>2. /\ NoFrame.switch = NoSwitch /\ NoFrame.left = 0
        /\ DOMAIN NoFrame = {"sat", "left", "switch", "marker"}
    BY Zenon DEF NoFrame
  <2>3. /\ gnb'.switches = gnb.switches + Carried /\ gnb'.took = work.frame.marker
        /\ DOMAIN gnb' = {"sat", "left", "took", "received", "switches"}
    BY <1>5, AppliesEffect, Zenon
  <2>4. lost' = lost + Carried BY <1>5, Zenon DEF Unrecorded, Carried
  <2>5. Shape' BY <1>2, <2>1, <2>2, <2>3, <2>4, Counts
  <2>6. EpochInv' BY <2>1, Zenon DEF EpochInv
  <2>7. TakenInv' BY <1>2, <2>1, <2>3, Zenon DEF TakenInv, PushedMeansTaken, Flying
  <2>8. SwitchInv'
    <3> HIDE DEF PushInv, Shape
    <3>0. gnb.switches \in Nat /\ asked \in Nat /\ lost \in Nat BY Zenon DEF PushInv, Shape
    <3>1. gnb.switches + Carried <= asked + lost /\ gnb.switches + Owed <= asked + lost
      BY Zenon DEF PushInv, SwitchInv, Flying
    <3>2. Owed' = Owed /\ Carried' = 0 BY <2>1, <2>2, Zenon DEF Owed, Carried
    <3>3. /\ gnb.switches + Carried <= asked + (lost + Carried)
          /\ (gnb.switches + Carried) + Owed <= asked + (lost + Carried) + 0
      BY <3>0, <3>1, Counts
    <3> QED BY <1>2, <2>1, <2>2, <2>3, <2>4, <3>2, <3>3, Zenon DEF SwitchInv, Flying
  <2> QED BY <2>5, <2>6, <2>7, <2>8, Zenon
<1> QED BY <1>4, <1>5, Zenon

(* The status write: a record settles the switch that was delivered, a lost one leaves it unrecorded. *)
LEMMA PersistStep == PushInv /\ Persist => PushInv'
<1> SUFFICES ASSUME PushInv, Persist PROVE PushInv' BY Zenon
<1> USE DEF PushInv, Shape
<1>1. work' = Idle /\ eph' = eph /\ gnb' = gnb /\ asked' = asked /\ lost' = lost /\ work.stage = "persist"
  BY Zenon DEF Persist
<1>2. /\ Idle.stage = "idle" /\ Idle.waited = 0 /\ Idle.ttl = 0 /\ Idle.frame = NoFrame /\ Idle.status = NoStatus
      /\ DOMAIN Idle = {"stage", "frame", "status", "waited", "ttl", "gauge", "requeue", "changed", "conflict"}
  BY Zenon DEF Idle
<1>3. /\ NoFrame.left = 0 /\ DOMAIN NoFrame = {"sat", "left", "switch", "marker"}
      /\ DOMAIN NoStatus = {"pushed", "observed", "marker", "digest"}
  BY Zenon DEF NoFrame, NoStatus
<1>4. \/ cell' = cell /\ ~work.changed
      \/ cell' = [cell EXCEPT !.status = work.status] /\ ~work.conflict
  <2> HIDE DEF PushInv, Shape
  <2>1. CASE work.changed
    <3>1. ~work.conflict /\ cell' = [cell EXCEPT !.status = work.status] BY <2>1, Zenon DEF Persist
    <3> QED BY <3>1, Zenon
  <2>2. CASE ~work.changed
    <3>1. cell' = cell BY <2>2, Zenon DEF Persist
    <3> QED BY <2>2, <3>1, Zenon
  <2> QED BY <2>1, <2>2, Zenon
<1>5. gnb.switches + Owed' <= asked + lost
  <2>1. CASE cell' = cell /\ ~work.changed
    <3>1. Owed' = Owed /\ Carried = 0 BY <1>1, <2>1, Zenon DEF Owed, Carried, SwitchInv, Flying
    <3>2. gnb.switches + Owed <= asked + lost + Carried BY <1>1, Zenon DEF SwitchInv, Flying
    <3> QED BY <3>1, <3>2
  <2>2. CASE cell' = [cell EXCEPT !.status = work.status] /\ ~work.conflict
    <3>1. cell'.status = work.status /\ cell'.spec = cell.spec BY <2>2, Zenon
    <3>2. CASE work.frame.switch = NoSwitch /\ work.status.digest = cell.status.digest
      <4>1. Owed' = Owed /\ Carried = 0 BY <3>1, <3>2, Zenon DEF Owed, Carried
      <4>2. gnb.switches + Owed <= asked + lost + Carried BY <1>1, Zenon DEF SwitchInv, Flying
      <4> QED BY <4>1, <4>2
    <3>3. CASE Settles
      <4>1. Owed' = 0 BY <3>1, <3>3, Zenon DEF Owed, Settles
      <4>2. gnb.switches <= asked + lost BY <1>1, Zenon DEF SwitchInv, Flying
      <4> QED BY <4>1, <4>2
    <3> QED BY <1>1, <2>2, <3>2, <3>3, Zenon DEF SwitchInv, Flying
  <2> QED BY <1>4, <2>1, <2>2, Zenon
<1>6. DOMAIN cell' = DOMAIN cell /\ DOMAIN cell'.status = {"pushed", "observed", "marker", "digest"}
  BY <1>4, Zenon
<1>7. Shape' BY <1>1, <1>2, <1>3, <1>6
<1>8. EpochInv' BY <1>1, <1>2, Zenon DEF EpochInv
<1>9. TakenInv' BY <1>1, <1>2, <1>4, Zenon DEF TakenInv, PushedMeansTaken, Flying
<1>10. SwitchInv'
  <2> HIDE DEF PushInv, Shape
  <2> QED BY <1>1, <1>2, <1>5, Zenon DEF SwitchInv, Flying
<1> QED BY <1>7, <1>8, <1>9, <1>10, Zenon

LEMMA PersistFailsStep == PushInv /\ PersistFails => PushInv'
<1> SUFFICES ASSUME PushInv, PersistFails PROVE PushInv' BY Zenon
<1> USE DEF PushInv, Shape
<1>1. work' = Idle /\ eph' = eph /\ gnb' = gnb /\ cell' = cell /\ asked' = asked /\ work.stage = "persist"
  BY Zenon DEF PersistFails
<1>2. /\ Idle.stage = "idle" /\ Idle.waited = 0 /\ Idle.ttl = 0 /\ Idle.frame = NoFrame /\ Idle.status = NoStatus
      /\ DOMAIN Idle = {"stage", "frame", "status", "waited", "ttl", "gauge", "requeue", "changed", "conflict"}
  BY Zenon DEF Idle
<1>3. /\ NoFrame.left = 0 /\ DOMAIN NoFrame = {"sat", "left", "switch", "marker"}
      /\ DOMAIN NoStatus = {"pushed", "observed", "marker", "digest"}
  BY Zenon DEF NoFrame, NoStatus
<1>4. lost' = lost + Carried BY Zenon DEF PersistFails, Unrecorded, Carried
<1>5. Shape' BY <1>1, <1>2, <1>3, <1>4, Counts
<1>6. EpochInv' /\ TakenInv' BY <1>1, <1>2, Zenon DEF EpochInv, TakenInv, PushedMeansTaken, Flying
<1>7. SwitchInv'
  <2>1. gnb.switches + Owed <= asked + lost + Carried BY <1>1, Zenon DEF SwitchInv, Flying
  <2>2. gnb.switches + Owed <= asked + (lost + Carried) BY <2>1, Counts
  <2>3. Owed' = Owed BY <1>1, Zenon DEF Owed
  <2> HIDE DEF PushInv, Shape
  <2> QED BY <1>1, <1>2, <1>4, <2>2, <2>3, Zenon DEF SwitchInv, Flying
<1> QED BY <1>5, <1>6, <1>7, Zenon

LEMMA PushStep == PushInv /\ [Next]_vars => PushInv'
<1> SUFFICES ASSUME PushInv, [Next]_vars PROVE PushInv' BY Zenon
<1>1. CASE ReplyLost
  BY <1>1, FailedStep, Zenon DEF ReplyLost, Flying
<1>2. CASE NotDelivered \/ Unresolved
  <2>1. \E reason : Fails(reason, NoFrame) BY <1>2, Zenon DEF NotDelivered, Unresolved
  <2> QED BY <1>2, <2>1, FailedStep, Zenon DEF NotDelivered, Unresolved, Flying
<1>3. CASE TimerFires \/ NewFeed \/ ElementsAge \/ ProducerStalls \/ ApplyBreaks \/ UNCHANGED vars
  BY <1>3, QuietStep, Zenon
<1>4. CASE Tick \/ Propagate \/ EditEphemeris \/ EditCell \/ GnbRestarts
  BY <1>4, TickStep, PropagateStep, EditCellStep, RestartStep, Zenon
<1>5. CASE Worker
  BY <1>5, GatedStep, ReconcilePushStep, DialStep, AcknowledgedStep, PersistStep, PersistFailsStep, Zenon DEF Worker
<1> QED BY <1>1, <1>2, <1>3, <1>4, <1>5, Zenon DEF Next

(* When a cell reports the present states as pushed, they are the last that its gNB took (pushRuntimeEphemeris
   records the marker only after the exchange succeeded), whatever is edited, lost or restarted in between. *)
THEOREM PushedWasTaken == Spec => []PushedMeansTaken
<1>1. PushInv => PushedMeansTaken BY Zenon DEF PushInv, TakenInv
<1> QED BY <1>1, InitPush, PushStep, PTL DEF Spec

(* A satellite switch is applied once for each time it is asked for, but for deliveries whose record was lost:
   the digest in status keeps a retry or a later heartbeat from attaching it again. *)
THEOREM SwitchAppliedOnce == Spec => []SwitchNotRepeated
<1>1. PushInv => SwitchNotRepeated
  <2> SUFFICES ASSUME PushInv PROVE SwitchNotRepeated BY Zenon
  <2>1. gnb.switches \in Nat /\ asked \in Nat /\ lost \in Nat /\ work.stage \in {"idle", "resolve", "exchange", "persist"}
    BY Zenon DEF PushInv, Shape
  <2>2. SwitchInv BY Zenon DEF PushInv
  <2> QED BY <2>1, <2>2, Counts DEF SwitchInv, Flying, SwitchNotRepeated
<1> QED BY <1>1, InitPush, PushStep, PTL DEF Spec

(* The gNB is given an epoch that is still ahead unless the credential came too late: what the read of the
   credential leaves of epochSkewMargin outlasts the exchange, as long as that read takes no longer than the
   margin exceeds wsDialTimeout.  Nothing in the code bounds the read, so the proviso is needed. *)
THEOREM EpochAhead == Spec => DeliveredAhead
<1>1. PushInv /\ [Next]_vars =>
        [work.stage = "exchange" /\ work'.stage = "persist" /\ Applies /\ work.waited <= Slack => gnb'.left > 0]_vars
  <2> SUFFICES ASSUME PushInv, work.stage = "exchange", Applies, work.waited <= Slack PROVE gnb'.left > 0 BY Zenon
  <2>1. gnb'.left = work.frame.left BY AppliesEffect, Zenon
  <2>2. work.frame.left > work.ttl /\ work.ttl \in Nat /\ work.frame.left \in Nat
    BY Zenon DEF PushInv, Shape, EpochInv
  <2> QED BY <2>1, <2>2
<1> QED BY <1>1, InitPush, PushStep, PTL DEF Spec, DeliveredAhead

(***************************************************************************)
(* Which satellite is broadcast.                                           *)
(***************************************************************************)
(* The satellite that the present spec selects among the present states. *)
Selected == selectPropagatedState(cell.spec.norad)

(* A push that is up to date is a push of the satellite that the spec selects, unless the gNB restarted. *)
PushedIsSelected == isEphemerisPushUpToDate(cell.status) /\ gnb.sat # NoSat => gnb.sat = Selected

(* A frame leaves only when the recorded push is not up to date, with the satellite selected at that time; so
   does the status that records it, unless the cell is edited under it. *)
SelectedInv ==
  /\ PushedIsSelected
  /\ Flying =>
       /\ ~isEphemerisPushUpToDate(cell.status)
       /\ ~work.conflict /\ work.frame.marker = "current" => work.frame.sat = Selected
  /\ work.stage = "persist" /\ ~work.conflict /\ isEphemerisPushUpToDate(work.status) /\ gnb.sat # NoSat =>
       gnb.sat = Selected

(* The selection depends on the spec and on which satellites have a state. *)
LEMMA SameSelection ==
  ASSUME eph'.present = eph.present, cell'.spec = cell.spec
  PROVE  Selected' = Selected
<1> DEFINE choice(present, norad) ==
             IF norad # NoSat THEN (IF norad \in present THEN norad ELSE NoSat)
             ELSE IF present = {} THEN NoSat ELSE CHOOSE s \in present : \A t \in present : s <= t
<1>1. Selected = choice(eph.present, cell.spec.norad) BY DEF Selected, selectPropagatedState
<1>2. Selected' = choice(eph'.present, cell'.spec.norad) BY DEF Selected, selectPropagatedState
<1> HIDE DEF choice
<1> QED BY <1>1, <1>2, Zenon

(* A status under which no push is up to date leaves nothing to show while no exchange runs. *)
LEMMA ConcludeSelected ==
  ASSUME SelectedInv, work.stage = "idle" \/ Flying, NEW status, NEW gauge, NEW requeue, NEW frame,
         Conclude(status, gauge, requeue, frame), cell' = cell, eph' = eph,
         gnb' = gnb \/ Flying,
         status = cell.status \/ status.pushed # "True"
  PROVE  SelectedInv'
<1>1. work'.stage = "persist" /\ work'.status = status BY Zenon DEF Conclude
<1>2. Selected' = Selected BY SameSelection, Zenon
<1>3. CASE Flying
  BY <1>1, <1>2, <1>3, Zenon DEF SelectedInv, Flying, PushedIsSelected, isEphemerisPushUpToDate
<1>4. CASE gnb' = gnb
  BY <1>1, <1>2, <1>4, Zenon DEF SelectedInv, Flying, PushedIsSelected, isEphemerisPushUpToDate
<1> QED BY <1>3, <1>4, Zenon

(* A failed exchange, and a reconcile that does not push, record no new success. *)
LEMMA NotPushedSelected ==
  ASSUME PushInv, SelectedInv,
         ReconcileUnapplied \/ ReconcileNoRef \/ ReconcileGated \/ ReplyLost \/ NotDelivered \/ Unresolved
  PROVE  SelectedInv'
<1>1. cell' = cell /\ eph' = eph
  BY Zenon DEF ReconcileUnapplied, ReconcileNoRef, ReconcileGated, ReplyLost, NotDelivered, Unresolved
<1>2. \/ Flying
      \/ work.stage = "idle" /\ gnb' = gnb
  BY Zenon DEF ReconcileUnapplied, ReconcileNoRef, ReconcileGated, Take, ReplyLost, NotDelivered, Unresolved, Flying
<1>3. DOMAIN cell.status = {"pushed", "observed", "marker", "digest"} BY Zenon DEF PushInv, Shape
<1>4. CASE \E gauge, requeue : Conclude(cell.status, gauge, requeue, NoFrame)
  BY <1>1, <1>2, <1>4, ConcludeSelected, Zenon
<1>5. CASE \E gauge, requeue : Conclude([cell.status EXCEPT !.pushed = ""], gauge, requeue, NoFrame)
  <2> DEFINE status == [cell.status EXCEPT !.pushed = ""]
  <2>1. status.pushed # "True" BY <1>3, Zenon
  <2> HIDE DEF status
  <2>2. \E gauge, requeue : Conclude(status, gauge, requeue, NoFrame) BY <1>5, Zenon DEF status
  <2> QED BY <1>1, <1>2, <2>1, <2>2, ConcludeSelected, Zenon
<1>6. CASE \E reason : Fails(reason, NoFrame)
  <2> DEFINE status == [cell.status EXCEPT !.pushed = "False", !.observed = TRUE]
  <2>1. status.pushed # "True" BY <1>3, Zenon
  <2>2. \E gauge, requeue : Conclude(status, gauge, requeue, NoFrame) BY <1>6, Zenon DEF Fails
  <2> HIDE DEF status
  <2> QED BY <1>1, <1>2, <2>1, <2>2, ConcludeSelected, Zenon
<1> QED
  BY <1>4, <1>5, <1>6, Zenon DEF ReconcileUnapplied, ReconcileNoRef, ReconcileGated, ReplyLost, NotDelivered, Unresolved

LEMMA PushSelected == PushInv /\ SelectedInv /\ ReconcilePush => SelectedInv'
<1> SUFFICES ASSUME PushInv, SelectedInv, ReconcilePush PROVE SelectedInv' BY Zenon
<1>1. /\ work'.stage = "resolve" /\ work'.frame.sat = Selected
      /\ gnb' = gnb /\ cell' = cell /\ eph' = eph
  BY Zenon DEF ReconcilePush, Idle, Selected
<1>2. ~isEphemerisPushUpToDate(cell.status) BY Zenon DEF ReconcilePush, pushRuntimeEphemeris
<1>3. Selected' = Selected BY <1>1, SameSelection, Zenon
<1>4. ~isEphemerisPushUpToDate(cell'.status) BY <1>1, <1>2, Zenon
<1> QED BY <1>1, <1>3, <1>4, Zenon DEF SelectedInv, Flying, PushedIsSelected

LEMMA AcknowledgedSelected == PushInv /\ SelectedInv /\ Acknowledged => SelectedInv'
<1> SUFFICES ASSUME PushInv, SelectedInv, Acknowledged PROVE SelectedInv' BY Zenon
<1>1. /\ work'.stage = "persist" /\ work'.status = work.status /\ work'.conflict = work.conflict
      /\ work.stage = "exchange" /\ cell' = cell /\ eph' = eph
  BY Zenon DEF Acknowledged, Conclude
<1>2. gnb'.sat = work.frame.sat /\ gnb'.took = work.frame.marker BY Zenon DEF Acknowledged, Applies
<1>3. Selected' = Selected BY <1>1, SameSelection, Zenon
<1>4. work.frame.marker = work.status.marker BY <1>1, Zenon DEF PushInv, TakenInv, Flying
<1>5. ~isEphemerisPushUpToDate(cell'.status) BY <1>1, Zenon DEF SelectedInv, Flying
<1>6. ~work.conflict /\ isEphemerisPushUpToDate(work.status) => gnb'.sat = Selected
  BY <1>1, <1>2, <1>4, Zenon DEF SelectedInv, Flying, isEphemerisPushUpToDate
<1>7. "persist" \notin {"resolve", "exchange"} OBVIOUS
<1> QED BY <1>1, <1>3, <1>5, <1>6, <1>7, Zenon DEF SelectedInv, Flying, PushedIsSelected

LEMMA DialSelected == PushInv /\ SelectedInv /\ Dial => SelectedInv'
<1> SUFFICES ASSUME PushInv, SelectedInv, Dial PROVE SelectedInv' BY Zenon
<1>1. /\ work.stage = "resolve" /\ work'.stage = "exchange" /\ work'.conflict = work.conflict
      /\ work'.frame = work.frame /\ cell' = cell /\ eph' = eph /\ gnb' = gnb
  BY Zenon DEF Dial, PushInv, Shape
<1>2. Selected' = Selected BY <1>1, SameSelection, Zenon
<1>3. "exchange" # "persist" OBVIOUS
<1> QED BY <1>1, <1>2, <1>3, Zenon DEF SelectedInv, Flying, PushedIsSelected

LEMMA PersistSelected == PushInv /\ SelectedInv /\ (Persist \/ PersistFails) => SelectedInv'
<1> SUFFICES ASSUME PushInv, SelectedInv, Persist \/ PersistFails PROVE SelectedInv' BY Zenon
<1>1. work' = Idle /\ eph' = eph /\ gnb' = gnb /\ work.stage = "persist"
  BY Zenon DEF Persist, PersistFails
<1>2. work'.stage = "idle" BY <1>1, Zenon DEF Idle
<1>3. CASE cell' = cell
  <2>1. Selected' = Selected BY <1>1, <1>3, SameSelection, Zenon
  <2> QED BY <1>1, <1>2, <1>3, <2>1, Zenon DEF SelectedInv, Flying, PushedIsSelected
<1>4. CASE cell' = [cell EXCEPT !.status = work.status] /\ ~work.conflict
  <2>1. cell'.status = work.status /\ cell'.spec = cell.spec BY <1>4, Zenon DEF PushInv, Shape
  <2>2. Selected' = Selected BY <1>1, <2>1, SameSelection, Zenon
  <2> QED BY <1>1, <1>2, <1>4, <2>1, <2>2, Zenon DEF SelectedInv, Flying, PushedIsSelected
<1>5. CASE Persist
  <2>1. CASE work.changed
    <3>1. ~work.conflict /\ cell' = [cell EXCEPT !.status = work.status] BY <1>5, <2>1, Zenon DEF Persist
    <3> QED BY <1>4, <3>1, Zenon
  <2>2. CASE ~work.changed
    <3>1. cell' = cell BY <1>5, <2>2, Zenon DEF Persist
    <3> QED BY <1>3, <3>1, Zenon
  <2> QED BY <2>1, <2>2, Zenon
<1>6. CASE PersistFails
  BY <1>3, <1>6, Zenon DEF PersistFails
<1> QED BY <1>5, <1>6, Zenon

(* Edits unmark the observed generation, a heartbeat and an edit of the ephemeris age every marker, a restart
   empties the gNB. *)
LEMMA EnvironmentSelected ==
  ASSUME PushInv, SelectedInv, Tick \/ Propagate \/ EditEphemeris \/ EditCell \/ GnbRestarts
  PROVE  SelectedInv'
<1> USE DEF PushInv, Shape
<1>1. CASE Tick
  <2>1. /\ work'.stage = work.stage /\ work'.status = work.status /\ work'.conflict = work.conflict
        /\ work'.frame = [work.frame EXCEPT !.left = Less(work.frame.left)]
        /\ gnb'.sat = gnb.sat /\ cell' = cell /\ eph'.present = eph.present
    BY <1>1, Zenon DEF Tick
  <2>2. work'.frame.sat = work.frame.sat /\ work'.frame.marker = work.frame.marker BY <2>1, Zenon
  <2>3. Selected' = Selected BY <2>1, SameSelection, Zenon
  <2> QED BY <2>1, <2>2, <2>3, Zenon DEF SelectedInv, Flying, PushedIsSelected
<1>2. CASE Propagate \/ EditEphemeris
  <2>1. Aged(cell.status.marker) # "current" /\ Aged(work.frame.marker) # "current"
          /\ Aged(work.status.marker) # "current"
    BY Zenon DEF Aged
  <2>2. /\ cell'.status = [cell.status EXCEPT !.marker = Aged(cell.status.marker)]
        /\ work'.frame = [work.frame EXCEPT !.marker = Aged(work.frame.marker)]
        /\ work'.status = [work.status EXCEPT !.marker = Aged(work.status.marker)]
    BY <1>2, Zenon DEF Propagate, EditEphemeris, MarkersAge
  <2>3. cell'.status.marker # "current" /\ work'.frame.marker # "current" /\ work'.status.marker # "current"
    BY <2>1, <2>2, Zenon
  <2> QED BY <2>3, Zenon DEF SelectedInv, PushedIsSelected, isEphemerisPushUpToDate
<1>3. CASE EditCell
  <2>1. PICK c \in Cells : cell' = [cell EXCEPT !.spec = c, !.status.observed = FALSE]
    BY <1>3, Zenon DEF EditCell
  <2>2. cell'.status = [cell.status EXCEPT !.observed = FALSE] BY <2>1, Zenon
  <2>3. ~cell'.status.observed BY <2>2, Zenon
  <2>4. work'.stage = work.stage /\ (work.stage # "idle" => work'.conflict) BY <1>3, Zenon DEF EditCell
  <2>5. "resolve" # "idle" /\ "exchange" # "idle" /\ "persist" # "idle" BY Zenon
  <2> HIDE DEF PushInv, Shape
  <2> QED BY <2>3, <2>4, <2>5, Zenon DEF SelectedInv, Flying, PushedIsSelected, isEphemerisPushUpToDate
<1>4. CASE GnbRestarts
  <2>1. gnb'.sat = NoSat /\ cell' = cell /\ work' = work /\ eph' = eph BY <1>4, Zenon DEF GnbRestarts
  <2>3. Selected' = Selected BY <2>1, SameSelection, Zenon
  <2> QED BY <2>1, <2>3, Zenon DEF SelectedInv, Flying, PushedIsSelected
<1> QED BY <1>1, <1>2, <1>3, <1>4, Zenon

LEMMA StepSelected == PushInv /\ SelectedInv /\ [Next]_vars => SelectedInv'
<1> SUFFICES ASSUME PushInv, SelectedInv, [Next]_vars PROVE SelectedInv' BY Zenon
<1>1. CASE TimerFires \/ NewFeed \/ ElementsAge \/ ProducerStalls \/ ApplyBreaks \/ UNCHANGED vars
  <2>1. cell' = cell /\ work' = work /\ gnb' = gnb
    BY <1>1, Zenon DEF TimerFires, NewFeed, ElementsAge, ProducerStalls, ApplyBreaks, vars
  <2>2. eph'.present = eph.present
    BY <1>1, Zenon
       DEF PushInv, Shape, TimerFires, NewFeed, ElementsAge, ProducerStalls, ApplyBreaks, vars
  <2>3. Selected' = Selected BY <2>1, <2>2, SameSelection, Zenon
  <2> QED BY <2>1, <2>3, Zenon DEF SelectedInv, Flying, PushedIsSelected
<1>2. CASE Tick \/ Propagate \/ EditEphemeris \/ EditCell \/ GnbRestarts
  BY <1>2, EnvironmentSelected, Zenon
<1>3. CASE ReconcileUnapplied \/ ReconcileNoRef \/ ReconcileGated \/ ReplyLost \/ NotDelivered \/ Unresolved
  BY <1>3, NotPushedSelected, Zenon
<1>4. CASE ReconcilePush \/ Dial \/ Acknowledged \/ Persist \/ PersistFails
  BY <1>4, PushSelected, DialSelected, AcknowledgedSelected, PersistSelected, Zenon
<1> QED BY <1>1, <1>2, <1>3, <1>4, Zenon DEF Next, Worker

(* A cell that reports its push up to date broadcasts the satellite that its present spec selects among the
   present states, unless its gNB restarted: an edit under the exchange, a lost reply, a failed status write or a
   heartbeat never leaves another satellite on air under that report (selectPropagatedState, the observed
   generation and the payload marker of pushRuntimeEphemeris). *)
THEOREM PushedSatelliteIsSelected == Spec => []PushedIsSelected
<1>1. Init => SelectedInv
  <2> SUFFICES ASSUME Init PROVE SelectedInv BY Zenon
  <2>1. work.stage = "idle" /\ gnb.sat = NoSat BY Zenon DEF Init, Idle
  <2> QED BY <2>1, Zenon DEF SelectedInv, Flying, PushedIsSelected
<1>2. SelectedInv => PushedIsSelected BY Zenon DEF SelectedInv
<1> QED BY <1>1, <1>2, InitPush, PushStep, StepSelected, PTL DEF Spec

(***************************************************************************)
(* A cell that is reported ready is looked at again.                       *)
(***************************************************************************)
(* The safety part of StaleIsNoticed: whenever no reconcile runs and the push is reported ready, the next
   reconcile is queued or its timer runs. *)
NeverForgotten == work.stage = "idle" /\ ready = "1" => queue.queued \/ queue.timer

(* A reconcile that is about to end asks for the next one, or takes the report back. *)
WatchInv ==
  /\ NeverForgotten
  /\ DOMAIN queue = {"queued", "timer"}
  /\ work.stage = "persist" => work.requeue \/ work.gauge = "0"

LEMMA InitWatch == Init => WatchInv
<1> SUFFICES ASSUME Init PROVE WatchInv BY Zenon
<1>1. ready = "absent" /\ queue = [queued |-> TRUE, timer |-> FALSE] /\ work.stage = "idle" BY Zenon DEF Init, Idle
<1>2. "idle" # "persist" OBVIOUS
<1>3. queue.queued /\ DOMAIN queue = {"queued", "timer"} BY <1>1
<1> QED BY <1>1, <1>2, <1>3, Zenon DEF WatchInv, NeverForgotten

(* Time, the producer and the users may wake the cell; none of them takes it from the queue. *)
LEMMA EnvironmentWatch ==
  ASSUME PushInv, WatchInv,
         \/ Tick \/ TimerFires \/ Propagate \/ EditEphemeris \/ NewFeed \/ ElementsAge \/ ProducerStalls
         \/ ApplyBreaks \/ EditCell \/ GnbRestarts \/ UNCHANGED vars
  PROVE  WatchInv'
<1>1. ready' = ready
  BY Zenon DEF Tick, TimerFires, Propagate, EditEphemeris, NewFeed, ElementsAge, ProducerStalls, ApplyBreaks, EditCell,
               GnbRestarts, vars
<1>2. work'.stage = work.stage /\ work'.requeue = work.requeue /\ work'.gauge = work.gauge
  <2>1. DOMAIN work = {"stage", "frame", "status", "waited", "ttl", "gauge", "requeue", "changed", "conflict"}
    BY Zenon DEF PushInv, Shape
  <2>2. CASE Tick
    <3>1. PICK ttl, left, waited : work' = [work EXCEPT !.ttl = ttl, !.frame.left = left, !.waited = waited]
      BY <2>2, Zenon DEF Tick
    <3> QED BY <2>1, <3>1
  <2>3. CASE Propagate \/ EditEphemeris
    <3>1. PICK frame, status : work' = [work EXCEPT !.frame.marker = frame, !.status.marker = status]
      BY <2>3, Zenon DEF Propagate, EditEphemeris, MarkersAge
    <3> QED BY <2>1, <3>1
  <2>4. CASE EditCell
    <3>1. PICK conflict : work' = [work EXCEPT !.conflict = conflict] BY <2>4, Zenon DEF EditCell
    <3> QED BY <2>1, <3>1
  <2>5. CASE ~(Tick \/ Propagate \/ EditEphemeris \/ EditCell)
    BY <2>5, Zenon DEF TimerFires, NewFeed, ElementsAge, ProducerStalls, ApplyBreaks, GnbRestarts, vars
  <2> QED BY <2>2, <2>3, <2>4, <2>5, Zenon
<1>3. queue' = queue \/ queue' = Wake(queue) \/ queue' = [queued |-> TRUE, timer |-> FALSE]
  BY Zenon DEF Tick, TimerFires, Propagate, EditEphemeris, NewFeed, ElementsAge, ProducerStalls, ApplyBreaks, EditCell,
               GnbRestarts, ephemerisToNTNCellConfig, vars
<1>4. DOMAIN queue = {"queued", "timer"} BY Zenon DEF WatchInv
<1>5. queue' = queue \/ (queue'.queued /\ DOMAIN queue' = {"queued", "timer"}) BY <1>3, <1>4 DEF Wake
<1> QED BY <1>1, <1>2, <1>5, Zenon DEF WatchInv, NeverForgotten

(* A reconcile ends with a success and a requeue, or with a failure. *)
LEMMA WorkerWatch ==
  ASSUME PushInv, WatchInv,
         \/ ReconcileUnapplied \/ ReconcileNoRef \/ ReconcileGated \/ ReconcilePush \/ Dial
         \/ Acknowledged \/ ReplyLost \/ NotDelivered \/ Unresolved
  PROVE  WatchInv'
<1>0. /\ "persist" # "idle" /\ "exchange" # "idle" /\ "exchange" # "persist"
      /\ "resolve" # "idle" /\ "resolve" # "persist"
  OBVIOUS
<1>1. DOMAIN queue' = {"queued", "timer"}
  <2>1. queue' = queue \/ queue' = [queue EXCEPT !.queued = FALSE]
    BY Zenon DEF ReconcileUnapplied, ReconcileNoRef, ReconcileGated, ReconcilePush, Dial, Acknowledged, ReplyLost,
                 NotDelivered, Unresolved, Take
  <2> QED BY <2>1, Zenon DEF WatchInv
<1>2. ASSUME NEW status, NEW gauge, NEW requeue, NEW frame, Conclude(status, gauge, requeue, frame),
             requeue \/ gauge = "0"
      PROVE  WatchInv'
  <2>1. work'.stage = "persist" /\ work'.gauge = gauge /\ work'.requeue = requeue BY <1>2, Zenon DEF Conclude
  <2> QED BY <1>0, <1>1, <1>2, <2>1, Zenon DEF WatchInv, NeverForgotten
<1>3. ASSUME NEW reason, NEW frame, Fails(reason, frame) PROVE WatchInv'
  BY <1>2, <1>3, Zenon DEF Fails
<1>4. CASE ReconcileUnapplied BY <1>2, <1>4, Zenon DEF ReconcileUnapplied
<1>5. CASE ReconcileNoRef BY <1>2, <1>5, Zenon DEF ReconcileNoRef
<1>6. CASE ReconcileGated BY <1>2, <1>3, <1>6, Zenon DEF ReconcileGated
<1>7. CASE Acknowledged BY <1>2, <1>7, Zenon DEF Acknowledged
<1>8. CASE ReplyLost \/ NotDelivered \/ Unresolved BY <1>3, <1>8, Zenon DEF ReplyLost, NotDelivered, Unresolved
<1>9. CASE ReconcilePush \/ Dial
  <2>1. work'.stage \in {"resolve", "exchange"} BY <1>9, Zenon DEF ReconcilePush, Dial, Idle, PushInv, Shape
  <2> QED BY <1>0, <1>1, <2>1, Zenon DEF WatchInv, NeverForgotten
<1> QED BY <1>4, <1>5, <1>6, <1>7, <1>8, <1>9, Zenon

(* The end of a reconcile arms the timer, takes the report back or queues the cell again. *)
LEMMA PersistWatch ==
  ASSUME WatchInv, Persist \/ PersistFails
  PROVE  WatchInv'
<1>0. "persist" # "idle" /\ "0" # "1" OBVIOUS
<1>1. work.stage = "persist" /\ work' = Idle BY Zenon DEF Persist, PersistFails
<1>2. work'.stage = "idle" BY <1>1, Zenon DEF Idle
<1>3. DOMAIN queue = {"queued", "timer"} BY Zenon DEF WatchInv
<1>4. CASE Persist
  <2>1. PICK armed : armed = (queue.timer \/ work.requeue) /\ queue' = [queue EXCEPT !.timer = armed]
    BY <1>4, Zenon DEF Persist
  <2>2. queue'.timer = armed /\ DOMAIN queue' = {"queued", "timer"} BY <1>3, <2>1, Zenon
  <2>3. work.gauge = "0" => ready' = "0" BY <1>4, Zenon DEF Persist
  <2>4. work.requeue => queue'.timer BY <2>1, <2>2, Zenon
  <2> QED BY <1>0, <1>1, <1>2, <2>2, <2>3, <2>4, Zenon DEF WatchInv, NeverForgotten
<1>5. CASE PersistFails
  <2>1. queue' = [queue EXCEPT !.queued = TRUE] BY <1>5, Zenon DEF PersistFails, Wake
  <2>2. queue'.queued /\ DOMAIN queue' = {"queued", "timer"} BY <1>3, <2>1, Zenon
  <2> QED BY <1>0, <1>2, <2>2, Zenon DEF WatchInv, NeverForgotten
<1> QED BY <1>4, <1>5, Zenon

(* A push that is reported ready is never forgotten: whichever fan-out is dropped, exchange fails or status write
   is refused, another reconcile is queued or its timer runs, so that an epoch that runs out can be noticed
   (ephemerisPushShouldRequeue; the failures that ask for no requeue take the report back first). *)
THEOREM ReadyIsWatched == Spec => []NeverForgotten
<1>1. PushInv /\ WatchInv /\ [Next]_vars => WatchInv'
  BY EnvironmentWatch, WorkerWatch, PersistWatch, Zenon DEF Next, Worker
<1>2. WatchInv => NeverForgotten BY Zenon DEF WatchInv
<1> QED BY <1>1, <1>2, InitPush, InitWatch, PushStep, PTL DEF Spec
=============================================================================
