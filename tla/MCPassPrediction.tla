-------------------------- MODULE MCPassPrediction ---------------------------
(* A sky of two places and two satellites, and what a spec may ask of it. *)
EXTENDS PassPrediction, TLC

MCLabel == 1 :> 1 @@ 2 :> 2

(* More passes than a status may hold, with the second satellite's first one after both of the first's. *)
MCSky ==
  "here"  :> {[sat |-> 1, aos |-> 0, los |-> 2], [sat |-> 1, aos |-> 2, los |-> 4], [sat |-> 2, aos |-> 3, los |-> 7]}
  @@ "there" :> {[sat |-> 1, aos |-> 1, los |-> 5]}

MCFirstConfig == [stations |-> {1}, sats |-> {}, horizon |-> 0]
MCConfigs ==
  {MCFirstConfig,
   [stations |-> {}, sats |-> {}, horizon |-> 0],
   [stations |-> {1}, sats |-> {2}, horizon |-> 9],
   [stations |-> {1}, sats |-> {}, horizon |-> -1],
   [stations |-> {1}, sats |-> {}, horizon |-> 5]}

(* Fresh elements; elements about to age out, with one satellite lost. *)
MCAcquisitions == {1 :> 0 @@ 2 :> 3, 1 :> 2}
=============================================================================
