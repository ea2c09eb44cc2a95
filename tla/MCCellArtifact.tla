--------------------------- MODULE MCCellArtifact ----------------------------
(* Specs and ConfigMaps for model checking CellArtifact. *)
EXTENDS CellArtifact

MCFirstSpec == [k |-> 1, eph |-> 1, ref |-> TRUE, known |-> TRUE]
MCSpecs ==
  {MCFirstSpec,
   [MCFirstSpec EXCEPT !.eph = 2, !.ref = FALSE],
   [MCFirstSpec EXCEPT !.eph = 0],
   [MCFirstSpec EXCEPT !.known = FALSE]}

(* A map of an earlier version of the operator, a map that only looks like one, and one of another controller. *)
Leftover == [NoMap EXCEPT !.uid = 1, !.labelled = TRUE, !.data = [k |-> 2, eph |-> 2], !.touched = TRUE]
Impostor == [NoMap EXCEPT !.uid = 1, !.labelled = TRUE, !.foreign = TRUE]
Claimed == [NoMap EXCEPT !.uid = 1, !.owner = -1, !.labelled = TRUE, !.data = [k |-> 2, eph |-> 2], !.foreign = TRUE]

MCFirstMaps == {NoMap, Leftover, Impostor}
MCUserMaps == {Impostor, Claimed}
=============================================================================
