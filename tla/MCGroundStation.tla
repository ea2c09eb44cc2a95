--------------------------- MODULE MCGroundStation ---------------------------
(* Small instances of GroundStation: a day of three ticks and a window over midnight. *)
EXTENDS GroundStation

Spec3(firmware, window, endpoint) == [firmware |-> firmware, window |-> window, endpoint |-> endpoint]
OverMidnight == [start |-> 2, end |-> 1, set |-> TRUE]
EmptyWindow  == [start |-> 1, end |-> 1, set |-> TRUE]

MCSpecs == {Spec3("auto", OverMidnight, TRUE), Spec3("auto", NoWindow, FALSE), Spec3("auto", EmptyWindow, FALSE),
            Spec3("manual", NoWindow, TRUE), Spec3("none", NoWindow, TRUE)}
=============================================================================
