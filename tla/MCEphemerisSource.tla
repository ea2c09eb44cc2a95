------------------------- MODULE MCEphemerisSource ---------------------------
(* Small instances of EphemerisSource: a CelesTrak URL with two selectors and two intervals, one of them out *)
(* of bounds, a Space-Track URL with two credentials, and one that is off Space-Track's origin.              *)
EXTENDS EphemerisSource

Source(type, url, sel, cred, refresh) == [type |-> type, url |-> url, sel |-> sel, cred |-> cred, refresh |-> refresh]
MCSpecs == {Source("CelesTrak", "c", {"a"}, "", 1), Source("CelesTrak", "c", {}, "", 9),
            Source("SpaceTrack", "s", {"a"}, "k1", 2), Source("SpaceTrack", "s", {"a"}, "k2", 2),
            Source("SpaceTrack", "x", {}, "k1", 2)}
MCFirstSpec == Source("CelesTrak", "c", {"a"}, "", 1)
=============================================================================
