--------------------------- MODULE NTNSlicePolicy ---------------------------
(* The reconciler implements the path policy: the stored path is the active *)
(* path, and what is known is what the reconcile in flight has read.        *)
EXTENDS NTNSlice

InFlight == work.stage = "write"

Policy == INSTANCE PathPolicy WITH
  Samples   <- ConfirmationSamples,
  Delay     <- SwitchbackDelay,
  Dwell     <- MinTerrestrialDwell,
  uid       <- slice.uid,
  path      <- slice.status.path,
  dwellFrom <- slice.status.lastSwitchback,
  now       <- IF InFlight THEN work.now ELSE clock,
  contact   <- IF InFlight THEN work.contact ELSE "unknown",
  confirmed <- IF InFlight THEN work.evidence.degraded ELSE 0,
  recovered <- IF InFlight THEN work.evidence.recovered ELSE 0

(* The stored path moves only as failoverPolicy promises, whatever fails, restarts or is read stale:
   every accepted status write of the reconciler is a step of the policy or leaves the path alone. *)
ImplementsPathPolicy == Policy!Spec
=============================================================================
