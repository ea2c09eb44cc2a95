----------------------------- MODULE PathPolicy -----------------------------
(***************************************************************************)
(* What spec.failoverPolicy promises of a slice's active path, without the *)
(* controller: when the path may move, given what is known at that moment. *)
(***************************************************************************)
EXTENDS Integers

CONSTANTS Samples, Delay, Dwell,   \* confirmationSamples, switchbackDelay, minTerrestrialDwell
          Second                   \* ticks per second

VARIABLES
  uid,        \* the identity of the slice object
  path,       \* the active path
  dwellFrom,  \* the second of the last hand-back from an available satellite, 0 if none
  now,        \* the time at which the path is being decided
  contact,    \* what is known of the satellite: "unknown", "available", "unavailable"
  confirmed,  \* distinct degraded observations in an unbroken run
  recovered   \* since when recovery has been confirmed without a break, 0 if it is not

Init == path = "terrestrial" /\ dwellFrom = 0

FailOver ==
  /\ path = "terrestrial" /\ contact = "available"
  /\ confirmed >= Samples
  /\ dwellFrom # 0 => now - dwellFrom >= Dwell
  /\ path' = "satellite"
  /\ UNCHANGED <<uid, dwellFrom>>

HandBack ==
  /\ path = "satellite" /\ contact = "available"
  /\ recovered # 0 /\ now - recovered >= Delay
  /\ path' = "terrestrial"
  /\ dwellFrom' = now - (now % Second)
  /\ UNCHANGED uid

PassEnded ==
  /\ path = "satellite" /\ contact = "unavailable"
  /\ path' = "terrestrial"
  /\ UNCHANGED <<uid, dwellFrom>>

(* The slice is deleted and created anew. *)
Renewed == uid' # uid /\ path' = "terrestrial" /\ dwellFrom' = 0

(* Time passes and evidence comes and goes at any moment; the path moves only so. *)
Next == FailOver \/ HandBack \/ PassEnded \/ Renewed

Spec == Init /\ [][Next]_<<uid, path, dwellFrom>>
=============================================================================
