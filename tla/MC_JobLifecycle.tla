--------------------------- MODULE MC_JobLifecycle ---------------------------
(* Small instances of JobLifecycle for TLC.  Each run answers one question *)
(* and takes the bounds that make its interesting cases happen.           *)
EXTENDS JobLifecycle, TLC

CONSTANTS w1, w2, w3, k1

MCWorkers == {w1, w2}
MCThreeWorkers == {w1, w2, w3}
MCKeys == {k1}

(* Duplicate window: start times 0..2 with a window of 2, so a second     *)
(* start lands inside the window (1), at its edge (2), or before an       *)
(* existing row (-1, -2).                                                 *)
MCStartTimes == 0..2
MCStartWindow == 2

(* Stop and archive: times 0..1 and a window of 1, so two rows of the     *)
(* same key (started at 0 and 1) can coexist and both be stopped at 1.    *)
MCStopTimes == 0..1
MCStopWindow == 1

(* 3 bits hold every duration of 0..2: the wrap of int32 never bites.     *)
MCDurationBits == 3
(* 2 bits: a stop 2 s after the start wraps to -2, standing for a         *)
(* stopTime more than 2^31 s after startTime.                             *)
MCNarrowDurationBits == 2

(* No stop requests at all. *)
MCNoStops == {}
(* The default state (completed) and "running", which Valid() accepts.    *)
(* An invalid state or another terminal name adds no behaviour: the first *)
(* is answered 400 without a change, the second is like "completed".      *)
MCStopStates == {Unset, Running}
(* Only the default state. *)
MCDefaultStopState == {Unset}

MCSymmetry == Permutations(MCWorkers)
MCThreeSymmetry == Permutations(MCThreeWorkers)
=============================================================================
