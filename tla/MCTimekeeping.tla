--------------------------- MODULE MCTimekeeping ---------------------------
(* Small instances of the clock for TLC. *)
EXTENDS Timekeeping, TLC

CONSTANTS a1, a2

\* A step that points the way the clock runs at first, and one that does not.
MCSteps == {2, -2}

\* No operation tells two alarm ids apart.
AlarmSymmetry == Permutations({a1, a2})
=============================================================================
