--------------------------- MODULE MCStreamAlarms ---------------------------
(* Small instances of the stream manager's lists for TLC. *)
EXTENDS StreamAlarms

CONSTANTS s1, s2, a1, a2, a3

\* No operation tells two streams apart, nor two alarms the clock has.
StreamAlarmSymmetry == Permutations({s1, s2}) \cup Permutations({a1, a2})
=============================================================================
