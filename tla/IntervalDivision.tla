-------------------------- MODULE IntervalDivision --------------------------
(***************************************************************************)
(* mpas_interval_division (framework/mpas_timekeeping.F): how many times   *)
(* the interval den fits into the interval num, found by doubling and      *)
(* halving because a calendar interval can only be added and compared.     *)
(* Times are counted in ticks from ref_time.  One step of the model is one *)
(* iteration of one of the two loops.                                      *)
(***************************************************************************)
EXTENDS TimeArithmetic

CONSTANTS
    Numerators,     \* intervals to divide; negative ones occur
    Denominators    \* intervals to divide by: alarm and filename intervals

ASSUME NumeratorsAssumption   == Numerators \subseteq Int
ASSUME DenominatorsAssumption == Denominators \subseteq Nat

VARIABLES
    pc,         \* "start", "doubling", "halving" or "done"
    num, den,   \* the arguments
    n, rem,     \* the results
    m,          \* what the second loop may still add to n
    updated,    \* updated_time - ref_time
    cost        \* history: iterations done

division == <<pc, num, den, n, rem, m, updated, cost>>

DivisionInit ==
    /\ pc = "start"
    /\ num \in Numerators
    /\ den \in Denominators
    /\ n = 0 /\ rem = 0 /\ m = 0 /\ updated = 0 /\ cost = 0

\* The three early returns.
ReturnEarly ==
    /\ pc = "start"
    /\ \/ den = 0   /\ n' = 0 /\ rem' = 0
       \/ den # 0 /\ num = den /\ n' = 1 /\ rem' = 0
       \/ den # 0 /\ num < den /\ n' = 0 /\ rem' = num
    /\ pc' = "done"
    /\ UNCHANGED <<num, den, m, updated, cost>>

StartSearch ==
    /\ pc = "start"
    /\ den # 0 /\ num > den
    /\ n' = 1
    /\ updated' = den
    /\ pc' = "doubling"
    /\ UNCHANGED <<num, den, rem, m, cost>>

Double ==
    /\ pc = "doubling"
    /\ num > updated
    /\ n' = n * 2
    /\ updated' = den * (n * 2)
    /\ cost' = cost + 1
    /\ UNCHANGED <<pc, num, den, rem, m>>

\* Mutant: the last doubling is not taken back.
TurnBackLate ==
    /\ pc = "doubling"
    /\ num <= updated
    /\ n' = n
    /\ m' = n
    /\ updated' = den * n
    /\ pc' = "halving"
    /\ UNCHANGED <<num, den, rem, cost>>

\* The end of the doubling: the search goes back to the last time it was early.
TurnBack ==
    /\ pc = "doubling"
    /\ num <= updated
    /\ n' = n \div 2
    /\ m' = n \div 2
    /\ updated' = den * (n \div 2)
    /\ pc' = "halving"
    /\ UNCHANGED <<num, den, rem, cost>>

\* Mutants: an exact fit is not added; the second loop rounds its half up.
HalveStrictly ==
    /\ pc = "halving" /\ m > 0
    /\ IF updated + den * m < num
       THEN n' = n + m /\ updated' = updated + den * m
       ELSE UNCHANGED <<n, updated>>
    /\ m' = m \div 2 /\ cost' = cost + 1
    /\ UNCHANGED <<pc, num, den, rem>>
HalveUpward ==
    /\ pc = "halving" /\ m > 0
    /\ IF updated + den * m <= num
       THEN n' = n + m /\ updated' = updated + den * m
       ELSE UNCHANGED <<n, updated>>
    /\ m' = (m + 1) \div 2
    /\ UNCHANGED <<pc, num, den, rem, cost>>

Halve ==
    /\ pc = "halving"
    /\ m > 0
    /\ IF updated + den * m <= num
       THEN /\ n' = n + m
            /\ updated' = updated + den * m
       ELSE UNCHANGED <<n, updated>>
    /\ m' = m \div 2
    /\ cost' = cost + 1
    /\ UNCHANGED <<pc, num, den, rem>>

Finish ==
    /\ pc = "halving"
    /\ m = 0
    /\ rem' = num - updated
    /\ pc' = "done"
    /\ UNCHANGED <<num, den, n, m, updated, cost>>

DivisionNext == ReturnEarly \/ StartSearch \/ Double \/ TurnBack \/ Halve \/ Finish

\* A sequential subroutine: it runs as long as it has a step to take.
DivisionSpec == DivisionInit /\ [][DivisionNext]_division /\ WF_division(DivisionNext)

-----------------------------------------------------------------------------
(* Properties *)

DivisionTypeOK ==
    /\ pc \in {"start", "doubling", "halving", "done"}
    /\ num \in Int /\ den \in Nat /\ n \in Nat /\ rem \in Int
    /\ m \in Nat /\ updated \in Int /\ cost \in Nat

\* updated stays n denominators, and num is never out of what the rest of the
\* search can still reach: this is what makes the two loops divide.
SearchBrackets ==
    /\ pc \in {"doubling", "halving"} => den > 0 /\ num > den /\ updated = den * n
    /\ pc = "doubling" => n = 1 \/ den * (n \div 2) < num
    /\ pc = "halving" =>
          /\ updated <= num
          /\ num < updated + (IF m = 0 THEN den ELSE 2 * (den * m))

\* The result is the quotient and the remainder; a numerator below the
\* denominator, a negative one too, comes back whole, and a zero denominator
\* gives zeros.
Divides ==
    pc = "done" =>
       CASE den = 0   -> n = 0 /\ rem = 0
         [] den > 0 /\ num < den -> n = 0 /\ rem = num
         [] OTHER     -> num = den * n + rem /\ 0 <= rem /\ rem < den

\* With a usable denominator the remainder is the one the clock's operations
\* are modelled with.
ReturnsRemainder == pc = "done" /\ den > 0 => rem = IntervalRemainder(num, den)

\* The comment on the routine: its cost is proportional to the log of the
\* result.  With 2k iterations the result is at least 2^(k-1).
CostIsLogarithmic ==
    pc = "done" /\ cost > 0 => cost % 2 = 0 /\ 2 ^ (cost \div 2 - 1) <= n

\* It returns for every interval and every denominator that is not negative.
DivisionEnds == <>(pc = "done")
=============================================================================
