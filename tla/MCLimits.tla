------------------------------- MODULE MCLimits -------------------------------
(* Limits for TLC: MAX_TIMER_MS and MAX_SAFE_INTEGER are scaled down to 3    *)
(* and 4, so that values on both sides of every boundary are tried.          *)
EXTENDS Limits

MCDefaults == [f \in Fields |-> IF f = "commandTimeoutMs" THEN 2 ELSE 1]

\* Options and overrides give a deadline, a ceiling, both or neither.
MCPartial ==
    UNION {[F -> Values] : F \in SUBSET {"commandTimeoutMs", "maxCommandBytes"}}
===============================================================================
