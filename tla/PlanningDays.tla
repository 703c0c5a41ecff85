---------------------------- MODULE PlanningDays ----------------------------
(***************************************************************************)
(* Days, windows of days and the people who work them: what the modules    *)
(* about the plan have in common.                                          *)
(***************************************************************************)
EXTENDS Integers, FiniteSets

CONSTANTS
  Days,       \* an interval of integers
  Resources,  \* people shifts are assigned to
  None        \* SQL NULL, or no row

\* A window of days, both ends included.
Span == {s \in Days \X Days : s[1] <= s[2]}

Covers(outer, inner) == outer[1] <= inner[1] /\ inner[2] <= outer[2]
Disjoint(s, t) == s[2] < t[1] \/ t[2] < s[1]
Includes(span, day) == span[1] <= day /\ day <= span[2]
On(day) == <<day, day>>

\* The smallest window that includes the window and the day.
Stretched(span, day) == <<IF day < span[1] THEN day ELSE span[1],
                          IF day > span[2] THEN day ELSE span[2]>>
=============================================================================
