----------------------------- MODULE MCAlgorithms -----------------------------
(***************************************************************************)
(* The pure algorithms over small fields, levels and texts.                *)
(***************************************************************************)
EXTENDS Algorithms

MCHours == {0, 3, 7, 8, 12, 13, 23, 24, 25}
MCDays == {0, 1, 8, 30}

\* Each day of a week and the last of the calendar, at midnight, at 8:00, 15:00 and half
\* a minute later.
MCRefs ==
  {d * DayLength + t : d \in 0 .. 6 \cup {LastDay}, t \in {0, 8 * 120, 15 * 120, 15 * 120 + 1}}
=============================================================================
