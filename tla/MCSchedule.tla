----------------------------- MODULE MCSchedule -----------------------------
(***************************************************************************)
(* A minute of four units and a reading each two units: the smallest clock  *)
(* with a reading between two ticks and an offset between two readings.     *)
(***************************************************************************)
EXTENDS Schedule, Config

\* Steps below, at and far above maxStepBack (8 units), and forward; -10, at
\* the end of a minute, gives the longest wait for the tick after the last.
MCSteps == {-24, -10, -8, -7, -3, 2, 6}
\* The offset of a server between two readings.
MCOffset == OffsetOf(7, Minute)
=============================================================================
