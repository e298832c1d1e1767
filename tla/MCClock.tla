------------------------------ MODULE MCClock ------------------------------
(***************************************************************************)
(* The clock as it is built, a phase being the unit of time, with days of  *)
(* four units, weeks of two days, offsets of a unit to either side of UTC, *)
(* and start times of up to two days and more.                             *)
(***************************************************************************)
EXTENDS Clock

MCOffsetRange == {-1, 0, 1}
=============================================================================
