---------------------------- MODULE MCCollector ----------------------------
(***************************************************************************)
(* The traffic of a minute and its disk activity, one beside the other:      *)
(* Collector and DiskActivity, which share nothing. What one of them does    *)
(* says nothing of the other, so only one of them leaves its initial state   *)
(* in a behaviour: each state of each is reached that way.                   *)
(*                                                                         *)
(* A minute has four units: a saved reading is recent for a minute and a     *)
(* half, a window and the first minute are half a minute or more; a window   *)
(* of the disks is a quarter, so that a minute has up to three of them.      *)
(***************************************************************************)
EXTENDS Collector, TLC

CONSTANTS Disks, DiskTime, DiskFaults

VARIABLES dNow, dOffset, dBoot, counter, done, dPrev, dReadings, dFile, dMinute, dSample, dFaults

dVars == <<dNow, dOffset, dBoot, counter, done, dPrev, dReadings, dFile, dMinute, dSample, dFaults>>

Disk == INSTANCE DiskActivity WITH
  MinWindow <- 1, ReadPhases <- 1..3, MaxTime <- DiskTime, MaxFaults <- DiskFaults,
  now <- dNow, offset <- dOffset, boot <- dBoot, prev <- dPrev, readings <- dReadings,
  file <- dFile, minute <- dMinute, sample <- dSample, faults <- dFaults

MCInit == Init /\ Disk!Init
MCNext ==
  \/ Disk!Init /\ Next /\ UNCHANGED dVars
  \/ Init /\ Disk!Next /\ UNCHANGED vars
MCSpec == MCInit /\ [][MCNext]_<<vars, dVars>>

\* "The eight fields stay nil when the activity of the minute is not known"
\* (setDiskActivity): what a sample says of a disk is its real activity.
DiskIsReal == Disk!DiskIsReal

DiskSymmetry == Permutations(Disks)
MCClockSteps == {-5, 3}
=============================================================================
