------------------------------- MODULE Faults -------------------------------
(***************************************************************************)
(* The faults that a behaviour can have: crashes, power losses and failed   *)
(* calls, counted together for all that happens on one disk.                *)
(***************************************************************************)
EXTENDS Naturals

CONSTANT MaxFaults  \* bound: the faults of a behaviour
ASSUME FaultsAssumption == MaxFaults \in Nat

VARIABLE faults
Fault == faults < MaxFaults /\ faults' = faults + 1
=============================================================================
