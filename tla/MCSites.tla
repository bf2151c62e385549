------------------------------ MODULE MCSites ------------------------------
(***************************************************************************)
(* Two sites and the base services. The folder of the first site hangs, the  *)
(* one behind it can be measured.                                            *)
(***************************************************************************)
EXTENDS Sites

MCDirs == 1..2
MCSteady == {2}
MCHangs == {1}
=============================================================================
