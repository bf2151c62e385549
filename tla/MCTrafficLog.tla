---------------------------- MODULE MCTrafficLog ----------------------------
(***************************************************************************)
(* Small logs: a line is two units, so a limit of three lets the cut come   *)
(* after the second line, with a whole line or half a line behind it.        *)
(***************************************************************************)
EXTENDS TrafficLog

MCLimit == 3
=============================================================================
