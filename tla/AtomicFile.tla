----------------------------- MODULE AtomicFile -----------------------------
(***************************************************************************)
(* What statefile promises the agent (internal/statefile/statefile.go, the  *)
(* comment of Write): the file always holds one whole value, a write that   *)
(* returned no error survives a power loss, and a write that failed or was  *)
(* cut off leaves the old value or the new one.                             *)
(***************************************************************************)
EXTENDS Naturals

VARIABLES
  file,      \* the value in the file; values are the numbers of their writes
  writing,   \* the value that is being written, or 0
  saved      \* the last value whose write returned no error

Init == file = 0 /\ writing = 0 /\ saved = 0

Begin == writing = 0 /\ writing' > file /\ UNCHANGED <<file, saved>>

\* The value is in the file, seen by each reader at once.
Replace == writing # 0 /\ file' = writing /\ UNCHANGED <<writing, saved>>

\* The write returns. Without an error the value is in the file.
Return == writing # 0 /\ file = writing /\ saved' = writing /\ writing' = 0 /\ UNCHANGED file
Fail   == writing # 0 /\ writing' = 0 /\ UNCHANGED <<file, saved>>

\* A crash ends a write. A power loss can also take back a value that no
\* write returned for, never an older one.
Crash == /\ writing' = 0
         /\ file' \in saved..file
         /\ UNCHANGED saved

Next == Begin \/ Replace \/ Return \/ Fail \/ Crash
vars == <<file, writing, saved>>
Spec == Init /\ [][Next]_vars
=============================================================================
