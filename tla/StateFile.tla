------------------------------ MODULE StateFile ------------------------------
(***************************************************************************)
(* The way the agent keeps its state on disk: Write, Read and RemoveTemp of *)
(* internal/statefile/statefile.go, on a file system that keeps what is not *)
(* synced in memory only. A crash of the process loses nothing of the file  *)
(* system; a power loss loses each data block that was not synced, and each *)
(* rename whose directory was not synced may or may not survive.            *)
(*                                                                         *)
(* Values are the numbers of their writes, and 0 is the file before the     *)
(* first one. A content is a value and whether it is whole.                 *)
(***************************************************************************)
EXTENDS Naturals, Faults

CONSTANTS
  MaxWrites     \* bound: the writes of a behaviour

ASSUME BoundsAssumption == MaxWrites \in Nat

VARIABLES
  pc,        \* the next system call of Write; "idle" outside of it, and
             \* "down" while no process has the lock of the directory
  value,     \* the value that Write stores
  temps,     \* the temporary files in the directory, each a content
  path,      \* the content that path names now
  onDisk,    \* the content that path names on the disk, after a directory sync
  saved,     \* the last value whose Write returned no error
  writes

vars == <<pc, value, temps, path, onDisk, saved, writes, faults>>

-----------------------------------------------------------------------------
\* whole: every byte of the value is in the file, for a reader; synced: also
\* on the disk.
Content == [value : Nat, whole : BOOLEAN, synced : BOOLEAN]
Temp    == [value |-> value, whole |-> FALSE, synced |-> FALSE]
Written == [Temp EXCEPT !.whole = TRUE]
Synced  == [Written EXCEPT !.synced = TRUE]

Init ==
  /\ pc = "idle" /\ value = 0
  /\ temps = {}
  /\ path = [value |-> 0, whole |-> TRUE, synced |-> TRUE] /\ onDisk = path
  /\ saved = 0 /\ writes = 0 /\ faults = 0

\* os.CreateTemp. A value is written to a new file, never to the file at path.
Create ==
  /\ pc = "idle" /\ writes < MaxWrites
  /\ writes' = writes + 1
  /\ value' = writes'
  /\ temps' = temps \cup {[value |-> value', whole |-> FALSE, synced |-> FALSE]}
  /\ pc' = "write"
  /\ UNCHANGED <<path, onDisk, saved, faults>>

\* tmp.Write. A reader of the temporary file, and there is none, could see a
\* part of the value until it returns.
WriteTemp ==
  /\ pc = "write"
  /\ temps' = (temps \ {Temp}) \cup {Written}
  /\ pc' = "sync"
  /\ UNCHANGED <<value, path, onDisk, saved, writes, faults>>

\* Fault: the value is not synced before the rename.
SyncTempSkipped ==
  /\ pc = "sync"
  /\ pc' = "close"
  /\ UNCHANGED <<value, temps, path, onDisk, saved, writes, faults>>

\* tmp.Sync: the value is on the disk.
SyncTemp ==
  /\ pc = "sync"
  /\ temps' = (temps \ {Written}) \cup {Synced}
  /\ pc' = "close"
  /\ UNCHANGED <<value, path, onDisk, saved, writes, faults>>

\* tmp.Close.
CloseTemp ==
  /\ pc = "close"
  /\ pc' = "rename"
  /\ UNCHANGED <<value, temps, path, onDisk, saved, writes, faults>>

\* os.Rename: path names the temporary file, for each reader at once.
Rename ==
  /\ pc = "rename"
  /\ \E t \in temps :
       /\ t.value = value
       /\ path' = t
       /\ temps' = temps \ {t}
  /\ pc' = "dirsync"
  /\ UNCHANGED <<value, onDisk, saved, writes, faults>>

\* Fault: the directory is not synced.
SyncDirSkipped ==
  /\ pc = "dirsync"
  /\ saved' = value
  /\ pc' = "idle"
  /\ UNCHANGED <<value, temps, path, onDisk, writes, faults>>

\* d.Sync: the rename is on the disk, and Write returns nil.
SyncDir ==
  /\ pc = "dirsync"
  /\ onDisk' = path
  /\ saved' = value
  /\ pc' = "idle"
  /\ UNCHANGED <<value, temps, path, writes, faults>>

\* Fault: the temporary file of a failed Write stays.
FailBeforeKeeps ==
  /\ pc \in {"write", "sync", "close", "rename"} /\ Fault
  /\ pc' = "idle"
  /\ UNCHANGED <<value, temps, path, onDisk, saved, writes>>

\* A system call fails before the rename: Write removes its file and returns
\* the error.
FailBefore ==
  /\ pc \in {"write", "sync", "close", "rename"} /\ Fault
  /\ temps' = {t \in temps : t.value # value}
  /\ pc' = "idle"
  /\ UNCHANGED <<value, path, onDisk, saved, writes>>

\* Fault: the error of the directory sync is ignored.
FailAfterIgnored ==
  /\ pc = "dirsync" /\ Fault
  /\ saved' = value
  /\ pc' = "idle"
  /\ UNCHANGED <<value, temps, path, onDisk, writes>>

\* The open or the sync of the directory fails: Write returns an error, but
\* path names the new value, and its temporary file is no more.
FailAfter ==
  /\ pc = "dirsync" /\ Fault
  /\ pc' = "idle"
  /\ UNCHANGED <<value, temps, path, onDisk, saved, writes>>

\* RemoveTemp.
RemoveTemp == temps' = {}

\* A process gets the lock of the directory: it removes what the last one left
\* before its first Write.
Start ==
  /\ pc = "down"
  /\ RemoveTemp
  /\ pc' = "idle"
  /\ UNCHANGED <<value, path, onDisk, saved, writes, faults>>

\* The process ends, in a Write or not.
End ==
  /\ pc' = "down"
  /\ UNCHANGED <<value, temps, path, onDisk, saved, writes>>
Crash == pc # "down" /\ Fault /\ End

\* What a power loss leaves of a content.
AfterPowerLoss(x) == [x EXCEPT !.whole = x.whole /\ x.synced]

\* The power goes: path names what its directory says on the disk, which is
\* the last synced name or a later one, and the data is what was synced.
PowerLoss ==
  /\ Fault
  /\ \E x \in {onDisk, path} : path' = AfterPowerLoss(x) /\ onDisk' = AfterPowerLoss(x)
  /\ temps' = {AfterPowerLoss(t) : t \in temps}
  /\ pc' = "down"
  /\ UNCHANGED <<value, saved, writes>>

Next ==
  \/ Create \/ WriteTemp \/ SyncTemp \/ CloseTemp \/ Rename \/ SyncDir
  \/ FailBefore \/ FailAfter \/ Start \/ Crash \/ PowerLoss
Spec == Init /\ [][Next]_vars

-----------------------------------------------------------------------------
\* The values that each variable can have.
TypeOK ==
  /\ pc \in {"down", "idle", "write", "sync", "close", "rename", "dirsync"}
  /\ temps \subseteq Content /\ path \in Content /\ onDisk \in Content
  /\ {value, saved, writes, faults} \subseteq Nat

\* "path always holds a complete file, also after a crash or a power loss"
\* (statefile.go).
AlwaysComplete == path.whole

\* "so that the rename itself survives a power loss" (statefile.go): what a
\* power loss leaves is never older than the last Write that returned nil.
SavedSurvives == saved <= path.value /\ saved <= onDisk.value

\* Crashes do not fill the directory: there is at most the file of the Write
\* that runs, or of the one that a crash ended.
OneTemp == \A s, t \in temps : s = t

\* Write implements the file that changes in one step.
Atomic == INSTANCE AtomicFile WITH
            file <- path.value,
            writing <- IF pc \in {"down", "idle"} THEN 0 ELSE value
ImplementsAtomicFile == Atomic!Spec
=============================================================================
