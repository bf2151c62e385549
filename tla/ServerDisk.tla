----------------------------- MODULE ServerDisk -----------------------------
(***************************************************************************)
(* The disk of a server: the state files of the agent (StateFile) and its    *)
(* binary (Install), under the same crashes and power losses. The agent does *)
(* one thing at a time: it writes no state while it installs.               *)
(*                                                                         *)
(* A second agent can be started by hand while the service runs or restarts: *)
(* the lock of the state directory (internal/agent/lock.go) lets one of them *)
(* use the state files. The second one writes state; its installs are those  *)
(* of the first.                                                            *)
(***************************************************************************)
EXTENDS StateFile, Install

VARIABLE
  second     \* the second agent: "none", "cleaned" until it asks for the lock,
             \* and "holds" while it has it

fileVars == <<pc, value, temps, path, onDisk, saved, writes>>
binaryVars == <<step, files, exe, names, agentUp, replaced, told, installs>>
diskVars == <<vars, binaryVars, second>>

DiskInit == Init /\ InstallInit /\ second = "none"

\* The agent that has the lock writes a state file.
WriteState ==
  /\ (agentUp /\ step["agent"] = "idle") \/ second = "holds"
  /\ Create \/ WriteTemp \/ SyncTemp \/ CloseTemp \/ Rename \/ SyncDir \/ FailBefore \/ FailAfter
  /\ UNCHANGED <<binaryVars, second>>

\* It installs a binary, and exits.
InstallBinary ==
  /\ agentUp /\ pc = "idle"
  /\ \/ InstallStep("agent") /\ UNCHANGED fileVars
     \/ AgentExit /\ End
  /\ UNCHANGED second

\* Run of the service's agent gets the lock, which the kernel released when the
\* last holder ended.
AgentRuns ==
  /\ second # "holds" /\ AgentStart /\ Start
  /\ UNCHANGED second

\* Run before it asks for the lock: it cleans the directory of the binary.
CleanBinaryDir ==
  /\ RemoveOldTemp
  /\ UNCHANGED <<step, exe, names, agentUp, replaced, told, installs, fileVars, faults>>

\* The service's agent does not get the lock: it ends, and systemd tries again.
AgentRefused == ~agentUp /\ second = "holds" /\ CleanBinaryDir /\ UNCHANGED second

SecondStarts == second = "none" /\ second' = "cleaned" /\ CleanBinaryDir

\* Fault: the temporary files go before the lock is asked for.
SecondLocksLate ==
  /\ second = "cleaned" /\ RemoveTemp
  /\ IF agentUp THEN second' = "none" /\ UNCHANGED pc
                ELSE second' = "holds" /\ pc' = "idle"
  /\ UNCHANGED <<value, path, onDisk, saved, writes, binaryVars, faults>>

\* run: flock does not wait. Without the lock, the process ends with an error;
\* with it, it removes the temporary files of the last holder.
SecondLocks ==
  /\ second = "cleaned"
  /\ IF agentUp THEN second' = "none" /\ UNCHANGED <<fileVars, faults>>
                ELSE second' = "holds" /\ Start
  /\ UNCHANGED binaryVars

\* fly update, and time.
FlyUpdate ==
  /\ InstallStep("fly") \/ Fly \/ Elapse
  /\ UNCHANGED <<fileVars, second>>

\* Each end of the agent ends its Write and releases the lock.
RestartByFly ==
  /\ RestartAgent /\ UNCHANGED second
  /\ IF agentUp THEN End ELSE UNCHANGED fileVars
CrashOfAgent == AgentCrash /\ Crash /\ UNCHANGED second
SecondEnds ==
  /\ second = "holds" /\ second' = "none"
  /\ End /\ UNCHANGED <<binaryVars, faults>>
LossOfPower == PowerLoss /\ BinaryPowerLoss /\ second' = "none"

Second == SecondStarts \/ SecondLocks \/ SecondEnds
DiskNext ==
  \/ WriteState \/ InstallBinary \/ AgentRuns \/ AgentRefused \/ Second
  \/ FlyUpdate \/ RestartByFly \/ CrashOfAgent \/ LossOfPower
DiskSpec == DiskInit /\ [][DiskNext]_diskVars
-----------------------------------------------------------------------------
\* "only one agent uses the state files" (lock.go): whoever starts, and whenever,
\* one agent at most has the lock, and the Write that it runs has its temporary
\* file until the rename. Without this, the RemoveTemp of the other one would
\* take the file, and the rename would fail with the state unsaved.
OneWriter ==
  /\ ~(agentUp /\ second = "holds")
  /\ pc \in {"write", "sync", "close", "rename"} => \E t \in temps : t.value = value
=============================================================================
