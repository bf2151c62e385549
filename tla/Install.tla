------------------------------- MODULE Install -------------------------------
(***************************************************************************)
(* The install of a binary: Download, Install, writeBinary and RemoveTemp of *)
(* internal/release, as the agent (updateBinary) and fly update (SelfUpdate) *)
(* use them, at the same time and in one directory, and the restart of the   *)
(* agent (internal/service, cmd/version.go).                                 *)
(*                                                                         *)
(* The file system is that of StateFile: a power loss takes data that was    *)
(* not synced, and names that no sync of the directory came after. Which     *)
(* release an installer chooses is in AgentCommands and AutoUpdate: here it  *)
(* is any.                                                                   *)
(***************************************************************************)
EXTENDS Naturals, Faults

CONSTANTS
  Releases,      \* the releases after the first, which is 0
  TempMaxAge,    \* tempMaxAge, in units of time
  DownloadLimit, \* updateTimeout and selfUpdateTimeout: they end the download
  WriteLimit,    \* a bound that the code does not have: the time from the end of
                 \* the download to the rename
  MaxInstalls    \* bound: the downloads that begin

ASSUME InstallAssumption ==
  /\ Releases \subseteq Nat \ {0}
  /\ {TempMaxAge, DownloadLimit, WriteLimit, MaxInstalls} \subseteq Nat
  \* The limits are 5 and 10 minutes and the age one hour: 50 minutes for the
  \* extraction and the sync.
  /\ DownloadLimit + WriteLimit <= TempMaxAge

Installers == {"agent", "fly"}

VARIABLES
  step,      \* where each installer is; "idle" outside of an install
  files,     \* the temporary files next to the binary
  exe,       \* the binary that the path names
  names,     \* the binaries that the path can name after a power loss
  agentUp,   \* whether the agent runs
  replaced,  \* whether the binary that it runs was replaced on the disk
  told,      \* whether the last fly update ended without an error, and the
             \* agent installed nothing after it
  installs

installVars == <<step, files, exe, names, agentUp, replaced, told, installs, faults>>

-----------------------------------------------------------------------------
First == [release |-> 0, whole |-> TRUE, good |-> TRUE, synced |-> TRUE]

InstallInit ==
  /\ step = [i \in Installers |-> "idle"] /\ files = {}
  /\ exe = First /\ names = {First}
  /\ agentUp = TRUE /\ replaced = FALSE /\ told = FALSE
  /\ installs = 0 /\ faults = 0

Goto(i, s) == step' = [step EXCEPT ![i] = s]

\* A temporary file. The owner is nobody when its process ended before it
\* could remove it.
File(i, kind, release, good) ==
  [owner |-> i, kind |-> kind, release |-> release, good |-> good,
   whole |-> FALSE, synced |-> FALSE, age |-> 0]
Mine(i, kind) == {f \in files : f.owner = i /\ f.kind = kind}
Others(i) == {f \in files : f.owner # i}
Change(f, g) == files' = (files \ {f}) \cup {g}

\* Download: a new file next to the binary gets what the server sends, which is
\* the release or not. The agent downloads while it runs.
BeginDownload(i) ==
  /\ step[i] = (IF i = "fly" THEN "download" ELSE "idle")
  /\ i = "agent" => agentUp
  /\ installs < MaxInstalls /\ installs' = installs + 1
  /\ \E r \in Releases, good \in BOOLEAN : files' = files \cup {File(i, "archive", r, good)}
  /\ Goto(i, "fetch")
  /\ UNCHANGED <<exe, names, agentUp, replaced, told, faults>>

\* Fault: an archive that is whole is taken for the release.
FetchUnchecked(i) ==
  /\ step[i] = "fetch"
  /\ \E f \in Mine(i, "archive") : Change(f, [f EXCEPT !.whole = TRUE])
  /\ Goto(i, "archive")
  /\ UNCHANGED <<exe, names, agentUp, replaced, told, installs, faults>>

\* The archive is there, and its sha256 is the one of the release.
Fetched(i) ==
  /\ step[i] = "fetch"
  /\ \E f \in Mine(i, "archive") : f.good /\ Change(f, [f EXCEPT !.whole = TRUE])
  /\ Goto(i, "archive")
  /\ UNCHANGED <<exe, names, agentUp, replaced, told, installs, faults>>

\* It has another sha256: Download removes it.
Refused(i) ==
  /\ step[i] = "fetch" /\ \E f \in Mine(i, "archive") : ~f.good
  /\ files' = Others(i) /\ Goto(i, "idle")
  /\ UNCHANGED <<exe, names, agentUp, replaced, told, installs, faults>>

\* Install and writeBinary: the binary comes out of the archive into a second
\* new file.
Extract(i) ==
  /\ step[i] = "archive"
  /\ \E f \in Mine(i, "archive") :
       files' = files \cup {[File(i, "binary", f.release, f.good) EXCEPT !.whole = TRUE]}
  /\ Goto(i, "sync")
  /\ UNCHANGED <<exe, names, agentUp, replaced, told, installs, faults>>

\* Chmod, keepOwner, Sync and Close of the new binary.
SyncBinary(i) ==
  /\ step[i] = "sync"
  /\ \E f \in Mine(i, "binary") : Change(f, [f EXCEPT !.synced = TRUE])
  /\ Goto(i, "rename")
  /\ UNCHANGED <<exe, names, agentUp, replaced, told, installs, faults>>

Binary(f) == [release |-> f.release, whole |-> f.whole, good |-> f.good, synced |-> f.synced]

\* os.Rename. The agent that runs has the old binary open.
RenameBinary(i) ==
  /\ step[i] = "rename"
  /\ \E f \in Mine(i, "binary") :
       /\ exe' = Binary(f) /\ names' = names \cup {Binary(f)}
       /\ files' = files \ {f}
  /\ replaced' = agentUp /\ told' = FALSE
  /\ Goto(i, "dirsync")
  /\ UNCHANGED <<agentUp, installs, faults>>

\* The directory is synced, or not: its error is ignored. The archive goes.
SyncBinaryDir(i) ==
  /\ step[i] = "dirsync"
  /\ \/ names' = {exe} /\ UNCHANGED faults
     \/ Fault /\ UNCHANGED names
  /\ files' = Others(i)
  /\ Goto(i, IF i = "fly" THEN "restart" ELSE "exit")
  /\ UNCHANGED <<exe, agentUp, replaced, told, installs>>

\* A call fails, or the time of the download is over: the files are removed and
\* the old binary stays.
InstallFails(i) ==
  /\ step[i] \in {"fetch", "archive", "sync", "rename"} /\ Fault
  /\ files' = Others(i) /\ Goto(i, "idle")
  /\ UNCHANGED <<exe, names, agentUp, replaced, told, installs>>
-----------------------------------------------------------------------------
\* updateCmd: the release is a newer one, or it is the one on the disk.
FlyNewer ==
  /\ step["fly"] = "idle" /\ Goto("fly", "download")
  /\ UNCHANGED <<files, exe, names, agentUp, replaced, told, installs, faults>>

\* Fault: fly update without a newer release does not look at the agent.
FlyLatestOnly ==
  /\ step["fly"] = "idle" /\ told' = TRUE
  /\ UNCHANGED <<step, files, exe, names, agentUp, replaced, installs, faults>>

\* Stale: the kernel shows the binary of the process as deleted. A process that
\* is not there gets the one on the disk.
Stale == agentUp /\ replaced

\* restartStaleAgent.
FlyLatest ==
  /\ step["fly"] = "idle"
  /\ IF Stale THEN Goto("fly", "restart") /\ UNCHANGED told
                            ELSE told' = TRUE /\ UNCHANGED step
  /\ UNCHANGED <<files, exe, names, agentUp, replaced, installs, faults>>

\* What a process leaves when it ends at any point.
Orphan(f) == [f EXCEPT !.owner = "nobody"]
Left(i) == {IF f.owner = i THEN Orphan(f) ELSE f : f \in files}

\* service.Restart: systemd stops the agent, also in the middle of an install,
\* and starts it. It may fail: then fly update ends with an error.
RestartAgent ==
  /\ step["fly"] = "restart"
  /\ IF agentUp
     THEN /\ agentUp' = FALSE /\ replaced' = FALSE /\ files' = Left("agent")
          /\ step' = [step EXCEPT !["fly"] = "idle", !["agent"] = "idle"]
     ELSE Goto("fly", "idle") /\ UNCHANGED <<agentUp, replaced, files>>
  /\ told' = TRUE
  /\ UNCHANGED <<exe, names, installs, faults>>

RestartFails ==
  /\ step["fly"] = "restart" /\ Fault /\ Goto("fly", "idle") /\ told' = FALSE
  /\ UNCHANGED <<files, exe, names, agentUp, replaced, installs>>

\* fly update is stopped: Ctrl-C in a download removes the file (InstallFails),
\* a kill does not.
FlyKilled ==
  /\ step["fly"] # "idle" /\ Fault
  /\ files' = Left("fly") /\ Goto("fly", "idle")
  /\ UNCHANGED <<exe, names, agentUp, replaced, told, installs>>

\* The agent ends after its install, or at any point.
AgentGone ==
  /\ agentUp' = FALSE /\ replaced' = FALSE
  /\ files' = Left("agent") /\ Goto("agent", "idle")
  /\ UNCHANGED <<exe, names, told, installs>>
AgentExit  == step["agent"] = "exit" /\ AgentGone /\ UNCHANGED faults
AgentCrash == agentUp /\ Fault /\ AgentGone

\* Fault: RemoveTemp takes each temporary file.
RemoveAllTemp == files' = {}

\* RemoveTemp: the temporary files that are older than tempMaxAge.
RemoveOldTemp == files' = {f \in files : f.age <= TempMaxAge}

\* systemd starts the binary on the disk; the agent cleans its directory.
AgentStart ==
  /\ ~agentUp /\ agentUp' = TRUE
  /\ RemoveOldTemp
  /\ UNCHANGED <<step, exe, names, replaced, told, installs, faults>>

BinaryPowerLoss ==
  /\ Fault
  /\ \E b \in names : exe' = [b EXCEPT !.whole = b.whole /\ b.synced]
  /\ names' = {exe'}
  /\ files' = {[Orphan(f) EXCEPT !.whole = f.whole /\ f.synced] : f \in files}
  /\ step' = [i \in Installers |-> "idle"]
  /\ agentUp' = FALSE /\ replaced' = FALSE /\ told' = FALSE
  /\ UNCHANGED installs

\* The context ends the download in time. What comes after it has no limit in
\* the code: its bound is an assumption on the disk.
AgeLimit(i) == IF step[i] = "fetch" THEN DownloadLimit ELSE DownloadLimit + WriteLimit

\* Time passes. The age of a file is that of its last change, which is at most
\* the time since it was made.
Elapse ==
  /\ files # {} /\ \A f \in files : f.owner # "nobody" => f.age < AgeLimit(f.owner)
  /\ files' = {[f EXCEPT !.age = IF f.age > TempMaxAge THEN f.age ELSE f.age + 1] : f \in files}
  /\ UNCHANGED <<step, exe, names, agentUp, replaced, told, installs, faults>>

InstallStep(i) ==
  \/ BeginDownload(i) \/ Fetched(i) \/ Refused(i) \/ Extract(i) \/ SyncBinary(i)
  \/ RenameBinary(i) \/ SyncBinaryDir(i) \/ InstallFails(i)
Fly == FlyNewer \/ FlyLatest \/ RestartFails \/ FlyKilled
-----------------------------------------------------------------------------
\* "exe is never incomplete" (download.go), and is what the sha256 of a release
\* covers: over two installers, each failing call, crashes and power losses.
ExeRuns == exe.whole /\ exe.good

\* An install keeps its files until it removes them, whoever starts and cleans
\* the directory at that time: the hour of RemoveTemp is enough for the limit of
\* the download and WriteLimit. The clock does not step meanwhile.
FilesKept ==
  \A i \in Installers :
    /\ step[i] \in {"fetch", "archive", "sync", "rename"} => Mine(i, "archive") # {}
    /\ step[i] \in {"sync", "rename"} => Mine(i, "binary") # {}

\* After a fly update that ended without an error, the agent does not go on with
\* a binary that was replaced: it runs the one on the disk, or will start it. An
\* install of its own after that ends its process, and is not meant.
UpdateTakesEffect == told /\ agentUp => ~replaced
=============================================================================
