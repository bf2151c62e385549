-------------------------- MODULE ServerDisk_proofs --------------------------
(***************************************************************************)
(* Proofs about the disk of a server, for two installers, a second agent,    *)
(* any number of installs and writes and any sequence of failed calls,       *)
(* crashes and power losses.                                                *)
(***************************************************************************)
EXTENDS ServerDisk, TLAPS

-----------------------------------------------------------------------------
(***************************************************************************)
(* The state file, whichever agent writes it.                               *)
(***************************************************************************)
\* The file on the disk is whole and synced, and not older than what Write
\* returned nil for; path names it or the last rename.
DiskInv ==
  /\ path.whole /\ path.synced
  /\ onDisk.whole /\ onDisk.synced
  /\ saved <= onDisk.value /\ onDisk.value <= path.value
  /\ path.value <= writes

\* The temporary file of a Write is the only one, and from its sync on it is
\* whole and synced.
TempInv ==
  /\ OneTemp
  /\ pc \in {"idle", "dirsync"} => temps = {}
  /\ pc = "write" => temps = {Temp}
  /\ pc = "sync" => temps = {Written}
  /\ pc \in {"close", "rename"} => temps = {Synced}
  /\ pc \in {"write", "sync", "close", "rename"} => path.value < value
  /\ pc = "dirsync" => path.value = value
  /\ value <= writes
  /\ pc \notin {"down", "idle"} => value = writes /\ value # 0

FileInv == TypeOK /\ DiskInv /\ TempInv

LEMMA CallKeeps == FileInv /\ Next => FileInv'
<1> SUFFICES ASSUME FileInv, Next PROVE FileInv'
  OBVIOUS
<1> USE DEF FileInv, TypeOK, DiskInv, TempInv, OneTemp, Content, Temp, Written, Synced
<1>1. CASE Create
  <2>1. temps = {}
    BY <1>1 DEF Create
  <2>2. temps' = {[value |-> value', whole |-> FALSE, synced |-> FALSE]} /\ value' = writes + 1
    BY <1>1, <2>1 DEF Create
  <2>3. TypeOK' /\ DiskInv'
    <3>1. temps' \subseteq Content /\ value' \in Nat /\ writes' \in Nat
      <4>1. writes' = writes + 1 /\ writes \in Nat
        BY <1>1 DEF Create
      <4>2. value' \in Nat /\ writes' \in Nat
        BY <4>1, <2>2
      <4>3. [value |-> value', whole |-> FALSE, synced |-> FALSE] \in Content
        BY <4>2
      <4>4. QED
        BY <4>2, <4>3, <2>2
    <3>2. UNCHANGED <<path, onDisk, saved, faults>> /\ writes' = writes + 1 /\ pc' = "write"
      BY <1>1 DEF Create
    <3>3. TypeOK'
      BY <3>1, <3>2
    <3>4. DiskInv'
      BY <3>2
    <3>5. QED
      BY <3>3, <3>4
  <2>4. TempInv'
    <3>1. /\ pc' = "write" /\ value' = writes' /\ writes' = writes + 1 /\ UNCHANGED path
      BY <1>1 DEF Create
    <3>2. temps' = {Temp'} /\ OneTemp'
      BY <2>2
    <3>3. path'.value < value' /\ value' # 0
      BY <3>1
    <3>4. value' <= writes'
      BY <3>1
    <3> HIDE DEF Temp, OneTemp
    <3>5. QED
      BY <3>1, <3>2, <3>3, <3>4
  <2>5. QED
    BY <2>3, <2>4
<1>2. CASE WriteTemp
  BY <1>2 DEF WriteTemp
<1>3. CASE SyncTemp
  BY <1>3 DEF SyncTemp
<1>4. CASE CloseTemp
  BY <1>4 DEF CloseTemp
<1>5. CASE Rename
  <2>1. path' = Synced /\ temps' = {}
    BY <1>5 DEF Rename
  <2>2. TypeOK'
    BY <1>5, <2>1 DEF Rename
  <2>3. DiskInv' /\ TempInv'
    BY <1>5, <2>1 DEF Rename
  <2>4. QED
    BY <2>2, <2>3
<1>6. CASE SyncDir
  BY <1>6 DEF SyncDir
<1>7. CASE FailBefore
  <2>1. temps \in {{Temp}, {Written}, {Synced}}
    BY <1>7 DEF FailBefore
  <2>2. temps' = {}
    <3>1. Temp.value = value /\ Written.value = value /\ Synced.value = value
      OBVIOUS
    <3>2. \A t \in temps : t.value = value
      <4> HIDE DEF Temp, Written, Synced
      <4>1. QED
        BY <2>1, <3>1
    <3>3. temps' = {t \in temps : t.value # value}
      BY <1>7 DEF FailBefore
    <3>4. QED
      BY ONLY <3>2, <3>3
  <2>3. QED
    BY <1>7, <2>2 DEF FailBefore, Fault
<1>8. CASE FailAfter
  BY <1>8 DEF FailAfter, Fault
<1>9. CASE Crash
  BY <1>9 DEF Crash, End, Fault
<1>10. CASE PowerLoss
  BY <1>10 DEF PowerLoss, AfterPowerLoss, Fault
<1>11. CASE Start
  BY <1>11 DEF Start, RemoveTemp
<1>12. QED
  BY <1>1, <1>2, <1>3, <1>4, <1>5, <1>6, <1>7, <1>8, <1>9, <1>10, <1>11 DEF Next

\* What the processes of the server do to the state file: a call of Write, the
\* end of its process, or nothing.
LEMMA FileCalls ==
  [DiskNext]_diskVars =>
    \/ Next
    \/ /\ End \/ UNCHANGED fileVars
       /\ faults' \in {faults, faults + 1}
<1> SUFFICES ASSUME [DiskNext]_diskVars
             PROVE  \/ Next
                    \/ /\ End \/ UNCHANGED fileVars
                       /\ faults' \in {faults, faults + 1}
  OBVIOUS
<1>1. \A i \in Installers : InstallStep(i) => faults' \in {faults, faults + 1}
  BY DEF InstallStep, BeginDownload, Fetched, Refused, Extract, SyncBinary, RenameBinary,
         SyncBinaryDir, InstallFails, Fault
<1>2. CASE WriteState
  BY <1>2 DEF WriteState, Next
<1>3. CASE InstallBinary
  BY <1>1, <1>3 DEF InstallBinary, Installers, AgentExit
<1>4. CASE AgentRuns \/ SecondLocks
  BY <1>4 DEF AgentRuns, SecondLocks, Next
<1>5. CASE AgentRefused \/ SecondStarts
  BY <1>5 DEF AgentRefused, SecondStarts, CleanBinaryDir
<1>6. CASE SecondEnds
  BY <1>6 DEF SecondEnds
<1>7. CASE FlyUpdate
  <2>1. Fly \/ Elapse => faults' \in {faults, faults + 1}
    BY DEF Fly, FlyNewer, FlyLatest, RestartFails, FlyKilled, Elapse, Fault
  <2>2. QED
    BY <1>1, <1>7, <2>1 DEF FlyUpdate, Installers
<1>8. CASE RestartByFly
  BY <1>8 DEF RestartByFly, RestartAgent
<1>9. CASE CrashOfAgent \/ LossOfPower
  BY <1>9 DEF CrashOfAgent, LossOfPower, Next
<1>10. CASE UNCHANGED diskVars
  BY <1>10 DEF diskVars, vars, fileVars
<1>11. QED
  BY <1>2, <1>3, <1>4, <1>5, <1>6, <1>7, <1>8, <1>9, <1>10 DEF DiskNext, Second

LEMMA FileStep == FileInv /\ [DiskNext]_diskVars => FileInv'
<1> SUFFICES ASSUME FileInv, [DiskNext]_diskVars PROVE FileInv'
  OBVIOUS
<1>1. CASE (End \/ UNCHANGED fileVars) /\ faults' \in {faults, faults + 1}
  <2>1. UNCHANGED <<value, temps, path, onDisk, saved, writes>> /\ pc' \in {pc, "down"} /\ faults' \in Nat
    BY <1>1 DEF End, fileVars, FileInv, TypeOK
  <2>2. QED
    BY <2>1 DEF FileInv, TypeOK, DiskInv, TempInv, OneTemp, Temp, Written, Synced, Content
<1>2. QED
  BY <1>1, CallKeeps, FileCalls

LEMMA FileInvariant == DiskSpec => []FileInv
<1>1. DiskInit => FileInv
  BY DEF DiskInit, Init, FileInv, TypeOK, DiskInv, TempInv, OneTemp, Content
<1>2. QED
  BY <1>1, FileStep, PTL DEF DiskSpec

\* No crash and no power loss leaves a part of a value in the file.
THEOREM FileIsComplete == DiskSpec => []AlwaysComplete
<1>1. FileInv => AlwaysComplete
  BY DEF FileInv, DiskInv, AlwaysComplete
<1>2. QED
  BY <1>1, FileInvariant, PTL

\* What Write returned nil for survives each power loss.
THEOREM SavedIsDurable == DiskSpec => []SavedSurvives
<1>1. FileInv => SavedSurvives
  BY DEF FileInv, TypeOK, DiskInv, SavedSurvives, Content
<1>2. QED
  BY <1>1, FileInvariant, PTL

\* A crash leaves one temporary file at most, and the next process removes it:
\* crashes in a row do not fill the directory (Write and RemoveTemp).
THEOREM OneTempFile == DiskSpec => []OneTemp
<1>1. FileInv => OneTemp
  BY DEF FileInv, TempInv
<1>2. QED
  BY <1>1, FileInvariant, PTL

\* Each step of Write is one of the file that changes in one step, or none.
THEOREM Refinement == DiskSpec => ImplementsAtomicFile
<1>1. DiskInit => Atomic!Init
  BY DEF DiskInit, Init, Atomic!Init
<1>2. FileInv /\ FileInv' /\ [DiskNext]_diskVars => [Atomic!Next]_(Atomic!vars)
  <2> SUFFICES ASSUME FileInv, FileInv', [DiskNext]_diskVars
               PROVE  [Atomic!Next]_(Atomic!vars)
    OBVIOUS
  <2> USE DEF FileInv, TypeOK, DiskInv, TempInv, Content, Temp, Written, Synced, Atomic!vars
  <2>1. CASE Create
    BY <2>1 DEF Create, Atomic!Next, Atomic!Begin
  <2>2. CASE WriteTemp \/ SyncTemp \/ CloseTemp
    BY <2>2 DEF WriteTemp, SyncTemp, CloseTemp
  <2>3. CASE Rename
    BY <2>3 DEF Rename, Atomic!Next, Atomic!Replace
  <2>4. CASE SyncDir
    BY <2>4 DEF SyncDir, Atomic!Next, Atomic!Return
  <2>5. CASE FailBefore
    BY <2>5 DEF FailBefore, Atomic!Next, Atomic!Fail
  <2>6. CASE FailAfter
    BY <2>6 DEF FailAfter, Atomic!Next, Atomic!Fail
  <2>7. CASE Crash
    BY <2>7 DEF Crash, End, Atomic!Next, Atomic!Crash
  <2>8. CASE PowerLoss
    BY <2>8 DEF PowerLoss, AfterPowerLoss, Atomic!Next, Atomic!Crash
  <2>9. CASE End
    BY <2>9 DEF End, Atomic!Next, Atomic!Crash
  <2>10. CASE Start
    BY <2>10 DEF Start
  <2>11. CASE UNCHANGED fileVars
    BY <2>11 DEF fileVars
  <2>12. QED
    BY <2>1, <2>2, <2>3, <2>4, <2>5, <2>6, <2>7, <2>8, <2>9, <2>10, <2>11, FileCalls DEF Next
<1>3. QED
  BY <1>1, <1>2, FileInvariant, PTL DEF DiskSpec, ImplementsAtomicFile, Atomic!Spec

-----------------------------------------------------------------------------
(***************************************************************************)
(* The binary.                                                              *)
(***************************************************************************)
Steps == {"idle", "download", "fetch", "archive", "sync", "rename", "dirsync", "restart", "exit"}
Busy  == {"fetch", "archive", "sync", "rename", "dirsync"}

FileType == [owner : Installers \cup {"nobody"}, kind : {"archive", "binary"}, release : Nat,
             good : BOOLEAN, whole : BOOLEAN, synced : BOOLEAN, age : Nat]
BinaryType == [release : Nat, whole : BOOLEAN, good : BOOLEAN, synced : BOOLEAN]

\* The variables of Install have their types.
InstallTypeOK ==
  /\ step \in [Installers -> Steps] /\ files \subseteq FileType
  /\ exe \in BinaryType /\ names \subseteq BinaryType
  /\ {agentUp, replaced, told} \subseteq BOOLEAN

\* The age that a file of an install can reach.
InstallLimit == DownloadLimit + WriteLimit

\* A file of an installer that runs: young, and from the check of its sha256 on
\* good; the binary is whole, and synced before its rename.
Sound(f) ==
  /\ f.age <= InstallLimit /\ step[f.owner] \in Busy
  /\ f.kind = "archive" /\ step[f.owner] # "fetch" => f.good
  /\ f.kind = "binary" => step[f.owner] \in {"sync", "rename", "dirsync"} /\ f.whole /\ f.good
  /\ f.kind = "binary" /\ step[f.owner] = "rename" => f.synced
Live(f) == f.owner \in Installers
FilesInv == \A f \in files : Live(f) => Sound(f)

\* An installer has one file of each kind.
OneFile == \A f, g \in files : Live(f) /\ f.owner = g.owner /\ f.kind = g.kind => f = g

\* Each name that a power loss can leave is that of a binary on the disk.
NamesInv == exe \in names /\ \A b \in names : b.whole /\ b.good /\ b.synced

\* An agent that does not run has no old binary.
ProcessInv == UpdateTakesEffect /\ (~agentUp => ~replaced)

BinaryInv == InstallTypeOK /\ FilesInv /\ OneFile /\ FilesKept /\ NamesInv /\ ProcessInv

LEMMA InstallInitial == DiskInit => BinaryInv
<1> SUFFICES ASSUME DiskInit PROVE BinaryInv
  OBVIOUS
<1>1. step = [i \in Installers |-> "idle"] /\ files = {} /\ exe = First /\ names = {First}
      /\ agentUp = TRUE /\ replaced = FALSE /\ told = FALSE
  BY DEF DiskInit, InstallInit
<1>2. InstallTypeOK
  <2>1. step \in [Installers -> Steps] /\ files \subseteq FileType
    BY <1>1 DEF Steps, Installers
  <2>2. First \in BinaryType
    BY DEF BinaryType, First
  <2>3. exe \in BinaryType /\ names \subseteq BinaryType
    BY <1>1, <2>2
  <2>4. {agentUp, replaced, told} \subseteq BOOLEAN
    BY <1>1
  <2>5. QED
    BY <2>1, <2>3, <2>4 DEF InstallTypeOK
<1>3. FilesInv /\ OneFile /\ FilesKept
  BY <1>1 DEF FilesInv, OneFile, FilesKept, Installers
<1>4. NamesInv /\ ProcessInv
  BY <1>1 DEF NamesInv, ProcessInv, UpdateTakesEffect, First
<1>5. QED
  BY <1>2, <1>3, <1>4 DEF BinaryInv

\* A step of an installer.
LEMMA InstallerKeeps ==
  ASSUME BinaryInv, NEW i \in Installers, InstallStep(i) PROVE BinaryInv'
<1> USE DEF BinaryInv, InstallTypeOK, Goto, Steps, Installers
<1>1. CASE BeginDownload(i)
  <2>1. PICK r \in Releases, good \in BOOLEAN : files' = files \cup {File(i, "archive", r, good)}
    BY <1>1 DEF BeginDownload
  <2>2. /\ step[i] \in {"idle", "download"} /\ step' = [step EXCEPT ![i] = "fetch"]
        /\ UNCHANGED <<exe, names, agentUp, replaced, told>>
    BY <1>1 DEF BeginDownload
  <2>3. \A f \in files : f.owner # i
    BY <2>2 DEF FilesInv, Sound, Live, Busy
  <2> DEFINE new == File(i, "archive", r, good)
  <2>4. /\ new \in FileType /\ new.owner = i /\ new.kind = "archive" /\ new.age = 0
    BY InstallAssumption DEF File, FileType
  <2> HIDE DEF new
  <2>5. files' = files \cup {new}
    BY <2>1 DEF new
  <2>6. InstallTypeOK'
    BY <2>2, <2>4, <2>5
  <2>7. FilesInv'
    BY <2>2, <2>3, <2>4, <2>5, InstallAssumption DEF FilesInv, Sound, Live, Busy, InstallLimit
  <2>8. OneFile'
    BY <2>3, <2>4, <2>5 DEF OneFile, Live
  <2>9. FilesKept'
    BY <2>2, <2>4, <2>5 DEF FilesKept, Mine
  <2>10. NamesInv' /\ ProcessInv'
    BY <2>2 DEF NamesInv, ProcessInv, UpdateTakesEffect
  <2>11. QED
    BY <2>6, <2>7, <2>8, <2>9, <2>10
<1>2. CASE Fetched(i)
  <2>1. PICK f \in Mine(i, "archive") : f.good /\ files' = (files \ {f}) \cup {[f EXCEPT !.whole = TRUE]}
    BY <1>2 DEF Fetched, Change
  <2>2. /\ step[i] = "fetch" /\ step' = [step EXCEPT ![i] = "archive"]
        /\ UNCHANGED <<exe, names, agentUp, replaced, told>>
    BY <1>2 DEF Fetched
  <2> DEFINE new == [f EXCEPT !.whole = TRUE]
  <2>3. f \in files /\ f \in FileType /\ f.owner = i /\ f.kind = "archive" /\ f.good /\ f.age <= InstallLimit
    BY <2>1 DEF Mine, FilesInv, Live, Sound
  <2>4. /\ new \in FileType /\ new.owner = i /\ new.kind = "archive"
        /\ new.good /\ new.age <= InstallLimit
    BY <2>3 DEF FileType
  <2>5. files' = (files \ {f}) \cup {new}
    BY <2>1
  <2> HIDE DEF new
  <2>6. \A g \in files : g.owner = i => g = f
    BY <2>2, <2>3 DEF FilesInv, OneFile, Live, Sound, FileType
  <2>7. InstallTypeOK'
    BY <2>2, <2>4, <2>5
  <2>8. FilesInv'
    BY <2>2, <2>4, <2>5, <2>6 DEF FilesInv, Sound, Live, Busy
  <2>9. OneFile'
    BY <2>4, <2>5, <2>6 DEF OneFile, Live
  <2>10. FilesKept'
    BY <2>2, <2>3, <2>4, <2>5 DEF FilesKept, Mine
  <2>11. NamesInv' /\ ProcessInv'
    BY <2>2 DEF NamesInv, ProcessInv, UpdateTakesEffect
  <2>12. QED
    BY <2>7, <2>8, <2>9, <2>10, <2>11
<1>3. CASE Extract(i)
  <2>1. PICK f \in Mine(i, "archive") :
          files' = files \cup {[File(i, "binary", f.release, f.good) EXCEPT !.whole = TRUE]}
    BY <1>3 DEF Extract
  <2>2. /\ step[i] = "archive" /\ step' = [step EXCEPT ![i] = "sync"]
        /\ UNCHANGED <<exe, names, agentUp, replaced, told>>
    BY <1>3 DEF Extract
  <2> DEFINE new == [File(i, "binary", f.release, f.good) EXCEPT !.whole = TRUE]
  <2>3. f \in FileType /\ f \in files /\ f.owner = i /\ f.kind = "archive" /\ f.good
    BY <2>1, <2>2 DEF Mine, FilesInv, Live, Sound
  <2>4. /\ new \in FileType /\ new.owner = i /\ new.kind = "binary"
        /\ new.whole /\ new.good /\ new.age = 0
    BY <2>3 DEF File, FileType
  <2>5. files' = files \cup {new}
    BY <2>1
  <2> HIDE DEF new
  <2>6. \A g \in files : g.owner = i => g.kind = "archive"
    BY <2>2 DEF FilesInv, Live, Sound, FileType
  <2>7. InstallTypeOK'
    BY <2>2, <2>4, <2>5
  <2>8. FilesInv'
    BY <2>2, <2>4, <2>5, <2>6, InstallAssumption DEF FilesInv, Sound, Live, Busy, InstallLimit
  <2>9. OneFile'
    BY <2>4, <2>5, <2>6 DEF OneFile, Live
  <2>10. FilesKept'
    BY <2>2, <2>3, <2>4, <2>5 DEF FilesKept, Mine
  <2>11. NamesInv' /\ ProcessInv'
    BY <2>2 DEF NamesInv, ProcessInv, UpdateTakesEffect
  <2>12. QED
    BY <2>7, <2>8, <2>9, <2>10, <2>11
<1>4. CASE SyncBinary(i)
  <2>1. PICK f \in Mine(i, "binary") : files' = (files \ {f}) \cup {[f EXCEPT !.synced = TRUE]}
    BY <1>4 DEF SyncBinary, Change
  <2>2. /\ step[i] = "sync" /\ step' = [step EXCEPT ![i] = "rename"]
        /\ UNCHANGED <<exe, names, agentUp, replaced, told>>
    BY <1>4 DEF SyncBinary
  <2> DEFINE new == [f EXCEPT !.synced = TRUE]
  <2>3. /\ f \in files /\ f \in FileType /\ f.owner = i /\ f.kind = "binary"
        /\ f.good /\ f.whole /\ f.age <= InstallLimit
    BY <2>1 DEF Mine, FilesInv, Live, Sound
  <2>4. /\ new \in FileType /\ new.owner = i /\ new.kind = "binary"
        /\ new.good /\ new.whole /\ new.synced /\ new.age <= InstallLimit
    BY <2>3 DEF FileType
  <2>5. files' = (files \ {f}) \cup {new}
    BY <2>1
  <2> HIDE DEF new
  <2>6. \A g \in files : g.owner = i /\ g.kind = "binary" => g = f
    BY <2>3 DEF OneFile, Live
  <2>7. InstallTypeOK'
    BY <2>2, <2>4, <2>5
  <2>8. FilesInv'
    BY <2>2, <2>4, <2>5, <2>6 DEF FilesInv, Sound, Live, Busy
  <2>9. OneFile'
    BY <2>4, <2>5, <2>6 DEF OneFile, Live
  <2>10. FilesKept'
    BY <2>2, <2>3, <2>4, <2>5 DEF FilesKept, Mine
  <2>11. NamesInv' /\ ProcessInv'
    BY <2>2 DEF NamesInv, ProcessInv, UpdateTakesEffect
  <2>12. QED
    BY <2>7, <2>8, <2>9, <2>10, <2>11
<1>5. CASE RenameBinary(i)
  <2>1. PICK f \in Mine(i, "binary") :
          /\ exe' = Binary(f) /\ names' = names \cup {Binary(f)} /\ files' = files \ {f}
    BY <1>5 DEF RenameBinary
  <2>2. /\ step[i] = "rename" /\ step' = [step EXCEPT ![i] = "dirsync"]
        /\ replaced' = agentUp /\ told' = FALSE /\ UNCHANGED agentUp
    BY <1>5 DEF RenameBinary
  <2>3. /\ f \in files /\ f \in FileType /\ f.owner = i /\ f.kind = "binary"
        /\ f.good /\ f.whole /\ f.synced
    BY <2>1, <2>2 DEF Mine, FilesInv, Live, Sound
  <2>4. Binary(f) \in BinaryType /\ Binary(f).whole /\ Binary(f).good /\ Binary(f).synced
    BY <2>3 DEF Binary, BinaryType, FileType
  <2>5. InstallTypeOK'
    BY <2>1, <2>2, <2>4
  <2>6. FilesInv' /\ OneFile'
    BY <2>1, <2>2 DEF FilesInv, Sound, Live, Busy, OneFile
  <2>7. FilesKept'
    BY <2>1, <2>2, <2>3 DEF FilesKept, Mine
  <2>8. NamesInv' /\ ProcessInv'
    BY <2>1, <2>2, <2>4 DEF NamesInv, ProcessInv, UpdateTakesEffect
  <2>9. QED
    BY <2>5, <2>6, <2>7, <2>8
<1>6. CASE Refused(i) \/ InstallFails(i) \/ SyncBinaryDir(i)
  <2>1. PICK next \in {"idle", "restart", "exit"} : step' = [step EXCEPT ![i] = next]
    BY <1>6 DEF Refused, InstallFails, SyncBinaryDir
  <2>2. /\ files' = Others(i) /\ names' \in {names, {exe}}
        /\ UNCHANGED <<exe, agentUp, replaced, told>>
    BY <1>6 DEF Refused, InstallFails, SyncBinaryDir
  <2>3. \A f \in files' : f \in files /\ f.owner # i
    BY <2>2 DEF Others
  <2>4. InstallTypeOK'
    BY <2>1, <2>2, <2>3
  <2>5. FilesInv' /\ OneFile'
    BY <2>1, <2>3 DEF FilesInv, Sound, Live, Busy, OneFile
  <2>6. FilesKept'
    BY <2>1, <2>2 DEF FilesKept, Mine, Others
  <2>7. NamesInv' /\ ProcessInv'
    BY <2>2 DEF NamesInv, ProcessInv, UpdateTakesEffect
  <2>8. QED
    BY <2>4, <2>5, <2>6, <2>7
<1>7. QED
  BY <1>1, <1>2, <1>3, <1>4, <1>5, <1>6 DEF InstallStep

\* A process that ends leaves its files to nobody.
LEMMA EndKeeps ==
  ASSUME BinaryInv, NEW i \in Installers,
         files' = Left(i), step' = [step EXCEPT ![i] = "idle"], UNCHANGED <<exe, names>>
  PROVE  /\ step' \in [Installers -> Steps] /\ files' \subseteq FileType
         /\ FilesInv' /\ OneFile' /\ FilesKept' /\ NamesInv'
<1> USE DEF BinaryInv, InstallTypeOK
<1>1. \A f \in files' : f \in FileType /\ (Live(f) => f \in files /\ f.owner # i)
  BY DEF Left, Orphan, FileType, Live, Installers
<1>2. \A f \in files : f.owner # i => f \in files'
  BY DEF Left
<1>3. step' \in [Installers -> Steps] /\ files' \subseteq FileType
  BY <1>1 DEF Steps
<1>4. FilesInv'
  BY <1>1 DEF FilesInv, Sound, Live
<1>5. OneFile'
  <2> SUFFICES ASSUME NEW f \in files', NEW g \in files', Live(f), f.owner = g.owner, f.kind = g.kind
               PROVE  f = g
    BY DEF OneFile, Live
  <2>1. Live(g) /\ f \in files /\ g \in files
    BY <1>1 DEF Live
  <2>2. QED
    BY <2>1 DEF OneFile
<1>6. FilesKept'
  BY <1>2 DEF FilesKept, Mine, Installers
<1>7. QED
  BY <1>3, <1>4, <1>5, <1>6 DEF NamesInv

\* RemoveTemp takes no file of an installer that runs: they are young.
LEMMA CleanKeeps ==
  ASSUME BinaryInv, RemoveOldTemp, UNCHANGED <<step, exe, names, replaced, told>>, agentUp' \in BOOLEAN,
         agentUp' # agentUp => agentUp'
  PROVE  BinaryInv'
<1> USE DEF BinaryInv, InstallTypeOK
<1>1. files' = {f \in files : f.age <= TempMaxAge}
  BY DEF RemoveOldTemp
<1>2. \A f \in files : Live(f) => f \in files'
  <2> SUFFICES ASSUME NEW f \in files, Live(f) PROVE f.age <= TempMaxAge
    BY <1>1
  <2>1. f.age \in Nat /\ f.age <= InstallLimit
    BY DEF FilesInv, Sound, FileType
  <2>2. QED
    BY <2>1, InstallAssumption DEF InstallLimit
<1>3. InstallTypeOK' /\ FilesInv' /\ OneFile'
  BY <1>1 DEF FilesInv, Sound, Live, OneFile
<1>4. FilesKept'
  BY <1>1, <1>2 DEF FilesKept, Mine, Live
<1>5. NamesInv' /\ ProcessInv'
  BY DEF NamesInv, ProcessInv, UpdateTakesEffect
<1>6. QED
  BY <1>3, <1>4, <1>5

\* The other steps of the two processes.
LEMMA ProcessKeeps ==
  ASSUME BinaryInv, Fly \/ RestartAgent \/ AgentExit \/ AgentStart \/ AgentCrash PROVE BinaryInv'
<1> USE DEF BinaryInv, InstallTypeOK, Goto, Steps, Installers
<1>1. CASE FlyNewer \/ FlyLatest \/ RestartFails
  <2>1. PICK next \in {"idle", "download", "restart"} :
          step["fly"] \in {"idle", "restart"} /\ step' = [step EXCEPT !["fly"] = next]
    BY <1>1 DEF FlyNewer, FlyLatest, RestartFails
  <2>2. UNCHANGED <<files, exe, names, agentUp, replaced>> /\ told' \in BOOLEAN
    BY <1>1 DEF FlyNewer, FlyLatest, RestartFails
  <2>3. told' => told \/ ~Stale
    BY <1>1 DEF FlyNewer, FlyLatest, RestartFails
  <2>4. InstallTypeOK'
    BY <2>1, <2>2
  <2>5. FilesInv' /\ OneFile'
    BY <2>1, <2>2 DEF FilesInv, Sound, Live, Busy, OneFile
  <2>6. FilesKept'
    BY <2>1, <2>2 DEF FilesKept, Mine
  <2>7. NamesInv' /\ ProcessInv'
    BY <2>2, <2>3 DEF NamesInv, ProcessInv, UpdateTakesEffect, Stale
  <2>8. QED
    BY <2>4, <2>5, <2>6, <2>7
<1>2. CASE FlyKilled
  <2>1. /\ files' = Left("fly") /\ step' = [step EXCEPT !["fly"] = "idle"]
        /\ UNCHANGED <<exe, names, agentUp, replaced, told>>
    BY <1>2 DEF FlyKilled
  <2>2. QED
    BY <2>1, EndKeeps DEF ProcessInv, UpdateTakesEffect
<1>3. CASE AgentExit \/ AgentCrash
  <2>1. /\ files' = Left("agent") /\ step' = [step EXCEPT !["agent"] = "idle"]
        /\ agentUp' = FALSE /\ replaced' = FALSE /\ UNCHANGED <<exe, names, told>>
    BY <1>3 DEF AgentExit, AgentCrash, AgentGone
  <2>2. QED
    BY <2>1, EndKeeps DEF ProcessInv, UpdateTakesEffect
<1>4. CASE AgentStart
  <2>1. /\ RemoveOldTemp /\ agentUp' = TRUE
        /\ UNCHANGED <<step, exe, names, replaced, told>>
    BY <1>4 DEF AgentStart
  <2>2. QED
    BY <2>1, CleanKeeps
<1>5. CASE RestartAgent
  <2>1. CASE agentUp
    <3>1. /\ step["fly"] = "restart" /\ files' = Left("agent")
          /\ step' = [step EXCEPT !["fly"] = "idle", !["agent"] = "idle"]
          /\ agentUp' = FALSE /\ replaced' = FALSE /\ told' = TRUE /\ UNCHANGED <<exe, names>>
      BY <1>5, <2>1 DEF RestartAgent
    <3>2. \A f \in files' : f \in FileType /\ (Live(f) => f \in files /\ f.owner \notin {"agent", "fly"})
      BY <3>1 DEF Left, Orphan, FileType, Live, FilesInv, Sound, Busy
    <3>3. InstallTypeOK'
      BY <3>1, <3>2
    <3>4. FilesInv' /\ OneFile'
      <4>1. \A f \in files' : ~Live(f)
        BY <3>2 DEF Live
      <4>2. QED
        BY <4>1 DEF FilesInv, OneFile, Live
    <3>5. FilesKept'
      BY <3>1 DEF FilesKept
    <3>6. NamesInv' /\ ProcessInv'
      BY <3>1 DEF NamesInv, ProcessInv, UpdateTakesEffect
    <3>7. QED
      BY <3>3, <3>4, <3>5, <3>6
  <2>2. CASE ~agentUp
    <3>1. /\ step["fly"] = "restart" /\ step' = [step EXCEPT !["fly"] = "idle"]
          /\ told' = TRUE /\ UNCHANGED <<files, exe, names, agentUp, replaced>>
      BY <1>5, <2>2 DEF RestartAgent
    <3>2. InstallTypeOK'
      BY <3>1
    <3>3. FilesInv' /\ OneFile'
      BY <3>1 DEF FilesInv, Sound, Live, Busy, OneFile
    <3>4. FilesKept'
      BY <3>1 DEF FilesKept, Mine
    <3>5. NamesInv' /\ ProcessInv'
      BY <2>2, <3>1 DEF NamesInv, ProcessInv, UpdateTakesEffect
    <3>6. QED
      BY <3>2, <3>3, <3>4, <3>5
  <2>3. QED
    BY <2>1, <2>2
<1>6. QED
  BY <1>1, <1>2, <1>3, <1>4, <1>5 DEF Fly

\* A power loss: each name is that of a synced binary, and nobody installs.
LEMMA PowerLossKeeps ==
  ASSUME BinaryInv, BinaryPowerLoss PROVE BinaryInv'
<1> USE DEF BinaryInv, InstallTypeOK, Steps, Installers
<1>1. PICK b \in names : exe' = [b EXCEPT !.whole = b.whole /\ b.synced]
  BY DEF BinaryPowerLoss
<1>2. /\ names' = {exe'} /\ step' = [i \in Installers |-> "idle"]
      /\ files' = {[Orphan(f) EXCEPT !.whole = f.whole /\ f.synced] : f \in files}
      /\ agentUp' = FALSE /\ replaced' = FALSE /\ told' = FALSE
  BY DEF BinaryPowerLoss
<1>3. exe' \in BinaryType /\ exe'.whole /\ exe'.good /\ exe'.synced
  BY <1>1 DEF NamesInv, BinaryType
<1>4. \A f \in files' : f \in FileType /\ ~Live(f)
  BY <1>2 DEF Orphan, FileType, Live
<1>5. InstallTypeOK'
  BY <1>2, <1>3, <1>4
<1>6. FilesInv' /\ OneFile' /\ FilesKept'
  BY <1>2, <1>4 DEF FilesInv, OneFile, FilesKept, Live
<1>7. NamesInv' /\ ProcessInv'
  BY <1>2, <1>3 DEF NamesInv, ProcessInv, UpdateTakesEffect
<1>8. QED
  BY <1>5, <1>6, <1>7

\* Time passes: the limit of an install keeps its files young.
LEMMA ElapseKeeps ==
  ASSUME BinaryInv, Elapse PROVE BinaryInv'
<1> USE DEF BinaryInv, InstallTypeOK
<1> DEFINE Older(f) == [f EXCEPT !.age = IF f.age > TempMaxAge THEN f.age ELSE f.age + 1]
<1>1. /\ files' = {Older(f) : f \in files} /\ \A f \in files : f.owner # "nobody" => f.age < AgeLimit(f.owner)
      /\ UNCHANGED <<step, exe, names, agentUp, replaced, told>>
  BY DEF Elapse
<1>2. ASSUME NEW f \in files
      PROVE  /\ Older(f) \in FileType /\ Older(f).owner = f.owner /\ Older(f).kind = f.kind
             /\ Older(f).good = f.good /\ Older(f).whole = f.whole /\ Older(f).synced = f.synced
             /\ Live(f) => Older(f).age <= InstallLimit
  <2>1. f \in FileType
    OBVIOUS
  <2>2. Live(f) => f.age < AgeLimit(f.owner)
    BY <1>1 DEF Live, Installers
  <2>3. Live(f) => f.age < InstallLimit
    BY <2>1, <2>2, InstallAssumption DEF AgeLimit, InstallLimit, FileType
  <2>4. QED
    BY <2>1, <2>3, InstallAssumption DEF FileType, InstallLimit
<1> HIDE DEF Older
<1>3. InstallTypeOK'
  BY <1>1, <1>2
<1>4. FilesInv'
  BY <1>1, <1>2 DEF FilesInv, Sound, Live
<1>5. OneFile'
  BY <1>1, <1>2 DEF OneFile, Live
<1>6. FilesKept'
  BY <1>1, <1>2 DEF FilesKept, Mine
<1>7. NamesInv' /\ ProcessInv'
  BY <1>1 DEF NamesInv, ProcessInv, UpdateTakesEffect
<1>8. QED
  BY <1>3, <1>4, <1>5, <1>6, <1>7

LEMMA DiskStep == BinaryInv /\ [DiskNext]_diskVars => BinaryInv'
<1> SUFFICES ASSUME BinaryInv, [DiskNext]_diskVars PROVE BinaryInv'
  OBVIOUS
<1>1. CASE UNCHANGED binaryVars
  BY <1>1 DEF binaryVars, BinaryInv, InstallTypeOK, FilesInv, Sound, Live, OneFile, FilesKept, Mine,
              NamesInv, ProcessInv, UpdateTakesEffect
<1>2. CASE WriteState
  BY <1>1, <1>2 DEF WriteState
<1>3. CASE InstallBinary
  BY <1>3, InstallerKeeps, ProcessKeeps DEF InstallBinary, Installers
<1>4. CASE FlyUpdate
  BY <1>4, InstallerKeeps, ProcessKeeps, ElapseKeeps DEF FlyUpdate, Installers
<1>5. CASE RestartByFly
  BY <1>5, ProcessKeeps DEF RestartByFly
<1>6. CASE CrashOfAgent
  BY <1>6, ProcessKeeps DEF CrashOfAgent
<1>7. CASE LossOfPower
  BY <1>7, PowerLossKeeps DEF LossOfPower
<1>8. CASE UNCHANGED diskVars
  BY <1>1, <1>8 DEF diskVars, binaryVars
<1>9. CASE AgentRuns
  BY <1>9, ProcessKeeps DEF AgentRuns
<1>10. CASE AgentRefused \/ SecondStarts
  <2>1. RemoveOldTemp /\ UNCHANGED <<step, exe, names, agentUp, replaced, told>>
    BY <1>10 DEF AgentRefused, SecondStarts, CleanBinaryDir
  <2>2. agentUp' \in BOOLEAN
    BY <2>1 DEF BinaryInv, InstallTypeOK
  <2>3. QED
    BY <2>1, <2>2, CleanKeeps
<1>11. CASE SecondLocks \/ SecondEnds
  BY <1>1, <1>11 DEF SecondLocks, SecondEnds
<1>12. QED
  BY <1>2, <1>3, <1>4, <1>5, <1>6, <1>7, <1>8, <1>9, <1>10, <1>11 DEF DiskNext, Second

LEMMA DiskInvariant == DiskSpec => []BinaryInv
BY InstallInitial, DiskStep, PTL DEF DiskSpec

-----------------------------------------------------------------------------
\* The state directory. No process runs a Write without the lock, and one that
\* does has its temporary file as far as its last call brought it.
LockInv ==
  /\ second \in {"none", "cleaned", "holds"} /\ agentUp \in BOOLEAN
  /\ agentUp => second # "holds"
  /\ pc = "down" <=> (~agentUp /\ second # "holds")
TempKept ==
  /\ pc = "write" => Temp \in temps
  /\ pc = "sync" => Written \in temps
  /\ pc \in {"close", "rename"} => Synced \in temps
WriterInv == LockInv /\ TempKept

LEMMA WriterInitial == DiskInit => WriterInv
BY DEF DiskInit, Init, InstallInit, WriterInv, LockInv, TempKept

LEMMA WriterStep == WriterInv /\ [DiskNext]_diskVars => WriterInv'
<1> SUFFICES ASSUME WriterInv, [DiskNext]_diskVars PROVE WriterInv'
  OBVIOUS
<1> USE DEF WriterInv, LockInv, TempKept
<1>1. CASE WriteState
  <2>1. UNCHANGED <<agentUp, second>> /\ pc # "down"
    BY <1>1 DEF WriteState, binaryVars
  <2>2. CASE Create
    BY <2>1, <2>2 DEF Create, Temp
  <2>3. CASE WriteTemp
    BY <2>1, <2>3 DEF WriteTemp, Written, Temp
  <2>4. CASE SyncTemp
    BY <2>1, <2>4 DEF SyncTemp, Synced, Written, Temp
  <2>5. CASE CloseTemp
    BY <2>1, <2>5 DEF CloseTemp, Synced, Written, Temp
  <2>6. CASE Rename \/ SyncDir \/ FailBefore \/ FailAfter
    BY <2>1, <2>6 DEF Rename, SyncDir, FailBefore, FailAfter
  <2>7. QED
    BY <1>1, <2>2, <2>3, <2>4, <2>5, <2>6 DEF WriteState
<1>2. ASSUME UNCHANGED <<agentUp, second>>, UNCHANGED fileVars PROVE WriterInv'
  BY <1>2 DEF fileVars, Temp, Written, Synced
<1>3. ASSUME pc' = "down", agentUp' = FALSE, second' # "holds", second' \in {"none", "cleaned", "holds"}
      PROVE  WriterInv'
  BY <1>3
<1>4. CASE InstallBinary
  <2>1. CASE InstallStep("agent")
    <3>1. UNCHANGED <<agentUp, second>> /\ UNCHANGED fileVars
      BY <1>4, <2>1 DEF InstallBinary, InstallStep, BeginDownload, Fetched, Refused, Extract, SyncBinary,
                        RenameBinary, SyncBinaryDir, InstallFails, AgentExit, End, AgentGone, fileVars
    <3>2. QED
      BY <1>2, <3>1
  <2>2. CASE AgentExit /\ End
    BY <1>3, <1>4, <2>2 DEF InstallBinary, AgentExit, AgentGone, End
  <2>3. QED
    BY <1>4, <2>1, <2>2 DEF InstallBinary
<1>5. CASE AgentRuns
  BY <1>5 DEF AgentRuns, AgentStart, Start
<1>6. CASE AgentRefused
  BY <1>2, <1>6 DEF AgentRefused, CleanBinaryDir
<1>7. CASE SecondStarts
  BY <1>7 DEF SecondStarts, CleanBinaryDir, fileVars, Temp, Written, Synced
<1>8. CASE SecondLocks
  <2>1. second = "cleaned" /\ UNCHANGED agentUp
    BY <1>8 DEF SecondLocks, binaryVars
  <2>2. CASE agentUp
    <3>1. second' = "none" /\ UNCHANGED <<pc, value, temps>>
      BY <1>8, <2>2 DEF SecondLocks, fileVars
    <3>2. QED
      BY <2>1, <2>2, <3>1 DEF Temp, Written, Synced
  <2>3. CASE ~agentUp
    <3>1. second' = "holds" /\ pc' = "idle"
      BY <1>8, <2>3 DEF SecondLocks, Start
    <3>2. QED
      BY <2>1, <2>3, <3>1
  <2>4. QED
    BY <2>2, <2>3
<1>9. CASE SecondEnds
  BY <1>3, <1>9 DEF SecondEnds, End, binaryVars
<1>10. CASE FlyUpdate
  <2>1. UNCHANGED agentUp
    BY <1>10 DEF FlyUpdate, InstallStep, BeginDownload, Fetched, Refused, Extract, SyncBinary, RenameBinary,
                 SyncBinaryDir, InstallFails, Fly, FlyNewer, FlyLatest, RestartFails, FlyKilled, Elapse
  <2>2. QED
    BY <1>2, <1>10, <2>1 DEF FlyUpdate
<1>11. CASE RestartByFly
  <2>1. CASE agentUp
    BY <1>3, <1>11, <2>1 DEF RestartByFly, RestartAgent, End
  <2>2. CASE ~agentUp
    BY <1>2, <1>11, <2>2 DEF RestartByFly, RestartAgent
  <2>3. QED
    BY <2>1, <2>2
<1>12. CASE CrashOfAgent
  BY <1>3, <1>12 DEF CrashOfAgent, AgentCrash, AgentGone, Crash, End
<1>13. CASE LossOfPower
  BY <1>3, <1>13 DEF LossOfPower, PowerLoss, BinaryPowerLoss
<1>14. CASE UNCHANGED diskVars
  BY <1>2, <1>14 DEF diskVars, vars, binaryVars, fileVars
<1>15. QED
  BY <1>1, <1>4, <1>5, <1>6, <1>7, <1>8, <1>9, <1>10, <1>11, <1>12, <1>13, <1>14 DEF DiskNext, Second

\* "only one agent uses the state files" (lock.go): whoever starts and ends, and
\* in whatever order, one agent at most has the lock, and no other process
\* removes the temporary file of its Write (lock, run and RemoveTemp).
THEOREM OneAgentWrites == DiskSpec => []OneWriter
<1>1. WriterInv => OneWriter
  BY DEF WriterInv, LockInv, TempKept, OneWriter, Temp, Written, Synced
<1>2. QED
  BY <1>1, WriterInitial, WriterStep, PTL DEF DiskSpec
-----------------------------------------------------------------------------
\* "exe is never incomplete" (download.go): the binary on the disk is whole and
\* is what the sha256 of a release covers, whoever installs, crashes or loses
\* power, and however often (Download and writeBinary).
THEOREM BinaryRuns == DiskSpec => []ExeRuns
<1>1. BinaryInv => ExeRuns
  BY DEF BinaryInv, NamesInv, ExeRuns
<1>2. QED
  BY <1>1, DiskInvariant, PTL

\* An install that runs keeps its temporary files: the RemoveTemp of an agent
\* that starts takes only files of processes that ended.
THEOREM RunningFilesKept == DiskSpec => []FilesKept
<1>1. BinaryInv => FilesKept
  BY DEF BinaryInv
<1>2. QED
  BY <1>1, DiskInvariant, PTL

\* After a fly update without an error, the agent has no binary that was replaced
\* (Stale, restartAgent and restartStaleAgent).
THEOREM UpdateIsEffective == DiskSpec => []UpdateTakesEffect
<1>1. BinaryInv => UpdateTakesEffect
  BY DEF BinaryInv, ProcessInv
<1>2. QED
  BY <1>1, DiskInvariant, PTL
=============================================================================
