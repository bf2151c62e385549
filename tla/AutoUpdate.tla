----------------------------- MODULE AutoUpdate -----------------------------
(***************************************************************************)
(* The daily check for a new release: autoupdate.go of internal/agent, with *)
(* the parts of run, tick and saveState (agent.go) that it depends on.      *)
(*                                                                         *)
(* The agent sees the wall clock, which can be stepped; real is the time    *)
(* that passes. One new release is published, signed, and perhaps withdrawn *)
(* (marked as a pre-release) on GitHub: Releases. A check makes its requests *)
(* one after the other, and the release can change between them. It takes    *)
(* minutes (updateTimeout), and a unit of this clock is hours: no time passes *)
(* during a check.                                                          *)
(***************************************************************************)
EXTENDS Releases, Config

CONSTANTS
  Day,          \* a day
  CheckGap,     \* checkGap: half a day
  Wait,         \* autoUpdateWait: a day
  Slot,         \* updateSlot of this server
  AgentKeys,    \* a.keys: trustedKeys of the binary that runs
  Steps,        \* the sizes by which the wall clock can step
  Environments, \* what agent.env can hold: required keys and the switch
  MaxAhead,     \* bound: how far the wall clock can be ahead of the real time
  MaxSteps,     \* bound: the steps of the wall clock
  MaxSaveFails, \* bound: the writes of state.json that fail
  MaxRestarts,  \* bound: the starts after the first
  MaxTime       \* bound: the real time

ASSUME TimesAssumption ==
  /\ Day \in Nat \ {0} /\ CheckGap \in Nat /\ Wait \in Nat
  /\ Slot \in 0..(Day - 1)
ASSUME BoundsAssumption ==
  /\ Steps \subseteq Int
  /\ {MaxAhead, MaxSteps, MaxSaveFails, MaxRestarts, MaxTime} \subseteq Nat

Zero == -1    \* the zero time.Time: before every time of the clock

VARIABLES
  pc,              \* "down", "idle", "exit" (the update is installed), or what
                   \* checkForUpdate waits for: "list" (latestRelease),
                   \* "signature", "sums" (signedChecksum), "install" (updateBinary)
  autoUpdate,      \* a.autoUpdate
  lastUpdateCheck, \* a.lastUpdateCheck
  nextUpdateCheck, \* a.nextUpdateCheck
  checkTime,       \* the argument now of checkForUpdate
  sigFile,         \* the signature file that SignedChecksum read
  sha256,          \* the build that the sum of UpdateArgs belongs to
  saved,           \* LastUpdateCheck in state.json
  running,         \* what the process runs: "old", or the build of the release
  binary,          \* the binary on the disk
  wall, real,      \* the wall clock and the real time
  checkedAt,       \* the real time of the last check, or Never
  steps, saveFails, restarts  \* the bounded faults

checkVars == <<checkTime, sigFile, sha256>>
timeVars == <<lastUpdateCheck, nextUpdateCheck, saved>>
clockVars == <<wall, real>>
boundVars == <<steps, saveFails, restarts>>
vars == <<pc, autoUpdate, timeVars, checkVars, running, binary, clockVars,
          checkedAt, boundVars, releaseVars>>

-----------------------------------------------------------------------------
\* The first slot after a time.
SlotAfter(after) ==
  LET t == after - (after % Day) + Slot
  IN  IF t > after THEN t ELSE t + Day

\* Fault: the slot of the day after the gap, also when that day's slot is still
\* to come.
NextCheckDayLater(last) ==
  IF last = Zero THEN Zero
  ELSE (last + CheckGap) - ((last + CheckGap) % Day) + Slot + Day

\* nextCheck: the first slot more than checkGap after the last check, or at
\* once.
NextCheck(last) == IF last = Zero THEN Zero ELSE SlotAfter(last + CheckGap)

Init ==
  /\ ReleasesInit
  /\ pc = "down" /\ autoUpdate = FALSE
  /\ lastUpdateCheck = Zero /\ nextUpdateCheck = Zero /\ saved = Zero
  /\ checkTime = Zero /\ sigFile = NoSignature /\ sha256 = "none"
  /\ running = "old" /\ binary = "old"
  /\ wall \in Day..(2 * Day - 1) /\ real = wall
  /\ checkedAt = Never
  /\ steps = 0 /\ saveFails = 0 /\ restarts = 0

\* fly agent run: without an error in the configuration of that day, the process
\* starts, from the binary and the saved state. startAutoUpdate turns the check
\* off for the configuration, or for the build, the keys or the rights that it
\* finds (usable). A check time after the present comes from a clock that was
\* wrong.
Start ==
  /\ pc = "down"
  /\ pc' = "idle"
  /\ running' = binary
  /\ \E env \in Environments, usable \in BOOLEAN :
       LET cfg == ConfigFromEnv(env.keys, env.switch)
       IN  cfg.errs = {} /\ autoUpdate' = (cfg.autoUpdate /\ usable)
  /\ lastUpdateCheck' = IF autoUpdate' /\ saved > wall THEN Zero ELSE saved
  /\ nextUpdateCheck' = IF autoUpdate' THEN NextCheck(lastUpdateCheck') ELSE Zero
  /\ UNCHANGED <<saved, checkVars, binary, clockVars, checkedAt, boundVars, releaseVars>>

\* saveState: a write that fails is logged, and leaves the file as it was.
SaveState(time) ==
  \/ saved' = time /\ UNCHANGED saveFails
  \/ /\ saveFails < MaxSaveFails /\ saveFails' = saveFails + 1
     /\ UNCHANGED saved

\* Fault: the time of the check is not saved at its start.
CheckUnsaved ==
  /\ checkTime' = wall'
  /\ lastUpdateCheck' = wall' /\ nextUpdateCheck' = NextCheck(wall')
  /\ UNCHANGED <<saved, saveFails>>
  /\ checkedAt' = real'
  /\ pc' = "list"

\* checkForUpdate, its start: the time is saved first.
Check ==
  /\ checkTime' = wall'
  /\ lastUpdateCheck' = wall' /\ nextUpdateCheck' = NextCheck(wall')
  /\ SaveState(wall')
  /\ checkedAt' = real'
  /\ pc' = "list"

\* The clock goes on and the agent ticks: a check is due or not.
Tick ==
  /\ pc = "idle" /\ real < MaxTime
  /\ wall' = wall + 1 /\ real' = real + 1
  /\ IF autoUpdate /\ wall' >= nextUpdateCheck
     THEN Check
     ELSE UNCHANGED <<pc, timeVars, checkTime, checkedAt, saveFails>>
  /\ UNCHANGED <<autoUpdate, sigFile, sha256, running, binary, steps, restarts, releaseVars>>

\* setInterval, after a reply with a new report interval, saves the state:
\* the time of the last check goes to disk with it.
SetInterval ==
  /\ pc = "idle"
  /\ SaveState(lastUpdateCheck)
  /\ UNCHANGED <<pc, autoUpdate, lastUpdateCheck, nextUpdateCheck, checkVars, running,
                 binary, clockVars, checkedAt, steps, restarts, releaseVars>>

CheckUnchanged ==
  UNCHANGED <<autoUpdate, timeVars, clockVars, checkedAt, boundVars, releaseVars>>

\* The check and what it knew are over.
CheckEnds == checkTime' = Zero /\ sigFile' = NoSignature /\ sha256' = "none"

\* A request fails or is over its time; or the release is not newer or has no
\* signature yet; or its signature is refused, or is too young.
NoUpdate ==
  /\ pc \in {"list", "signature", "sums"}
  /\ pc' = "idle" /\ CheckEnds
  /\ UNCHANGED <<running, binary>> /\ CheckUnchanged

\* latestRelease: the release and the names of its files. It is newer than the
\* running version, and a signature is there.
List ==
  /\ pc = "list"
  /\ release = "published" /\ running = "old" /\ signature # NoSignature
  /\ pc' = "signature"
  /\ UNCHANGED <<checkVars, running, binary>> /\ CheckUnchanged

\* SignedChecksum gets the signature first.
FetchSignature ==
  /\ pc = "signature"
  /\ sigFile' = signature
  /\ pc' = "sums"
  /\ UNCHANGED <<checkTime, sha256, running, binary>> /\ CheckUnchanged

\* Fault: a signature of any age is enough.
FetchSumsAnyAge ==
  /\ pc = "sums"
  /\ Verify(sigFile, sums, AgentKeys, checkTime)
  /\ sha256' = sums
  /\ pc' = "install"
  /\ UNCHANGED <<checkTime, sigFile, running, binary>> /\ CheckUnchanged

\* Then it gets the sums: the signature covers them, and it waited.
FetchSums ==
  /\ pc = "sums"
  /\ Verify(sigFile, sums, AgentKeys, checkTime)
  /\ checkTime >= sigFile.at + Wait
  /\ sha256' = sums
  /\ pc' = "install"
  /\ UNCHANGED <<checkTime, sigFile, running, binary>> /\ CheckUnchanged

\* updateBinary installs the archive that GitHub has now, when its sha256 is
\* that one; or it fails and leaves the old binary.
Install ==
  /\ pc = "install"
  /\ \/ archive = sha256 /\ binary' = archive /\ pc' = "exit"
     \/ binary' = binary /\ pc' = "idle"
  /\ CheckEnds
  /\ UNCHANGED running /\ CheckUnchanged

\* The process ends after an update, and systemd starts it again.
Exit ==
  /\ pc = "exit" /\ pc' = "down"
  /\ UNCHANGED <<checkVars, running, binary>> /\ CheckUnchanged

\* A stop or a crash, at any point.
Crash ==
  /\ pc # "down" /\ restarts < MaxRestarts
  /\ restarts' = restarts + 1
  /\ pc' = "down" /\ CheckEnds
  /\ UNCHANGED <<autoUpdate, timeVars, running, binary, clockVars, checkedAt, steps,
                 saveFails, releaseVars>>

-----------------------------------------------------------------------------
\* Time passes while the agent is down.
Down ==
  /\ pc = "down" /\ real < MaxTime
  /\ wall' = wall + 1 /\ real' = real + 1
  /\ UNCHANGED <<pc, autoUpdate, timeVars, checkVars, running, binary, checkedAt,
                 boundVars, releaseVars>>

\* The wall clock steps.
StepClock(d) ==
  /\ steps < MaxSteps /\ steps' = steps + 1
  /\ wall + d >= 0 /\ wall + d - real <= MaxAhead
  /\ wall' = wall + d
  /\ UNCHANGED <<pc, autoUpdate, timeVars, checkVars, running, binary, real, checkedAt,
                 saveFails, restarts, releaseVars>>

\* GitHub and the maintainer, whose clock is right.
Github ==
  /\ ReleasesNext(real)
  /\ UNCHANGED <<pc, autoUpdate, timeVars, checkVars, running, binary, clockVars,
                 checkedAt, boundVars>>

Next ==
  \/ Start \/ Tick \/ SetInterval \/ NoUpdate \/ List \/ FetchSignature \/ FetchSums
  \/ Install \/ Exit \/ Crash \/ Down \/ Github
  \/ \E d \in Steps : StepClock(d)

Spec == Init /\ [][Next]_vars

-----------------------------------------------------------------------------
\* The values that each variable can have.
Binaries == Builds \cup {"old"}
TypeOK ==
  /\ ReleasesTypeOK
  /\ pc \in {"down", "idle", "list", "signature", "sums", "install", "exit"}
  /\ autoUpdate \in BOOLEAN
  /\ lastUpdateCheck \in Int /\ nextUpdateCheck \in Int /\ saved \in Int
  /\ checkTime \in Int /\ sigFile \in Signatures /\ sha256 \in Builds \cup {"none"}
  /\ running \in Binaries /\ binary \in Binaries
  /\ wall \in Int /\ real \in Int /\ checkedAt \in Int
  /\ steps \in Nat /\ saveFails \in Nat /\ restarts \in Nat

\* "The signature says: this release is the code of my tag" (docs/releasing.md).
\* Whatever the files of the release are changed to, and when (between two steps
\* of the signing script, between two requests of a check), the agent installs
\* only the build of the tag that the maintainer reviewed.
InstalledIsReviewed == binary \in {"old", "tag"}

\* autoUpdateWait: "In this time the maintainer can mark a bad release as a
\* pre-release". A release that was withdrawn before its wait ended is not the
\* binary of any agent: not by a check that was under way, not by one after a
\* crash, a restart or a step of the clock. A clock that is ahead shortens the
\* wait by as much.
WithdrawnInTime ==
  withdrawnAt # Never /\ firstSigned # Never /\ withdrawnAt + MaxAhead < firstSigned + Wait
    => binary = "old"

\* checkForUpdate: "a crash or a failure waits for the next day, and does not
\* check at each restart". While the wall clock does not step and state.json
\* can be written, two checks are at least checkGap apart.
CheckBegins == pc = "idle" /\ pc' = "list"
ChecksApart ==
  CheckBegins /\ checkedAt # Never /\ steps = 0 /\ saveFails = 0
    => real' - checkedAt >= CheckGap
GapKept == [][ChecksApart]_vars

\* checkGap: "With it, a clock step cannot cause two checks in one day". For
\* steps back, which do not shorten the time between two wall clock times: two
\* checks are at least checkGap apart, also over a restart.
ApartOverSteps ==
  CheckBegins /\ checkedAt # Never /\ saveFails = 0
    => real' - checkedAt >= CheckGap
GapOverSteps == [][ApartOverSteps]_vars

\* "Once a day" (agent.go): while the wall clock does not step, the tick of an
\* agent that checks for releases does not leave the last check more than a day
\* and the gap behind, whatever was saved. (A day of the calendar can have no
\* check: that of a start soon after a check comes up to the gap later.)
TickPasses == pc = "idle" /\ real' # real /\ autoUpdate /\ steps = 0
OnceADay ==
  TickPasses /\ pc' = "idle" =>
    checkedAt # Never /\ checkedAt > real' - (Day + CheckGap)
CheckedInTime == [][OnceADay]_vars
=============================================================================
