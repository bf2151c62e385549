# A TLA+ verification of the fly server CLI and its monitoring agent

`fly` is one Go program with two faces: commands that an administrator runs (`fly
update`, `fly start`, ...), and `fly agent run`, a service that measures a server each
minute, reports to a control plane, runs the commands that come back and updates its own
binary. The commands keep no state of their own, but change projects and the binary step
by step. The agent does keep state: it crashes, restarts, loses replies, meets stepped
clocks and full disks, and replaces itself while it runs. This directory models both,
checks the models with TLC on small instances, and proves the most important results
with TLAPS for every instance.

- `X.tla` is the model of a component, `MCX.tla` its small instance, `X_proofs.tla` its
  proofs.
- `PROJECT.json` has the runs, the line of the source behind each definition
  (`map`), the hazards, the findings and the theorems.
- Run a model with `tlc -config <cfg> <module>.tla`, a proof with `tlapm <module>.tla`.
- An operator whose comment begins with "Fault:" is a plausible bug in the
  definition after it. No specification uses it. Put in the place of that
  definition, it makes TLC find a violation of the property that `PROJECT.json`
  names, which shows that the property can fail.

## 1. The system

### 1.1 Components

| Component | State | Operations | Correct when |
|---|---|---|---|
| Agent commands (`agent/commands.go`) | `ran.json`, the events queue, the binary on disk | poll, skip, restart, update, unknown, record, resolve at start, prune | a command runs at most once; its result reaches the control plane; no downgrade |
| Event and sample queues (`agent/outbox.go`) | `events.json`, `samples.json` and their copies in memory | add, drop a batch, save; the oldest goes when full | what is owed is in memory and on disk |
| Reporting (`agent/send.go`, `agent.go`) | waits of two routes, `pending`, `interval`, `samplesSent` | tick, report, send events, send samples, outcome of a reply, new interval | nothing lost; one route does not stop the other; recovery after an outage |
| Schedule (`agent/agent.go` loop) | `last`, timer | compute the next tick, set the timer, reading, tick | no minute has two ticks; none is left out but for work or a pause across its tick; no long silence after a clock step |
| Daily update (`agent/autoupdate.go`) | `lastUpdateCheck`, `nextUpdateCheck`, `state.json` | start, check, wait for the signature, install, exit | a withdrawn release is not installed, nor a build that nobody reviewed; checks are apart, and the last one is not long ago |
| Version order (`commands.go`, `release.go`) | none | compareVersions, isNewer, IsLocalBuild | a strict order; both deciders agree |
| State files (`statefile/statefile.go`) | one file, its temporary file | Write (create, write, sync, rename, sync of the directory), RemoveTemp | whole after each crash; durable after a success |
| Traffic log reader (`metrics/traffic.go`) | offset, inode and head in `traffic.json` | open, read, cut, save | no line counted twice or passed over |
| Sites in a sample (`metrics/sites.go`) | `running`, `last`, `results` under a mutex; `prevContainers` | list the containers, start, walk, take; CPU time of two ticks | one walk; hanging folders do not stop it; no CPU time of another container or cgroup |
| Collector (`metrics/metrics.go`, `windows.go`) | last counters, windows, `counters.json` | New, Read, Sample | no traffic counted twice over a restart |
| Install (`release/release.go`, `download.go`) | temporary files, binary | download, verify, write, rename | a whole, verified binary at each moment |
| Release signature (`release/signature.go`, `keys.go`, `tools/releasesign`, `tools/sign-release.sh`) | the files of the release on GitHub and in the directory of the script | download, check, build, sign, verify, upload; Verify in the agent | only the build of the reviewed tag is installed |
| Lock (`agent/lock.go`) | the lock of the state directory | lock, released by the end of the process | one process uses the state files |
| Value ranges (`agent/clean.go`) | none | cleanSample, cleanStatus, cleanEvent | the control plane accepts each request |
| Configuration (`agent/config.go`) | none | ConfigFromEnv, Offset, updateSlot | no start with a wrong configuration; an unknown switch turns updates off |
| Client, wire types (`agent/client.go`, `wire`) | none | one request | I/O of one call |
| Service (`service/service.go`) | none of its own | Stale, Restart | the agent runs the installed binary |
| fly commands, Docker, site discovery (`cmd`, `docker`, `utils`) | the Compose projects | start, stop, restart a site, the base services or all sites: one child process for each call | the exit code is true; a restart leaves no site down untried |

### 1.2 How they interact

The agent is one loop in one goroutine: *schedule* decides when it ticks, a
tick takes a sample (*collector*, *traffic*, *disk use*), puts it in the *queue*,
and each `interval` ticks *reporting* sends the events, then the samples, then
polls for *commands*, runs them and sends their results; the *daily update* is
last in a tick. All state goes through *state files*. Other actors act at the
same time: the disk walk and the reading of each folder (goroutines), the
front proxy that writes the traffic log, the control plane, GitHub with the
maintainer who signs and withdraws releases, the clock, systemd (restart), and
administrators: with `fly update`, who replaces the same binary; with a second
`fly agent run`; and with the commands that start and stop the projects, which
the agent measures.

The hard behaviours, listed one by one at their line in `PROJECT.json` (`hazards`):
crashes between two writes that belong together (a result and its mark, an entry and its
effect, a cut and its offset), lost and stale replies, a full queue, files that cannot
be written or read, two waits and a shared time limit, clock steps in both directions, a
pause between two reads of the clock, a slow goroutine, two installers, two agents,
Docker that stops between two calls of a command, a release that changes between two
requests.

## 2. The modules

The state and the actions have the names of the code; the table says what is
not obvious.

| Module | Models | One step is | Left out |
|---|---|---|---|
| `Versions` | `compareVersions`, `isNewer`, `IsLocalBuild` as relations on records | - | the parsing of semver; build metadata is a number that the order ignores |
| `AgentCommands` | run, report, commands, update, resolve, ledger, the event queue; control plane, crash, `fly update` | at most one write to disk | samples (in `Reporting`), the time of the update check (in `AutoUpdate`), the order of the commands within one poll (any order is tried) |
| `CommandLife` | what the agent promises of a command: begun at most once, one result, final and true | issue, begin, a request with results | - |
| `Install` | Download, Install, writeBinary, RemoveTemp, Stale and Restart; the agent and `fly update` as two installers | a system call, a part of a download, a unit of time | a step of the clock; the archive format, `checksums.txt`, the owner of the file; which release (in `AgentCommands`, `AutoUpdate`) |
| `Faults`, `ServerDisk` | the budget of faults; the state file and the binary of one server under the same crashes and power losses; the lock, and a second agent that is started by hand | a step of one of the two, or of the second agent | the installs of the second agent |
| `AtomicFile` | what the comment of `Write` promises | begin, replace, return, fail, crash | - |
| `StateFile` | `Write` and `RemoveTemp`, implements `AtomicFile` | one system call | permissions |
| `Schedule` | loop, nextTick, nextAfter, nextReading | a part of the loop between two reads of the clock, a pause, or one unit of time | what a tick does |
| `Releases` | the files of the latest release, `sign-release.sh` with releasesign sign and verify, Verify | a change of the files, a step of the script | the format of the signature file; several releases; the creation and change of keys |
| `Config` | ConfigFromEnv with parseSwitch, Offset, updateSlot as operators | - | the form of the URL |
| `AutoUpdate` | startAutoUpdate, nextCheck, checkForUpdate with its three requests and the install, saveState; extends `Releases` and `Config` | a tick, or a request of a check | a check takes less than one unit of time |
| `Reporting` | tick, report, sendEvents, sendSamples, outcome, backoff, setInterval, the sample queue | one request | the contents of events (a number) and samples (their minute) |
| `Clean` | cleanSample, cleanStatus, cleanEvent, cleanSites, clamp and truncate as operators on records | - | fields that are treated like another one |
| `TrafficLog` | traffic.go read and save, the proxy | a system call of the reader, half a line of the proxy | the parsing of a line, the limit on names, refused files |
| `FlyCommands` | the commands of `fly` on sites, the base services and all sites, the refusal of root, their exit codes, `RunCompose` | one child process; a change from outside | the output; exec, wp and logs are one call without effect; the search for the folder of a site |
| `DiskWalker` | diskWalker and its use in sites | one folder | the bytes of a folder |
| `SiteUse` | the CPU time of a container from two ticks, over restarts, new cgroups, reboots | - | containers are independent: one |
| `Sites` | `FlyCommands`, `DiskWalker` and `SiteUse` together: the projects that run are those that the agent measures | a step of one of them | which service of a project runs PHP |
| `Windows` | chain, netDelta's and the windows' times, with and without the monotonic clock | - | - |
| `Collector` | New, Read, Sample for the traffic of the network, and `counters.json` | a reading, a part of a sample | the heights of the peaks, pressure, CPU and memory, Status; the interfaces have one counter |
| `DiskActivity` | readDisks, setDiskActivity, diskUse with the disks of each reading | a reading, a whole tick | the parts of a tick (in `Collector`); a disk has one counter for its four |

`AgentCommands` extends `Versions` and implements `CommandLife`, under the mapping at
its end. `StateFile` implements `AtomicFile` under the mapping in its last section, as a
property of its run and as a theorem; the other modules use what `AtomicFile` promises
(a write is one step that happens or fails) and do not repeat its calls. The install of
a binary is one step in `AgentCommands` and `AutoUpdate`, as its rename in `Install`
makes it. `ServerDisk` extends `StateFile` and `Install`: the agent is one process,
which writes no state while it installs and whose end ends both. `pc = "down"` of
`StateFile` is the lock that nobody has: the service and the second agent take it with
`Start`. `Sites` extends `FlyCommands`, `DiskWalker` and `SiteUse`. `Collector` and
`DiskActivity` extend `Windows`, and have a counter of their own each: the code reads,
resets and drops them apart. `Collector` takes the disk walk as something that ends at
some time: its goroutines are in `DiskWalker`. `MCSchedule` and `MCAutoUpdate` take
their offset and slot from `Config`; `Reporting` extends `Clean`, which each sample and
event passes before its queue.

## 3. The runs

States are distinct states of the finished run.

| Run | States | Shows |
|---|---|---|
| `commands_faults` | 4.0 x 10^6 | two commands, a crash, a failed write or read, stale replies, two days, `fly update`: at most once, no result lost silently, no poll before the results |
| `commands_verdict` | 3.7 x 10^4 | three crashes: refinement of `CommandLife` (so one verdict for a command), no downgrade, and each command is answered (liveness); a chain of installs over ordered versions does not come back, and the agent and `fly update` agree, for the running version against a sample of 26 versions |
| `server_disk` | 1.8 x 10^6 | two writes, two installs, three faults, a second agent at any time: state file and binary whole, saved values durable, one temporary file, one writer, refinement of `AtomicFile`, files of a running install kept, `fly update` takes effect |
| `schedule` | 6.5 x 10^6 | two clock steps and two pauses: no repeated tick, bounded silence, no minute lost but for its exceptions |
| `update` | 5.4 x 10^6 | a clock step, a failed save, a crash, a swap of the files of the release: only the reviewed build, withdrawn releases not installed, checks apart and in time |
| `reporting` | 3.0 x 10^6 | an outage, a stop, a failed write: nothing lost, recovery in time; cleaned values are accepted |
| `traffic` | 3.9 x 10^6 | a stop, a failed save, half lines, a new file: not twice, none passed over |
| `sites` | 6.6 x 10^5 | the commands of `fly` with Docker, projects and files that change at any time, and the agent beside them: true exit codes, no site left down untried, one walk, true CPU times, running projects with a measurable folder measured again and again (liveness) |
| `collector` | 2.0 x 10^6 | two minutes and a half, two faults of any kind: no traffic twice, none passed over, a known minute is one, windows go up, no result of a walk dropped; and a minute and three quarters of two disks that come and go, two faults: what a sample says of the disks happened |
| `commands_fly`, `update_restart`, `traffic_half_line` | - | the findings of section 5 |

### 3.1 Bounds

- **AgentCommands.** Two commands are enough for one to run between the poll and
  the record of the other, and to fill a queue of two with `agent.started`; a
  batch of one makes two requests of it. `SendFor = KeepRan` is the tightest case
  that the assumption allows: prune forgets a command on the first day on which it
  is not sent any more. The queue of `commands_verdict` holds three events, or
  it would push out the second verdict that the run looks for.
- **Schedule.** A minute of four units with a reading each two, the offset in the second
  half, a step limit of two minutes as in the code; work of four units is as long as a
  minute, and a pause of two with a reading before it goes past the next tick. Two
  pauses are one at each of the two points of a round, or at one point twice. The steps
  are below, at and far above the limit, and one (-10) that makes the longest wait for
  the next tick. 36 units are seven minutes or more.
- **AutoUpdate, Releases.** A day of four units, a gap of half a day, a wait of a
  day; the clock starts at any time of the second day and ends at 12, so that a
  release that was signed on the second day is installed by the end. The steps
  are below, at and above the gap. One swap is one at each point of the script
  and of a check; one signature, one crash. Two signatures and more are the
  case of the proof, not of the run. No time passes during a check (minutes
  against units of hours). The environments are the three values of the switch
  that differ, and a missing token.
- **Clean.** For each number a value below, at and above both limits and "unknown"; a
  list that is nil, empty, at its limit and above it; names at and above their limit.
  Fields that are treated alike are one field. FilesBytes and the bytes of the traffic,
  which no clean function changes, have fields of their own, with a value in range and
  one above it.
- **Reporting.** Each limit of the code is scaled to the smallest value that keeps
  its order to the others (a batch is smaller than its queue, the interval can be
  longer than a wait, `MaxShift` is larger than the shift at which `MaxBackoff`
  begins). Ten minutes are an outage of four, the longest wait, and two reports
  after it.
- **TrafficLog.** A line is two units, the cut limit one and a half lines: the
  cut comes after two lines, with or without half a line behind. Five lines are
  two files of two and one more.
- **Collector.** A minute of four units, a saved reading recent for six, a first
  minute and a window of two. The first tick comes two units after the start, the
  others each four: a first sample, a second one, and a third after each fault.
  Readings come where they are kept and where they are too close to the tick.
  Traffic is one unit each unit of time. `MaxFaults` is for the resets, clock
  steps, stops and failures together: each pair of them, in any order.
- **DiskActivity.** It runs beside `Collector` in `MCCollector`. They share nothing, so
  in a behaviour only one of them leaves its initial state. Two disks are one that stays
  and one that goes, or both; a disk that comes back counts from zero. The minute and
  the limits of the readings are those of `Collector`, with windows of one unit; seven
  units reach a whole minute.
- **ServerDisk.** Two writes are a saved value and one that replaces it, two installs
  are the two that can overlap, or one after an orphan of the other; three faults end
  both installers and a Write. A unit of time is the 50 minutes
  that the write may take (`WriteLimit`); no unit passes in a download, which is shorter,
  and a file is old after one.
- **Sites.** Two sites and the base services; the folder of the first site, which the
  walk reads first, hangs. The folder of the base services is not walked in this
  instance. Neither time nor the number of commands is bounded: the state space is
  finite. ReadDir of /home/fly is taken to answer, and the exit code of a child is 1. A
  server without sites is left out (`Sites # {}`); a folder that the user cannot look at
  is one without a compose file, which is how the code treats it (global.go:126). The
  lives of a container have five events, with pairs of ticks up to `MaxAge = 3` apart
  and above.

`CHECK_DEADLOCK FALSE` is in the configurations whose bound (days, clock,
crashes, writes) ends the behaviour; the last state is then the end of the
model, not of the program.

### 3.2 Fairness

- `AgentCommands!FairSpec`: weak fairness of the process (it takes its next
  step; systemd restarts it, `Restart=always`), strong fairness of the report
  (each `interval` ticks), of an accepted request and of an answered poll: a
  control plane that is asked for ever answers at some time. The number of
  crashes is bounded, the number of failures is not.
- `Sites`: weak fairness of the sampler (the loop), of the walk goroutines
  (each folder has a timeout) and of the hour. A hanging folder is not assumed to
  come back. Nothing is assumed about the commands or about Docker:
  `AlwaysMeasured` is for projects that run from some time on, with a Docker that
  answers from some time on.

`RecoversInTime` and `SilentBounded` are liveness with a bound: safety
properties that name the time, which needs no fairness.

### 3.3 Notes on single properties

- `RunsAtMostOnce` leaves out the commands of a `ran.json` that could not be read at a
  start (`forgotten`): loadLedger then begins with an empty list, and a command that is
  sent again runs again. A file that was only unreadable that time is overwritten by the
  next save.
- `ResultNotLost`, `PollAfterResults`: the exceptions are in the code. A full queue
  pushes out its oldest event and a 400 drops a batch (`dropped`); a result whose save
  failed is gone with the process, and the results of a queue that cannot be read are
  put aside with it (`lost`). That the rename which puts it aside can fail is left out:
  the next save replaces the file anyway.
- `NoUpdateCycle` is about chains of installs, of commands and of the agent's own, as
  long as all versions that the server had are ordered with each other. `update` also
  installs a target that has no order with the version that runs (commands.go:191-202):
  two builds of one release, `d2a` and `d2b`, replace each other as often as the control
  plane asks. The run has such versions, and nothing is claimed for their chains.
- `ImplementsLife`, which says what a command can expect, and `OneVerdict`, which
  follows from it, need what the run of the first sets: no failed write or read, no
  reply that is older than the result, no administrator in between. Each of the three
  makes a second verdict possible, and the code does not claim otherwise.
- `CommandLife`: an effect is the restart or the replacement of the binary, tried or
  done; a "completed" of a restart is true only after the process ended for it, which is
  why `resolve` of the next process says it. A "completed" of an update is true when the
  server has had its target or a newer version, by this command or another one; a
  "failed" when this command did not install it.
- `EachMinute` and `SilentBounded` count what the code does not catch. The loop reads
  the clock at its top (agent.go:148), for the timer (:157) and after a reading (:169).
  When the process pauses across the next tick between :169 and :148, `nextAfter`
  returns the tick after it, and a minute has none: `excused`, as when the work of a
  tick takes that long. A step back of the clock between :148 and :157 makes the timer
  longer by its size: `slip`.
- `FilesKept` measures age by the wall clock, as RemoveTemp does, and the clock does not
  step in the model. The contexts limit the download only (release.go:166, 180-186); the
  extraction and the sync have no limit in the code. `WriteLimit` is what they may take:
  50 minutes, with the values of the code. A file that is taken all the same makes the
  rename fail, and the old binary stays.
- `CheckedInTime`: at each tick the last check is at most a day and the gap behind. That
  is not one check in each calendar day.
- `NeverDowngrades` holds as long as nobody but the agent replaces the binary; with
  `OperatorUpdates` it is the finding `commands_fly`.
- `RecoversInTime`: with the numbers of the code, a queue of events takes ten
  requests and the time of a send has room for two slow ones, so slow events can
  hold the samples for four ticks more than the wait.
- `NeverTwice` is about reads whose offset could be saved. When `traffic.json`
  cannot be written, `read` returns the lines all the same (traffic.go:144) and
  the next read has them again: with a full disk the same bytes are in a sample
  each minute.
- `NoneSkipped` needs first lines that differ. The head is a hash of at most 256 bytes
  and not past the offset (traffic.go:95): when the offset is small and the requests are
  equal, a new file with the old inode passes for the old one, and its first lines are
  not counted. `sameText` is that case. Its other exceptions are the code's, too: what
  is behind the offset in the old file when a new one is found, and the lines of a read
  whose process stops before its sample is saved, have passed without being told.
- `CleanedAccepted` says of each number that it is in range, except for the two that no
  clean function changes: the bytes of the traffic (wire.go:98-102) and FilesBytes
  (wire.go:114). The request is accepted when those two are in range; that they are not
  made so, although clean.go:12-15 says that the agent "keeps each value in its range",
  matters when a log or a file system is broken: other numbers do not reach the limits.
- `NotTwice` of the collector is about saves that succeed: when `counters.json` cannot
  be written and a tick was late by half a minute, a restart goes on from the
  reading before, and a part of the traffic is in two samples.
- `DiskIsReal`: what a sample says of the disks is activity that happened in its minute,
  over disks that come and go between any two readings, readings without disks, reboots
  and restarts. It is never too high. It is too low only when one window cannot show
  that a disk started again: it is missing at one end of the window, or counted past its
  old value in it. The network has another rule: when an interface starts again and
  passes its old value within the minute, `netDelta` sees nothing (metrics.go:276-281),
  and the traffic of the minute is sent, too low. `NotTwice` allows that.
- `AboutAMinute` is a guard of the code for a minute of one process; what it adds is the
  minute that began in another process, whose first reading has no monotonic time, and a
  step of the clock in it.
- `NoResultDropped` is about the walk. In the model a walk ends while a sample is
  measured, the point at which it could be lost; a stop of the process loses the results
  and is not counted, and the offset of the traffic log is in `TrafficLog`
  (`NoneSkipped`).
- `InstalledIsReviewed`: the script and the agent each make several downloads, and
  GitHub may answer with other files each time. It holds because the script signs
  the sums in its own directory, which it compared with the build of the tag, and
  the agent installs only an archive with a sum that it verified. It takes a key that
  only the script uses. The change of a key is not modelled: docs/releasing.md
  says to list both keys for one release and to remove the old one then; an
  agent that is off during that release sees only the newest one
  (releases/latest), refuses its signature, and waits for an `agent.update`.
- `CPUTrue` says never more than was used, and exactly that if the container was
  not restarted between the read of its `cpu.stat` and that of the id of its cgroup
  (sites.go:112-113). In that moment the usage of the old cgroup is filed under the
  new id; the next figure can be too low, or missing, never too high.
- `OneWalk`: a folder that hangs keeps the goroutine of its reading (sites.go:323-337)
  after its time is over; the walk goes on. Those goroutines are not walks, and nothing
  limits their number (one more each hour).
- `ExitTruthful` and `SitesComeBack` are about the sites that the user can look at, and
  commands that no other change of a project or file disturbed, and that were not
  interrupted: Ctrl-C during the second loop of `fly sites restart` does leave sites
  down.
- `AlwaysMeasured`: when Docker does not answer, `sites` returns before `take`, so
  results can be hours old when they are sent.
- `OneWriter` is about the state files. The clean-up of the directory of the binary
  comes before the lock (agent.go:92-94), and is safe by its age limit: `FilesKept`.
- `UpdateTakesEffect` ends with the next install of the agent itself, which exits.
- `GapKept` and `CheckedInTime` exclude a step of the clock. A step back of more
  than a day while the agent runs leaves `nextUpdateCheck` where the wrong clock
  put it (agent.go:247), and no check comes for the size of the step, until a
  restart; `startAutoUpdate` handles that case only at the start.

## 4. The proofs

TLAPS checks each proof with no axiom and no omitted step. The assumptions are those on
the constants (`VersionsAssumption`, `LimitsAssumption`, `TimesAssumption`,
`WindowsAssumption`...), which say that limits are numbers and that the offset lies
within the minute; TLC evaluates them in each run. A few relate limits of the code to
each other; they are named below, with the values of the code.

- **`AgentCommands_proofs`.** `OlderIsStrict`: `compareVersions`, where it orders, is
  irreflexive, antisymmetric and transitive. `AgentAndFlyAgree`: both deciders agree. By
  cases on the parts of a version. With the type invariant, `DecidersKeepAgreeing`
  (`SameDecision`) follows for whatever version runs. `ChainsDoNotComeBack`
  (`NoUpdateCycle`) takes that no administrator updates, and has `ChainInv`: the binary
  is newer than each other version that it was, as long as these are ordered with each
  other. `TypeCorrect`, and `AtMostOnce`: `RunsAtMostOnce` for any number of commands,
  crashes, failed writes and reads, and stale replies. `RunsAtMostOnce` is not
  inductive: that a command did not run before says nothing about the next poll. `IInv`
  adds that the record of a command is on disk before its effect begins (`EffectInv`);
  that a command that ran is on record, in memory and on disk, until the control plane
  stops to send it (`RanInv`); that an entry is not younger than its command, which
  makes `SendFor <= KeepRan` enough for prune (`AgeInv`); and which command a step is
  about (`CurInv`). `ResultIsNotLost` (`ResultNotLost`) and `PollComesAfterResults`
  (`PollAfterResults`) share `ResultsInv`: the result of each command that is marked as
  sent, in memory or on the disk, is in the queue or at the control plane, or one of the
  two exceptions of 3.3 took it (`KeptInv`, `DownInv` when no process runs), its event
  comes before its mark (`EventFirst`), and an entry without a result is that of the
  command that runs (`OpenInv`). `NoDowngrade` (`NeverDowngrades`) takes
  `OperatorUpdates = FALSE`: then a process that runs is the binary on the disk until it
  installs another one (`BinaryInv`), so what it compares with its own version is not
  older than what it replaces. `VerdictIsOne` (`OneVerdict`) takes what the run of
  `ImplementsLife` takes, that no write or read fails, no reply is stale and no
  administrator updates: then each file is what memory has (`FilesAsMemory`), and the
  results of one command have one name. `CommandsKeepTheirLife` (`ImplementsLife`) takes
  the same and adds `LifeInv`: all that was said of a command, in a file, in memory or
  at the control plane, is true of it by its verb and what began (`NamesFit`), and only
  an update is open, or a restart that began or is the next step (`OpenFits`).
  `LifeSteps` then maps each step: the end of the process for a restart and the end of
  an install are `Begin`, an accepted request is `Answer`.
- **`ServerDisk_proofs`.** All of it is about the composed system, `DiskSpec`, which its
  run checks. `FileIsComplete`, `SavedIsDurable`, `OneTempFile` (`OneTemp`) and
  `Refinement`: `Write` implements `AtomicFile` for any number of writes and faults,
  installs beside it included. `DiskInv` says which content the path can name at each
  system call, on disk and in memory; `TempInv` that only the present write has a
  temporary file, or the one that the last process left. `FileCalls` shows that each
  step of the composed system is a step of `StateFile` or leaves its file alone.
  `BinaryRuns` (`ExeRuns`), `RunningFilesKept` (`FilesKept`) and `UpdateIsEffective`
  (`UpdateTakesEffect`) hold for any number of releases, installs and faults, and each
  limit of the download and time of the write that together are not above `tempMaxAge`
  (`InstallAssumption`). `BinaryInv` says of each file of a running installer what its
  step has made true (`Sound`), that there is one of each kind (`OneFile`), and that
  each name a power loss can leave is that of a synced binary (`NamesInv`).
  `OneAgentWrites` (`OneWriter`) has an invariant of its own: who has the lock
  (`LockInv`), and the temporary file at each call of a Write (`TempKept`).
- **`Schedule_proofs`.** `NextTickBounds`, `NextAfterBounds` (the next tick is after
  now, and at most `maxStepBack` and a minute away), `TypeCorrect`, and `NoTickRepeats`:
  `NoMinuteTwice` for each minute, offset and sequence of steps. `IInv` bounds how far
  the last tick and the wake time can be ahead of the wall clock by the sum of the steps
  back (`LastNear`, `WakeNear`). `NoMinuteLeftOut` (`EachMinute`): `GridInv` says that
  ticks lie on the grid of the minutes and that the one after the last is still ahead,
  as long as the clock does not step and no work or pause went across it (`excused`).
  `SilenceIsBounded` (`SilentBounded`): `QuietInv` counts, for each point of the loop,
  the time until the next tick against what each step so far allows. It takes
  `MaxStepBack` to be a whole number of minutes, which it is (two).
- **`AutoUpdate_proofs`.** `TypeCorrect`; `WithdrawnNotInstalled` (`WithdrawnInTime`)
  and `OnlyReviewedInstalled` (`InstalledIsReviewed`) for each wait, slot, set of keys
  and number of swaps, signatures and faults. `SignatureInv` says that each signature
  that exists, at GitHub, in the directory of the script or in a check, is `Genuine`: of
  sums of the tag, and not older than the first one. `CheckInv` has the clock and the
  sums of the check that runs, `WaitInv` carries the age of the signature to the binary,
  `ReviewInv` says which build the agent holds, `ClockInv` how far the clock is ahead.
  `ChecksKeepTheGap` (`GapKept`) and `ChecksInTime` (`CheckedInTime`) have `DailyInv`:
  without a step, both clocks agree (`ClocksAgree`), the times in memory and in the file
  are those of checks that were made (`TimesKnown`), and the next one is due within a
  day (`NextIsDue`).
- **`Reporting_proofs`.** `NoSampleLost` (`NothingLost`) for a queue, batches and waits
  of any size. `FileInv`: while no write failed, the file is the queue. The lemmas say
  what is kept of a queue by the save of a sample, by a batch that was answered and by a
  full queue. `SamplesCatchUp` (`RecoversInTime`) for limits of any size, from
  `RecoveryInv`: no wait of the samples is longer than the longest one after the outage
  (`WaitInv`); a sample in the queue is not older than the report that is under way,
  unless that report is one of the outage (`FreshInv`); and each report that came too
  late had a send without time for its samples, which took the events that two slow
  requests can bring away, so a queue of events pays for a bounded number of them
  (`SlowInv`). It takes `IntervalAssumption`: `maxReportInterval` is not above
  `maxBackoff` (both are ten minutes). `CleanedValues` and `RequestsAccepted`
  (`CleanedAccepted`): for each value of the types of a sample, status and event, with
  any number of sites; of the traffic and FilesBytes, which stay as they are, it is what
  makes a request accepted and not a result. What `cleanSites` has after each site is
  accepted and is of the server, by the least number of sites for which that fails.
- **`TrafficLog_proofs`.** `LineIsToldOnce` (`NeverTwice`) and `NoLineIsSkipped`
  (`NoneSkipped`) for any number of lines, files, half lines, stops and cuts, and any
  limit of the cut. Below both is `Inv`: the lines of a file lie one behind the other,
  and a file only grows until it is cut or left (`LinesInv`), and the lines a read has
  are those between its offset and its end (`ReadInv`). `Once` then says that what was
  told is behind the saved offset or that of this read, unless its file was cut or left,
  for as long as each offset was saved; `Skip` that what is behind the offset was told,
  is gone with a cut, or is with the present read, and that the head is that of the file
  which it was taken from (`FirstIsOwn`), which is where `sameText` is needed.
- **`Collector_proofs`.** `TrafficIsNotTwice` (`NotTwice`), `NothingPassedOver`
  (`NoGap`), `SampleIsOfAMinute` (`AboutAMinute`) and `WalkIsNotDropped`
  (`NoResultDropped`), for each length of a minute and any sequence of stops, reboots,
  resets, failures and steps of the clock. `Inv` relates the readings in memory, in
  `counters.json` and in a sample to the server as it is now: what was counted since a
  reading is not more than the traffic since (`Taken`), and its wall clock is not
  further ahead than the steps back allow; that of the tick is of this moment (`Fresh`).
  `TwiceInv` has the order of the saves: what was reported was seen at the reading where
  the next sample begins, in this process or the next. `GapInv` has the minutes: that
  reading is not later than the last sample, or it is of a later minute than that
  sample. `WalkInv` says that no walk has begun in a first minute. `WindowsAreLong`
  (`WindowsGoUp`) is about the chain of a sample with any number of readings. `Chain` is
  a recursive function here, and `KeptWell` says what it keeps after each reading:
  readings that are apart, and a last one that is apart from the tick or is the previous
  tick itself. It is shown without an induction theorem, by the least number of readings
  for which it fails (`Least`, from `NatLessThanWellFounded` and `WFMin`, which take no
  operator). `ListInv` has the types of the readings, `OrderInv` their order between the
  two ticks, `ChainInv` what a sample has of both.
- **`Sites_proofs`.** `OneWalkAtATime` (`OneWalk`), `ExitCodeIsTrue` (`ExitTruthful`)
  and `NoSiteLeftDown` (`SitesComeBack`) for any number of sites and folders.
  `CommandInv` says in which loop a command is (`InLoop`), and of each project whose
  call is behind that the call failed or the project is as it says (`DoneInv`), if
  nobody else changed it. The lemma `CallBehind` is about one call, failed or not, and
  `Over` is what the last call leaves. `FiguresAreTrue` (`CPUTrue`) holds for a life of
  any length: `Since` says what came of a container between two times, that with one
  cgroup the counter grew by what was used, and that a new cgroup counts no more than
  was used since. Each event keeps it, so it holds for any two times of a life
  (`LifeSince`, by the least time for which it fails).

What the proofs found. `SilentBounded` had said that each step adds `maxStepBack` to the
silence, which the instance of its run met and others do not: a step can also make the
loop wait for the rest of a minute and for one more late timer. It now says so
(`StepAllows`), and the run has the step that makes the longest wait. `NoGap` had a
premise (that the last sample knew its traffic) that it does not need, and is stated
without it. `RecoversInTime` depends on a relation of two limits that no comment of the
code names: a restart late in the outage sets `pending` to zero, and the samples of the
outage then wait for a whole interval. With a longest interval above the longest wait,
TLC finds them held too long; the two are equal in the code (agent.go:24, send.go:29),
and the model now states it (`IntervalAssumption`).

Only model-checked: `EventuallyAnswered` and `AlwaysMeasured`, which are liveness under
fairness, out of reach of the prover, and `DiskIsReal`.

## 5. Findings

Each is a run that ends with a violation.

1. `commands_fly`: the agent decides on an update with the version of its
   process, and replaces the binary on the disk. After a `fly update` that did not
   restart the agent yet, an `agent.update` to a version between the two puts an
   older release over a newer one. docs/monitoring-agent.md:130: "The agent never
   installs an older version".
2. `update_restart`: a small step back of the clock and a restart make the saved
   check time lie in the future; `startAutoUpdate` forgets it and the agent checks
   again at once. autoupdate.go:25-27: "a clock step cannot cause two checks in
   one day".
3. `traffic_half_line`: the first read takes the size of the log as its offset, also
   in the middle of a line; the next read takes the rest of that line for a line.

## 6. Not modelled, and why

- The pressure (`pressure.go`): its counters have a rule of their own, like the two that
  are modelled.
- The heights of the peaks and the hourly count of updates of the collector: a
  maximum and a cache of one value.
- The format of the signature file, the creation of keys, and more than one
  release: `Releases` has the latest one.
- HTTP, JSON and redirects of one request: their outcomes are inputs.
- Parsers of /proc and of Docker answers, the search for the folder of a site, test
  helpers: one call without state that lasts.
- `install.sh`: a third installer, run by an administrator. It verifies in a
  directory of its own, writes a file next to the binary and renames it, without a
  sync (install.sh:141-149): `ExeRuns` after a power loss is not claimed for it.

## 7. The plan

Done: `Versions`, `AgentCommands`, `AtomicFile`/`StateFile`, `Schedule`, `AutoUpdate`,
`Reporting`, `TrafficLog`, `DiskWalker`, `Collector`, `Install`/`ServerDisk`, in this
order, which is about the order of what a failure would cost; then `Sites` with the
commands of `fly` and the CPU times, `Releases` and `Config` under `AutoUpdate`,
`Clean`, the lock with a second agent, and `Windows` with `DiskActivity`.

Next:

1. The sample queue behind `Collector`, so that `NotTwice` reaches the control plane.
2. Refinements: the binary of `Install` as the one-step install of `AgentCommands`;
   the folder of a walk in `DiskWalker` as the walk of `Collector`.
3. A chain of releases with a change of keys; `install.sh` as a third installer.
4. A life of the commands that holds with an administrator beside the agent: which of
   its promises stay when `fly update` replaces the binary.
