---------------------------- MODULE AgentCommands ----------------------------
(***************************************************************************)
(* The commands of the control plane: how the agent runs each one at most   *)
(* one time and brings its result back, over crashes, failed writes, lost   *)
(* replies and updates of its own binary.                                   *)
(*                                                                         *)
(* Source: internal/agent/commands.go (ledger, resolve, commands, update),  *)
(* outbox.go (the event queue), send.go (sendEvents), agent.go (run, tick,  *)
(* report, addEvent), autoupdate.go (the install at the end of a check).    *)
(*                                                                         *)
(* The process is sequential, so one program counter pc names the point it  *)
(* is at. Each step makes at most one write to disk, and a crash can come   *)
(* between any two steps: memory (events, ledger) is lost, the files        *)
(* (eventsFile, ledgerFile) and the binary stay.                            *)
(***************************************************************************)
EXTENDS Naturals, FiniteSets, Versions

CONSTANTS
  Commands,         \* ids of the commands that the control plane can issue
  Versions,         \* the versions that exist
  Compared,         \* the versions that the two deciders are compared on
  FirstVersion,     \* the version that is installed first
  NoVersion,        \* the target of a command that is not an update
  NoCommand,        \* the command of an event or a step that has none
  MaxEvents,        \* maxEvents: the limit of the event queue
  MaxBatch,         \* maxEventsPerRequest
  KeepRan,          \* keepRan, in days
  SendFor,          \* days for which the control plane sends a command
  AutoUpdates,      \* whether the agent may install releases by itself
  OperatorUpdates,  \* whether an administrator may run fly update
  StaleReplies,     \* whether a poll may send a command that has its result
  MaxDay,           \* bound: the days of a behaviour
  MaxCrashes,       \* bound: the crashes of the agent
  MaxDiskErrors,   \* bound: the reads and writes of state files that fail
  MaxRefusals       \* bound: the events requests that get a 400

ASSUME VersionsAssumption ==
  /\ Versions \subseteq Version /\ Compared \subseteq Version
  /\ FirstVersion \in Versions
  /\ NoVersion \notin Versions
ASSUME NoCommandAssumption == NoCommand \notin Commands
ASSUME LimitsAssumption ==
  /\ MaxEvents \in Nat \ {0} /\ MaxBatch \in Nat \ {0}
  /\ KeepRan \in Nat /\ SendFor \in Nat /\ SendFor <= KeepRan
  /\ {AutoUpdates, OperatorUpdates, StaleReplies} \subseteq BOOLEAN
  /\ MaxDay \in Nat /\ MaxCrashes \in Nat
  /\ MaxDiskErrors \in Nat /\ MaxRefusals \in Nat

VARIABLES
  \* The control plane.
  cmd,         \* the verb and target of each command; NotIssued before
  issuedAt,    \* the day on which it was issued
  answers,     \* the results that the control plane accepted for it
  \* The server.
  day,         \* the wall clock, in days
  binary,      \* the version of the binary on the disk
  eventsFile,  \* events.json
  ledgerFile,  \* ran.json: what it says of each command
  fly,         \* the version of a running fly update, or NoVersion
  \* The process.
  pc,          \* where the process is; "down" when there is none
  phase,       \* why it sends and what follows: "boot", "report", "results"
  running,     \* version.Version of the process
  events,      \* outbox.events
  ledger,      \* ledger.entries
  todo,        \* the commands of the last poll that are not handled yet
  cur,         \* the command of the present step
  \* What happened, for the properties and the bounds.
  ranAt,       \* RanAt of the ledger entry of each command
  ran,         \* how often the effect of each command began
  dropped,     \* commands whose result was evicted or refused with a 400
  lost,        \* commands whose result was lost with the memory or with a file
  done,        \* commands that were carried out
  had,         \* the versions that the binary had
  forgotten,   \* commands of a ran.json that could not be read
  crashes, diskErrors, refusals

cpVars     == <<cmd, issuedAt, answers>>
diskVars   == <<binary, eventsFile, ledgerFile>>
memVars    == <<phase, running, events, ledger, todo, cur>>
ghostVars  == <<ranAt, ran, dropped, lost, done, had, forgotten>>
boundVars  == <<crashes, diskErrors, refusals>>
vars == <<cpVars, day, diskVars, fly, pc, memVars, ghostVars, boundVars>>

-----------------------------------------------------------------------------
\* "badargs" is an agent.update whose arguments are not valid, and "unknown"
\* a verb that this agent does not know.
Kinds ==
  [verb : {"restart", "unknown", "badargs"}, target : {NoVersion}]
    \cup [verb : {"update"}, target : Versions]
NotIssued == [verb |-> "none", target |-> NoVersion]
Issued    == {c \in Commands : cmd[c] # NotIssued}

Verdicts  == {"completed", "failed", "unknown"}
\* age orders the queue: how many events came after this one.
Event     == [age : Nat, name : Verdicts, cmd : Commands]
               \cup [age : Nat, name : {"started"}, cmd : {NoCommand}]
EntryState == {"absent", "open", "sent"}  \* open: ResultSent is false

NothingRan == [c \in Commands |-> "absent"]

Up         == pc # "down"
Has(c)     == ledger[c] # "absent"
Results(q) == {e.cmd : e \in {f \in q : f.name # "started"}}

Newest(q, n) == {e \in q : Cardinality({f \in q : f.age < e.age}) < n}
Oldest(q, n) == {e \in q : Cardinality({f \in q : f.age > e.age}) < n}
Aged(q)      == {[age |-> e.age + 1, name |-> e.name, cmd |-> e.cmd] : e \in q}

Expired(c) == day > issuedAt[c] + SendFor

-----------------------------------------------------------------------------
\* A write that fails leaves the file as it was.
WriteFails == diskErrors < MaxDiskErrors /\ diskErrors' = diskErrors + 1

\* outbox.save: the queue in memory is q, also when the write fails.
SaveEvents(q) ==
  /\ events' = q
  /\ \/ eventsFile' = q /\ UNCHANGED diskErrors
     \/ eventsFile' = eventsFile /\ WriteFails

\* outbox.addEvent: an agent.started event replaces the one in the queue, and
\* a full queue loses its oldest event.
AddEvent(name, c) ==
  LET old  == IF name = "started" THEN {e \in events : e.name # "started"} ELSE events
      q    == Aged(old) \cup {[age |-> 0, name |-> name, cmd |-> c]}
      kept == Newest(q, MaxEvents)
  IN  /\ SaveEvents(kept)
      /\ dropped' = dropped \cup Results(q \ kept)

\* ledger.save: an error is only logged.
SaveLedger(l) ==
  /\ ledger' = l
  /\ \/ ledgerFile' = l /\ UNCHANGED diskErrors
     \/ ledgerFile' = ledgerFile /\ WriteFails

\* ledger.add: the entry is in memory also when the write fails. Write can
\* fail after its rename, so the file of a failed add is the old or the new.
LedgerAdd(c, st, whenSaved, whenFailed) ==
  /\ ledger' = [ledger EXCEPT ![c] = st]
  /\ ranAt'  = [ranAt EXCEPT ![c] = day]
  /\ \/ ledgerFile' = ledger' /\ pc' = whenSaved /\ UNCHANGED diskErrors
     \/ ledgerFile' \in {ledgerFile, ledger'} /\ pc' = whenFailed /\ WriteFails

-----------------------------------------------------------------------------
(***************************************************************************)
(* The control plane, the clock and the administrator.                      *)
(***************************************************************************)

Issue(c) ==
  /\ c \notin Issued
  /\ \E k \in Kinds : cmd' = [cmd EXCEPT ![c] = k]
  /\ issuedAt' = [issuedAt EXCEPT ![c] = day]
  /\ UNCHANGED <<answers, day, fly, diskVars, pc, memVars, ghostVars, boundVars>>

NextDay ==
  /\ day < MaxDay
  /\ day' = day + 1
  /\ UNCHANGED <<cpVars, fly, diskVars, pc, memVars, ghostVars, boundVars>>

\* An administrator runs sudo fly update: fly is its version, that of the
\* binary on the disk at its start.
FlyStart ==
  /\ OperatorUpdates /\ fly = NoVersion
  /\ fly' = binary
  /\ UNCHANGED <<cpVars, day, diskVars, pc, memVars, ghostVars, boundVars>>

\* It installs a release that is newer than itself, over a build that is not a
\* release each one, or ends. Its try-restart of the agent, which comes later or
\* not at all, is Stop and Start.
FlyUpdate(v) ==
  /\ fly # NoVersion /\ (IsComparable(fly) => IsNewer(v, fly))
  /\ binary' = v /\ fly' = NoVersion
  /\ had' = had \cup {v}
  /\ UNCHANGED <<cpVars, day, eventsFile, ledgerFile, pc, memVars, ranAt, ran, dropped, lost,
                 done, forgotten, boundVars>>

FlyEnd ==
  /\ fly # NoVersion
  /\ fly' = NoVersion
  /\ UNCHANGED <<cpVars, day, diskVars, pc, memVars, ghostVars, boundVars>>

-----------------------------------------------------------------------------
(***************************************************************************)
(* The start and the end of the process.                                    *)
(***************************************************************************)

Fault(bad) == IF bad THEN 1 ELSE 0

\* loadQueue: a queue that cannot be read is put aside, and the agent begins with
\* an empty one.
LoadEvents(bad) ==
  /\ eventsFile' = IF bad THEN {} ELSE eventsFile
  /\ events' = eventsFile'
  /\ lost' = IF bad THEN lost \cup Results(eventsFile) ELSE lost

\* loadLedger: a list that cannot be read, this time or any more, counts as empty.
LoadLedger(bad) ==
  /\ ledgerFile' \in IF bad THEN {ledgerFile, NothingRan} ELSE {ledgerFile}
  /\ ledger' = IF bad THEN NothingRan ELSE ledgerFile
  /\ forgotten' = IF bad THEN forgotten \cup {c \in Commands : ledgerFile[c] # "absent"}
                         ELSE forgotten

\* run, up to loadLedger: memory is what the files say.
Start ==
  /\ pc = "down"
  /\ pc' = "boot" /\ phase' = "boot"
  /\ running' = binary
  /\ \E badQueue, badLedger \in BOOLEAN :
       /\ LoadEvents(badQueue) /\ LoadLedger(badLedger)
       /\ diskErrors' = diskErrors + Fault(badQueue) + Fault(badLedger)
  /\ diskErrors' <= MaxDiskErrors
  /\ todo' = {} /\ cur' = NoCommand
  /\ UNCHANGED <<cpVars, day, fly, binary, ranAt, ran, dropped, done, had, crashes, refusals>>

\* The memory of a process that ended.
LoseMemory ==
  /\ pc' = "down" /\ phase' = "boot"
  /\ events' = {} /\ ledger' = NothingRan
  /\ todo' = {} /\ cur' = NoCommand
  /\ lost' = lost \cup (Results(events) \ Results(eventsFile))

\* A crash, a kill, a power loss, a stop or a restart by systemd.
Stop ==
  /\ Up /\ pc # "exit"
  /\ crashes < MaxCrashes /\ crashes' = crashes + 1
  /\ LoseMemory
  /\ UNCHANGED <<cpVars, day, fly, diskVars, running, ranAt, ran, dropped, done, had, forgotten,
                 diskErrors, refusals>>

\* run returns: a restart, or the new binary after an install.
Exit ==
  /\ pc = "exit"
  /\ LoseMemory
  /\ IF cur # NoCommand /\ cmd[cur].verb = "restart"
     THEN ran' = [ran EXCEPT ![cur] = @ + 1] /\ done' = done \cup {cur}
     ELSE UNCHANGED <<ran, done>>
  /\ UNCHANGED <<cpVars, day, fly, diskVars, running, ranAt, dropped, had, forgotten, boundVars>>

\* run: the event of the start.
AddStarted ==
  /\ pc = "boot"
  /\ AddEvent("started", NoCommand)
  /\ pc' = "resolve"
  /\ UNCHANGED <<cpVars, day, fly, binary, ledgerFile, phase, running, ledger, todo, cur,
                 ranAt, ran, lost, done, had, forgotten, crashes, refusals>>

\* The condition of resolve for a failed update: v is older than its target or
\* has no order with it.
NotYet(v, target) == ~Ordered(v, target) \/ Older(v, target)

\* Fault: what the last process began counts as done, whatever runs now.
ResolveCompleted(c) ==
  /\ pc = "resolve"
  /\ ledger[c] = "open"
  /\ AddEvent("completed", c)
  /\ cur' = c /\ pc' = "mark"
  /\ UNCHANGED <<cpVars, day, fly, binary, ledgerFile, phase, running, ledger, todo,
                 ranAt, ran, lost, done, had, forgotten, crashes, refusals>>

\* resolve, first half: the result of a command that the last process began.
\* An update completed when this process does not run an older version.
ResolveOne(c) ==
  /\ pc = "resolve"
  /\ ledger[c] = "open"
  /\ LET failed == cmd[c].verb = "update" /\ NotYet(running, cmd[c].target)
     IN  AddEvent(IF failed THEN "failed" ELSE "completed", c)
  /\ cur' = c /\ pc' = "mark"
  /\ UNCHANGED <<cpVars, day, fly, binary, ledgerFile, phase, running, ledger, todo,
                 ranAt, ran, lost, done, had, forgotten, crashes, refusals>>

\* resolve, second half, and the end of a failed install: markSent.
MarkSent ==
  /\ pc = "mark"
  /\ SaveLedger([ledger EXCEPT ![cur] = "sent"])
  /\ pc' = IF phase = "boot" THEN "resolve" ELSE "run"
  /\ cur' = NoCommand
  /\ UNCHANGED <<cpVars, day, fly, binary, eventsFile, phase, running, events, todo,
                 ghostVars, crashes, refusals>>

\* resolve returns; run sends the events at once.
Resolved ==
  /\ pc = "resolve"
  /\ \A c \in Commands : ledger[c] # "open"
  /\ pc' = "send"
  /\ UNCHANGED <<cpVars, day, fly, diskVars, memVars, ghostVars, boundVars>>

-----------------------------------------------------------------------------
(***************************************************************************)
(* Events requests (send, sendEvents).                                      *)
(***************************************************************************)

\* tick, report: each interval samples, a report is due.
Report ==
  /\ pc = "idle"
  /\ pc' = "send" /\ phase' = "report"
  /\ UNCHANGED <<cpVars, day, fly, diskVars, running, events, ledger, todo, cur, ghostVars, boundVars>>

\* tick, report: no report is due.
NoReport ==
  /\ pc = "idle"
  /\ pc' = "check"
  /\ UNCHANGED <<cpVars, day, fly, diskVars, memVars, ghostVars, boundVars>>

Batch == Oldest(events, MaxBatch)

\* What the control plane has after it accepted a batch. It knows an event
\* that it already has by its id, so a resend adds nothing.
Accepted(b) == [c \in Commands |-> answers[c] \cup {e.name : e \in {f \in b : f.cmd = c}}]

\* Fault: report polls while events wait.
AfterUnsentPolls == CASE phase = "boot"    -> "idle"
                      [] phase = "report"  -> "poll"
                      [] phase = "results" -> "check"

\* What follows a send that left events in the queue.
AfterUnsent == IF phase = "boot" THEN "idle" ELSE "check"

\* The request is accepted, and dropEvents removes the batch.
PostSent ==
  /\ pc = "send" /\ events # {}
  /\ answers' = Accepted(Batch)
  /\ SaveEvents(events \ Batch)
  /\ UNCHANGED <<cmd, issuedAt, day, fly, binary, ledgerFile, pc, phase, running, ledger,
                 todo, cur, ghostVars, crashes, refusals>>

\* A 400: the batch is dropped, and the next one goes.
PostRefused ==
  /\ pc = "send" /\ events # {}
  /\ refusals < MaxRefusals /\ refusals' = refusals + 1
  /\ SaveEvents(events \ Batch)
  /\ dropped' = dropped \cup Results(Batch)
  /\ UNCHANGED <<cpVars, day, fly, binary, ledgerFile, pc, phase, running, ledger,
                 todo, cur, ranAt, ran, lost, done, had, forgotten, crashes>>

\* Another failure, a wait that is not over, or the end of the time of the
\* report: the events stay. When only the reply was lost, the control plane
\* has them.
PostLater ==
  /\ pc = "send" /\ events # {}
  /\ answers' \in {answers, Accepted(Batch)}
  /\ pc' = AfterUnsent
  /\ UNCHANGED <<cmd, issuedAt, day, fly, diskVars, memVars, ghostVars, boundVars>>

\* The queue is empty: only then a report goes on to the poll.
SendDone ==
  /\ pc = "send" /\ events = {}
  /\ pc' = CASE phase = "boot"    -> "idle"
             [] phase = "report"  -> "poll"
             [] phase = "results" -> "check"
  /\ UNCHANGED <<cpVars, day, fly, diskVars, memVars, ghostVars, boundVars>>

-----------------------------------------------------------------------------
(***************************************************************************)
(* The poll and the commands (commands, runCommand, update).                *)
(***************************************************************************)

\* The control plane sends a command for SendFor days, until its result
\* arrives. One that is slow to see the result can send it again.
Sendable == {c \in Issued : ~Expired(c)}
Open     == {c \in Sendable : answers[c] = {}}

\* ledger.prune keeps a command whose result is not sent, or that is young.
Pruned == [c \in Commands |->
             IF ledger[c] = "sent" /\ day > ranAt[c] + KeepRan THEN "absent" ELSE ledger[c]]

Poll ==
  /\ pc = "poll"
  /\ todo' = Open \/ (StaleReplies /\ todo' = Sendable)
  /\ IF Pruned # ledger THEN SaveLedger(Pruned)
                        ELSE UNCHANGED <<ledger, ledgerFile, diskErrors>>
  /\ pc' = "run" /\ phase' = "results"
  /\ UNCHANGED <<cpVars, day, fly, binary, eventsFile, running, events, cur, ghostVars, crashes, refusals>>

\* No reply, or a wait after an earlier failure.
PollFailed ==
  /\ pc = "poll"
  /\ pc' = "check"
  /\ UNCHANGED <<cpVars, day, fly, diskVars, memVars, ghostVars, boundVars>>

\* commands passes over a command that it already ran.
SkipRan(c) ==
  /\ pc = "run" /\ c \in todo /\ Has(c)
  /\ todo' = todo \ {c}
  /\ UNCHANGED <<cpVars, day, fly, diskVars, pc, phase, running, events, ledger, cur, ghostVars, boundVars>>

\* The first step of a command that is not in the ledger.
Take(c) == /\ pc = "run" /\ c \in todo /\ ~Has(c)
           /\ todo' = todo \ {c}
           /\ cur' = c

\* Fault: the exit for a restart does not wait for the record.
RunRestartUnsaved(c) ==
  /\ Take(c) /\ cmd[c].verb = "restart"
  /\ LedgerAdd(c, "open", "exit", "exit")
  /\ UNCHANGED <<cpVars, day, fly, binary, eventsFile, phase, running, events,
                 ran, dropped, lost, done, had, forgotten, crashes, refusals>>

\* runCommand, agent.restart: the record comes before the exit.
RunRestart(c) ==
  /\ Take(c) /\ cmd[c].verb = "restart"
  /\ LedgerAdd(c, "open", "exit", "fail")
  /\ UNCHANGED <<cpVars, day, fly, binary, eventsFile, phase, running, events,
                 ran, dropped, lost, done, had, forgotten, crashes, refusals>>

\* runCommand, a verb that the agent does not know.
RunUnknown(c) ==
  /\ Take(c) /\ cmd[c].verb = "unknown"
  /\ AddEvent("unknown", c)
  /\ pc' = "record"
  /\ UNCHANGED <<cpVars, day, fly, binary, ledgerFile, phase, running, ledger,
                 ranAt, ran, lost, done, had, forgotten, crashes, refusals>>

\* update, the arguments or the target are refused: fail.
RunRefused(c) ==
  /\ Take(c)
  /\ \/ cmd[c].verb = "badargs"
     \/ cmd[c].verb = "update" /\ Older(cmd[c].target, running)
  /\ pc' = "fail"
  /\ UNCHANGED <<cpVars, day, fly, diskVars, phase, running, events, ledger, ghostVars, boundVars>>

\* update, the agent already runs the target.
RunSame(c) ==
  /\ Take(c) /\ cmd[c].verb = "update"
  /\ Same(running, cmd[c].target)
  /\ AddEvent("completed", c)
  /\ pc' = "record"
  /\ UNCHANGED <<cpVars, day, fly, binary, ledgerFile, phase, running, ledger,
                 ranAt, ran, lost, done, had, forgotten, crashes, refusals>>

\* Fault: only the same version is refused, an older one is installed.
RunUpdateAny(c) ==
  /\ Take(c) /\ cmd[c].verb = "update"
  /\ ~Same(running, cmd[c].target)
  /\ LedgerAdd(c, "open", "install", "fail")
  /\ UNCHANGED <<cpVars, day, fly, binary, eventsFile, phase, running, events,
                 ran, dropped, lost, done, had, forgotten, crashes, refusals>>

\* Fault: the command is recorded as one whose result is sent.
RunUpdateSent(c) ==
  /\ Take(c) /\ cmd[c].verb = "update"
  /\ Older(running, cmd[c].target) \/ ~Ordered(running, cmd[c].target)
  /\ LedgerAdd(c, "sent", "install", "fail")
  /\ UNCHANGED <<cpVars, day, fly, binary, eventsFile, phase, running, events,
                 ran, dropped, lost, done, had, forgotten, crashes, refusals>>

\* update, a newer target or one without an order: recorded, then installed.
RunUpdate(c) ==
  /\ Take(c) /\ cmd[c].verb = "update"
  /\ Older(running, cmd[c].target) \/ ~Ordered(running, cmd[c].target)
  /\ LedgerAdd(c, "open", "install", "fail")
  /\ UNCHANGED <<cpVars, day, fly, binary, eventsFile, phase, running, events,
                 ran, dropped, lost, done, had, forgotten, crashes, refusals>>

\* updateBinary: the rename over the binary is one step on the disk.
Installed ==
  /\ pc = "install"
  /\ binary' = cmd[cur].target
  /\ ran' = [ran EXCEPT ![cur] = @ + 1]
  /\ done' = done \cup {cur} /\ had' = had \cup {binary'}
  /\ pc' = "exit"
  /\ UNCHANGED <<cpVars, day, fly, eventsFile, ledgerFile, memVars, ranAt, dropped, lost,
                 forgotten, boundVars>>

\* Fault: the failure of the install is marked as sent, but not queued.
InstallFailedSilently ==
  /\ pc = "install"
  /\ ran' = [ran EXCEPT ![cur] = @ + 1]
  /\ pc' = "mark"
  /\ UNCHANGED <<cpVars, day, fly, diskVars, memVars, ranAt, dropped, lost, done, had,
                 forgotten, boundVars>>

\* updateBinary returns an error, for example after its timeout.
InstallFailed ==
  /\ pc = "install"
  /\ ran' = [ran EXCEPT ![cur] = @ + 1]
  /\ AddEvent("failed", cur)
  /\ pc' = "mark"
  /\ UNCHANGED <<cpVars, day, fly, binary, ledgerFile, phase, running, ledger, todo, cur,
                 ranAt, lost, done, had, forgotten, crashes, refusals>>

\* Fault: command.failed without the id of its command.
AddFailedNoId ==
  /\ pc = "fail"
  /\ AddEvent("failed", NoCommand)
  /\ pc' = "record"
  /\ UNCHANGED <<cpVars, day, fly, binary, ledgerFile, phase, running, ledger, todo, cur,
                 ranAt, ran, lost, done, had, forgotten, crashes, refusals>>

\* fail, first half.
AddFailed ==
  /\ pc = "fail"
  /\ AddEvent("failed", cur)
  /\ pc' = "record"
  /\ UNCHANGED <<cpVars, day, fly, binary, ledgerFile, phase, running, ledger, todo, cur,
                 ranAt, ran, lost, done, had, forgotten, crashes, refusals>>

\* record: the result is in the queue, so the entry is added or marked sent.
Record ==
  /\ pc = "record"
  /\ IF Has(cur)
     THEN /\ SaveLedger([ledger EXCEPT ![cur] = "sent"])
          /\ pc' = "run" /\ UNCHANGED ranAt
     ELSE LedgerAdd(cur, "sent", "run", "run")
  /\ cur' = NoCommand
  /\ UNCHANGED <<cpVars, day, fly, binary, eventsFile, phase, running, events, todo,
                 ran, dropped, lost, done, had, forgotten, crashes, refusals>>

\* commands returns; report sends the new results now.
CommandsDone ==
  /\ pc = "run" /\ todo = {}
  /\ pc' = IF events = {} THEN "check" ELSE "send"
  /\ UNCHANGED <<cpVars, day, fly, diskVars, memVars, ghostVars, boundVars>>

-----------------------------------------------------------------------------
(***************************************************************************)
(* The end of the tick: checkForUpdate. Module AutoUpdate has its timing.   *)
(***************************************************************************)

AutoInstall(v) ==
  /\ pc = "check" /\ AutoUpdates
  /\ ~IsLocalBuild(running)
  /\ Older(running, v)
  /\ binary' = v /\ had' = had \cup {v}
  /\ pc' = "exit"
  /\ UNCHANGED <<cpVars, day, fly, eventsFile, ledgerFile, memVars, ranAt, ran, dropped, lost,
                 done, forgotten, boundVars>>

\* No check is due, or it installs nothing.
TickDone ==
  /\ pc = "check"
  /\ pc' = "idle"
  /\ UNCHANGED <<cpVars, day, fly, diskVars, memVars, ghostVars, boundVars>>

-----------------------------------------------------------------------------
Init ==
  /\ cmd = [c \in Commands |-> NotIssued]
  /\ issuedAt = [c \in Commands |-> 0]
  /\ answers = [c \in Commands |-> {}]
  /\ day = 0
  /\ binary = FirstVersion /\ running = FirstVersion /\ fly = NoVersion
  /\ eventsFile = {} /\ events = {}
  /\ ledgerFile = NothingRan /\ ledger = NothingRan
  /\ pc = "down" /\ phase = "boot"
  /\ todo = {} /\ cur = NoCommand
  /\ ranAt = [c \in Commands |-> 0]
  /\ ran = [c \in Commands |-> 0]
  /\ dropped = {} /\ lost = {} /\ done = {} /\ had = {FirstVersion} /\ forgotten = {}
  /\ crashes = 0 /\ diskErrors = 0 /\ refusals = 0

Environment ==
  \/ \E c \in Commands : Issue(c)
  \/ NextDay
  \/ FlyStart \/ FlyEnd
  \/ \E v \in Versions : FlyUpdate(v)
  \/ Stop

Command(c) ==
  \/ SkipRan(c) \/ RunRestart(c) \/ RunUnknown(c)
  \/ RunRefused(c) \/ RunSame(c) \/ RunUpdate(c)

Agent ==
  \/ Start \/ Exit \/ AddStarted \/ MarkSent \/ Resolved
  \/ Report \/ NoReport \/ PostSent \/ PostRefused \/ PostLater \/ SendDone
  \/ Poll \/ PollFailed
  \/ Installed \/ InstallFailed \/ AddFailed \/ Record \/ CommandsDone
  \/ TickDone
  \/ \E c \in Commands : ResolveOne(c) \/ Command(c)
  \/ \E v \in Versions : AutoInstall(v)

Next == Environment \/ Agent
Spec == Init /\ [][Next]_vars

(***************************************************************************)
(* Fairness. The process takes its next step, systemd starts it again       *)
(* (Restart=always), each interval ticks are a report, and a control plane  *)
(* that is asked again and again answers one time.                          *)
(***************************************************************************)
FairSpec ==
  /\ Spec
  /\ WF_vars(Agent)
  /\ SF_vars(Report) /\ SF_vars(PostSent) /\ SF_vars(Poll)

-----------------------------------------------------------------------------
(***************************************************************************)
(* Properties.                                                              *)
(***************************************************************************)

\* The values that each variable can have, in memory and on the disk.
TypeOK ==
  /\ cmd \in [Commands -> Kinds \cup {NotIssued}]
  /\ issuedAt \in [Commands -> Nat] /\ day \in Nat
  /\ answers \in [Commands -> SUBSET Verdicts]
  /\ binary \in Versions /\ running \in Versions
  /\ fly \in Versions \cup {NoVersion}
  /\ eventsFile \subseteq Event /\ events \subseteq Event
  /\ ledgerFile \in [Commands -> EntryState] /\ ledger \in [Commands -> EntryState]
  /\ pc \in {"down", "boot", "resolve", "mark", "idle", "send", "poll", "run",
             "install", "fail", "record", "check", "exit"}
  /\ phase \in {"boot", "report", "results"}
  /\ todo \subseteq Commands /\ cur \in Commands \cup {NoCommand}
  /\ pc \in {"mark", "install", "fail", "record"} => cur \in Commands
  /\ pc = "install" => cmd[cur].verb = "update"
  /\ ranAt \in [Commands -> Nat] /\ ran \in [Commands -> Nat]
  /\ dropped \subseteq Commands /\ lost \subseteq Commands /\ done \subseteq Commands
  /\ had \subseteq Versions /\ forgotten \subseteq Commands
  /\ crashes \in Nat /\ diskErrors \in Nat /\ refusals \in Nat

\* "Each command runs at most one time, also after a crash"
\* (docs/monitoring-agent.md): the restart or the install of a command never
\* begins a second time, whatever is sent again, crashes or is not saved, as long
\* as the ran.json that knows of the command can be read at a start.
RunsAtMostOnce == \A c \in Commands \ forgotten : ran[c] <= 1

\* When ran.json says that the result of a command is in the queue, the
\* result is in the queue (on the disk or, until the next save, in memory),
\* or the control plane has it, or it was dropped by the rules of the queue,
\* or it went with the memory of a process whose write had failed, or with a
\* queue that could not be read.
ResultNotLost ==
  \A c \in Commands : ledgerFile[c] = "sent" =>
    \/ answers[c] # {}
    \/ c \in Results(eventsFile) \cup Results(events)
    \/ c \in dropped \cup lost

\* The reason of report for a poll with an empty queue: "the results of the
\* commands that ran must reach the control plane first, so that it does not
\* send them again" (agent.go).
PollAfterResults ==
  pc = "poll" => \A c \in Commands :
    Has(c) => answers[c] # {} \/ c \in dropped \cup lost

\* The control plane never gets two different results for one command, also
\* when a crash between the event and its mark makes a second event. It needs
\* that no read or write fails, no reply sends a command again after its result, and no
\* administrator changes the binary in between. ImplementsLife implies it.
OneVerdict == \A c \in Commands : Cardinality(answers[c]) <= 1

\* "The agent never downgrades" (commands.go, docs/decisions.md): the agent
\* never puts an older binary in place of the one that is installed.
InstallsNoOlder ==
  (pc \in {"install", "check"} /\ pc' = "exit") => ~Older(binary', binary)
NeverDowngrades == [][InstallsNoOlder]_vars

\* A chain of updates does not come back: while all versions that the binary had
\* are ordered with each other and with the one that is installed, an install of
\* the agent, for a command or by itself, puts in none that the binary had
\* before. A target that has no order with the version that runs is installed
\* also (two dev tags of one release), and a chain through such a pair can come
\* back: from d2a to d2b and to d2a. No administrator changes the binary.
AllOrdered(S) == \A v, w \in S : Ordered(v, w)
InstallsNoneAgain ==
  (pc \in {"install", "check"} /\ pc' = "exit") => (AllOrdered(had') => binary' \notin had)
NoUpdateCycle == [][InstallsNoneAgain]_vars

\* What the agent installs by itself is what fly update calls newer, for the
\* version that runs and each other one.
SameDecision ==
  pc = "check" => \A a \in Compared : DecidersAgree(running, a)

\* Each command gets its result to the control plane, or it is older than
\* the control plane sends it, or its result was dropped or lost as above.
EventuallyAnswered ==
  \A c \in Commands :
    (c \in Issued) ~> (answers[c] # {} \/ Expired(c) \/ c \in dropped \cup lost)

\* Each step is one of the life of a command, or none: no effect begins twice or
\* after the result, no result changes, and none is untrue. It needs the three
\* conditions of OneVerdict.
Life == INSTANCE CommandLife WITH
  verb <- [c \in Commands |-> cmd[c].verb], begun <- {c \in Commands : ran[c] # 0},
  reached <- {c \in Commands : cmd[c].verb = "update" /\ \E v \in had : ~NotYet(v, cmd[c].target)}
ImplementsLife == Life!Spec
=============================================================================
