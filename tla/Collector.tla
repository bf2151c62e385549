----------------------------- MODULE Collector -----------------------------
(***************************************************************************)
(* The collector, internal/metrics: the readings between two ticks, the      *)
(* sample of a minute with its windows and its traffic, and counters.json,   *)
(* from which the next process goes on (metrics.go, windows.go).             *)
(*                                                                         *)
(* The counter is that of the network. The disks have counters of their own, *)
(* in DiskActivity. A reading of this process has a monotonic time, which a  *)
(* step of the wall clock does not move; one from counters.json has not.     *)
(***************************************************************************)
EXTENDS Windows

CONSTANTS
  Minute,       \* one minute, in units of time
  MinFirst,     \* minFirstMinute
  MaxReadings,  \* maxReadings
  ReadPhases,   \* where in the minute a reading can come
  ClockSteps,   \* the steps that the wall clock can make
  FirstTime,    \* the wall clock at first
  MaxTime,      \* bound: units of time
  MaxSteps,     \* bound: the steps of the clock
  MaxFaults     \* bound: resets, steps of the clock, stops of the agent, failed
                \* reads and failed writes, together

ASSUME TimesAssumption ==
  /\ {Minute, MinFirst, MaxReadings} \subseteq Nat \ {0}
  /\ ReadPhases \subseteq 0..(Minute - 1) /\ ClockSteps \subseteq Int
ASSUME BoundsAssumption ==
  {FirstTime, MaxTime, MaxSteps, MaxFaults} \subseteq Nat

VARIABLES
  pc,         \* "down", "idle", "measure", "save", "deliver"
  now, offset, \* the time that passed, and what the wall clock adds to it
  boot,       \* the boot of the server
  count,      \* the counter of the network, or NotCounted
  prev, readings, fromStart,  \* of the Collector
  cur,        \* the reading of this tick
  minute,     \* the minute of the last tick
  file,       \* counters.json, or NoReading
  walk,       \* the disk walk of the sites: "none", "walking", "ready"
  sample,     \* the sample that is on its way to the queue, or NoSample
  total,      \* all that was ever counted
  reported,   \* the traffic of all samples in the queue
  last,       \* the last sample that came to the queue
  dropped,    \* whether a result of a walk was taken and dropped
  back,       \* the sum of the steps back of the wall clock
  resets, steps, stops, fails, saveFails

memoryVars == <<prev, readings, fromStart, cur, walk, sample>>
serverVars == <<now, offset, boot, count, total, back, resets, steps>>
queueVars == <<reported, last, dropped>>
boundVars == <<stops, fails, saveFails>>
vars == <<pc, minute, file, memoryVars, serverVars, queueVars, boundVars>>

-----------------------------------------------------------------------------
NotCounted == -1  \* no interface has a device
NotSet == -2      \* the reading of a start: "not those of one minute"
NoSample == [minute |-> -1]

wall == now + offset
CanFault == resets + steps + stops + fails + saveFails < MaxFaults

\* read.
Reading == [boot |-> boot, wall |-> wall, at |-> now, count |-> count,
            seen |-> total, saved |-> FALSE]

\* The last reading: the newest of this minute, else that of the tick.
LastReading == IF readings # <<>> THEN Last(readings) ELSE prev

Counted(r) == r # NoReading /\ r.count >= 0
WentBack(a, b) == Counted(a) /\ Counted(b) /\ b.count < a.count

\* netDelta: an interface counts when both readings have it.
NetKnown(a, b) ==
  a # NoReading /\ a.count # NotSet /\ OfOneMinute(a, b) /\ ~WentBack(a, b)
NetDelta(a, b) == IF Counted(a) /\ Counted(b) THEN b.count - a.count ELSE 0

\* What a sample says of its minute, from prev to the reading of its tick, cur.
SampleNet(s) == NetKnown(s.prev, s.cur) /\ s.cur.count # NotCounted
SampleTraffic(s) == IF SampleNet(s) THEN NetDelta(s.prev, s.cur) ELSE 0
-----------------------------------------------------------------------------
Init ==
  /\ pc = "down" /\ now = 0 /\ offset = FirstTime /\ boot = 1 /\ count = 0
  /\ prev = NoReading /\ readings = <<>> /\ fromStart = FALSE /\ cur = NoReading
  /\ minute = 0 /\ file = NoReading /\ walk = "none" /\ sample = NoSample
  /\ total = 0 /\ reported = 0 /\ last = [minute |-> -1, to |-> 0]
  /\ dropped = FALSE /\ back = 0
  /\ resets = 0 /\ steps = 0 /\ stops = 0 /\ fails = 0 /\ saveFails = 0

Recent(saved) ==
  LET age == wall - saved.wall IN saved.boot = boot /\ age > 0 /\ age <= MaxAge

\* Fault: the minute begins at the start also when there is a saved reading.
StartNow ==
  /\ pc = "down"
  /\ prev' = IF Recent(file) THEN Reading ELSE [Reading EXCEPT !.count = NotSet]
  /\ fromStart' = ~Recent(file) /\ readings' = <<>>
  /\ minute' = wall \div Minute /\ pc' = "idle"
  /\ UNCHANGED <<cur, walk, sample, file, serverVars, queueVars, boundVars>>

\* Fault: the first minute counts from zero, as if nothing was counted before.
StartFromZero ==
  /\ pc = "down" /\ ~Recent(file)
  /\ prev' = [Reading EXCEPT !.count = 0]
  /\ readings' = <<>> /\ fromStart' = TRUE

\* New: the first minute begins at the saved reading when it is recent and of
\* this boot, else at the start, of which only the CPU counts.
StartSaved ==
  /\ pc = "down" /\ Recent(file)
  /\ prev' = [file EXCEPT !.saved = TRUE]
  /\ readings' = <<Reading>> /\ fromStart' = FALSE
StartNew ==
  /\ pc = "down" /\ ~Recent(file)
  /\ prev' = [Reading EXCEPT !.count = NotSet]
  /\ readings' = <<>> /\ fromStart' = TRUE
StartBlind ==
  /\ pc = "down" /\ CanFault
  /\ prev' = NoReading /\ readings' = <<>> /\ fromStart' = FALSE
Start ==
  /\ \/ (StartSaved \/ StartNew) /\ UNCHANGED fails
     \/ StartBlind /\ fails' = fails + 1
  /\ minute' = wall \div Minute /\ pc' = "idle"
  /\ UNCHANGED <<cur, walk, sample, file, serverVars, queueVars, stops, saveFails>>

\* Read, between two ticks. A full list loses its oldest reading.
Read ==
  /\ pc = "idle" /\ wall % Minute \in ReadPhases
  /\ LastReading # NoReading => Between(LastReading, Reading) > 0
  /\ readings' = Append(IF Len(readings) >= MaxReadings THEN Tail(readings) ELSE readings, Reading)
  /\ UNCHANGED <<pc, minute, file, prev, fromStart, cur, walk, sample,
                 serverVars, queueVars, boundVars>>

\* Sample, at a tick: first the reading. A reading that fails, also between two
\* ticks, leaves everything as it is.
TickRead ==
  /\ pc = "idle" /\ wall \div Minute # minute
  /\ minute' = wall \div Minute
  /\ cur' = Reading /\ pc' = "measure"
  /\ UNCHANGED <<file, prev, readings, fromStart, walk, sample, serverVars, queueVars, boundVars>>

TickFails ==
  /\ pc = "idle" /\ wall \div Minute # minute /\ CanFault
  /\ minute' = wall \div Minute /\ fails' = fails + 1
  /\ UNCHANGED <<pc, file, memoryVars, serverVars, queueVars, stops, saveFails>>

ShortMinute == fromStart /\ Between(prev, cur) \in 0..(MinFirst - 1)

\* sites takes what the last walk found, and starts the next one.
TakeWalk == walk' = IF walk = "walking" THEN walk ELSE "walking"

\* The first minute is too short: its reading begins the next one.
NoMinute ==
  /\ pc = "measure" /\ ShortMinute
  /\ fromStart' = FALSE /\ prev' = cur /\ readings' = <<>>
  /\ TakeWalk /\ dropped' = (dropped \/ walk = "ready")
  /\ pc' = "save"
  /\ UNCHANGED <<minute, file, cur, sample, serverVars, reported, last, boundVars>>

\* Fault: the sites are measured before the steps that can fail.
MeasureFailsLate ==
  /\ pc = "measure" /\ ~ShortMinute /\ CanFault
  /\ TakeWalk /\ dropped' = (dropped \/ walk = "ready")
  /\ fromStart' = FALSE /\ cur' = NoReading /\ fails' = fails + 1
  /\ pc' = "idle"
  /\ UNCHANGED <<minute, file, prev, readings, sample, serverVars, reported, last, stops, saveFails>>

\* The load or the size of the disk cannot be read.
MeasureFails ==
  /\ pc = "measure" /\ ~ShortMinute /\ CanFault
  /\ fromStart' = FALSE /\ cur' = NoReading /\ fails' = fails + 1
  /\ pc' = "idle"
  /\ UNCHANGED <<minute, file, prev, readings, walk, sample, serverVars, queueVars, stops, saveFails>>

Measure ==
  /\ pc = "measure" /\ ~ShortMinute
  /\ sample' = [minute |-> minute, prev |-> prev, cur |-> cur, chain |-> Chain(prev, readings, cur)]
  /\ TakeWalk
  /\ fromStart' = FALSE /\ prev' = cur /\ readings' = <<>>
  /\ pc' = "save"
  /\ UNCHANGED <<minute, file, cur, serverVars, queueVars, boundVars>>

\* statefile.Write of counters.json. Then Sample returns.
SaveCounters ==
  /\ pc = "save"
  /\ \/ file' = cur /\ UNCHANGED saveFails
     \/ CanFault /\ saveFails' = saveFails + 1 /\ UNCHANGED file
  /\ cur' = NoReading /\ pc' = IF sample = NoSample THEN "idle" ELSE "deliver"
  /\ UNCHANGED <<minute, prev, readings, fromStart, walk, sample, serverVars, queueVars, stops, fails>>

\* tick of the agent: the sample goes in the queue.
Deliver ==
  /\ pc = "deliver"
  /\ reported' = reported + SampleTraffic(sample)
  /\ last' = [minute |-> sample.minute, to |-> sample.cur.seen]
  /\ sample' = NoSample /\ pc' = "idle"
  /\ UNCHANGED <<minute, file, prev, readings, fromStart, cur, walk, serverVars, dropped, boundVars>>

\* A walk ends. That it did is of no interest before sites asks.
WalkEnds ==
  /\ pc = "measure" /\ walk = "walking" /\ walk' = "ready"
  /\ UNCHANGED <<pc, minute, file, prev, readings, fromStart, cur, sample,
                 serverVars, queueVars, boundVars>>

\* The agent stops, at any point.
Stop ==
  /\ pc # "down" /\ CanFault /\ stops' = stops + 1
  /\ prev' = NoReading /\ readings' = <<>> /\ fromStart' = FALSE /\ cur' = NoReading
  /\ walk' = "none" /\ sample' = NoSample /\ minute' = 0
  /\ pc' = "down"
  /\ UNCHANGED <<file, serverVars, queueVars, fails, saveFails>>
-----------------------------------------------------------------------------
\* A sample takes less than a unit of time, and does not look at the server or
\* at the clock after its reading.
Waiting == pc \in {"down", "idle"}
agentVars == <<pc, minute, file, memoryVars, queueVars, boundVars>>

\* The counter starts again, or what it counts goes away and comes back.
CounterReset ==
  /\ Waiting /\ CanFault /\ resets' = resets + 1
  /\ count' \in {0, NotCounted}
  /\ UNCHANGED <<now, offset, boot, total, back, steps, agentVars>>

Reboot ==
  /\ pc = "down" /\ CanFault /\ resets' = resets + 1
  /\ boot' = boot + 1 /\ count' = 0
  /\ UNCHANGED <<now, offset, total, back, steps, agentVars>>

\* One unit of time, with one unit of traffic while something is counted.
Elapse ==
  /\ Waiting /\ now < MaxTime /\ now' = now + 1
  /\ LET more == IF count >= 0 THEN 1 ELSE 0
     IN  count' = count + more /\ total' = total + more
  /\ UNCHANGED <<offset, boot, back, resets, steps, agentVars>>

StepClock ==
  /\ Waiting /\ CanFault /\ steps < MaxSteps /\ steps' = steps + 1
  /\ \E s \in ClockSteps :
       /\ wall + s >= 0 /\ offset' = offset + s
       /\ back' = IF s < 0 THEN back - s ELSE back
  /\ UNCHANGED <<now, boot, count, total, resets, agentVars>>

Agent == \/ Start \/ Read \/ TickRead \/ TickFails \/ NoMinute \/ MeasureFails
         \/ Measure \/ SaveCounters \/ Deliver
Environment == WalkEnds \/ Stop \/ CounterReset \/ Reboot \/ Elapse \/ StepClock

Next == Agent \/ Environment
Spec == Init /\ [][Next]_vars
-----------------------------------------------------------------------------
\* No traffic goes into two samples, over stops at any point, failed samples,
\* counters that go back and steps of the clock, as long as counters.json can
\* be written.
NotTwice == saveFails = 0 => reported <= total

\* No traffic is passed over without a trace: of the samples of two minutes in
\* a row, the second begins where the first ended, or before, or does not say
\* that it knows its traffic.
NoGap ==
  pc = "deliver" /\ steps = 0 /\ SampleNet(sample) /\ sample.minute = last.minute + 1
    => sample.prev.seen <= last.to

\* Traffic that a sample knows is that of at most maxAge. A step of the wall
\* clock changes that only for a minute that began in another process.
AboutAMinute ==
  pc = "deliver" /\ SampleNet(sample) =>
    sample.cur.at - sample.prev.at <= MaxAge + (IF sample.prev.saved THEN back ELSE 0)

\* The times of the windows go up, each window is at least MinWindow long, and
\* none ends after the tick, also when the clock steps between a saved reading
\* and those of this process. Only the minute itself can be shorter.
WindowsGoUp ==
  pc = "deliver" => LET q == sample.chain IN
    \A i \in 1..(Len(q) - 1) :
      Between(q[i], q[i + 1]) >= (IF Len(q) = 2 /\ q[1] = sample.prev THEN 1 ELSE MinWindow)

\* A result of the disk walk goes with a sample: none is taken for a minute that
\* has no sample, or for a sample that fails.
NoResultDropped == ~dropped
=============================================================================
