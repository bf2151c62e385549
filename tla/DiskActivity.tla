---------------------------- MODULE DiskActivity ----------------------------
(***************************************************************************)
(* The disk activity of a minute (disk.go of internal/metrics, with the      *)
(* readings of metrics.go): disks that come and go, readings without disks,  *)
(* and minutes that begin in another process or have a tick that failed.     *)
(*                                                                         *)
(* A disk has one counter here, for its four: they start again together. A   *)
(* disk that is replaced is one that goes and comes back, from zero. What    *)
(* the disks really did, over all that, is beside the counters. A tick is    *)
(* one step: Collector has its parts.                                        *)
(***************************************************************************)
EXTENDS Windows

CONSTANTS
  Disks,        \* the names of disks
  Minute,       \* one minute, in units of time
  MaxReadings,  \* maxReadings
  ReadPhases,   \* where in the minute a reading can come
  ClockSteps,   \* the steps that the wall clock can make
  FirstTime,    \* the wall clock at first
  MaxTime,      \* bound: units of time
  MaxFaults     \* bound: disks that go, readings without disks, failed ticks and
                \* writes, starts, reboots and steps of the clock, together

VARIABLES
  now, offset,     \* the time that passed, and what the wall clock adds to it
  boot,            \* the boot of the server
  counter,         \* of each disk in /proc/diskstats, or Gone
  done,            \* the real activity of each disk
  prev, readings,  \* of the Collector
  file,            \* counters.json, or NoReading
  minute,          \* the minute of the last tick
  sample,          \* the sample that the last step made, or NoSample
  faults

serverVars == <<now, offset, boot, counter, done>>
vars == <<serverVars, prev, readings, file, minute, sample, faults>>

Gone == -1
NoSample == <<>>
wall == now + offset

-----------------------------------------------------------------------------
\* readDisks: the disks with a device. nil and none are the same to its callers.
NoDisks == <<>>
ReadDisks == [d \in {e \in Disks : counter[e] # Gone} |-> counter[d]]

\* read: /proc/diskstats can be read, or cannot.
ReadingOf(disks) ==
  [boot |-> boot, wall |-> wall, at |-> now, disks |-> disks, done |-> done, saved |-> FALSE]
Readings == {ReadingOf(ReadDisks)} \cup (IF faults < MaxFaults THEN {ReadingOf(NoDisks)} ELSE {})
Cost(r) == IF r.disks = ReadDisks THEN 0 ELSE 1

Shared(a, b) == DOMAIN a.disks \cap DOMAIN b.disks
Delta(a, b, d) == b.disks[d] - a.disks[d]

\* diskDelta: two readings with disks, of a minute, and no counter went back.
DiskKnown(a, b) ==
  /\ a.disks # NoDisks /\ b.disks # NoDisks /\ OfOneMinute(a, b)
  /\ \A d \in Shared(a, b) : Delta(a, b, d) >= 0

\* The windows between the readings with disks: those of one without it join.
DiskWindows(q) ==
  LET with == SelectSeq(q, LAMBDA r : r.disks # NoDisks)
  IN  {<<with[i], with[i + 1]>> : i \in 1..(Len(with) - 1)}

\* Fault: the minute is looked at, and not its windows.
MinuteAlone(s) == s.prev # NoReading /\ DiskKnown(s.prev, s.cur)

\* setDiskActivity: a window that is not known makes the minute not known.
MinuteKnown(s) ==
  /\ s.prev # NoReading /\ DiskKnown(s.prev, s.cur)
  /\ \A w \in DiskWindows(s.chain) : DiskKnown(w[1], w[2])

-----------------------------------------------------------------------------
Init ==
  /\ now = 0 /\ offset = FirstTime /\ boot = 1
  /\ counter = [d \in Disks |-> 0] /\ done = [d \in Disks |-> 0]
  /\ prev = NoReading /\ readings = <<>> /\ file = NoReading
  /\ minute = FirstTime \div Minute /\ sample = NoSample /\ faults = 0

\* New: the first minute begins at the saved reading when it is recent and of
\* this boot, else at the start, whose disks do not count; or the start has no
\* reading.
Recent(saved) ==
  LET age == wall - saved.wall IN saved.boot = boot /\ age > 0 /\ age <= MaxAge
Start ==
  /\ faults < MaxFaults /\ faults' = faults + 1
  /\ \/ Recent(file) /\ prev' = [file EXCEPT !.saved = TRUE] /\ readings' = <<ReadingOf(ReadDisks)>>
     \/ ~Recent(file) /\ prev' = ReadingOf(NoDisks) /\ readings' = <<>>
     \/ prev' = NoReading /\ readings' = <<>>
  /\ minute' = wall \div Minute /\ sample' = NoSample
  /\ UNCHANGED <<serverVars, file>>

\* Read, between two ticks. A full list loses its oldest reading.
LastReading == IF readings # <<>> THEN Last(readings) ELSE prev
Read ==
  /\ wall % Minute \in ReadPhases
  /\ \E r \in Readings :
       /\ LastReading # NoReading => Between(LastReading, r) > 0
       /\ readings' = Append(IF Len(readings) >= MaxReadings THEN Tail(readings) ELSE readings, r)
       /\ faults' = faults + Cost(r)
  /\ sample' = NoSample
  /\ UNCHANGED <<serverVars, prev, file, minute>>

\* Sample, at a tick. Its reading begins the next minute, and is saved. (A first
\* minute that is too short has no sample: its disks would not be known.)
Sample ==
  /\ wall \div Minute # minute /\ minute' = wall \div Minute
  /\ \E r \in Readings :
       /\ sample' = [prev |-> prev, cur |-> r, chain |-> Chain(prev, readings, r)]
       /\ prev' = r /\ readings' = <<>>
       /\ \/ file' = r /\ faults' = faults + Cost(r)
          \/ file' = file /\ faults' = faults + Cost(r) + 1 /\ faults' <= MaxFaults
  /\ UNCHANGED serverVars

\* A sample that fails leaves the minute open.
SampleFails ==
  /\ wall \div Minute # minute /\ minute' = wall \div Minute
  /\ faults < MaxFaults /\ faults' = faults + 1
  /\ sample' = NoSample
  /\ UNCHANGED <<serverVars, prev, readings, file>>

-----------------------------------------------------------------------------
agentVars == <<prev, readings, file, minute>>

\* One unit of time, with one unit of activity of each disk.
Elapse ==
  /\ now < MaxTime /\ now' = now + 1
  /\ counter' = [d \in Disks |-> IF counter[d] = Gone THEN Gone ELSE counter[d] + 1]
  /\ done' = [d \in Disks |-> IF counter[d] = Gone THEN done[d] ELSE done[d] + 1]
  /\ sample' = NoSample
  /\ UNCHANGED <<offset, boot, agentVars, faults>>

DiskGoes(d) ==
  /\ counter[d] # Gone /\ counter' = [counter EXCEPT ![d] = Gone]
  /\ faults < MaxFaults /\ faults' = faults + 1
  /\ sample' = NoSample
  /\ UNCHANGED <<now, offset, boot, done, agentVars>>

DiskComes(d) ==
  /\ counter[d] = Gone /\ counter' = [counter EXCEPT ![d] = 0]
  /\ sample' = NoSample
  /\ UNCHANGED <<now, offset, boot, done, agentVars, faults>>

\* A reboot, and the start of the agent after it.
Reboot ==
  /\ faults < MaxFaults /\ faults' = faults + 1
  /\ boot' = boot + 1
  /\ counter' = [d \in Disks |-> IF counter[d] = Gone THEN Gone ELSE 0]
  /\ prev' = [boot |-> boot', wall |-> wall, at |-> now, disks |-> NoDisks, done |-> done, saved |-> FALSE]
  /\ readings' = <<>> /\ minute' = wall \div Minute /\ sample' = NoSample
  /\ UNCHANGED <<now, offset, done, file>>

StepClock ==
  /\ faults < MaxFaults /\ faults' = faults + 1
  /\ \E s \in ClockSteps : wall + s >= 0 /\ offset' = offset + s
  /\ sample' = NoSample
  /\ UNCHANGED <<now, boot, counter, done, agentVars>>

Next ==
  \/ Start \/ Read \/ Sample \/ SampleFails
  \/ Elapse \/ Reboot \/ StepClock
  \/ \E d \in Disks : DiskGoes(d) \/ DiskComes(d)
Spec == Init /\ [][Next]_vars

-----------------------------------------------------------------------------
\* "The eight fields stay nil when the activity of the minute is not known, or
\* when a window has a counter that went back: then the delta of the minute is
\* not the real activity either" (setDiskActivity). What a sample says of a disk
\* is never more than its real activity from the reading before to that of the
\* tick. It is less only when one window cannot show that the counter began
\* again: the disk is not in one of its readings, or counted past the value
\* before within the window.
Real(a, b, d) == b.done[d] - a.done[d]
Hides(w, d) ==
  d \in Shared(w[1], w[2]) => Delta(w[1], w[2], d) \in 0..(Real(w[1], w[2], d) - 1)
DiskIsReal ==
  sample # NoSample /\ MinuteKnown(sample) =>
    \A d \in Shared(sample.prev, sample.cur) :
      LET told == Delta(sample.prev, sample.cur, d)
          real == Real(sample.prev, sample.cur, d)
      IN  told <= real /\ (told # real => \E w \in DiskWindows(sample.chain) : Hides(w, d))
=============================================================================
