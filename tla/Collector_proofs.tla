-------------------------- MODULE Collector_proofs --------------------------
(***************************************************************************)
(* The proofs about the samples of the collector: no traffic is in two of   *)
(* them or passed over between two, what a sample knows is that of about a  *)
(* minute, the windows of a sample are long enough and go up, and no result *)
(* of a disk walk is dropped: for every number of minutes, readings, stops, reboots, resets,  *)
(* failed reads and writes, and steps of the clock, and every length of a   *)
(* minute.                                                                  *)
(***************************************************************************)
EXTENDS Collector, WellFoundedInduction, TLAPS

-----------------------------------------------------------------------------
(***************************************************************************)
(* The invariants.                                                          *)
(***************************************************************************)
ReadingType == [boot : Nat \ {0}, wall : Nat, at : Nat, count : Int, seen : Nat, saved : BOOLEAN]

\* A reading that was taken: what was counted since is not more than what came
\* since, and the wall clock went no further back than its steps back.
Taken(r) ==
  /\ r \in ReadingType
  /\ r.seen <= total
  /\ r.count >= 0 /\ count >= 0 => count - r.count <= total - r.seen
  /\ r.wall - r.at <= offset + back
  /\ steps = 0 => r.wall <= wall

\* A reading of this moment.
Fresh(r) == r # NoReading /\ r.count = count /\ r.seen = total /\ r.at = now /\ r.wall = wall

TypeInv ==
  /\ pc \in {"down", "idle", "measure", "save", "deliver"}
  /\ now \in Nat /\ offset \in Int /\ wall \in Nat /\ boot \in Nat \ {0}
  /\ count \in Nat \cup {NotCounted} /\ total \in Nat /\ reported \in Int /\ back \in Nat
  /\ minute \in Nat /\ last.minute \in Int /\ last.to \in Nat
  /\ steps \in Nat /\ saveFails \in Nat /\ dropped \in BOOLEAN

MemoryInv ==
  /\ \A r \in {prev, cur, file} : r = NoReading \/ Taken(r)
  /\ pc = "measure" => Fresh(cur)
  /\ pc = "save" => Fresh(cur) /\ prev = cur
  /\ pc = "deliver" => Fresh(prev) /\ sample # NoSample
  /\ pc \in {"down", "idle", "measure"} => sample = NoSample
  /\ sample # NoSample => /\ sample.cur = prev /\ sample.minute = minute
                          /\ sample.prev = NoReading \/ Taken(sample.prev)

Inv == TypeInv /\ MemoryInv

\* What was reported was seen at the reading where the next sample begins.
TwiceInv ==
  saveFails = 0 =>
    /\ reported <= total
    /\ prev # NoReading => reported <= prev.seen
    /\ file # NoReading => reported <= file.seen
    /\ sample # NoSample /\ sample.prev # NoReading => reported <= sample.prev.seen
    /\ pc = "deliver" => file = prev

\* The reading where a sample begins is one of the tick of the last sample or of
\* an earlier one, or it comes after a minute without a sample.
At(r) == r.wall \div Minute
Known(r) == r # NoReading /\ r.count # NotSet
Follows(r) == Known(r) => r.seen <= last.to \/ At(r) > last.minute
GapInv ==
  steps = 0 =>
    /\ last.minute <= wall \div Minute
    /\ pc # "down" => last.minute <= minute /\ minute <= wall \div Minute
    /\ Follows(prev) /\ Follows(file)
    /\ pc # "down" /\ Known(prev) => At(prev) <= minute
    /\ pc = "measure" => last.minute < minute /\ At(cur) = minute /\ (Known(prev) => At(prev) < minute)
    /\ pc = "save" => last.minute < minute /\ At(cur) = minute
    /\ pc = "deliver" => last.minute < minute
    /\ sample # NoSample => Follows(sample.prev) /\ (Known(sample.prev) => At(sample.prev) < minute)

\* In the first minute no walk has begun.
WalkInv ==
  /\ ~dropped
  /\ pc = "down" => walk = "none"
  /\ fromStart => walk = "none"

-----------------------------------------------------------------------------
(***************************************************************************)
(* Readings.                                                                *)
(***************************************************************************)
LEMMA ReadingFacts ==
  ASSUME TypeInv
  PROVE  Taken(Reading) /\ Fresh(Reading) /\ ~Reading.saved
<1>1. Reading = [boot |-> boot, wall |-> wall, at |-> now, count |-> count, seen |-> total, saved |-> FALSE]
  BY DEF Reading
<1>2. Reading \in ReadingType /\ Reading # NoReading
  BY <1>1 DEF TypeInv, ReadingType, NotCounted, NoReading
<1>3. QED
  BY <1>1, <1>2 DEF Taken, Fresh, TypeInv, wall

\* The saved reading, as the next process has it.
LEMMA SavedFacts ==
  ASSUME NEW r \in ReadingType
  PROVE  LET q == [r EXCEPT !.saved = TRUE]
         IN  /\ q \in ReadingType /\ q.boot = r.boot /\ q.wall = r.wall /\ q.at = r.at
             /\ q.count = r.count /\ q.seen = r.seen /\ q.saved
<1> DEFINE q == [r EXCEPT !.saved = TRUE]
<1>1. q \in ReadingType
  BY DEF ReadingType
<1>2. q.boot = r.boot /\ q.wall = r.wall /\ q.at = r.at
  BY DEF ReadingType
<1>3. q.count = r.count /\ q.seen = r.seen /\ q.saved
  BY DEF ReadingType
<1>4. QED
  BY <1>1, <1>2, <1>3, Zenon

\* The reading of a start, of which the counters do not count.
LEMMA NotSetFacts ==
  ASSUME TypeInv
  PROVE  LET q == [Reading EXCEPT !.count = NotSet]
         IN  /\ q \in ReadingType /\ q.wall = wall /\ q.at = now
             /\ q.count = NotSet /\ q.seen = total /\ ~q.saved
<1> DEFINE q == [Reading EXCEPT !.count = NotSet]
<1>1. Reading \in ReadingType /\ Reading.wall = wall /\ Reading.at = now /\ Reading.seen = total /\ ~Reading.saved
  BY ReadingFacts DEF Taken, Fresh
<1>2. NotSet \in Int
  BY DEF NotSet
<1>3. q \in ReadingType
  BY <1>1, <1>2 DEF ReadingType
<1>4. q.wall = Reading.wall /\ q.at = Reading.at
  BY <1>1 DEF ReadingType
<1>5. q.count = NotSet /\ q.seen = Reading.seen /\ q.saved = Reading.saved
  BY <1>1 DEF ReadingType
<1>6. QED
  BY <1>1, <1>3, <1>4, <1>5, Zenon

LEMMA TakenIsSome == \A r : Taken(r) => r # NoReading
BY DEF Taken, ReadingType, NoReading

LEMMA CountedSince ==
  ASSUME NEW r, r.count \in Int, r.seen \in Int,
         NEW c \in Int, NEW d \in Int, NEW x \in Int, NEW y \in Int,
         c - r.count <= x - r.seen, d - c <= y - x
  PROVE  d - r.count <= y - r.seen
OBVIOUS

\* Time and traffic go on: a reading stays one that was taken.
LEMMA TakenStays ==
  ASSUME TypeInv, NEW r, Taken(r),
         total <= total', total' \in Nat, steps <= steps', steps \in Nat, steps' \in Nat,
         offset + back <= offset' + back', offset' \in Int, back' \in Nat, count' \in Nat \cup {NotCounted},
         count >= 0 /\ count' >= 0 => count' - count <= total' - total,
         count < 0 => count' <= 0,
         steps' = 0 => wall <= wall', wall' \in Nat
  PROVE  Taken(r)'
<1>1. r \in ReadingType /\ r.seen \in Nat /\ r.count \in Int /\ r.wall \in Nat /\ r.at \in Nat
  BY DEF Taken, ReadingType
<1>2. /\ count \in Int /\ count' \in Int /\ total \in Nat /\ total' \in Nat
      /\ offset \in Int /\ back \in Nat /\ offset' \in Int /\ back' \in Nat
      /\ wall \in Nat /\ wall' \in Nat
  BY DEF TypeInv, NotCounted
<1>3. ASSUME r.count >= 0, count' >= 0 PROVE count' - r.count <= total' - r.seen
  <2>1. r.seen <= total
    BY DEF Taken
  <2>2. CASE count >= 0
    <3>1. count - r.count <= total - r.seen
      BY <1>3, <2>2 DEF Taken
    <3>2. count' - count <= total' - total
      BY <1>3, <2>2
    <3>3. /\ r.count \in Int /\ r.seen \in Int
          /\ count \in Int /\ count' \in Int /\ total \in Int /\ total' \in Int
      BY <1>1, <1>2
    <3>4. QED
      BY <3>1, <3>2, <3>3, CountedSince
  <2>3. CASE count < 0
    BY <1>1, <1>2, <1>3, <2>1, <2>3
  <2>4. QED
    BY <1>2, <2>2, <2>3
<1>4. r.wall - r.at <= offset' + back'
  <2>1. r.wall - r.at <= offset + back
    BY DEF Taken
  <2>2. offset + back <= offset' + back'
    OBVIOUS
  <2>3. r.wall - r.at \in Int /\ offset + back \in Int /\ offset' + back' \in Int
    BY <1>1, <1>2
  <2>4. QED
    BY <2>1, <2>2, <2>3
<1>5. ASSUME steps' = 0 PROVE r.wall <= wall'
  <2>1. steps = 0
    BY <1>5
  <2>2. QED
    BY <1>1, <1>2, <1>5, <2>1 DEF Taken
<1>6. r.seen <= total'
  BY <1>1, <1>2 DEF Taken
<1>7. QED
  BY <1>1, <1>3, <1>4, <1>5, <1>6 DEF Taken

\* The agent does not move the server.
LEMMA ServerStays ==
  ASSUME UNCHANGED serverVars, NEW r
  PROVE  (Taken(r)' <=> Taken(r)) /\ (Fresh(r)' <=> Fresh(r))
BY DEF serverVars, Taken, Fresh, wall

ServerStep == CounterReset \/ Reboot \/ Elapse \/ StepClock

\* The server moves only while no sample is measured, and keeps what was taken.
LEMMA ServerMoves ==
  ASSUME Inv, ServerStep
  PROVE  /\ TypeInv' /\ Waiting /\ UNCHANGED agentVars
         /\ \A r : Taken(r) => Taken(r)'
         /\ total <= total' /\ steps <= steps'
         /\ steps' = 0 => wall <= wall'
<1>1. TypeInv
  BY DEF Inv
<1>2. CASE CounterReset
  <2>1. TypeInv' /\ Waiting /\ UNCHANGED agentVars
    BY <1>1, <1>2 DEF TypeInv, CounterReset, agentVars, memoryVars, queueVars, boundVars, NotCounted, wall
  <2>2. total' = total /\ steps' = steps /\ offset' = offset /\ back' = back /\ wall' = wall /\ count' \in {0, NotCounted}
    BY <1>2 DEF CounterReset, wall
  <2>3. /\ total' \in Nat /\ total <= total' /\ steps \in Nat /\ steps' \in Nat /\ steps <= steps'
        /\ offset' \in Int /\ back' \in Nat /\ offset + back <= offset' + back'
        /\ wall' \in Nat /\ wall <= wall' /\ count' \in Nat \cup {NotCounted}
    BY <1>1, <2>2 DEF TypeInv
  <2>4. /\ count >= 0 /\ count' >= 0 => count' - count <= total' - total
        /\ count < 0 => count' <= 0
    <3>1. total' - total = 0 /\ count \in Int /\ count' <= 0 /\ count' \in Int
      BY <1>1, <2>2 DEF TypeInv, NotCounted
    <3>2. \A c, d \in Int : c >= 0 /\ d <= 0 => d - c <= 0
      OBVIOUS
    <3>3. QED
      BY <3>1, <3>2
  <2>5. \A r : Taken(r) => Taken(r)'
    BY <1>1, <2>3, <2>4, TakenStays
  <2>6. QED
    BY <1>1, <2>1, <2>2, <2>3, <2>5
<1>3. CASE Reboot
  <2>1. TypeInv' /\ Waiting /\ UNCHANGED agentVars
    BY <1>1, <1>3 DEF TypeInv, Reboot, Waiting, agentVars, memoryVars, queueVars, boundVars, wall
  <2>2. total' = total /\ steps' = steps /\ offset' = offset /\ back' = back /\ wall' = wall /\ count' = 0
    BY <1>3 DEF Reboot, wall
  <2>3. \A r : Taken(r) => Taken(r)'
    BY <1>1, <2>2, TakenStays DEF TypeInv, NotCounted
  <2>4. QED
    BY <1>1, <2>1, <2>2, <2>3 DEF TypeInv
<1>4. CASE Elapse
  <2>1. TypeInv' /\ Waiting /\ UNCHANGED agentVars
    BY <1>1, <1>4 DEF TypeInv, Elapse, agentVars, memoryVars, queueVars, boundVars, NotCounted, wall
  <2>2. /\ steps' = steps /\ offset' = offset /\ back' = back /\ wall' = wall + 1
        /\ count >= 0 => count' = count + 1 /\ total' = total + 1
        /\ ~(count >= 0) => count' = count /\ total' = total
    BY <1>1, <1>4 DEF Elapse, wall, TypeInv, NotCounted
  <2>3. total <= total' /\ wall <= wall' /\ wall' \in Nat /\ total' \in Nat /\ count' \in Nat \cup {NotCounted}
    BY <1>1, <2>1, <2>2 DEF TypeInv, NotCounted
  <2>4. /\ count >= 0 /\ count' >= 0 => count' - count <= total' - total
        /\ count < 0 => count' <= 0
    BY <1>1, <2>2 DEF TypeInv, NotCounted
  <2>5. /\ steps \in Nat /\ steps' \in Nat /\ steps <= steps'
        /\ offset' \in Int /\ back' \in Nat /\ offset + back <= offset' + back'
    BY <1>1, <2>2 DEF TypeInv
  <2>6. \A r : Taken(r) => Taken(r)'
    BY <1>1, <2>3, <2>4, <2>5, TakenStays
  <2>7. QED
    BY <1>1, <2>1, <2>3, <2>5, <2>6
<1>5. CASE StepClock
  <2>1. PICK s \in ClockSteps : wall + s >= 0 /\ offset' = offset + s /\ back' = IF s < 0 THEN back - s ELSE back
    BY <1>5 DEF StepClock
  <2>2. s \in Int
    BY TimesAssumption
  <2>3. /\ steps' = steps + 1 /\ total' = total /\ count' = count /\ now' = now /\ boot' = boot
        /\ Waiting /\ UNCHANGED agentVars
    BY <1>5 DEF StepClock
  <2>4. offset' \in Int /\ back' \in Nat /\ offset + back <= offset' + back'
    BY <1>1, <2>1, <2>2 DEF TypeInv
  <2>5. wall' \in Nat
    BY <1>1, <2>1, <2>2, <2>3 DEF TypeInv, wall
  <2>6. TypeInv'
    BY <1>1, <2>3, <2>4, <2>5 DEF TypeInv, agentVars, memoryVars, queueVars, boundVars
  <2>7. steps <= steps' /\ steps' # 0
    BY <1>1, <2>3 DEF TypeInv
  <2>8. /\ total' \in Nat /\ total <= total' /\ steps \in Nat /\ steps' \in Nat
        /\ count' \in Nat \cup {NotCounted}
    BY <1>1, <2>3 DEF TypeInv
  <2>9. /\ count >= 0 /\ count' >= 0 => count' - count <= total' - total
        /\ count < 0 => count' <= 0
    BY <1>1, <2>3 DEF TypeInv, NotCounted
  <2>10. \A r : Taken(r) => Taken(r)'
    BY <1>1, <2>4, <2>5, <2>7, <2>8, <2>9, TakenStays
  <2>11. QED
    BY <1>1, <2>3, <2>6, <2>7, <2>8, <2>10
<1>6. QED
  BY <1>2, <1>3, <1>4, <1>5 DEF ServerStep

-----------------------------------------------------------------------------
(***************************************************************************)
(* What the agent has in memory, in counters.json and on its way to the      *)
(* queue is of readings that were taken.                                     *)
(***************************************************************************)
LEMMA InitInv == Init => Inv
<1> SUFFICES ASSUME Init PROVE Inv
  OBVIOUS
<1>1. TypeInv
  <2>1. FirstTime \in Nat
    BY BoundsAssumption
  <2>2. last = [minute |-> -1, to |-> 0] /\ last.minute \in Int /\ last.to \in Nat
    BY DEF Init
  <2>3. wall \in Nat /\ offset \in Int /\ now \in Nat /\ boot \in Nat \ {0} /\ total \in Nat
    BY <2>1 DEF Init, wall
  <2>4. reported \in Int /\ back \in Nat /\ minute \in Nat /\ steps \in Nat /\ saveFails \in Nat
    BY DEF Init
  <2>5. pc = "down" /\ dropped \in BOOLEAN /\ count \in Nat \cup {NotCounted}
    BY DEF Init
  <2>6. QED
    BY <2>2, <2>3, <2>4, <2>5 DEF TypeInv
<1>2. MemoryInv
  BY DEF Init, MemoryInv
<1>3. QED
  BY <1>1, <1>2 DEF Inv

\* A sample has the minute of its tick and the two readings.
LEMMA SampleFacts ==
  ASSUME Inv, sample # NoSample
  PROVE  /\ sample.cur = prev /\ sample.minute = minute
         /\ sample.prev = NoReading \/ Taken(sample.prev)
BY DEF Inv, MemoryInv

\* Of a start, the three ways in which the first minute begins.
LEMMA StartFacts ==
  ASSUME Inv, Start
  PROVE  /\ prev' = NoReading \/ Taken(prev')
         /\ fromStart' => prev' # NoReading /\ prev'.seen = total /\ prev'.count = NotSet
         /\ ~fromStart' /\ prev' # NoReading =>
              /\ file # NoReading /\ prev'.seen = file.seen /\ prev'.count = file.count
              /\ prev'.wall = file.wall /\ file.wall < wall
<1>1. TypeInv /\ MemoryInv
  BY DEF Inv
<1>2. CASE StartSaved
  <2>1. file # NoReading
    BY <1>1, <1>2 DEF StartSaved, Recent, TypeInv, NoReading
  <2>2. Taken(file)
    BY <1>1, <2>1 DEF MemoryInv
  <2>3. file \in ReadingType
    BY <2>2 DEF Taken
  <2>4. /\ prev' \in ReadingType /\ prev'.wall = file.wall /\ prev'.at = file.at
        /\ prev'.count = file.count /\ prev'.seen = file.seen
    BY <1>2, <2>3, SavedFacts, Zenon DEF StartSaved
  <2>5. Taken(prev')
    BY <2>2, <2>4 DEF Taken
  <2>6. file.wall < wall
    BY <1>1, <1>2, <2>3 DEF StartSaved, Recent, ReadingType, TypeInv
  <2>7. ~fromStart'
    BY <1>2 DEF StartSaved
  <2>8. QED
    BY <2>1, <2>4, <2>5, <2>6, <2>7
<1>3. CASE StartNew
  <2>1. /\ prev' \in ReadingType /\ prev'.wall = wall /\ prev'.at = now
        /\ prev'.count = NotSet /\ prev'.seen = total
    BY <1>1, <1>3, NotSetFacts, Zenon DEF StartNew
  <2>2. Taken(prev')
    BY <1>1, <2>1 DEF Taken, TypeInv, NotSet, wall
  <2>3. fromStart' /\ prev' # NoReading
    BY <1>3, <2>2, TakenIsSome DEF StartNew
  <2>4. QED
    BY <2>1, <2>2, <2>3
<1>4. CASE StartBlind
  BY <1>4 DEF StartBlind
<1>5. QED
  BY <1>2, <1>3, <1>4 DEF Start

AgentStep == Agent \/ WalkEnds \/ Stop

LEMMA StepKinds == Next <=> AgentStep \/ ServerStep
BY DEF Next, Agent, Environment, AgentStep, ServerStep

LEMMA AgentStays == AgentStep => UNCHANGED serverVars
BY DEF AgentStep, Agent, Start, Read, TickRead, TickFails, NoMinute, MeasureFails, Measure,
       SaveCounters, Deliver, WalkEnds, Stop

LEMMA TypeKept ==
  ASSUME Inv, AgentStep
  PROVE  TypeInv'
<1>1. TypeInv /\ MemoryInv
  BY DEF Inv
<1>2. UNCHANGED serverVars
  BY AgentStays
<1>3. /\ now' \in Nat /\ offset' \in Int /\ wall' \in Nat /\ boot' \in Nat \ {0}
      /\ count' \in Nat \cup {NotCounted} /\ total' \in Nat /\ back' \in Nat /\ steps' \in Nat
  BY <1>1, <1>2 DEF TypeInv, serverVars, wall
<1>4. wall \div Minute \in Nat
  <2>1. Minute \in Nat \ {0}
    BY TimesAssumption
  <2>2. QED
    BY <1>1, <2>1 DEF TypeInv
<1>5. CASE Start
  BY <1>1, <1>3, <1>4, <1>5 DEF TypeInv, Start, queueVars
<1>6. CASE Read
  BY <1>1, <1>3, <1>6 DEF TypeInv, Read, queueVars, boundVars
<1>7. CASE TickRead
  BY <1>1, <1>3, <1>4, <1>7 DEF TypeInv, TickRead, queueVars, boundVars
<1>8. CASE TickFails
  BY <1>1, <1>3, <1>4, <1>8 DEF TypeInv, TickFails, queueVars
<1>9. CASE NoMinute
  BY <1>1, <1>3, <1>9 DEF TypeInv, NoMinute, boundVars
<1>10. CASE MeasureFails
  BY <1>1, <1>3, <1>10 DEF TypeInv, MeasureFails, queueVars
<1>11. CASE Measure
  BY <1>1, <1>3, <1>11 DEF TypeInv, Measure, queueVars, boundVars
<1>12. CASE SaveCounters
  BY <1>1, <1>3, <1>12 DEF TypeInv, SaveCounters, queueVars
<1>13. CASE Deliver
  <2>1. Taken(prev) /\ sample # NoSample /\ sample.minute = minute /\ sample.cur = prev
    BY <1>1, <1>13, TakenIsSome DEF MemoryInv, Deliver, Fresh
  <2>2. last' = [minute |-> minute, to |-> prev.seen] /\ prev.seen \in Nat /\ prev.count \in Int
    BY <1>13, <2>1 DEF Deliver, Taken, ReadingType
  <2>3. last'.minute \in Int /\ last'.to \in Nat
    BY <1>1, <2>2 DEF TypeInv
  <2>4. SampleTraffic(sample) \in Int
    <3>1. sample.prev = NoReading \/ sample.prev.count \in Int
      BY <1>1, <2>1 DEF MemoryInv, Taken, ReadingType
    <3>2. QED
      BY <2>1, <2>2, <3>1 DEF SampleTraffic, NetDelta, Counted
  <2>5. reported' \in Int
    BY <1>1, <1>13, <2>4 DEF TypeInv, Deliver
  <2>6. QED
    BY <1>1, <1>3, <1>13, <2>3, <2>5 DEF TypeInv, Deliver, boundVars
<1>14. CASE WalkEnds
  BY <1>1, <1>3, <1>14 DEF TypeInv, WalkEnds, queueVars, boundVars
<1>15. CASE Stop
  BY <1>1, <1>3, <1>15 DEF TypeInv, Stop, queueVars
<1>16. QED
  BY <1>5, <1>6, <1>7, <1>8, <1>9, <1>10, <1>11, <1>12, <1>13, <1>14, <1>15 DEF AgentStep, Agent

LEMMA MemoryKept ==
  ASSUME Inv, AgentStep
  PROVE  MemoryInv'
<1>1. TypeInv /\ MemoryInv
  BY DEF Inv
<1>2. \A r : (Taken(r)' <=> Taken(r)) /\ (Fresh(r)' <=> Fresh(r))
  BY AgentStays, ServerStays
<1>3. CASE Start
  <2>1. prev' = NoReading \/ Taken(prev')
    BY <1>3, StartFacts
  <2>2. cur' = cur /\ file' = file /\ sample' = sample /\ pc = "down" /\ pc' = "idle"
    BY <1>3 DEF Start, StartSaved, StartNew, StartBlind
  <2>3. QED
    BY <1>1, <1>2, <2>1, <2>2 DEF MemoryInv
<1>4. CASE Read
  BY <1>1, <1>2, <1>4 DEF MemoryInv, Read
<1>5. CASE TickRead
  <2>1. Taken(cur') /\ Fresh(cur')
    BY <1>1, <1>5, ReadingFacts DEF TickRead
  <2>2. QED
    BY <1>1, <1>2, <1>5, <2>1 DEF MemoryInv, TickRead
<1>6. CASE TickFails
  BY <1>1, <1>2, <1>6 DEF MemoryInv, TickFails, memoryVars
<1>7. CASE NoMinute
  BY <1>1, <1>2, <1>7 DEF MemoryInv, NoMinute
<1>8. CASE MeasureFails
  BY <1>1, <1>2, <1>8 DEF MemoryInv, MeasureFails
<1>9. CASE Measure
  <2>1. /\ sample' # NoSample /\ sample'.cur = cur /\ sample'.prev = prev /\ sample'.minute = minute
        /\ prev' = cur /\ cur' = cur /\ file' = file /\ minute' = minute
        /\ pc = "measure" /\ pc' = "save"
    BY <1>1, <1>9 DEF Measure, NoSample, TypeInv
  <2>2. QED
    BY <1>1, <1>2, <2>1 DEF MemoryInv
<1>10. CASE SaveCounters
  BY <1>1, <1>2, <1>10 DEF MemoryInv, SaveCounters
<1>11. CASE Deliver
  BY <1>1, <1>2, <1>11 DEF MemoryInv, Deliver
<1>12. CASE WalkEnds
  BY <1>1, <1>2, <1>12 DEF MemoryInv, WalkEnds
<1>13. CASE Stop
  BY <1>1, <1>2, <1>13 DEF MemoryInv, Stop
<1>14. QED
  BY <1>3, <1>4, <1>5, <1>6, <1>7, <1>8, <1>9, <1>10, <1>11, <1>12, <1>13 DEF AgentStep, Agent

LEMMA InvStep ==
  ASSUME Inv, [Next]_vars
  PROVE  Inv'
<1>1. CASE AgentStep
  BY <1>1, TypeKept, MemoryKept DEF Inv
<1>2. CASE ServerStep
  <2>1. MemoryInv
    BY DEF Inv
  <2>2. pc \in {"down", "idle"} /\ pc' = pc /\ prev' = prev /\ cur' = cur /\ file' = file
        /\ sample' = sample /\ minute' = minute
    BY <1>2, ServerMoves DEF Waiting, agentVars, memoryVars
  <2>3. \A r : Taken(r) => Taken(r)'
    BY <1>2, ServerMoves
  <2>4. MemoryInv'
    BY <2>1, <2>2, <2>3 DEF MemoryInv
  <2>5. QED
    BY <1>2, <2>4, ServerMoves DEF Inv
<1>3. CASE UNCHANGED vars
  BY <1>3 DEF Inv, TypeInv, MemoryInv, Taken, Fresh, wall, vars, memoryVars, serverVars, queueVars, boundVars
<1>4. QED
  BY <1>1, <1>2, <1>3, StepKinds

LEMMA InvInvariant == Spec => []Inv
<1>1. QED
  BY InitInv, InvStep, PTL DEF Spec

-----------------------------------------------------------------------------
(***************************************************************************)
(* What a sample knows is that of about a minute.                            *)
(***************************************************************************)
LEMMA MinuteOfSample == Inv => AboutAMinute
<1> SUFFICES ASSUME Inv, pc = "deliver", SampleNet(sample)
             PROVE  sample.cur.at - sample.prev.at <= MaxAge + (IF sample.prev.saved THEN back ELSE 0)
  BY DEF AboutAMinute
<1> DEFINE p == sample.prev
<1>1. TypeInv /\ sample.cur = prev /\ Fresh(prev) /\ p # NoReading /\ Taken(p)
  BY DEF Inv, MemoryInv, SampleNet, NetKnown
<1>2. prev.at = now /\ prev.wall = wall
  BY <1>1 DEF Fresh
<1>3. IF p.saved THEN wall - p.wall <= MaxAge ELSE now - p.at <= MaxAge
  BY <1>1, <1>2 DEF SampleNet, NetKnown, OfOneMinute, Between
<1>4. p.wall \in Nat /\ p.at \in Nat /\ p.wall - p.at <= offset + back
  BY <1>1 DEF Taken, ReadingType
<1>5. now \in Nat /\ offset \in Int /\ back \in Nat /\ MaxAge \in Nat
  BY <1>1, WindowsAssumption DEF TypeInv
<1>6. p.saved => now - p.at <= MaxAge + back
  <2> HIDE DEF p
  <2>1. QED
    BY <1>3, <1>4, <1>5 DEF wall
<1>7. now - p.at <= MaxAge + (IF p.saved THEN back ELSE 0)
  <2>1. CASE p.saved
    BY <1>6, <2>1
  <2>2. CASE ~p.saved
    BY <1>3, <1>5, <2>2
  <2>3. QED
    BY <2>1, <2>2
<1>8. QED
  BY <1>1, <1>2, <1>7

\* Traffic that a sample knows is that of at most maxAge, and what the wall
\* clock went back adds to that only for a minute that began in another process.
THEOREM SampleIsOfAMinute == Spec => []AboutAMinute
<1>1. QED
  BY InvInvariant, MinuteOfSample, PTL

-----------------------------------------------------------------------------
(***************************************************************************)
(* No result of a disk walk is dropped: a minute without a sample is the      *)
(* first of its process, and the walks begin with its second.                *)
(***************************************************************************)
LEMMA WalkStep ==
  ASSUME WalkInv, [Next]_vars
  PROVE  WalkInv'
<1>1. CASE Start
  BY <1>1 DEF WalkInv, Start, StartSaved, StartNew, StartBlind, queueVars
<1>2. CASE Read \/ TickRead \/ TickFails \/ MeasureFails
  BY <1>2 DEF WalkInv, Read, TickRead, TickFails, MeasureFails, memoryVars, queueVars
<1>3. CASE NoMinute
  BY <1>3 DEF WalkInv, NoMinute, ShortMinute
<1>4. CASE Measure \/ SaveCounters \/ Deliver
  BY <1>4 DEF WalkInv, Measure, SaveCounters, Deliver, queueVars
<1>5. CASE WalkEnds \/ Stop
  BY <1>5 DEF WalkInv, WalkEnds, Stop, queueVars
<1>6. CASE ServerStep \/ UNCHANGED vars
  BY <1>6 DEF WalkInv, ServerStep, CounterReset, Reboot, Elapse, StepClock, agentVars, vars, memoryVars, queueVars
<1>7. QED
  BY <1>1, <1>2, <1>3, <1>4, <1>5, <1>6, StepKinds DEF AgentStep, Agent

\* A result of the disk walk is never taken for a minute that has no sample, or
\* for a sample that fails.
THEOREM WalkIsNotDropped == Spec => []NoResultDropped
<1>1. Init => WalkInv
  BY DEF Init, WalkInv
<1>2. WalkInv => NoResultDropped
  BY DEF WalkInv, NoResultDropped
<1>3. QED
  BY <1>1, <1>2, WalkStep, PTL DEF Spec

-----------------------------------------------------------------------------
(***************************************************************************)
(* No traffic is in two samples.                                            *)
(***************************************************************************)
\* The traffic of a sample came since the reading where the sample begins.
LEMMA TrafficIsNew ==
  ASSUME Inv, TwiceInv, saveFails = 0, pc = "deliver"
  PROVE  reported + SampleTraffic(sample) <= total
<1> DEFINE p == sample.prev
<1>1. TypeInv /\ Fresh(prev) /\ sample # NoSample /\ sample.cur = prev /\ (p = NoReading \/ Taken(p))
  BY DEF Inv, MemoryInv
<1>2. reported \in Int /\ total \in Nat /\ reported <= total /\ (p # NoReading => reported <= p.seen)
  BY <1>1 DEF TypeInv, TwiceInv
<1>3. CASE SampleNet(sample) /\ Counted(p) /\ Counted(prev)
  <2>1. SampleTraffic(sample) = count - p.count
    BY <1>1, <1>3 DEF SampleTraffic, NetDelta, Fresh
  <2>2. p # NoReading /\ p.count >= 0 /\ count >= 0 /\ Taken(p)
    BY <1>1, <1>3 DEF Counted, Fresh
  <2>3. p.count \in Int /\ p.seen \in Nat /\ count \in Int /\ count - p.count <= total - p.seen
    BY <1>1, <2>2 DEF Taken, ReadingType, TypeInv, NotCounted
  <2>4. reported <= p.seen
    BY <1>2, <2>2
  <2>5. reported + (count - p.count) <= total
    <3> HIDE DEF p
    <3>1. QED
      BY <1>2, <2>3, <2>4
  <2>6. QED
    BY <2>1, <2>5
<1>4. CASE ~(SampleNet(sample) /\ Counted(p) /\ Counted(prev))
  <2>1. SampleTraffic(sample) = 0
    BY <1>1, <1>4 DEF SampleTraffic, NetDelta
  <2>2. QED
    BY <1>2, <2>1
<1>5. QED
  BY <1>3, <1>4

LEMMA TwiceStep ==
  ASSUME Inv, TwiceInv, [Next]_vars
  PROVE  TwiceInv'
<1>1. TypeInv /\ MemoryInv
  BY DEF Inv
<1>2. CASE Start
  <2>1. total' = total /\ reported' = reported /\ file' = file /\ saveFails' = saveFails
        /\ sample' = sample /\ pc' = "idle" /\ sample = NoSample
    BY <1>1, <1>2 DEF Start, StartSaved, StartNew, StartBlind, serverVars, queueVars, MemoryInv
  <2>2. QED
    BY <1>2, <2>1, StartFacts DEF TwiceInv
<1>3. CASE Read \/ TickRead \/ TickFails \/ MeasureFails
  BY <1>3 DEF TwiceInv, Read, TickRead, TickFails, MeasureFails, serverVars, memoryVars, queueVars, boundVars
<1>4. CASE NoMinute
  BY <1>1, <1>4 DEF TwiceInv, MemoryInv, NoMinute, Fresh, serverVars, boundVars
<1>5. CASE Measure
  <2>1. /\ sample'.prev = prev /\ prev' = cur /\ cur.seen = total /\ file' = file /\ pc' = "save"
        /\ total' = total /\ reported' = reported /\ saveFails' = saveFails
    BY <1>1, <1>5 DEF Measure, MemoryInv, Fresh, serverVars, queueVars, boundVars
  <2>2. QED
    BY <2>1 DEF TwiceInv
<1>6. CASE SaveCounters
  <2>1. /\ cur = prev /\ cur.seen = total
        /\ total' = total /\ reported' = reported /\ sample' = sample /\ prev' = prev
    BY <1>1, <1>6 DEF SaveCounters, MemoryInv, Fresh, serverVars, queueVars
  <2>2. saveFails' = 0 => saveFails = 0 /\ file' = cur
    BY <1>1, <1>6 DEF SaveCounters, TypeInv
  <2>3. QED
    BY <2>1, <2>2 DEF TwiceInv
<1>7. CASE Deliver
  <2>1. /\ pc = "deliver" /\ pc' = "idle" /\ sample' = NoSample /\ file' = file /\ prev' = prev
        /\ total' = total /\ saveFails' = saveFails /\ reported' = reported + SampleTraffic(sample)
    BY <1>7 DEF Deliver, serverVars, boundVars
  <2>2. prev.seen = total
    BY <1>1, <2>1 DEF MemoryInv, Fresh
  <2>3. saveFails = 0 => reported' <= total /\ file = prev
    BY <2>1, TrafficIsNew DEF TwiceInv
  <2>4. QED
    BY <2>1, <2>2, <2>3 DEF TwiceInv
<1>8. CASE WalkEnds
  BY <1>8 DEF TwiceInv, WalkEnds, serverVars, queueVars, boundVars
<1>9. CASE Stop
  BY <1>9 DEF TwiceInv, Stop, serverVars, queueVars
<1>10. CASE ServerStep
  <2>1. /\ total <= total' /\ total \in Nat /\ total' \in Nat /\ reported \in Int
        /\ pc \in {"down", "idle"} /\ UNCHANGED agentVars
    BY <1>1, <1>10, ServerMoves DEF TypeInv, Waiting
  <2>2. QED
    BY <2>1 DEF TwiceInv, agentVars, memoryVars, queueVars, boundVars
<1>11. CASE UNCHANGED vars
  BY <1>11 DEF TwiceInv, vars, memoryVars, serverVars, queueVars, boundVars
<1>12. QED
  BY <1>2, <1>3, <1>4, <1>5, <1>6, <1>7, <1>8, <1>9, <1>10, <1>11, StepKinds DEF AgentStep, Agent

\* No traffic goes into two samples, over stops at any point, failed samples,
\* counters that go back and steps of the clock, as long as counters.json can
\* be written.
THEOREM TrafficIsNotTwice == Spec => []NotTwice
<1>1. Init => TwiceInv
  BY DEF Init, TwiceInv
<1>2. TwiceInv => NotTwice
  BY DEF TwiceInv, NotTwice
<1>3. QED
  BY <1>1, <1>2, InvInvariant, TwiceStep, PTL DEF Spec

-----------------------------------------------------------------------------
(***************************************************************************)
(* No traffic is passed over between the samples of two minutes in a row.     *)
(***************************************************************************)
LEMMA MinutesGoUp ==
  \A a, b \in Nat : a <= b => /\ a \div Minute \in Int /\ b \div Minute \in Int
                             /\ a \div Minute <= b \div Minute
BY TimesAssumption

\* Where a reading is of the server's time, so is its minute.
LEMMA MinuteOfReading ==
  ASSUME Inv, NEW r, Taken(r)
  PROVE  At(r) \in Int /\ r.seen \in Nat /\ r.seen <= total /\ (steps = 0 => At(r) <= wall \div Minute)
<1>1. r.wall \in Nat /\ wall \in Nat /\ r.seen \in Nat /\ r.seen <= total /\ (steps = 0 => r.wall <= wall)
  BY DEF Inv, TypeInv, Taken, ReadingType
<1>2. QED
  BY <1>1, MinutesGoUp DEF At

LEMMA GapOfServer ==
  ASSUME Inv, GapInv, ServerStep
  PROVE  GapInv'
<1>1. /\ TypeInv /\ TypeInv' /\ pc \in {"down", "idle"} /\ UNCHANGED agentVars
      /\ steps <= steps' /\ (steps' = 0 => wall <= wall')
  BY ServerMoves DEF Inv, Waiting
<1>2. steps' = 0 => steps = 0
  BY <1>1 DEF TypeInv
<1>3. /\ wall \div Minute \in Int /\ (wall \div Minute)' \in Int
      /\ steps' = 0 => wall \div Minute <= (wall \div Minute)'
  BY <1>1, MinutesGoUp DEF TypeInv
<1>4. /\ pc' = pc /\ minute' = minute /\ prev' = prev /\ file' = file /\ cur' = cur
      /\ sample' = sample /\ last' = last
  BY <1>1 DEF agentVars, memoryVars, queueVars
<1>5. minute \in Int /\ last.minute \in Int
  BY <1>1 DEF TypeInv
<1>6. steps' = 0 => /\ last'.minute <= (wall \div Minute)'
                    /\ pc' # "down" => last'.minute <= minute' /\ minute' <= (wall \div Minute)'
  <2>1. \A a, b, c, d \in Int : a <= b /\ b <= c /\ c <= d => a <= d /\ b <= d
    OBVIOUS
  <2>2. steps' = 0 => /\ last.minute <= wall \div Minute
                      /\ pc # "down" => last.minute <= minute /\ minute <= wall \div Minute
    BY <1>2 DEF GapInv
  <2>3. QED
    BY <1>3, <1>4, <1>5, <2>1, <2>2
<1>7. QED
  BY <1>1, <1>2, <1>4, <1>6 DEF GapInv, Follows, Known, At

LEMMA GapOfAgent ==
  ASSUME Inv, GapInv, AgentStep, steps = 0
  PROVE  GapInv'
<1>1. TypeInv /\ MemoryInv
  BY DEF Inv
<1>2. /\ wall \div Minute \in Int /\ minute \in Int /\ last.minute \in Int /\ last.to \in Nat
  BY <1>1, MinutesGoUp DEF TypeInv
<1>3. (wall \div Minute)' = wall \div Minute
  BY AgentStays DEF serverVars, wall
<1>4. /\ \A r \in {prev, file, cur} : r # NoReading => At(r) \in Int /\ r.seen <= total /\ r.seen \in Nat
      /\ sample # NoSample /\ sample.prev # NoReading => At(sample.prev) \in Int
  BY <1>1, MinuteOfReading DEF MemoryInv
<1>5. /\ last.minute <= wall \div Minute
      /\ pc # "down" => last.minute <= minute /\ minute <= wall \div Minute
      /\ Follows(prev) /\ Follows(file)
      /\ pc # "down" /\ Known(prev) => At(prev) <= minute
      /\ pc = "measure" => last.minute < minute /\ At(cur) = minute /\ (Known(prev) => At(prev) < minute)
      /\ pc = "save" => last.minute < minute /\ At(cur) = minute
      /\ pc = "deliver" => last.minute < minute
      /\ sample # NoSample => Follows(sample.prev) /\ (Known(sample.prev) => At(sample.prev) < minute)
  BY DEF GapInv
<1>6. CASE Start
  <2>1. /\ file' = file /\ last' = last /\ sample' = sample /\ sample = NoSample
        /\ minute' = wall \div Minute /\ pc' = "idle"
    BY <1>1, <1>6 DEF Start, StartSaved, StartNew, StartBlind, MemoryInv, queueVars
  <2>2. Known(prev') => /\ Known(file) /\ prev'.seen = file.seen /\ prev'.wall = file.wall
    BY <1>6, StartFacts DEF Known
  <2>3. Known(prev') => Follows(prev') /\ At(prev') <= minute'
    <3>1. Known(prev') => Taken(file) /\ At(prev') = At(file) /\ At(file) <= wall \div Minute
      BY <1>1, <2>2, MinuteOfReading DEF Known, MemoryInv, At
    <3>2. Known(prev') => file.seen <= last.to \/ At(file) > last.minute
      BY <1>5, <2>2 DEF Follows
    <3>3. QED
      BY <2>1, <2>2, <3>1, <3>2 DEF Follows
  <2>4. QED
    BY <1>2, <1>3, <1>5, <2>1, <2>3 DEF GapInv, Follows, Known, At
<1>7. CASE Read
  <2>1. /\ pc' = pc /\ pc = "idle" /\ minute' = minute /\ last' = last
        /\ prev' = prev /\ file' = file /\ sample' = sample
    BY <1>7 DEF Read, queueVars
  <2>2. QED
    BY <1>3, <1>5, <2>1 DEF GapInv, Follows, Known, At
<1>8. CASE TickRead
  <2>1. /\ pc = "idle" /\ pc' = "measure" /\ minute' = wall \div Minute /\ wall \div Minute # minute
        /\ cur' = Reading /\ last' = last /\ prev' = prev /\ file' = file /\ sample' = sample
    BY <1>8 DEF TickRead, queueVars
  <2>2. sample = NoSample
    BY <1>1, <2>1 DEF MemoryInv
  <2>3. At(cur') = minute'
    BY <1>1, <2>1, ReadingFacts DEF At, Fresh
  <2>4. minute < minute' /\ last.minute < minute' /\ (Known(prev) => At(prev) < minute')
    BY <1>2, <1>4, <1>5, <2>1 DEF Known
  <2>5. QED
    BY <1>2, <1>3, <1>4, <1>5, <2>1, <2>2, <2>3, <2>4 DEF GapInv, Follows, Known, At
<1>9. CASE TickFails
  <2>1. /\ pc = "idle" /\ pc' = "idle" /\ minute' = wall \div Minute
        /\ last' = last /\ prev' = prev /\ file' = file /\ sample' = sample
    BY <1>9 DEF TickFails, memoryVars, queueVars
  <2>2. sample = NoSample
    BY <1>1, <2>1 DEF MemoryInv
  <2>3. Known(prev) => At(prev) <= minute'
    BY <1>2, <1>4, <1>5, <2>1 DEF Known
  <2>4. QED
    BY <1>2, <1>3, <1>5, <2>1, <2>2, <2>3 DEF GapInv, Follows, Known, At
<1>10. CASE NoMinute
  <2>1. /\ pc = "measure" /\ pc' = "save" /\ minute' = minute /\ last' = last
        /\ prev' = cur /\ cur' = cur /\ file' = file /\ sample' = sample
    BY <1>10 DEF NoMinute
  <2>2. sample = NoSample
    BY <1>1, <2>1 DEF MemoryInv
  <2>3. QED
    BY <1>2, <1>3, <1>5, <2>1, <2>2 DEF GapInv, Follows, Known, At
<1>11. CASE MeasureFails
  <2>1. /\ pc = "measure" /\ pc' = "idle" /\ minute' = minute /\ last' = last
        /\ prev' = prev /\ file' = file /\ sample' = sample
    BY <1>11 DEF MeasureFails, queueVars
  <2>2. sample = NoSample
    BY <1>1, <2>1 DEF MemoryInv
  <2>3. QED
    BY <1>2, <1>3, <1>4, <1>5, <2>1, <2>2 DEF GapInv, Follows, Known, At
<1>12. CASE Measure
  <2>1. /\ pc = "measure" /\ pc' = "save" /\ minute' = minute /\ last' = last
        /\ prev' = cur /\ cur' = cur /\ file' = file /\ sample'.prev = prev
    BY <1>12 DEF Measure, queueVars
  <2>2. QED
    BY <1>2, <1>3, <1>4, <1>5, <2>1 DEF GapInv, Follows, Known, At
<1>13. CASE SaveCounters
  <2>1. /\ pc = "save" /\ pc' \in {"idle", "deliver"} /\ minute' = minute /\ last' = last
        /\ prev' = prev /\ file' \in {cur, file} /\ sample' = sample
    BY <1>13 DEF SaveCounters, queueVars
  <2>2. Follows(cur)
    BY <1>2, <1>5, <2>1 DEF Follows
  <2>3. QED
    BY <1>2, <1>3, <1>4, <1>5, <2>1, <2>2 DEF GapInv, Follows, Known, At
<1>14. CASE Deliver
  <2>1. /\ pc = "deliver" /\ pc' = "idle" /\ minute' = minute
        /\ last' = [minute |-> sample.minute, to |-> sample.cur.seen]
        /\ prev' = prev /\ file' = file /\ sample' = NoSample
    BY <1>14 DEF Deliver
  <2>2. sample.minute = minute /\ sample.cur = prev /\ prev.seen = total
    BY <1>1, <2>1 DEF MemoryInv, Fresh
  <2>3. last'.minute = minute /\ last'.to = total
    BY <2>1, <2>2
  <2>4. \A r \in {prev, file} : Known(r) => r.seen <= last'.to
    BY <1>4, <2>3 DEF Known
  <2>5. QED
    BY <1>2, <1>3, <1>5, <2>1, <2>3, <2>4 DEF GapInv, Follows, Known, At
<1>15. CASE WalkEnds
  <2>1. /\ pc' = pc /\ minute' = minute /\ last' = last
        /\ prev' = prev /\ cur' = cur /\ file' = file /\ sample' = sample
    BY <1>15 DEF WalkEnds, queueVars
  <2>2. QED
    BY <1>3, <1>5, <2>1 DEF GapInv, Follows, Known, At
<1>16. CASE Stop
  <2>1. pc' = "down" /\ last' = last /\ prev' = NoReading /\ file' = file /\ sample' = NoSample
    BY <1>16 DEF Stop, queueVars
  <2>2. QED
    BY <1>3, <1>5, <2>1 DEF GapInv, Follows, Known, At
<1>17. QED
  BY <1>6, <1>7, <1>8, <1>9, <1>10, <1>11, <1>12, <1>13, <1>14, <1>15, <1>16 DEF AgentStep, Agent

LEMMA GapStep ==
  ASSUME Inv, GapInv, [Next]_vars
  PROVE  GapInv'
<1>1. CASE AgentStep
  <2>1. steps' = steps
    BY <1>1, AgentStays DEF serverVars
  <2>2. CASE steps = 0
    BY <1>1, <2>2, GapOfAgent
  <2>3. CASE steps # 0
    BY <2>1, <2>3 DEF GapInv
  <2>4. QED
    BY <2>2, <2>3
<1>2. CASE ServerStep
  BY <1>2, GapOfServer
<1>3. CASE UNCHANGED vars
  BY <1>3 DEF GapInv, Follows, Known, At, wall, vars, memoryVars, serverVars, queueVars, boundVars
<1>4. QED
  BY <1>1, <1>2, <1>3, StepKinds

LEMMA InitGap == Init => GapInv
<1> SUFFICES ASSUME Init PROVE GapInv
  OBVIOUS
<1>1. FirstTime \in Nat /\ Minute \in Nat \ {0}
  BY BoundsAssumption, TimesAssumption
<1>2. wall = FirstTime /\ last.minute = -1 /\ pc = "down" /\ prev = NoReading /\ file = NoReading /\ sample = NoSample
  BY <1>1 DEF Init, wall
<1>3. last.minute <= wall \div Minute
  BY <1>1, <1>2
<1>4. QED
  BY <1>2, <1>3 DEF GapInv, Follows, Known

\* No traffic is passed over without a trace: of the samples of two minutes in
\* a row, the second begins where the first ended, or before, or does not say
\* that it knows its traffic.
THEOREM NothingPassedOver == Spec => []NoGap
<1>1. Inv /\ GapInv => NoGap
  <2> SUFFICES ASSUME Inv, GapInv, pc = "deliver", steps = 0, SampleNet(sample), sample.minute = last.minute + 1
               PROVE  sample.prev.seen <= last.to
    BY DEF NoGap
  <2>1. sample # NoSample /\ sample.minute = minute /\ sample.prev # NoReading /\ Taken(sample.prev)
    BY DEF Inv, MemoryInv, SampleNet, NetKnown
  <2>2. Known(sample.prev)
    BY DEF Known, SampleNet, NetKnown
  <2>3. sample.prev.seen <= last.to \/ At(sample.prev) > last.minute
    BY <2>1, <2>2 DEF GapInv, Follows
  <2>4. At(sample.prev) < last.minute + 1
    BY <2>1, <2>2 DEF GapInv
  <2>5. At(sample.prev) \in Int /\ last.minute \in Int
    BY <2>1, MinuteOfReading DEF Inv, TypeInv
  <2>6. QED
    BY <2>3, <2>4, <2>5
<1>2. QED
  BY <1>1, InitGap, InvInvariant, GapStep, PTL DEF Spec

-----------------------------------------------------------------------------
(***************************************************************************)
(* The chain of a minute. What holds for the readings that it keeps is shown   *)
(* for the least number of readings for which it would not hold.             *)
(***************************************************************************)
\* What holds for a number and not for all has a least number that it fails for.
LEMMA Least ==
  ASSUME NEW T, T \subseteq Nat, T # {}
  PROVE  \E n \in T : \A m \in T : ~(m < n)
<1>1. PICK n \in T : \A m \in T : <<m, n>> \notin OpToRel(<, Nat)
  BY NatLessThanWellFounded, WFMin
<1>2. \A m \in T : m < n => <<m, n>> \in OpToRel(<, Nat)
  BY DEF OpToRel
<1>3. QED
  BY <1>1, <1>2

\* The readings that chain keeps of the first n, as a function of n.
KeptStart(p, c) == IF p # NoReading /\ Between(p, c) > 0 THEN <<p>> ELSE <<>>
KeptNext(out, r, c) == IF TooClose(out, r, c) THEN out ELSE Append(out, r)
IsKept(f, n, p, rs, c) ==
  f = [i \in 0..n |-> IF i = 0 THEN KeptStart(p, c) ELSE KeptNext(f[i - 1], rs[i], c)]

\* There is such a function: the least n for which there is none would be one
\* more than an n for which there is one.
LEMMA KeptExists ==
  ASSUME NEW p, NEW rs, NEW c
  PROVE  \A n \in Nat : \E f : IsKept(f, n, p, rs, c)
<1> DEFINE Bad == {n \in Nat : ~\E f : IsKept(f, n, p, rs, c)}
<1> SUFFICES ASSUME Bad # {} PROVE FALSE
  OBVIOUS
<1>1. PICK n \in Bad : \A m \in Bad : ~(m < n)
  <2>1. Bad \subseteq Nat
    OBVIOUS
  <2> HIDE DEF Bad
  <2>2. QED
    BY <2>1, Least
<1>2. CASE n = 0
  <2> DEFINE f == [i \in 0..0 |-> KeptStart(p, c)]
  <2>1. IsKept(f, 0, p, rs, c)
    BY DEF IsKept
  <2>2. QED
    BY <1>1, <1>2, <2>1
<1>3. CASE n # 0
  <2>1. n - 1 \in Nat /\ n - 1 < n /\ n \in Nat
    BY <1>1, <1>3
  <2>2. PICK f : IsKept(f, n - 1, p, rs, c)
    BY <1>1, <2>1
  <2> DEFINE g == [i \in 0..n |-> IF i = 0 THEN KeptStart(p, c) ELSE KeptNext(f[i - 1], rs[i], c)]
  <2>3. \A i \in 0..(n - 1) : f[i] = (IF i = 0 THEN KeptStart(p, c) ELSE KeptNext(f[i - 1], rs[i], c))
    BY <2>1, <2>2 DEF IsKept
  <2>4. \A i \in 0..(n - 1) : g[i] = f[i]
    BY <2>1, <2>3
  <2>5. \A i \in 0..n : i # 0 => g[i - 1] = f[i - 1]
    BY <2>1, <2>4
  <2>6. g = [i \in 0..n |-> IF i = 0 THEN KeptStart(p, c) ELSE KeptNext(g[i - 1], rs[i], c)]
    BY <2>5
  <2>7. IsKept(g, n, p, rs, c)
    BY <2>6 DEF IsKept
  <2>8. QED
    BY <1>1, <2>7
<1>4. QED
  BY <1>2, <1>3

\* A chain is what such a function keeps of all readings, and the tick.
LEMMA ChainIs ==
  ASSUME NEW p, NEW rs, Len(rs) \in Nat, NEW c
  PROVE  \E f : IsKept(f, Len(rs), p, rs, c) /\ Chain(p, rs, c) = Append(f[Len(rs)], c)
<1> DEFINE kept[n \in 0..Len(rs)] ==
             IF n = 0 THEN IF p # NoReading /\ Between(p, c) > 0 THEN <<p>> ELSE <<>>
             ELSE LET out == kept[n - 1]
                  IN  IF TooClose(out, rs[n], c) THEN out ELSE Append(out, rs[n])
<1>1. kept = CHOOSE f : IsKept(f, Len(rs), p, rs, c)
  BY DEF IsKept, KeptStart, KeptNext
<1>2. IsKept(kept, Len(rs), p, rs, c)
  BY <1>1, KeptExists
<1>3. Chain(p, rs, c) = Append(kept[Len(rs)], c)
  BY DEF Chain
<1>4. QED
  BY <1>2, <1>3

LEMMA BetweenInt ==
  ASSUME NEW a \in ReadingType, NEW b \in ReadingType
  PROVE  Between(a, b) \in Int
BY DEF Between, ReadingType

\* Where the i-th of the kept readings comes from: it is the first one, or one of
\* the first n that is far enough from the tick.
From(q, i, n, p, rs, c) ==
  \/ i = 1 /\ q[i] = p /\ Between(q[i], c) > 0
  \/ \E m \in 1..n : q[i] = rs[m] /\ Between(q[i], c) >= MinWindow

KeptWell(q, n, p, rs, c) ==
  /\ q \in Seq(ReadingType)
  /\ \A i \in 1..Len(q) : From(q, i, n, p, rs, c) /\ (i = 1 /\ q[i] = p => p # NoReading)
  /\ \A i \in 1..(Len(q) - 1) : Between(q[i], q[i + 1]) >= MinWindow

LEMMA KeptStartWell ==
  ASSUME NEW p, p = NoReading \/ p \in ReadingType, NEW rs \in Seq(ReadingType), NEW c \in ReadingType
  PROVE  KeptWell(KeptStart(p, c), 0, p, rs, c)
<1>1. CASE p # NoReading /\ Between(p, c) > 0
  <2>1. KeptStart(p, c) = <<p>> /\ p \in ReadingType
    BY <1>1 DEF KeptStart
  <2>2. Len(<<p>>) = 1 /\ <<p>>[1] = p /\ <<p>> \in Seq(ReadingType)
    BY <2>1
  <2>3. QED
    BY <1>1, <2>1, <2>2 DEF KeptWell, From
<1>2. CASE ~(p # NoReading /\ Between(p, c) > 0)
  <2>1. KeptStart(p, c) = <<>> /\ Len(<<>>) = 0 /\ <<>> \in Seq(ReadingType)
    BY <1>2 DEF KeptStart
  <2>2. QED
    BY <2>1 DEF KeptWell
<1>3. QED
  BY <1>1, <1>2

LEMMA KeptNextWell ==
  ASSUME NEW p, p = NoReading \/ p \in ReadingType, NEW rs \in Seq(ReadingType), NEW c \in ReadingType,
         NEW n \in 1..Len(rs), NEW q, KeptWell(q, n - 1, p, rs, c)
  PROVE  KeptWell(KeptNext(q, rs[n], c), n, p, rs, c)
<1>1. q \in Seq(ReadingType) /\ rs[n] \in ReadingType /\ n \in Nat
  BY DEF KeptWell
<1>2. \A i \in 1..Len(q) : From(q, i, n, p, rs, c)
  <2>1. 1..(n - 1) \subseteq 1..n
    BY <1>1
  <2>2. QED
    BY <2>1 DEF KeptWell, From
<1>3. CASE TooClose(q, rs[n], c)
  BY <1>2, <1>3 DEF KeptNext, KeptWell
<1>4. CASE ~TooClose(q, rs[n], c)
  <2> DEFINE k == Append(q, rs[n])
  <2>1. /\ k \in Seq(ReadingType) /\ Len(k) = Len(q) + 1 /\ k[Len(q) + 1] = rs[n] /\ Len(q) \in Nat
        /\ \A i \in 1..Len(q) : k[i] = q[i]
    BY <1>1
  <2>2. KeptNext(q, rs[n], c) = k
    BY <1>4 DEF KeptNext
  <2>3. Between(rs[n], c) >= MinWindow
    <3>1. Between(rs[n], c) \in Int
      BY <1>1, BetweenInt
    <3>2. MinWindow \in Int
      BY WindowsAssumption
    <3>3. QED
      BY <1>4, <3>1, <3>2 DEF TooClose
  <2>4. q # <<>> => Between(q[Len(q)], rs[n]) >= MinWindow
    <3>1. q # <<>> => q[Len(q)] \in ReadingType
      BY <1>1
    <3>2. q # <<>> => Between(q[Len(q)], rs[n]) \in Int
      BY <1>1, <3>1, BetweenInt
    <3>3. MinWindow \in Int
      BY WindowsAssumption
    <3>4. QED
      BY <1>4, <3>2, <3>3 DEF TooClose, Last
  <2> HIDE DEF k
  <2>5. \A i \in 1..Len(k) : From(k, i, n, p, rs, c)
    <3>1. From(k, Len(q) + 1, n, p, rs, c)
      BY <2>1, <2>3 DEF From
    <3>2. \A i \in 1..Len(q) : From(k, i, n, p, rs, c)
      BY <1>2, <2>1 DEF From
    <3>3. QED
      BY <2>1, <3>1, <3>2
  <2>6. \A i \in 1..Len(k) : i = 1 /\ k[i] = p => p # NoReading
    <3>1. k[1] \in ReadingType
      BY <2>1
    <3>2. QED
      BY <3>1 DEF ReadingType, NoReading
  <2>7. \A i \in 1..(Len(k) - 1) : Between(k[i], k[i + 1]) >= MinWindow
    <3> SUFFICES ASSUME NEW i \in 1..Len(q) PROVE Between(k[i], k[i + 1]) >= MinWindow
      BY <2>1
    <3>1. CASE i < Len(q)
      <4>1. i \in 1..(Len(q) - 1) /\ i + 1 \in 1..Len(q)
        BY <2>1, <3>1
      <4>2. QED
        BY <2>1, <4>1 DEF KeptWell
    <3>2. CASE i = Len(q)
      <4>1. q # <<>>
        BY <3>2
      <4>2. QED
        BY <2>1, <2>4, <3>2, <4>1
    <3>3. QED
      BY <2>1, <3>1, <3>2
  <2>8. QED
    BY <2>1, <2>2, <2>5, <2>6, <2>7 DEF KeptWell
<1>5. QED
  BY <1>3, <1>4

LEMMA ChainWell ==
  ASSUME NEW p, p = NoReading \/ p \in ReadingType, NEW rs \in Seq(ReadingType), NEW c \in ReadingType
  PROVE  \E q : KeptWell(q, Len(rs), p, rs, c) /\ Chain(p, rs, c) = Append(q, c)
<1>1. Len(rs) \in Nat
  OBVIOUS
<1>2. PICK f : IsKept(f, Len(rs), p, rs, c) /\ Chain(p, rs, c) = Append(f[Len(rs)], c)
  BY <1>1, ChainIs
<1> DEFINE Bad == {n \in 0..Len(rs) : ~KeptWell(f[n], n, p, rs, c)}
<1>3. SUFFICES ASSUME Bad # {} PROVE FALSE
  BY <1>1, <1>2
<1>4. PICK n \in Bad : \A m \in Bad : ~(m < n)
  <2>1. Bad \subseteq Nat
    BY <1>1
  <2> HIDE DEF Bad
  <2>2. QED
    BY <1>3, <2>1, Least
<1>5. n \in 0..Len(rs) /\ ~KeptWell(f[n], n, p, rs, c)
  BY <1>4
<1>6. \A i \in 0..Len(rs) : f[i] = (IF i = 0 THEN KeptStart(p, c) ELSE KeptNext(f[i - 1], rs[i], c))
  BY <1>2 DEF IsKept
<1>7. CASE n = 0
  BY <1>5, <1>6, <1>7, KeptStartWell
<1>8. CASE n # 0
  <2>1. n - 1 \in 0..Len(rs) /\ n - 1 < n /\ n \in 1..Len(rs)
    BY <1>1, <1>5, <1>8
  <2>2. KeptWell(f[n - 1], n - 1, p, rs, c)
    BY <1>4, <2>1
  <2>3. KeptWell(KeptNext(f[n - 1], rs[n], c), n, p, rs, c)
    BY <2>1, <2>2, KeptNextWell
  <2>4. QED
    BY <1>5, <1>6, <1>8, <2>3
<1>9. QED
  BY <1>7, <1>8

-----------------------------------------------------------------------------
(***************************************************************************)
(* The readings of a minute.                                                 *)
(***************************************************************************)
ListInv == readings \in Seq(ReadingType)

\* A full list loses its oldest reading.
Kept(q) == IF Len(q) >= MaxReadings THEN Tail(q) ELSE q
LEMMA KeptFacts == ASSUME NEW q \in Seq(ReadingType) PROVE Kept(q) \in Seq(ReadingType)
<1>1. CASE Len(q) >= MaxReadings
  <2>1. q # <<>> /\ Kept(q) = Tail(q)
    BY <1>1, TimesAssumption DEF Kept
  <2>2. QED
    BY <2>1
<1>2. CASE ~(Len(q) >= MaxReadings)
  BY <1>2 DEF Kept
<1>3. QED
  BY <1>1, <1>2

LEMMA ListStep ==
  ASSUME Inv, ListInv, [Next]_vars
  PROVE  ListInv'
<1>1. Reading \in ReadingType
  BY ReadingFacts DEF Inv, Taken
<1>2. CASE Start
  <2>1. readings' = <<>> \/ readings' = <<Reading>>
    BY <1>2 DEF Start, StartSaved, StartNew, StartBlind
  <2>2. <<>> \in Seq(ReadingType) /\ <<Reading>> \in Seq(ReadingType)
    BY <1>1
  <2>3. QED
    BY <2>1, <2>2 DEF ListInv
<1>3. CASE Read
  <2>1. readings' = Append(Kept(readings), Reading)
    BY <1>3 DEF Read, Kept
  <2>2. Kept(readings) \in Seq(ReadingType)
    BY KeptFacts DEF ListInv
  <2>3. QED
    BY <1>1, <2>1, <2>2 DEF ListInv
<1>4. CASE TickRead \/ TickFails \/ MeasureFails \/ SaveCounters \/ Deliver \/ WalkEnds
  BY <1>4 DEF ListInv, TickRead, TickFails, MeasureFails, SaveCounters, Deliver, WalkEnds, memoryVars
<1>5. CASE NoMinute \/ Measure \/ Stop
  <2>1. readings' = <<>>
    BY <1>5 DEF NoMinute, Measure, Stop
  <2>2. <<>> \in Seq(ReadingType)
    OBVIOUS
  <2>3. QED
    BY <2>1, <2>2 DEF ListInv
<1>6. CASE ServerStep
  BY <1>6 DEF ListInv, ServerStep, CounterReset, Reboot, Elapse, StepClock, agentVars, memoryVars
<1>7. CASE UNCHANGED vars
  BY <1>7 DEF ListInv, vars, memoryVars
<1>8. QED
  BY <1>2, <1>3, <1>4, <1>5, <1>6, <1>7, StepKinds DEF AgentStep, Agent

-----------------------------------------------------------------------------
(***************************************************************************)
(* The windows of a sample go up.                                            *)
(***************************************************************************)
LEMMA ChainGoesUp ==
  ASSUME NEW p, p = NoReading \/ p \in ReadingType, NEW rs \in Seq(ReadingType), NEW c \in ReadingType,
         NEW q, q = Chain(p, rs, c)
  PROVE  /\ q \in Seq(ReadingType)
         /\ \A i \in 1..(Len(q) - 1) :
              Between(q[i], q[i + 1]) >= (IF Len(q) = 2 /\ q[1] = p THEN 1 ELSE MinWindow)
<1>1. PICK k : KeptWell(k, Len(rs), p, rs, c) /\ q = Append(k, c)
  BY ChainWell
<1>2. k \in Seq(ReadingType) /\ Len(k) \in Nat
  BY <1>1 DEF KeptWell
<1>3. /\ q \in Seq(ReadingType) /\ Len(q) = Len(k) + 1 /\ q[Len(k) + 1] = c
      /\ \A i \in 1..Len(k) : q[i] = k[i]
  BY <1>1, <1>2
<1>4. MinWindow \in Nat \ {0}
  BY WindowsAssumption
<1>5. ASSUME NEW i \in 1..(Len(q) - 1)
      PROVE  Between(q[i], q[i + 1]) >= (IF Len(q) = 2 /\ q[1] = p THEN 1 ELSE MinWindow)
  <2>1. i \in 1..Len(k) /\ q[i] = k[i] /\ i + 1 \in 1..Len(q)
    BY <1>2, <1>3
  <2>2. q[i] \in ReadingType /\ q[i + 1] \in ReadingType
    BY <1>3, <2>1
  <2>3. Between(q[i], q[i + 1]) \in Int
    BY <2>2, BetweenInt
  <2>4. CASE Between(q[i], q[i + 1]) >= MinWindow
    BY <1>4, <2>3, <2>4
  <2>5. CASE i = 1 /\ k[i] = p /\ i = Len(k) /\ Between(k[i], c) > 0
    <3>1. i = 1 /\ Len(k) = 1 /\ q[i] = p
      BY <2>1, <2>5
    <3>2. Len(q) = 2 /\ q[1] = p
      BY <1>3, <3>1
    <3>3. q[Len(k) + 1] = c /\ Len(k) + 1 = i + 1
      BY <1>3, <3>1
    <3>4. Between(q[i], q[i + 1]) > 0
      <4>1. Between(k[i], c) > 0 /\ k[i] = q[i]
        BY <2>1, <2>5
      <4>2. QED
        BY <3>3, <4>1
    <3>5. QED
      BY <2>3, <3>2, <3>4
  <2>6. Between(q[i], q[i + 1]) >= MinWindow \/ (i = 1 /\ k[i] = p /\ i = Len(k) /\ Between(k[i], c) > 0)
    <3>1. CASE i < Len(k)
      <4>1. i \in 1..(Len(k) - 1) /\ q[i + 1] = k[i + 1]
        BY <1>2, <1>3, <2>1, <3>1
      <4>2. QED
        BY <1>1, <2>1, <4>1 DEF KeptWell
    <3>2. CASE i = Len(k)
      <4>1. From(k, i, Len(rs), p, rs, c) /\ q[i + 1] = c
        BY <1>1, <1>3, <2>1, <3>2 DEF KeptWell
      <4>2. QED
        BY <2>1, <3>2, <4>1 DEF From
    <3>3. QED
      BY <1>2, <2>1, <3>1, <3>2
  <2>7. QED
    BY <2>4, <2>5, <2>6
<1>6. QED
  BY <1>3, <1>5

\* What holds of the chain of a sample until it comes to the queue.
ChainInv ==
  sample # NoSample =>
    LET q == sample.chain
    IN  /\ q \in Seq(ReadingType)
        /\ \A i \in 1..(Len(q) - 1) :
             Between(q[i], q[i + 1]) >= (IF Len(q) = 2 /\ q[1] = sample.prev THEN 1 ELSE MinWindow)

LEMMA ChainStep ==
  ASSUME Inv, ListInv, ChainInv, [Next]_vars
  PROVE  ChainInv'
<1>1. TypeInv /\ MemoryInv
  BY DEF Inv
<1>2. CASE Measure
  <2>1. /\ pc = "measure"
        /\ sample' = [minute |-> minute, prev |-> prev, cur |-> cur, chain |-> Chain(prev, readings, cur)]
    BY <1>2 DEF Measure
  <2> DEFINE q == Chain(prev, readings, cur)
  <2>2. /\ sample'.prev = prev /\ sample'.cur = cur /\ sample'.chain = q
    BY <2>1
  <2>3. /\ prev = NoReading \/ prev \in ReadingType
        /\ cur \in ReadingType /\ readings \in Seq(ReadingType)
    BY <1>1, <2>1 DEF MemoryInv, Taken, Fresh, ListInv
  <2>4. /\ q \in Seq(ReadingType)
        /\ \A i \in 1..(Len(q) - 1) :
             Between(q[i], q[i + 1]) >= (IF Len(q) = 2 /\ q[1] = prev THEN 1 ELSE MinWindow)
    BY <2>3, ChainGoesUp
  <2> HIDE DEF q
  <2>5. QED
    BY <2>1, <2>2, <2>4 DEF ChainInv, Between
<1>3. CASE Start \/ Read \/ TickRead \/ TickFails \/ NoMinute \/ MeasureFails \/ SaveCounters \/ WalkEnds
  <2>1. sample' = sample
    BY <1>3 DEF Start, Read, TickRead, TickFails, NoMinute, MeasureFails, SaveCounters, WalkEnds, memoryVars
  <2>2. QED
    BY <2>1 DEF ChainInv, Between
<1>4. CASE Deliver \/ Stop
  BY <1>4 DEF Deliver, Stop, ChainInv
<1>5. CASE ServerStep
  <2>1. sample = NoSample /\ sample' = sample
    BY <1>1, <1>5, ServerMoves DEF MemoryInv, Waiting, agentVars, memoryVars
  <2>2. QED
    BY <2>1 DEF ChainInv
<1>6. CASE UNCHANGED vars
  BY <1>6 DEF ChainInv, Between, vars, memoryVars
<1>7. QED
  BY <1>2, <1>3, <1>4, <1>5, <1>6, StepKinds DEF AgentStep, Agent

LEMMA ChainInvariant == Spec => [](Inv /\ ListInv /\ ChainInv)
<1>1. Init => ListInv /\ ChainInv
  <2> SUFFICES ASSUME Init PROVE ListInv /\ ChainInv
    OBVIOUS
  <2>1. /\ readings = <<>> /\ Len(<<>>) = 0 /\ <<>> \in Seq(ReadingType)
        /\ prev = NoReading /\ sample = NoSample /\ pc = "down"
    BY DEF Init
  <2>2. QED
    BY <2>1 DEF ListInv, ChainInv
<1>2. QED
  BY <1>1, InitInv, InvStep, ListStep, ChainStep, PTL DEF Spec

\* The times of the windows go up, each window is at least MinWindow long, and
\* none ends after the tick: for a chain of any number of readings.
THEOREM WindowsAreLong == Spec => []WindowsGoUp
<1>1. Inv /\ ChainInv => WindowsGoUp
  BY DEF Inv, MemoryInv, ChainInv, WindowsGoUp
<1>2. QED
  BY <1>1, ChainInvariant, PTL

=============================================================================
