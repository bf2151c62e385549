-------------------------- MODULE Schedule_proofs --------------------------
(***************************************************************************)
(* The proofs that no tick repeats, that no minute without a step is left   *)
(* out, and that the loop is never silent for long, for every length of the *)
(* minute, offset, size and number of steps of the wall clock, and delay.   *)
(***************************************************************************)
EXTENDS Schedule, TLAPS

-----------------------------------------------------------------------------
\* nextTick returns a time after now, and at most one minute after it: the
\* offset is smaller than the minute.
THEOREM NextTickBounds ==
  ASSUME NEW now \in Nat
  PROVE  /\ NextTick(now) \in Nat
         /\ NextTick(now) > now
         /\ NextTick(now) <= now + Minute
<1>1. now % Minute \in 0..(Minute - 1)
  BY TimesAssumption
<1>2. QED
  BY <1>1, TimesAssumption DEF NextTick, Truncate

\* nextAfter returns a time after now, and less than maxStepBack and a minute
\* after it, whatever the last tick was: the loop is never silent for the size
\* of a step.
THEOREM NextAfterBounds ==
  ASSUME NEW now \in Nat, NEW l \in Nat \cup {NoTick}
  PROVE  /\ NextAfter(now, l) \in Nat
         /\ NextAfter(now, l) > now
         /\ NextAfter(now, l) <= now + MaxStepBack + Minute
<1>1. CASE l # NoTick /\ NextTick(now) <= l /\ l - now < MaxStepBack
  <2>1. l \in Nat
    BY <1>1
  <2>2. QED
    BY <1>1, <2>1, NextTickBounds, TimesAssumption DEF NextAfter
<1>2. CASE ~(l # NoTick /\ NextTick(now) <= l /\ l - now < MaxStepBack)
  BY <1>2, NextTickBounds, TimesAssumption DEF NextAfter
<1>3. QED
  BY <1>1, <1>2

\* nextAfter never returns a tick at or before the last one, as long as the
\* clock is less than maxStepBack behind that tick.
LEMMA NextAfterLast ==
  ASSUME NEW now \in Nat, NEW l \in Nat, l - now < MaxStepBack
  PROVE  NextAfter(now, l) > l
BY NextTickBounds, TimesAssumption DEF NextAfter, NoTick

\* nextReading returns a time after now.
LEMMA NextReadingLater ==
  ASSUME NEW now \in Nat
  PROVE  NextReading(now) \in Nat /\ NextReading(now) > now
<1>1. /\ now % ReadEvery \in 0..(ReadEvery - 1)
      /\ Offset % ReadEvery \in 0..(ReadEvery - 1)
  BY TimesAssumption
<1>2. QED
  BY <1>1, TimesAssumption DEF NextReading, Truncate

-----------------------------------------------------------------------------
(***************************************************************************)
(* The grid of the ticks: the times that are Offset past a full minute.     *)
(***************************************************************************)
OnGrid(t) == \E q \in Int : t = q * Minute + Offset

\* Two whole numbers of minutes are equal or a minute or more apart.
LEMMA MinutesApart ==
  ASSUME NEW p \in Int, NEW q \in Int, p < q
  PROVE  p * Minute + Minute <= q * Minute
<1>1. PICK k \in Nat : q = p + 1 + k
  <2>1. q - p - 1 \in Nat /\ q = p + 1 + (q - p - 1)
    OBVIOUS
  <2>2. QED
    BY <2>1
<1>2. q * Minute = p * Minute + Minute + k * Minute
  BY <1>1, TimesAssumption
<1>3. k * Minute \in Nat /\ p * Minute \in Int
  BY TimesAssumption
<1>4. QED
  BY <1>2, <1>3, TimesAssumption

\* Truncate returns a whole number of minutes, less than a minute before t.
LEMMA TruncateMinute ==
  ASSUME NEW t \in Nat
  PROVE  \E q \in Int : /\ Truncate(t, Minute) = q * Minute
                        /\ q * Minute <= t /\ t < q * Minute + Minute
<1>1. t % Minute \in 0..(Minute - 1) /\ t \div Minute \in Int
  BY TimesAssumption
<1>2. t = Minute * (t \div Minute) + (t % Minute)
  BY TimesAssumption
<1>3. Minute * (t \div Minute) = (t \div Minute) * Minute
  BY <1>1, TimesAssumption
<1>4. Truncate(t, Minute) = (t \div Minute) * Minute
  BY <1>1, <1>2, <1>3, TimesAssumption DEF Truncate
<1>5. (t \div Minute) * Minute <= t /\ t < (t \div Minute) * Minute + Minute
  BY <1>1, <1>2, <1>3, TimesAssumption
<1>6. QED
  BY <1>1, <1>4, <1>5

\* nextTick returns the first time of the grid after now.
LEMMA NextTickFirst ==
  ASSUME NEW now \in Nat
  PROVE  /\ OnGrid(NextTick(now))
         /\ \A t \in Int : OnGrid(t) /\ now < t => NextTick(now) <= t
<1>1. PICK q \in Int : /\ Truncate(now, Minute) = q * Minute
                       /\ q * Minute <= now /\ now < q * Minute + Minute
  BY TruncateMinute
<1>2. q * Minute \in Int /\ (q + 1) * Minute = q * Minute + Minute
  BY TimesAssumption
<1>3. NextTick(now) = q * Minute + Offset \/ NextTick(now) = (q + 1) * Minute + Offset
  BY <1>1, <1>2, TimesAssumption DEF NextTick
<1>4. OnGrid(NextTick(now))
  BY <1>3 DEF OnGrid
<1>5. ASSUME NEW t \in Int, OnGrid(t), now < t PROVE NextTick(now) <= t
  <2>1. PICK p \in Int : t = p * Minute + Offset
    BY <1>5 DEF OnGrid
  <2>2. p * Minute \in Int
    BY TimesAssumption
  <2>3. CASE p < q
    BY <2>1, <2>2, <2>3, <1>1, <1>2, <1>5, MinutesApart, TimesAssumption
  <2>4. CASE p = q
    BY <2>1, <2>4, <1>1, <1>2, <1>5, TimesAssumption DEF NextTick
  <2>5. CASE q < p
    <3>1. q * Minute + Minute <= p * Minute
      BY <2>5, MinutesApart
    <3>2. QED
      BY <3>1, <2>1, <2>2, <1>2, <1>3, TimesAssumption
  <2>6. QED
    BY <2>3, <2>4, <2>5
<1>6. QED
  BY <1>4, <1>5

\* One minute after a time of the grid comes the next one.
LEMMA NextOnGrid ==
  ASSUME NEW l \in Nat, OnGrid(l)
  PROVE  NextTick(l) = l + Minute
<1>1. PICK q \in Int : l = q * Minute + Offset
  BY DEF OnGrid
<1>2. PICK p \in Int : NextTick(l) = p * Minute + Offset
  BY NextTickFirst DEF OnGrid
<1>3. q * Minute \in Int /\ p * Minute \in Int
  BY TimesAssumption
<1>4. q < p
  <2>1. q # p
    BY <1>1, <1>2, NextTickBounds
  <2>2. ~(p < q)
    BY <1>1, <1>2, <1>3, MinutesApart, NextTickBounds, TimesAssumption
  <2>3. QED
    BY <2>1, <2>2
<1>5. q * Minute + Minute <= p * Minute
  BY <1>4, MinutesApart
<1>6. l + Minute <= NextTick(l)
  BY <1>1, <1>2, <1>3, <1>5, TimesAssumption
<1>7. NextTick(l) \in Nat /\ NextTick(l) <= l + Minute
  BY NextTickBounds
<1>8. QED
  BY <1>6, <1>7, TimesAssumption

\* The later the clock, the later the next tick; and it stays until its time.
LEMMA NextTickMonotone ==
  ASSUME NEW a \in Nat, NEW b \in Nat, a <= b
  PROVE  /\ NextTick(a) <= NextTick(b)
         /\ b < NextTick(a) => NextTick(b) = NextTick(a)
<1>1. NextTick(a) <= NextTick(b)
  BY NextTickBounds, NextTickFirst
<1>2. ASSUME b < NextTick(a) PROVE NextTick(b) = NextTick(a)
  BY <1>1, <1>2, NextTickBounds, NextTickFirst
<1>3. QED
  BY <1>1, <1>2

-----------------------------------------------------------------------------
\* What keeps ticks apart. The last tick is ahead of the wall clock by at most
\* the steps back; so is the wake time, at the end of the timer; and the tick
\* that the loop waits for is after the last one.
HasNext == pc \in {"set", "wait", "read"}
LastNear == last # NoTick => last <= wall + back
WakeNear == pc = "wait" => wake <= wall + timer + back
NextAfterTheLast == HasNext /\ last # NoTick => next > last \/ back >= MaxStepBack
WakeBefore == HasNext => wake <= next
IInv == TypeOK /\ LastNear /\ WakeNear /\ NextAfterTheLast /\ WakeBefore

LEMMA Initially == Init => IInv
<1> SUFFICES ASSUME Init PROVE IInv
  OBVIOUS
<1>1. wall \in Nat
  BY TimesAssumption DEF Init
<1>2. TypeOK
  <2>1. excused \in BOOLEAN
    BY Zenon DEF Init
  <2>2. QED
    BY <1>1, <2>1 DEF Init, TypeOK, NoTick
<1>3. QED
  BY <1>2 DEF Init, IInv, LastNear, WakeNear, NextAfterTheLast, WakeBefore, HasNext

\* The computed tick is after the last one unless the clock was stepped back
\* by maxStepBack or more in all: the premise of NextAfterLast.
LEMMA ComputeStep == IInv /\ Compute => IInv'
<1> SUFFICES ASSUME IInv, Compute PROVE IInv'
  OBVIOUS
<1> USE DEF IInv, TypeOK, Compute, ghosts
<1>1. /\ next' \in Nat /\ next' > wall
  BY NextAfterBounds
<1>2. wake' \in Nat /\ wake' <= next'
  BY <1>1, NextReadingLater DEF Min2
<1>3. TypeOK'
  BY <1>1, <1>2
<1>4. LastNear' /\ WakeNear' /\ WakeBefore'
  BY <1>2 DEF LastNear, WakeNear, WakeBefore
<1>5. NextAfterTheLast'
  BY NextAfterLast, TimesAssumption DEF NextAfterTheLast, LastNear
<1>6. QED
  BY <1>3, <1>4, <1>5

\* The timer ends at the wake time or, when that has passed, at once.
LEMMA SetTimerStep == IInv /\ SetTimer => IInv'
BY DEF IInv, TypeOK, LastNear, WakeNear, NextAfterTheLast, WakeBefore, HasNext,
       SetTimer, loopVars, ghosts, Max2

\* A tick begins when the timer is at its end or the clock is at the tick.
LEMMA TickStep == IInv /\ Tick => IInv'
BY DEF IInv, TypeOK, LastNear, WakeNear, NextAfterTheLast, WakeBefore, HasNext, Tick, ghosts

LEMMA OtherSteps ==
  IInv /\ (StartReading \/ ReadingDone \/ WorkDone \/ UNCHANGED vars) => IInv'
BY DEF IInv, TypeOK, LastNear, WakeNear, NextAfterTheLast, WakeBefore, HasNext,
       StartReading, ReadingDone, WorkDone, vars, loopVars, ghosts

\* The two clocks go on together: wall + timer does not fall.
LEMMA ElapseStep == IInv /\ Elapse => IInv'
BY DEF IInv, TypeOK, LastNear, WakeNear, NextAfterTheLast, WakeBefore, HasNext,
       Elapse, GoOn, loopVars, ghosts, NoTick

LEMMA PauseStep ==
  ASSUME IInv, NEW d \in 1..MaxPause, Pause(d) PROVE IInv'
<1>1. d \in Nat
  BY BoundsAssumption
<1>2. QED
  BY <1>1 DEF IInv, TypeOK, LastNear, WakeNear, NextAfterTheLast, WakeBefore, HasNext,
              Pause, GoOn, loopVars, NoTick

\* A step back takes from the wall clock what it adds to back.
LEMMA StepClockStep ==
  ASSUME IInv, NEW d \in Steps, StepClock(d) PROVE IInv'
<1>1. d \in Int
  BY BoundsAssumption
<1>2. /\ wall' \in Nat /\ wall' + back' >= wall + back /\ back' \in Nat /\ back' >= back
      /\ slip' \in Nat /\ steps' \in Nat
  BY <1>1, BoundsAssumption DEF StepClock, IInv, TypeOK, Max2
<1>3. QED
  BY <1>1, <1>2, TimesAssumption
  DEF IInv, TypeOK, LastNear, WakeNear, NextAfterTheLast, WakeBefore, HasNext, StepClock, loopVars

LEMMA Inductive == IInv /\ [Next]_vars => IInv'
BY ComputeStep, SetTimerStep, TickStep, OtherSteps, ElapseStep, PauseStep, StepClockStep
DEF Next, Loop

-----------------------------------------------------------------------------
\* Every behaviour of the loop keeps the types of its variables.
THEOREM TypeCorrect == Spec => []TypeOK
<1>1. IInv => TypeOK
  BY DEF IInv
<1>2. QED
  BY Initially, Inductive, <1>1, PTL DEF Spec

\* Only Tick begins a tick.
LEMMA OnlyTickBegins == Next /\ TickBegins => Tick
BY DEF Next, Loop, TickBegins, Compute, SetTimer, StartReading, ReadingDone, WorkDone,
       Elapse, Pause, StepClock

\* No tick runs two times, and no tick runs after a later one, until the steps
\* back of the wall clock add up to maxStepBack.
THEOREM NoTickRepeats == Spec => NoMinuteTwice
<1>1. IInv /\ [Next]_vars => [TicksGoForward]_vars
  <2> SUFFICES ASSUME IInv, Next, TickBegins PROVE TicksGoForward
    BY DEF TicksGoForward
  <2>1. Tick
    BY OnlyTickBegins
  <2>2. QED
    BY <2>1 DEF IInv, NextAfterTheLast, HasNext, TicksGoForward, Tick
<1>2. QED
  BY Initially, Inductive, <1>1, PTL DEF Spec, NoMinuteTwice

-----------------------------------------------------------------------------
(***************************************************************************)
(* Each minute has its tick while the wall clock does not step.             *)
(***************************************************************************)

\* Every tick is a time of the grid.
TicksOnGrid == (last # NoTick => OnGrid(last)) /\ (HasNext => OnGrid(next))

\* Without a step, the last tick began at its time or after it. When neither its
\* work nor a pause ended the minute after it, the loop is before the next time
\* of the grid when it computes, and that is the tick that it waits for.
NothingBack == steps = 0 => back = 0
WorkTime == pc = "work" => silent = worked /\ worked <= MaxWork
NextMinuteAhead ==
  steps = 0 /\ last # NoTick /\ ~excused =>
    /\ pc \in {"work", "compute"} => wall < last + Minute
    /\ HasNext => next = last + Minute
GridInv == IInv /\ TicksOnGrid /\ NothingBack /\ WorkTime /\ NextMinuteAhead

LEMMA NextAfterOnGrid ==
  ASSUME NEW now \in Nat, NEW l \in Nat \cup {NoTick}
  PROVE  OnGrid(NextAfter(now, l))
BY NextTickFirst, NextTickBounds DEF NextAfter, NoTick

LEMMA GridInitially == Init => GridInv
BY Initially, TimesAssumption, BoundsAssumption
DEF Init, GridInv, TicksOnGrid, NothingBack, WorkTime, NextMinuteAhead, HasNext

LEMMA GridCompute == GridInv /\ Compute => GridInv'
<1> SUFFICES ASSUME GridInv, Compute PROVE GridInv'
  OBVIOUS
<1>1. IInv'
  BY ComputeStep DEF GridInv
<1>2. TypeOK
  BY DEF GridInv, IInv
<1>3. TicksOnGrid'
  BY <1>2, NextAfterOnGrid DEF GridInv, TicksOnGrid, Compute, TypeOK
<1>4. NothingBack' /\ WorkTime'
  BY DEF GridInv, NothingBack, WorkTime, Compute, ghosts
<1>5. NextMinuteAhead'
  <2> SUFFICES ASSUME steps = 0, last # NoTick, ~excused
               PROVE  next' = last + Minute
    BY DEF NextMinuteAhead, Compute, ghosts
  <2>1. last \in Nat /\ OnGrid(last) /\ last <= wall /\ wall < last + Minute
    BY <1>2 DEF GridInv, IInv, TicksOnGrid, LastNear, NothingBack, NextMinuteAhead, TypeOK, Compute
  <2>2. NextTick(last) = last + Minute
    BY <2>1, NextOnGrid
  <2>3. NextTick(wall) = last + Minute
    BY <1>2, <2>1, <2>2, NextTickMonotone DEF TypeOK
  <2>4. NextAfter(wall, last) = NextTick(wall)
    BY <1>2, <2>1, NextTickBounds DEF NextAfter, TypeOK
  <2>5. QED
    BY <2>3, <2>4 DEF Compute
<1>6. QED
  BY <1>1, <1>3, <1>4, <1>5 DEF GridInv

\* A reading that is done ends before the tick that the loop waits for.
LEMMA GridReading ==
  GridInv /\ (SetTimer \/ StartReading \/ ReadingDone) => GridInv'
<1> SUFFICES ASSUME GridInv, SetTimer \/ StartReading \/ ReadingDone PROVE GridInv'
  OBVIOUS
<1>1. IInv'
  BY OtherSteps, SetTimerStep DEF GridInv
<1>2. QED
  BY <1>1
  DEF GridInv, TicksOnGrid, NothingBack, WorkTime, NextMinuteAhead, HasNext,
      SetTimer, StartReading, ReadingDone, loopVars, ghosts

LEMMA GridTick == GridInv /\ Tick => GridInv'
<1> SUFFICES ASSUME GridInv, Tick PROVE GridInv'
  OBVIOUS
<1>1. IInv'
  BY TickStep DEF GridInv
<1>2. TypeOK
  BY DEF GridInv, IInv
<1>3. TicksOnGrid' /\ NothingBack'
  BY DEF GridInv, TicksOnGrid, NothingBack, HasNext, Tick, ghosts
<1>4. WorkTime'
  BY BoundsAssumption DEF WorkTime, Tick
<1>5. NextMinuteAhead'
  <2>1. ASSUME ~excused' PROVE wall < next + Minute
    <3>1. ~(wall >= next + Minute)
      BY <2>1, Zenon DEF Tick
    <3>2. QED
      BY <1>2, <3>1, TimesAssumption DEF TypeOK
  <2>2. pc' = "work" /\ wall' = wall /\ last' = next
    BY DEF Tick
  <2>3. QED
    BY <2>1, <2>2 DEF NextMinuteAhead, HasNext
<1>6. QED
  BY <1>1, <1>3, <1>4, <1>5 DEF GridInv

LEMMA GridWorkDone == GridInv /\ WorkDone => GridInv'
<1> SUFFICES ASSUME GridInv, WorkDone PROVE GridInv'
  OBVIOUS
<1>1. IInv'
  BY OtherSteps DEF GridInv
<1>2. QED
  BY <1>1
  DEF GridInv, TicksOnGrid, NothingBack, WorkTime, NextMinuteAhead, HasNext, WorkDone, loopVars, ghosts

\* What time that passed without an excuse says.
LEMMA ExcuseOfTime ==
  ASSUME TypeOK, NEW d \in Nat, GoOn(d), ~excused'
  PROVE  ~excused /\ (pc \in {"work", "compute"} => wall' < last + Minute)
<1>1. ~excused /\ ~(pc \in {"work", "compute"} /\ wall' >= last + Minute)
  BY DEF GoOn, TypeOK
<1>2. wall' \in Nat /\ last + Minute \in Int
  BY TimesAssumption DEF GoOn, TypeOK, NoTick
<1>3. QED
  BY <1>1, <1>2

LEMMA GridElapse == GridInv /\ Elapse => GridInv'
<1> SUFFICES ASSUME GridInv, Elapse PROVE GridInv'
  OBVIOUS
<1>1. IInv' /\ TypeOK
  BY ElapseStep DEF GridInv, IInv
<1>2. TicksOnGrid' /\ NothingBack'
  BY DEF GridInv, TicksOnGrid, NothingBack, HasNext, Elapse, loopVars, ghosts
<1>3. WorkTime'
  BY <1>1, BoundsAssumption DEF GridInv, WorkTime, Elapse, GoOn, TypeOK
<1>4. NextMinuteAhead'
  <2>1. ASSUME ~excused' PROVE ~excused /\ (pc \in {"work", "compute"} => wall' < last + Minute)
    BY <1>1, <2>1, ExcuseOfTime, TimesAssumption DEF Elapse
  <2>2. UNCHANGED <<pc, last, next, steps>>
    BY DEF Elapse, loopVars, ghosts
  <2>3. QED
    BY <2>1, <2>2 DEF GridInv, NextMinuteAhead, HasNext
<1>5. QED
  BY <1>1, <1>2, <1>3, <1>4 DEF GridInv

LEMMA GridPause ==
  ASSUME GridInv, NEW d \in 1..MaxPause, Pause(d) PROVE GridInv'
<1>1. IInv' /\ TypeOK /\ d \in Nat
  BY PauseStep, BoundsAssumption DEF GridInv, IInv
<1>2. TicksOnGrid' /\ NothingBack' /\ WorkTime'
  BY DEF GridInv, TicksOnGrid, NothingBack, WorkTime, HasNext, Pause, loopVars
<1>3. NextMinuteAhead'
  <2>1. ASSUME ~excused' PROVE ~excused /\ (pc \in {"work", "compute"} => wall' < last + Minute)
    BY <1>1, <2>1, ExcuseOfTime, TimesAssumption DEF Pause
  <2>2. UNCHANGED <<pc, last, next, steps>>
    BY DEF Pause, loopVars
  <2>3. QED
    BY <2>1, <2>2 DEF GridInv, NextMinuteAhead, HasNext
<1>4. QED
  BY <1>1, <1>2, <1>3 DEF GridInv

LEMMA GridStepClock ==
  ASSUME GridInv, NEW d \in Steps, StepClock(d) PROVE GridInv'
<1>1. IInv' /\ TypeOK
  BY StepClockStep DEF GridInv, IInv
<1>2. steps' # 0
  BY <1>1 DEF StepClock, TypeOK
<1>3. QED
  BY <1>1, <1>2
  DEF GridInv, TicksOnGrid, NothingBack, WorkTime, NextMinuteAhead, HasNext, StepClock, loopVars

LEMMA GridInductive == GridInv /\ [Next]_vars => GridInv'
<1>1. GridInv /\ UNCHANGED vars => GridInv'
  <2> SUFFICES ASSUME GridInv, UNCHANGED vars PROVE GridInv'
    OBVIOUS
  <2>1. IInv'
    BY OtherSteps DEF GridInv
  <2>2. QED
    BY <2>1
    DEF GridInv, TicksOnGrid, NothingBack, WorkTime, NextMinuteAhead, HasNext, vars, loopVars, ghosts
<1>2. QED
  BY <1>1, GridCompute, GridReading, GridTick, GridWorkDone, GridElapse, GridPause, GridStepClock
  DEF Next, Loop

\* While the wall clock does not step, the tick of the next minute follows each
\* tick, unless its work or a pause at the top of loop ended that minute.
THEOREM NoMinuteLeftOut == Spec => EachMinute
<1>1. GridInv /\ [Next]_vars => [NoTickLost]_vars
  <2> SUFFICES ASSUME GridInv, Next, TickBegins PROVE NoTickLost
    BY DEF NoTickLost
  <2>1. Tick
    BY OnlyTickBegins
  <2>2. QED
    BY <2>1 DEF GridInv, NextMinuteAhead, HasNext, NoTickLost, Tick
<1>2. QED
  BY GridInitially, GridInductive, <1>1, PTL DEF Spec, EachMinute

-----------------------------------------------------------------------------
(***************************************************************************)
(* The loop is never silent for long.                                       *)
(***************************************************************************)

\* The time without a tick that the steps and pauses so far allow, apart from
\* one late timer and one reading at its end.
Grace == Minute + MaxWork + steps * StepAllows + pauses * PauseAllows + slip

LEMMA Times ==
  ASSUME NEW k \in Nat, NEW a \in Nat
  PROVE  /\ k * a \in Nat
         /\ (k + 1) * a = k * a + a
         /\ k # 0 => k * a >= a
<1>1. k * a \in Nat /\ (k + 1) * a = k * a + a
  OBVIOUS
<1>2. ASSUME k # 0 PROVE k * a >= a
  <2>1. k - 1 \in Nat /\ k * a = a + (k - 1) * a /\ (k - 1) * a \in Nat
    BY <1>2
  <2>2. QED
    BY <2>1
<1>3. QED
  BY <1>1, <1>2

LEMMA GraceFacts ==
  ASSUME TypeOK
  PROVE  /\ Grace \in Nat /\ StepAllows \in Nat /\ PauseAllows \in Nat
         /\ Grace >= Minute + MaxWork
         /\ steps # 0 => Grace >= Minute + MaxWork + StepAllows
<1>1. StepAllows \in Nat /\ PauseAllows \in Nat
  BY TimesAssumption, BoundsAssumption DEF StepAllows, PauseAllows
<1>2. /\ steps * StepAllows \in Nat /\ pauses * PauseAllows \in Nat
      /\ steps # 0 => steps * StepAllows >= StepAllows
  BY <1>1, Times DEF TypeOK
<1>3. QED
  BY <1>1, <1>2, TimesAssumption, BoundsAssumption DEF Grace, TypeOK

\* Each step of the wall clock adds its part.
LEMMA GraceGrows ==
  ASSUME TypeOK, NEW d \in Steps, StepClock(d)
  PROVE  Grace' = Grace + StepAllows + (slip' - slip) /\ slip' >= slip
<1>1. StepAllows \in Nat /\ (steps + 1) * StepAllows = steps * StepAllows + StepAllows
  BY GraceFacts, Times DEF TypeOK
<1>2. steps * StepAllows \in Nat /\ pauses * PauseAllows \in Nat
  BY GraceFacts, Times DEF TypeOK
<1>3. slip' \in Nat /\ slip' >= slip
  BY BoundsAssumption DEF StepClock, TypeOK, Max2
<1>4. Grace' = Minute + MaxWork + (steps + 1) * StepAllows + pauses * PauseAllows + slip'
  BY DEF Grace, StepClock, StepAllows, PauseAllows
<1>5. QED
  BY <1>1, <1>2, <1>3, <1>4, TimesAssumption, BoundsAssumption DEF Grace, TypeOK

\* So does each pause.
LEMMA GraceOfPause ==
  ASSUME TypeOK, NEW d \in 1..MaxPause, Pause(d)
  PROVE  Grace' = Grace + PauseAllows
<1>1. PauseAllows \in Nat /\ (pauses + 1) * PauseAllows = pauses * PauseAllows + PauseAllows
  BY GraceFacts, Times DEF TypeOK
<1>2. steps * StepAllows \in Nat /\ pauses * PauseAllows \in Nat
  BY GraceFacts, Times DEF TypeOK
<1>3. Grace' = Minute + MaxWork + steps * StepAllows + (pauses + 1) * PauseAllows + slip
  BY DEF Grace, Pause, StepAllows, PauseAllows
<1>4. QED
  BY <1>1, <1>2, <1>3, TimesAssumption, BoundsAssumption DEF Grace, TypeOK

-----------------------------------------------------------------------------
\* The latest tick that a loop which goes on from now can wait for: nextAfter
\* with a last tick at exactly maxStepBack from now taken as near. While the
\* clock goes on, nextAfter can come to that tick from an earlier one, when the
\* last tick is no longer maxStepBack away; it never comes to a later one.
Near(now, l) == l # NoTick /\ NextTick(now) <= l /\ l - now <= MaxStepBack
Latest(now, l) == IF Near(now, l) THEN NextTick(l) ELSE NextTick(now)

LEMMA LatestBounds ==
  ASSUME NEW now \in Nat, NEW l \in Nat \cup {NoTick}
  PROVE  /\ Latest(now, l) \in Nat
         /\ Latest(now, l) > now
         /\ Latest(now, l) <= now + MaxStepBack + Minute
         /\ NextAfter(now, l) <= Latest(now, l)
<1>1. CASE Near(now, l)
  <2>1. l \in Nat
    BY <1>1 DEF Near
  <2>2. QED
    BY <1>1, <2>1, NextTickBounds, TimesAssumption DEF Near, Latest, NextAfter
<1>2. CASE ~Near(now, l)
  BY <1>2, NextTickBounds, TimesAssumption DEF Near, Latest, NextAfter
<1>3. QED
  BY <1>1, <1>2

\* With a last tick that is not ahead of the clock, it is the next tick.
LEMMA LatestAhead ==
  ASSUME NEW now \in Nat, NEW l \in Nat \cup {NoTick}, l = NoTick \/ l <= now
  PROVE  Latest(now, l) = NextTick(now)
BY NextTickBounds DEF Latest, Near

\* Before that tick, the clock goes on and it stays. This needs that
\* maxStepBack is a whole number of minutes: then the time maxStepBack before
\* the last tick is on the grid too.
LEMMA LatestStays ==
  ASSUME NEW now \in Nat, NEW l \in Nat \cup {NoTick}, l # NoTick => OnGrid(l),
         NEW later \in Nat, now <= later,
         OnGrid(MaxStepBack + Offset), later < Latest(now, l)
  PROVE  Latest(later, l) = Latest(now, l)
<1>1. CASE Near(now, l)
  <2>1. l \in Nat /\ NextTick(now) <= l /\ l - now <= MaxStepBack
    BY <1>1 DEF Near
  <2>2. Latest(now, l) = NextTick(l) /\ NextTick(l) \in Nat /\ NextTick(later) \in Nat
    BY <1>1, <2>1, NextTickBounds DEF Latest
  <2>3. CASE l < later
    <3>1. NextTick(later) = NextTick(l)
      BY <2>1, <2>2, <2>3, NextTickMonotone
    <3>2. QED
      BY <2>1, <2>2, <3>1, NextTickBounds DEF Latest
  <2>4. CASE later <= l
    <3>1. NextTick(later) <= NextTick(l)
      BY <2>1, <2>4, NextTickMonotone
    <3>2. CASE NextTick(later) <= l
      BY <1>1, <2>1, <3>2, TimesAssumption DEF Latest, Near
    <3>3. CASE ~(NextTick(later) <= l)
      <4>1. NextTick(l) <= NextTick(later)
        BY <2>1, <2>2, <3>3, NextTickFirst
      <4>2. QED
        BY <2>2, <3>1, <3>3, <4>1 DEF Latest, Near
    <3>4. QED
      BY <3>2, <3>3
  <2>5. QED
    BY <2>1, <2>3, <2>4
<1>2. CASE ~Near(now, l)
  <2>1. NextTick(now) \in Nat /\ later < NextTick(now)
    BY <1>2, NextTickBounds DEF Latest
  <2>2. NextTick(later) = NextTick(now)
    BY <2>1, NextTickMonotone
  <2>3. ~Near(later, l)
    <3>1. SUFFICES ASSUME l # NoTick, NextTick(now) <= l, l - later <= MaxStepBack
                   PROVE  FALSE
      BY <2>2 DEF Near
    <3>2. l \in Nat /\ OnGrid(l) /\ l - MaxStepBack > now
      BY <1>2, <3>1, TimesAssumption DEF Near
    <3>3. OnGrid(l - MaxStepBack)
      <4>1. PICK q \in Int : l = q * Minute + Offset
        BY <3>2 DEF OnGrid
      <4>2. PICK k \in Int : MaxStepBack + Offset = k * Minute + Offset
        BY DEF OnGrid
      <4>3. (q - k) * Minute = q * Minute - k * Minute
        BY TimesAssumption
      <4>4. q * Minute \in Int /\ k * Minute \in Int
        BY TimesAssumption
      <4>5. l - MaxStepBack = (q - k) * Minute + Offset
        BY <4>1, <4>2, <4>3, <4>4, TimesAssumption
      <4>6. QED
        BY <4>5 DEF OnGrid
    <3>4. NextTick(now) <= l - MaxStepBack
      BY <3>2, <3>3, NextTickFirst, TimesAssumption
    <3>5. QED
      BY <2>1, <3>1, <3>2, <3>4, TimesAssumption
  <2>4. QED
    BY <1>2, <2>2, <2>3 DEF Latest
<1>3. QED
  BY <1>1, <1>2

-----------------------------------------------------------------------------
\* The silence and what is still to wait for stay in the grace: up to the
\* latest tick when the loop computes, to the wake time when it sets the timer,
\* and on the timer while it waits.
ComputeInTime == pc = "compute" => silent + Latest(wall, last) - wall <= Grace
SetInTime == pc = "set" => silent <= Grace /\ silent + wake - wall <= Grace
TimerInTime == pc = "wait" => silent + timer <= Grace /\ timer >= -MaxLate
ReadInTime ==
  pc = "read" => silent <= Grace + MaxLate + worked /\ worked <= MaxRead /\ wake < next

\* A reading that returns before the tick computes again: either the wall clock
\* stepped since the last computation or a pause followed it, and that part of
\* the grace is not used yet, or the latest tick is the one that Compute saw.
TickStays == silent + Latest(wall, last) - wall <= Grace /\ next <= Latest(wall, last)
Unused ==
  /\ pc = "set" => silent + StepAllows <= Grace /\ silent + wake - wall + StepAllows <= Grace
  /\ pc = "wait" => silent + timer + StepAllows <= Grace
  /\ pc = "read" => silent + StepAllows <= Grace + MaxLate + worked
AgainInTime == HasNext /\ wake < next /\ wall < next => Unused \/ TickStays
QuietInv == GridInv /\ ComputeInTime /\ SetInTime /\ TimerInTime /\ ReadInTime /\ AgainInTime

LEMMA QuietTypes == QuietInv => TypeOK
BY DEF QuietInv, GridInv, IInv

LEMMA QuietInitially == Init => QuietInv
<1> SUFFICES ASSUME Init PROVE QuietInv
  OBVIOUS
<1>1. GridInv /\ TypeOK
  BY GridInitially DEF GridInv, IInv
<1>2. Latest(wall, last) = NextTick(wall) /\ NextTick(wall) <= wall + Minute /\ NextTick(wall) \in Nat
  BY <1>1, LatestAhead, NextTickBounds DEF Init, TypeOK
<1>3. silent + Latest(wall, last) - wall <= Grace
  BY <1>1, <1>2, GraceFacts, TimesAssumption, BoundsAssumption DEF Init, TypeOK
<1>4. QED
  BY <1>1, <1>3
  DEF Init, QuietInv, ComputeInTime, SetInTime, TimerInTime, ReadInTime, AgainInTime, HasNext

LEMMA QuietCompute == QuietInv /\ Compute => QuietInv'
<1> SUFFICES ASSUME QuietInv, Compute PROVE QuietInv'
  OBVIOUS
<1>1. GridInv' /\ TypeOK /\ TypeOK'
  BY GridCompute DEF QuietInv, GridInv, IInv
<1>2. Grace' = Grace /\ Grace \in Nat
  BY <1>1, GraceFacts DEF Grace, Compute, StepAllows, PauseAllows, ghosts
<1>3. silent + Latest(wall, last) - wall <= Grace
  BY DEF QuietInv, ComputeInTime, Compute
<1>4. /\ next' <= Latest(wall, last) /\ next' > wall
      /\ Latest(wall, last) \in Nat /\ Latest(wall, last) > wall
  BY <1>1, LatestBounds, NextAfterBounds DEF Compute, TypeOK
<1>5. wake' <= next' /\ wake' > wall
  BY <1>1, <1>4, NextReadingLater DEF Compute, Min2, TypeOK
<1>6. SetInTime'
  BY <1>1, <1>2, <1>3, <1>4, <1>5 DEF SetInTime, Compute, TypeOK
<1>7. TickStays'
  BY <1>2, <1>3, <1>4 DEF TickStays, Compute, Latest, Near
<1>8. QED
  BY <1>1, <1>6, <1>7
  DEF QuietInv, ComputeInTime, TimerInTime, ReadInTime, AgainInTime, Compute

LEMMA QuietSetTimer == QuietInv /\ SetTimer => QuietInv'
<1> SUFFICES ASSUME QuietInv, SetTimer PROVE QuietInv'
  OBVIOUS
<1>1. GridInv' /\ TypeOK /\ TypeOK'
  BY GridReading DEF QuietInv, GridInv, IInv
<1>2. Grace' = Grace /\ Grace \in Nat /\ StepAllows' = StepAllows /\ StepAllows \in Nat
  BY <1>1, GraceFacts DEF Grace, SetTimer, StepAllows, PauseAllows, ghosts
<1>3. silent <= Grace /\ silent + wake - wall <= Grace
  BY DEF QuietInv, SetInTime, SetTimer
<1>4. TimerInTime'
  BY <1>1, <1>2, <1>3, BoundsAssumption DEF TimerInTime, SetTimer, Max2, TypeOK
<1>5. Unused => Unused'
  BY <1>1, <1>2 DEF Unused, SetTimer, Max2, TypeOK
<1>6. TickStays => TickStays'
  BY <1>2 DEF TickStays, SetTimer, Latest, Near, loopVars
<1>7. AgainInTime'
  BY <1>5, <1>6 DEF QuietInv, AgainInTime, HasNext, SetTimer, loopVars
<1>8. QED
  BY <1>1, <1>4, <1>7 DEF QuietInv, ComputeInTime, SetInTime, ReadInTime, SetTimer

LEMMA QuietStartReading == QuietInv /\ StartReading => QuietInv'
<1> SUFFICES ASSUME QuietInv, StartReading PROVE QuietInv'
  OBVIOUS
<1>1. GridInv' /\ TypeOK /\ TypeOK'
  BY GridReading DEF QuietInv, GridInv, IInv
<1>2. Grace' = Grace /\ Grace \in Nat /\ StepAllows' = StepAllows /\ StepAllows \in Nat
  BY <1>1, GraceFacts DEF Grace, StartReading, StepAllows, PauseAllows, ghosts
<1>3. silent + timer <= Grace /\ timer >= -MaxLate
  BY DEF QuietInv, TimerInTime, StartReading
<1>4. ReadInTime'
  BY <1>1, <1>2, <1>3, BoundsAssumption DEF ReadInTime, StartReading, loopVars, TypeOK
<1>5. Unused => Unused'
  BY <1>1, <1>2, <1>3, BoundsAssumption DEF Unused, StartReading, TypeOK
<1>6. TickStays => TickStays'
  BY <1>2 DEF TickStays, StartReading, Latest, Near, loopVars
<1>7. AgainInTime'
  BY <1>5, <1>6 DEF QuietInv, AgainInTime, HasNext, StartReading, loopVars
<1>8. QED
  BY <1>1, <1>4, <1>7 DEF QuietInv, ComputeInTime, SetInTime, TimerInTime, StartReading

LEMMA QuietReadingDone == QuietInv /\ ReadingDone => QuietInv'
<1> SUFFICES ASSUME QuietInv, ReadingDone PROVE QuietInv'
  OBVIOUS
<1>1. GridInv' /\ TypeOK
  BY GridReading DEF QuietInv, GridInv, IInv
<1>2. Grace' = Grace /\ Grace \in Nat
  BY <1>1, GraceFacts DEF Grace, ReadingDone, StepAllows, PauseAllows, ghosts
<1>3. Latest(wall, last) \in Nat /\ Latest(wall, last) <= wall + MaxStepBack + Minute
  BY <1>1, LatestBounds DEF TypeOK
<1>4. worked <= MaxRead /\ (Unused \/ TickStays)
  BY DEF QuietInv, ReadInTime, AgainInTime, HasNext, ReadingDone
<1>5. silent + Latest(wall, last) - wall <= Grace
  <2>1. CASE Unused
    <3>1. silent + Minute + MaxStepBack <= Grace
      BY <1>1, <1>2, <1>4, <2>1, TimesAssumption, BoundsAssumption
      DEF Unused, StepAllows, ReadingDone, TypeOK
    <3>2. QED
      BY <1>1, <1>2, <1>3, <3>1, TimesAssumption DEF TypeOK
  <2>2. QED
    BY <1>4, <2>1 DEF TickStays
<1>6. QED
  BY <1>1, <1>2, <1>5
  DEF QuietInv, ComputeInTime, SetInTime, TimerInTime, ReadInTime, AgainInTime, HasNext,
      ReadingDone, Latest, Near, loopVars

LEMMA QuietTick == QuietInv /\ Tick => QuietInv'
BY GridTick
DEF QuietInv, ComputeInTime, SetInTime, TimerInTime, ReadInTime, AgainInTime, HasNext, Tick

\* After the work, the next tick is a minute away, or the wall clock stepped.
LEMMA QuietWorkDone == QuietInv /\ WorkDone => QuietInv'
<1> SUFFICES ASSUME QuietInv, WorkDone PROVE QuietInv'
  OBVIOUS
<1>1. GridInv' /\ TypeOK
  BY GridWorkDone DEF QuietInv, GridInv, IInv
<1>2. Grace' = Grace /\ Grace \in Nat /\ StepAllows \in Nat /\ Grace >= Minute + MaxWork
  BY <1>1, GraceFacts DEF Grace, WorkDone, StepAllows, PauseAllows, ghosts
<1>3. silent \in Nat /\ silent <= MaxWork
  BY <1>1 DEF QuietInv, GridInv, WorkTime, WorkDone, TypeOK
<1>4. silent + Latest(wall, last) - wall <= Grace
  <2>1. CASE steps = 0
    <3>1. last = NoTick \/ last <= wall
      BY <1>1, <2>1 DEF QuietInv, GridInv, IInv, LastNear, NothingBack, TypeOK
    <3>2. Latest(wall, last) \in Nat /\ Latest(wall, last) <= wall + Minute
      BY <1>1, <3>1, LatestAhead, NextTickBounds DEF TypeOK
    <3>3. QED
      BY <1>1, <1>2, <1>3, <3>2, TimesAssumption, BoundsAssumption DEF TypeOK
  <2>2. CASE steps # 0
    <3>1. Latest(wall, last) \in Nat /\ Latest(wall, last) <= wall + MaxStepBack + Minute
      BY <1>1, LatestBounds DEF TypeOK
    <3>2. Grace >= Minute + MaxWork + StepAllows
      BY <1>1, <2>2, GraceFacts
    <3>3. QED
      BY <1>1, <1>2, <1>3, <3>1, <3>2, TimesAssumption, BoundsAssumption DEF StepAllows, TypeOK
  <2>3. QED
    BY <2>1, <2>2
<1>5. QED
  BY <1>1, <1>2, <1>4
  DEF QuietInv, ComputeInTime, SetInTime, TimerInTime, ReadInTime, AgainInTime, HasNext,
      WorkDone, Latest, Near, loopVars

\* The two clocks go on together, and the latest tick stays.
LEMMA QuietElapse ==
  ASSUME OnGrid(MaxStepBack + Offset), QuietInv, Elapse PROVE QuietInv'
<1>1. GridInv' /\ TypeOK /\ TypeOK'
  BY GridElapse DEF QuietInv, GridInv, IInv
<1>2. Grace' = Grace /\ Grace \in Nat /\ StepAllows' = StepAllows /\ StepAllows \in Nat
  BY <1>1, GraceFacts DEF Grace, Elapse, StepAllows, PauseAllows, ghosts
<1>3. /\ pc \in {"wait", "read", "work"} /\ UNCHANGED <<pc, last, next, wake>>
      /\ wall' = wall + 1 /\ silent' = silent + 1
      /\ pc = "wait" => timer > -MaxLate /\ timer' = timer - 1
      /\ pc = "read" => worked < MaxRead /\ worked' = worked + 1
  BY DEF Elapse, GoOn, loopVars
<1>4. TimerInTime' /\ ReadInTime' /\ ComputeInTime' /\ SetInTime'
  <2>1. TimerInTime'
    BY <1>1, <1>2, <1>3, BoundsAssumption DEF QuietInv, TimerInTime, TypeOK
  <2>2. ReadInTime'
    BY <1>1, <1>2, <1>3, BoundsAssumption DEF QuietInv, ReadInTime, TypeOK
  <2>3. QED
    BY <1>3, <2>1, <2>2 DEF ComputeInTime, SetInTime
<1>5. AgainInTime'
  <2> SUFFICES ASSUME pc # "work", wake < next, wall + 1 < next PROVE Unused' \/ TickStays'
    BY <1>3 DEF AgainInTime, HasNext
  <2>1. Unused \/ TickStays
    BY <1>1, <1>3 DEF QuietInv, AgainInTime, HasNext, TypeOK
  <2>2. CASE Unused
    <3>1. /\ {silent, worked} \subseteq Nat /\ timer \in Int /\ MaxLate \in Nat
      BY <1>1, BoundsAssumption DEF TypeOK
    <3>2. CASE pc = "wait"
      <4>1. silent + timer + StepAllows <= Grace
        BY <2>2, <3>2 DEF Unused
      <4>2. (silent + 1) + (timer - 1) + StepAllows <= Grace
        BY <1>2, <3>1, <4>1
      <4>3. pc' = "wait" /\ silent' + timer' + StepAllows' <= Grace'
        BY <1>2, <1>3, <3>2, <4>2
      <4>4. QED
        BY <4>3 DEF Unused
    <3>3. CASE pc = "read"
      <4>1. silent + StepAllows <= Grace + MaxLate + worked
        BY <2>2, <3>3 DEF Unused
      <4>2. (silent + 1) + StepAllows <= Grace + MaxLate + (worked + 1)
        BY <1>2, <3>1, <4>1
      <4>3. pc' = "read" /\ silent' + StepAllows' <= Grace' + MaxLate + worked'
        BY <1>2, <1>3, <3>3, <4>2
      <4>4. QED
        BY <4>3 DEF Unused
    <3>4. QED
      BY <1>3, <3>2, <3>3
  <2>3. CASE TickStays
    <3>1. Latest(wall, last) \in Nat
      BY <1>1, LatestBounds DEF TypeOK
    <3>2. wall + 1 < Latest(wall, last)
      BY <1>1, <2>3, <3>1 DEF TickStays, TypeOK
    <3>3. Latest(wall + 1, last) = Latest(wall, last)
      BY <1>1, <3>2, LatestStays DEF QuietInv, GridInv, TicksOnGrid, TypeOK
    <3>4. silent + 1 + Latest(wall + 1, last) - (wall + 1) <= Grace /\ next <= Latest(wall + 1, last)
      BY <1>1, <1>2, <2>3, <3>1, <3>3 DEF TickStays, TypeOK
    <3>5. QED
      BY <1>2, <1>3, <3>4 DEF TickStays, Latest, Near
  <2>4. QED
    BY <2>1, <2>2, <2>3
<1>6. QED
  BY <1>1, <1>4, <1>5 DEF QuietInv

\* A pause adds its part to the grace, whatever tick it makes the loop skip.
LEMMA QuietPause ==
  ASSUME OnGrid(MaxStepBack + Offset), QuietInv, NEW d \in 1..MaxPause, Pause(d)
  PROVE  QuietInv'
<1>1. GridInv' /\ TypeOK /\ TypeOK'
  BY GridPause DEF QuietInv, GridInv, IInv
<1>2. /\ Grace' = Grace + PauseAllows /\ Grace \in Nat /\ PauseAllows \in Nat
      /\ StepAllows' = StepAllows /\ StepAllows \in Nat
  BY <1>1, GraceFacts, GraceOfPause DEF StepAllows
<1>3. /\ pc \in {"compute", "set"} /\ UNCHANGED <<pc, last, next, wake, timer, worked>>
      /\ wall' = wall + d /\ silent' = silent + d /\ d \in Nat /\ d <= MaxPause
  BY BoundsAssumption DEF Pause, GoOn, loopVars
<1>4. silent <= Grace
  <2>1. Latest(wall, last) \in Nat /\ Latest(wall, last) > wall
    BY <1>1, LatestBounds DEF TypeOK
  <2>2. QED
    BY <1>1, <1>2, <1>3, <2>1 DEF QuietInv, ComputeInTime, SetInTime, TypeOK
<1>5. /\ Latest(wall + d, last) \in Nat
      /\ silent + d + Latest(wall + d, last) - (wall + d) <= Grace + PauseAllows
  <2>1. wall + d \in Nat
    BY <1>1, <1>3 DEF TypeOK
  <2>2. /\ Latest(wall + d, last) \in Nat
        /\ Latest(wall + d, last) <= wall + d + MaxStepBack + Minute
    BY <1>1, <2>1, LatestBounds DEF TypeOK
  <2>3. QED
    BY <1>1, <1>2, <1>3, <1>4, <2>1, <2>2, TimesAssumption, BoundsAssumption DEF PauseAllows, TypeOK
<1>6. ComputeInTime'
  BY <1>2, <1>3, <1>5 DEF ComputeInTime, Latest, Near
<1>7. PauseAllows >= d
  BY <1>3, TimesAssumption, BoundsAssumption DEF PauseAllows
<1>8. SetInTime'
  BY <1>1, <1>2, <1>3, <1>4, <1>7 DEF QuietInv, SetInTime, TypeOK
<1>9. AgainInTime'
  <2> SUFFICES ASSUME pc = "set", wake < next, wall + d < next PROVE Unused' \/ TickStays'
    BY <1>3 DEF AgainInTime, HasNext
  <2>1. Unused \/ TickStays
    BY <1>1, <1>3 DEF QuietInv, AgainInTime, HasNext, TypeOK
  <2>2. CASE Unused
    BY <1>1, <1>2, <1>3, <1>7, <2>2 DEF Unused, TypeOK
  <2>3. CASE TickStays
    <3>1. Latest(wall, last) \in Nat /\ wall + d \in Nat
      BY <1>1, <1>3, LatestBounds DEF TypeOK
    <3>2. wall <= wall + d /\ wall + d < Latest(wall, last)
      BY <1>1, <1>3, <2>3, <3>1 DEF TickStays, TypeOK
    <3>3. Latest(wall + d, last) = Latest(wall, last)
      BY <1>1, <3>1, <3>2, LatestStays DEF QuietInv, GridInv, TicksOnGrid, TypeOK
    <3>4. next <= Latest(wall + d, last)
      BY <2>3, <3>3 DEF TickStays
    <3>5. QED
      BY <1>2, <1>3, <1>5, <3>4 DEF TickStays, Latest, Near
  <2>4. QED
    BY <2>1, <2>2, <2>3
<1>10. QED
  BY <1>1, <1>3, <1>6, <1>8, <1>9 DEF QuietInv, TimerInTime, ReadInTime

LEMMA WithinSlipped ==
  ASSUME NEW g \in Nat, NEW a \in Nat, NEW u \in Nat, NEW x \in Int, NEW d \in Int,
         NEW w \in Int, u >= -d, x - w <= g
  PROVE  x - (w + d) + a <= g + a + u /\ x - (w + d) <= g + a + u
OBVIOUS

\* A step adds its part to the grace; a timer that runs does not notice it, and
\* the loop waits for a step back that comes before the timer.
LEMMA QuietStepClock ==
  ASSUME QuietInv, NEW d \in Steps, StepClock(d) PROVE QuietInv'
<1>1. GridInv' /\ TypeOK /\ TypeOK'
  BY GridStepClock DEF QuietInv, GridInv, IInv
<1> DEFINE u == Max2(0, -d)
<1>2. /\ Grace' = Grace + StepAllows + (IF pc = "set" THEN u ELSE 0)
      /\ u \in Nat /\ u >= -d /\ d \in Int
      /\ Grace \in Nat /\ StepAllows \in Nat /\ StepAllows' = StepAllows
  <2>1. d \in Int /\ u \in Nat /\ u >= -d
    BY BoundsAssumption DEF Max2
  <2>2. Grace \in Nat /\ StepAllows \in Nat /\ StepAllows' = StepAllows
    BY <1>1, GraceFacts DEF StepAllows
  <2>3. slip' - slip = IF pc = "set" THEN u ELSE 0
    BY <1>1, <2>1 DEF StepClock, TypeOK
  <2>4. QED
    BY <2>1, <2>2, <2>3, GraceGrows, <1>1
<1> HIDE DEF u
<1>3. UNCHANGED <<pc, last, next, wake, timer, worked, silent>>
  BY DEF StepClock, loopVars
<1>4. CASE pc = "compute"
  <2>1. silent <= Grace
    <3>1. Latest(wall, last) \in Nat /\ Latest(wall, last) > wall
      BY <1>1, LatestBounds DEF TypeOK
    <3>2. QED
      BY <1>1, <1>2, <1>4, <3>1 DEF QuietInv, ComputeInTime, TypeOK
  <2>2. Latest(wall + d, last) \in Nat /\ Latest(wall + d, last) <= wall + d + MaxStepBack + Minute
    BY <1>1, <1>2, LatestBounds DEF StepClock, TypeOK
  <2>3. silent + Latest(wall + d, last) - (wall + d) <= Grace + StepAllows
    BY <1>1, <1>2, <2>1, <2>2, TimesAssumption, BoundsAssumption DEF TypeOK, StepAllows
  <2>4. Grace' = Grace + StepAllows
    BY <1>2, <1>4
  <2>5. ComputeInTime'
    BY <1>3, <2>3, <2>4 DEF ComputeInTime, Latest, Near, StepClock
  <2>6. QED
    BY <1>1, <1>3, <1>4, <2>5
    DEF QuietInv, SetInTime, TimerInTime, ReadInTime, AgainInTime, HasNext
<1>5. CASE pc = "set"
  <2>1. silent <= Grace /\ silent + wake - wall <= Grace
    BY <1>5 DEF QuietInv, SetInTime
  <2>2. Grace' = Grace + StepAllows + u /\ wall' = wall + d
    BY <1>2, <1>5 DEF StepClock
  <2>3. silent + StepAllows <= Grace + StepAllows + u /\ silent <= Grace + StepAllows + u
    BY <1>1, <1>2, <2>1 DEF TypeOK
  <2>4. /\ silent + wake - (wall + d) + StepAllows <= Grace + StepAllows + u
        /\ silent + wake - (wall + d) <= Grace + StepAllows + u
    BY <1>1, <1>2, <2>1, WithinSlipped DEF TypeOK
  <2>5. SetInTime' /\ Unused'
    BY <1>2, <1>3, <1>5, <2>2, <2>3, <2>4 DEF SetInTime, Unused
  <2>6. QED
    BY <1>1, <1>3, <1>5, <2>5
    DEF QuietInv, ComputeInTime, TimerInTime, ReadInTime, AgainInTime, HasNext
<1>6. CASE pc = "wait"
  <2>1. silent + timer <= Grace /\ timer >= -MaxLate
    BY <1>6 DEF QuietInv, TimerInTime
  <2>2. silent + timer + StepAllows <= Grace + StepAllows /\ silent + timer <= Grace + StepAllows
    BY <1>1, <1>2, <2>1 DEF TypeOK
  <2>3. Grace' = Grace + StepAllows
    BY <1>2, <1>6
  <2>4. TimerInTime' /\ Unused'
    BY <1>2, <1>3, <1>6, <2>1, <2>2, <2>3 DEF TimerInTime, Unused
  <2>5. QED
    BY <1>1, <1>3, <1>6, <2>4
    DEF QuietInv, ComputeInTime, SetInTime, ReadInTime, AgainInTime, HasNext
<1>7. CASE pc = "read"
  <2>1. silent <= Grace + MaxLate + worked /\ worked <= MaxRead /\ wake < next
    BY <1>7 DEF QuietInv, ReadInTime
  <2>2. /\ silent + StepAllows <= Grace + StepAllows + MaxLate + worked
        /\ silent <= Grace + StepAllows + MaxLate + worked
    BY <1>1, <1>2, <2>1, BoundsAssumption DEF TypeOK
  <2>3. Grace' = Grace + StepAllows
    BY <1>2, <1>7
  <2>4. ReadInTime' /\ Unused'
    BY <1>2, <1>3, <1>7, <2>1, <2>2, <2>3 DEF ReadInTime, Unused
  <2>5. QED
    BY <1>1, <1>3, <1>7, <2>4
    DEF QuietInv, ComputeInTime, SetInTime, TimerInTime, AgainInTime, HasNext
<1>8. CASE pc = "work"
  BY <1>1, <1>3, <1>8
  DEF QuietInv, ComputeInTime, SetInTime, TimerInTime, ReadInTime, AgainInTime, HasNext
<1>9. QED
  BY <1>1, <1>4, <1>5, <1>6, <1>7, <1>8 DEF TypeOK

LEMMA QuietInductive ==
  ASSUME OnGrid(MaxStepBack + Offset), QuietInv, [Next]_vars PROVE QuietInv'
<1>1. CASE UNCHANGED vars
  <2>1. GridInv'
    BY <1>1, GridInductive DEF QuietInv
  <2>2. QED
    BY <1>1, <2>1
    DEF QuietInv, ComputeInTime, SetInTime, TimerInTime, ReadInTime, AgainInTime, Unused, TickStays,
        HasNext, Grace, StepAllows, PauseAllows, Latest, Near, vars, loopVars, ghosts
<1>2. CASE Next
  BY <1>2, QuietCompute, QuietSetTimer, QuietStartReading, QuietReadingDone, QuietTick,
     QuietWorkDone, QuietElapse, QuietPause, QuietStepClock
  DEF Next, Loop
<1>3. QED
  BY <1>1, <1>2

\* The silence never passes the grace by more than one late timer and a reading.
LEMMA QuietImplies == QuietInv => SilentBounded
<1> SUFFICES ASSUME QuietInv PROVE SilentBounded
  OBVIOUS
<1>1. TypeOK /\ Grace \in Nat /\ Grace >= Minute + MaxWork
  BY QuietTypes, GraceFacts
<1>2. silent <= Grace + MaxLate + MaxRead
  <2>1. CASE pc = "compute"
    <3>1. Latest(wall, last) \in Nat /\ Latest(wall, last) > wall
      BY <1>1, LatestBounds DEF TypeOK
    <3>2. QED
      BY <1>1, <2>1, <3>1, BoundsAssumption DEF QuietInv, ComputeInTime, TypeOK
  <2>2. CASE pc \in {"set", "wait", "read"}
    BY <1>1, <2>2, BoundsAssumption DEF QuietInv, SetInTime, TimerInTime, ReadInTime, TypeOK
  <2>3. CASE pc = "work"
    BY <1>1, <2>3, TimesAssumption, BoundsAssumption DEF QuietInv, GridInv, WorkTime, TypeOK
  <2>4. QED
    BY <1>1, <2>1, <2>2, <2>3 DEF TypeOK
<1>3. steps * StepAllows \in Nat /\ pauses * PauseAllows \in Nat
  <2>1. StepAllows \in Nat /\ PauseAllows \in Nat
    BY <1>1, GraceFacts
  <2>2. QED
    BY <1>1, <2>1, Times DEF TypeOK
<1>4. QED
  BY <1>1, <1>2, <1>3, BoundsAssumption, TimesAssumption DEF SilentBounded, Grace, TypeOK

\* Whatever the sizes of the steps of the wall clock, each one makes the time
\* without a tick longer by at most maxStepBack, a minute, a late timer and a
\* reading, except a step back that comes between the computation of the next
\* tick and its timer; each pause by its length, maxStepBack and a minute. In
\* the code, maxStepBack is two minutes: a whole number of them.
THEOREM SilenceIsBounded ==
  ASSUME NEW k \in Nat, MaxStepBack = k * Minute
  PROVE  Spec => []SilentBounded
<1>1. OnGrid(MaxStepBack + Offset)
  BY TimesAssumption DEF OnGrid
<1>2. QuietInv /\ [Next]_vars => QuietInv'
  BY <1>1, QuietInductive
<1>3. QED
  BY QuietInitially, <1>2, QuietImplies, PTL DEF Spec
=============================================================================
