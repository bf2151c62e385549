------------------------------ MODULE Schedule ------------------------------
(***************************************************************************)
(* When the agent works: loop, nextAfter, nextTick and nextReading of       *)
(* internal/agent/agent.go. The ticks come from the wall clock, which NTP,  *)
(* an administrator or a resumed VM can step, and the timer runs on the     *)
(* monotonic clock, which nothing steps. The loop reads the wall clock three *)
(* times in one round: at its top for the next tick (:148), when it sets the *)
(* timer (:157) and after a reading (:169). The process can pause, and the   *)
(* clock can step, between each two of them.                                 *)
(*                                                                         *)
(* Time is counted in units; Minute and ReadEvery are a minute and ten      *)
(* seconds in that unit. A wall clock time is a natural number.             *)
(***************************************************************************)
EXTENDS Integers

CONSTANTS
  Minute,        \* the time between two ticks
  ReadEvery,     \* readEvery: the time between two readings
  MaxStepBack,   \* maxStepBack: two minutes
  Offset,        \* cfg.Offset(): the second of the minute of this server
  Steps,         \* the sizes by which the wall clock can step
  MaxLate,       \* bound: how late a timer can fire
  MaxWork,       \* bound: how long a tick can take
  MaxRead,       \* bound: how long a reading can take
  MaxPause,      \* bound: how long the process can pause at the top of loop
  MaxPauses,     \* bound: the pauses there
  MaxClock,      \* bound: the wall clock
  MaxSteps       \* bound: the steps of the wall clock

ASSUME TimesAssumption ==
  /\ Minute \in Nat \ {0} /\ ReadEvery \in 1..Minute
  /\ MaxStepBack \in Nat /\ Offset \in 0..(Minute - 1)
ASSUME BoundsAssumption ==
  /\ Steps \subseteq Int
  /\ {MaxLate, MaxWork, MaxRead, MaxPause, MaxPauses, MaxClock, MaxSteps} \subseteq Nat

NoTick == -1   \* a.last before the first tick

VARIABLES
  readings,  \* a.collector is there: the loop reads between two ticks
  pc,        \* "compute" (the top of loop), "set" (the timer), "wait", "read", "work"
  wall,      \* the wall clock
  last,      \* a.last
  next,      \* the next tick, as loop computed it
  wake,      \* when the timer is set to fire
  timer,     \* what is left of the timer, on the monotonic clock
  worked,    \* how long the present tick or reading runs
  silent,    \* the time since the last tick began, or since the start
  back,      \* the sum of the steps back of the wall clock
  steps,     \* the number of its steps
  slip,      \* the sum of those between the computation and the timer
  pauses,    \* the pauses at the top of loop
  excused    \* the minute after the last tick ended in the work or in a pause

loopVars == <<readings, last, next, wake>>
ghosts == <<back, steps, slip, pauses>>
vars == <<loopVars, pc, wall, timer, worked, silent, ghosts, excused>>

-----------------------------------------------------------------------------
\* t.Truncate(d).
Truncate(t, d) == t - (t % d)

\* nextTick: the first time after now that is offset past a full minute.
NextTick(now) ==
  LET t == Truncate(now, Minute) + Offset
  IN  IF t > now THEN t ELSE t + Minute

\* Fault: the last tick is not looked at.
NextAfterOnlyNow(now, l) == NextTick(now)

\* Fault: the loop waits out a step back of any size.
NextAfterAnyStep(now, l) ==
  IF l # NoTick /\ NextTick(now) <= l THEN NextTick(l) ELSE NextTick(now)

\* nextAfter: after a small step back, not a tick at or before the last one.
NextAfter(now, l) ==
  IF l # NoTick /\ NextTick(now) <= l /\ l - now < MaxStepBack
  THEN NextTick(l)
  ELSE NextTick(now)

\* nextReading: the offset is taken modulo the time between two readings, so
\* that each tick is a reading time.
NextReading(now) ==
  LET t == Truncate(now, ReadEvery) + (Offset % ReadEvery)
  IN  IF t > now THEN t ELSE t + ReadEvery

Min2(a, b) == IF a < b THEN a ELSE b
Max2(a, b) == IF a < b THEN b ELSE a

-----------------------------------------------------------------------------
Init ==
  /\ readings \in BOOLEAN
  /\ pc = "compute"
  /\ wall \in Minute..(2 * Minute)
  /\ last = NoTick /\ next = 0 /\ wake = 0 /\ timer = 0
  /\ worked = 0 /\ silent = 0 /\ back = 0 /\ steps = 0
  /\ slip = 0 /\ pauses = 0 /\ excused = FALSE

\* The top of loop: the next tick, and the time to wake for it or for a reading
\* before it.
Compute ==
  /\ pc = "compute"
  /\ next' = NextAfter(wall, last)
  /\ wake' = IF readings THEN Min2(next', NextReading(wall)) ELSE next'
  /\ pc' = "set"
  /\ UNCHANGED <<readings, wall, last, timer, worked, silent, ghosts, excused>>

\* The timer, from a wall clock that is read again (Truncate took the monotonic
\* reading from wake). A time that has passed fires at once.
SetTimer ==
  /\ pc = "set"
  /\ timer' = Max2(0, wake - wall)
  /\ pc' = "wait"
  /\ UNCHANGED <<loopVars, wall, worked, silent, ghosts, excused>>

\* The timer fires for a reading.
StartReading ==
  /\ pc = "wait" /\ timer <= 0 /\ wake < next
  /\ pc' = "read" /\ worked' = 0
  /\ UNCHANGED <<loopVars, wall, timer, silent, ghosts, excused>>

\* Fault: after a reading, however late, the loop always computes again.
ReadingContinues ==
  /\ pc = "read"
  /\ pc' = "compute" /\ worked' = 0
  /\ UNCHANGED <<loopVars, wall, timer, silent, ghosts, excused>>

\* The reading returns before the tick: the loop continues at its top. What the
\* clock does after this check, the loop does not see before it computes.
ReadingDone ==
  /\ pc = "read" /\ wall < next
  /\ pc' = "compute" /\ worked' = 0
  /\ UNCHANGED <<loopVars, wall, timer, silent, ghosts, excused>>

\* The timer fires for a tick, or a reading returns at or after the tick.
Tick ==
  /\ \/ pc = "wait" /\ timer <= 0 /\ wake >= next
     \/ pc = "read" /\ wall >= next
  /\ last' = next
  /\ silent' = 0 /\ worked' = 0
  /\ excused' = (wall >= next + Minute)
  /\ pc' = "work"
  /\ UNCHANGED <<readings, next, wake, wall, timer, ghosts>>

\* tick returns.
WorkDone ==
  /\ pc = "work"
  /\ pc' = "compute" /\ worked' = 0
  /\ UNCHANGED <<loopVars, wall, timer, silent, ghosts, excused>>

-----------------------------------------------------------------------------
\* The two clocks go on by d. Time that the loop spends in the work or at its
\* top, where it does not know the next tick yet, can end the minute.
GoOn(d) ==
  /\ wall + d <= MaxClock
  /\ wall' = wall + d /\ silent' = silent + d
  /\ excused' = (excused \/ (pc \in {"work", "compute"} /\ wall' >= last + Minute))

\* Time passes while the loop waits, reads or works.
Elapse ==
  /\ \/ pc = "wait" /\ timer > -MaxLate /\ timer' = timer - 1 /\ UNCHANGED worked
     \/ pc = "read" /\ worked < MaxRead /\ worked' = worked + 1 /\ UNCHANGED timer
     \/ pc = "work" /\ worked < MaxWork /\ worked' = worked + 1 /\ UNCHANGED timer
  /\ GoOn(1)
  /\ UNCHANGED <<loopVars, pc, ghosts>>

\* The process pauses at the top of loop, before it reads the clock or between
\* that and the timer.
Pause(d) ==
  /\ pc \in {"compute", "set"}
  /\ pauses < MaxPauses /\ pauses' = pauses + 1
  /\ GoOn(d)
  /\ UNCHANGED <<loopVars, pc, timer, worked, back, steps, slip>>

\* The wall clock steps; a timer that runs does not notice it.
StepClock(d) ==
  /\ steps < MaxSteps /\ steps' = steps + 1
  /\ wall + d \in 0..MaxClock
  /\ wall' = wall + d
  /\ back' = back + Max2(0, -d)
  /\ slip' = IF pc = "set" THEN slip + Max2(0, -d) ELSE slip
  /\ UNCHANGED <<loopVars, pc, timer, worked, silent, pauses, excused>>

Loop == Compute \/ SetTimer \/ StartReading \/ ReadingDone \/ Tick \/ WorkDone
Next ==
  \/ Loop
  \/ Elapse
  \/ \E d \in 1..MaxPause : Pause(d)
  \/ \E d \in Steps : StepClock(d)
Spec == Init /\ [][Next]_vars

-----------------------------------------------------------------------------
\* The values that each variable can have.
TypeOK ==
  /\ readings \in BOOLEAN /\ pc \in {"compute", "set", "wait", "read", "work"}
  /\ wall \in Nat /\ last \in Nat \cup {NoTick}
  /\ next \in Nat /\ wake \in Nat /\ timer \in Int
  /\ worked \in Nat /\ silent \in Nat /\ back \in Nat /\ steps \in Nat
  /\ slip \in Nat /\ pauses \in Nat /\ excused \in BOOLEAN

\* nextTick: a slow tick "never runs two times in one minute", and nextAfter:
\* "without last the same tick would run two times". Steps back of the wall
\* clock that together are smaller than maxStepBack do not repeat a tick, at
\* whatever point of the loop they come.
TickBegins == pc # "work" /\ pc' = "work"
TicksGoForward ==
  TickBegins /\ last # NoTick => last' > last \/ back >= MaxStepBack
NoMinuteTwice == [][TicksGoForward]_vars

\* loop: "a reading that ran late must not skip the tick after it". While the
\* wall clock does not step, the tick of the next minute follows each tick,
\* however late the timers fire and however long the readings take, except
\* when that minute comes while the loop does not look: in the work of the tick
\* before, or in a pause at the top of loop, after the check that follows a
\* reading (:169) and before the clock is read again (:148).
NoTickLost ==
  TickBegins /\ last # NoTick /\ steps = 0 /\ ~excused => last' = last + Minute
EachMinute == [][NoTickLost]_vars

\* maxStepBack: after a larger step back "the loop follows the new clock at
\* once, or it would wait, silent, for the size of the step". On the clock
\* that nothing steps, each step makes the time without a tick longer by at
\* most maxStepBack, a minute, one late timer and one reading, whatever its
\* size, except a step back between the computation and the timer (slip), for
\* which the loop does wait; and each pause by its length and what it skips.
StepAllows == Minute + MaxStepBack + MaxLate + MaxRead
PauseAllows == Minute + MaxStepBack + MaxPause
SilentBounded ==
  silent <= Minute + MaxWork + MaxLate + MaxRead
            + steps * StepAllows + pauses * PauseAllows + slip
=============================================================================
