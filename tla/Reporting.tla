----------------------------- MODULE Reporting -----------------------------
(***************************************************************************)
(* The samples from the tick that takes them to the control plane: tick,     *)
(* report and setInterval of agent.go, send.go, and the sample queue of      *)
(* outbox.go (internal/agent).                                               *)
(*                                                                         *)
(* Time is counted in minutes, one for each tick. The events are a number    *)
(* here: AgentCommands has their contents. A request is fast, or slow: a     *)
(* slow one uses a part of the budget of its send (sendBudget), which the    *)
(* events and the samples of one send share.                                 *)
(***************************************************************************)
EXTENDS Integers, Sequences, FiniteSetsExt, SequencesExt, Clean

CONSTANTS
  MaxSamples,        \* maxSamples, of the queue
  SamplesBatch,      \* maxSamplesPerRequest
  MaxEvents,         \* maxEvents
  EventsBatch,       \* maxEventsPerRequest
  SlowRequests,      \* the slow requests that sendBudget has time for
  FirstBackoff, MaxBackoff, MaxShift,
  UnauthorizedWait, ThrottledWait,
  MaxRetryAfter,     \* maxRetryAfter
  MaxInterval,       \* maxReportInterval
  Intervals,         \* the report intervals that a reply can have
  OutageEnd,         \* from this minute, the metrics route accepts all
  MaxTime,           \* bound: the minutes
  MaxRestarts,       \* bound: the starts after the first
  MaxSaveFails       \* bound: the writes of samples.json that fail

ASSUME LimitsAssumption ==
  /\ {MaxSamples, SamplesBatch, MaxEvents, EventsBatch, MaxInterval} \subseteq Nat \ {0}
  /\ {FirstBackoff, MaxBackoff, MaxShift, UnauthorizedWait, ThrottledWait, MaxRetryAfter} \subseteq Nat
  /\ Intervals \subseteq Int
\* Both are ten minutes: agent.go:24 and send.go:29.
ASSUME IntervalAssumption == MaxInterval <= MaxBackoff
ASSUME BoundsAssumption ==
  /\ SlowRequests \in Nat \ {0}
  /\ {OutageEnd, MaxTime, MaxRestarts, MaxSaveFails} \subseteq Nat

Routes == {"events", "samples"}

VARIABLES
  pc,           \* "down", "idle", "events", "samples" (the two parts of send),
                \* "commands", "again" (send of the results)
  now,          \* the minute of the tick, and the start of its sends
  samples,      \* outbox.samples: the minutes they are of, oldest first
  samplesFile,  \* samples.json
  events,       \* how many events outbox.events holds
  eventsFile,   \* how many events.json holds
  pending, interval, samplesSent,
  intervalFile, \* ReportInterval in state.json
  wait,         \* a.eventsWait and a.metricsWait
  left,         \* the slow requests that this send still has time for, or -1:
                \* its time is over
  owed,         \* the samples that were put in the queue, and that the control
                \* plane did not store or refuse and no full queue pushed out
  restarts, saveFails

boundVars == <<restarts, saveFails>>
queueVars == <<samples, samplesFile, events, eventsFile>>
reportVars == <<pending, interval, samplesSent, intervalFile>>
vars == <<pc, now, queueVars, reportVars, wait, left, owed, boundVars>>

-----------------------------------------------------------------------------
NoWait == [retryAt |-> 0, failures |-> 0]
TimeOver == -1

\* Fault: the samples wait for the events route too.
WaitingForAny(route) == \E r \in Routes : now < wait[r].retryAt

\* backoff.waiting.
Waiting(route) == now < wait[route].retryAt

\* The first n items of a queue, and the others.
First(q, n) == ToSet(SubSeq(q, 1, n))
Rest(q, n) == SubSeq(q, n + 1, Len(q))

\* outbox.save of samples.json: a write that fails leaves the file as it was.
\* The writes of events.json and state.json that fail are in AgentCommands and
\* AutoUpdate: here they succeed.
SaveSamples(q) ==
  /\ samples' = q
  /\ \/ samplesFile' = q /\ UNCHANGED saveFails
     \/ saveFails < MaxSaveFails /\ saveFails' = saveFails + 1 /\ UNCHANGED samplesFile

Init ==
  /\ pc = "down" /\ now = 1
  /\ samples = <<>> /\ samplesFile = <<>> /\ events = 0 /\ eventsFile = 0
  /\ pending = 0 /\ interval = 1 /\ samplesSent = FALSE /\ intervalFile = 1
  /\ wait = [r \in Routes |-> NoWait] /\ left = SlowRequests
  /\ owed = {}
  /\ restarts = 0 /\ saveFails = 0

\* run: the queues and the interval come from their files. agent.started goes
\* in the events (in the place of an older one, if one waits) and all events
\* are sent at once.
Start ==
  /\ pc = "down"
  /\ samples' = samplesFile
  /\ events' \in {Lower(eventsFile + 1, MaxEvents)} \cup ({eventsFile} \ {0})
  /\ eventsFile' = events'
  /\ interval' = intervalFile /\ pending' = 0 /\ samplesSent' = FALSE
  /\ wait' = [r \in Routes |-> NoWait] /\ left' = SlowRequests
  /\ pc' = "again"
  /\ UNCHANGED <<now, samplesFile, intervalFile, owed, boundVars>>

\* addSample: a full queue loses its oldest sample.
AddSample(s) ==
  LET q == Append(samples, s)
      over == IF Len(q) > MaxSamples THEN Len(q) - MaxSamples ELSE 0
  IN  /\ SaveSamples(Rest(q, over))
      /\ owed' = (owed \cup {s}) \ First(q, over)

\* The collector has no sample for this minute.
NoSample == UNCHANGED <<samples, samplesFile, owed, saveFails>>

\* tick, up to the send of report.
Tick ==
  /\ pc = "idle" /\ now < MaxTime
  /\ now' = now + 1
  /\ AddSample(now') \/ NoSample
  /\ pending' = pending + 1
  /\ IF pending' < interval
     THEN pc' = "idle" /\ UNCHANGED left
     ELSE pc' = "events" /\ left' = SlowRequests
  /\ UNCHANGED <<events, eventsFile, interval, samplesSent, intervalFile, wait, restarts>>

-----------------------------------------------------------------------------
\* Requests, and the rules for their outcome.

\* A request is answered in time, fast or slow, or the time of the send ends.
InTime == left # TimeOver /\ (left' = left \/ (left > 0 /\ left' = left - 1))
NotInTime == left' = TimeOver /\ left <= 0

\* outcome, for a failure without a rule of its own.
Failed(route) ==
  LET f == wait[route].failures + 1
      w == FirstBackoff * 2 ^ Lower(f - 1, MaxShift)
  IN  wait' = [wait EXCEPT ![route] = [failures |-> f, retryAt |-> now + Lower(w, MaxBackoff)]]

\* retryAfter, of the client: 0 without the header, or with one of no use.
RetryAfters == 0..MaxRetryAfter

\* outcome, for 401 and 429: the number of failures stays.
Unauthorized(route) == wait' = [wait EXCEPT ![route].retryAt = now + UnauthorizedWait]
Throttled(route) ==
  \E w \in RetryAfters :
    wait' = [wait EXCEPT ![route].retryAt = now + (IF w = 0 THEN ThrottledWait ELSE w)]

\* outcome later: the data stays.
Later(route) ==
  \/ InTime /\ (Failed(route) \/ Unauthorized(route) \/ Throttled(route))
  \/ NotInTime /\ UNCHANGED wait

\* outcome sent or refused: no failure in a row.
Answered(route) == InTime /\ wait' = [wait EXCEPT ![route].failures = 0]

\* After the events of a send come its samples, if it is that of a report.
AfterEvents == pc' = IF pc = "events" THEN "samples" ELSE "idle"

\* sendEvents: a batch is accepted or refused, and dropped.
PostEvents ==
  /\ pc \in {"events", "again"} /\ events > 0 /\ ~Waiting("events")
  /\ Answered("events")
  /\ events' = events - Lower(events, EventsBatch)
  /\ eventsFile' = events'
  /\ UNCHANGED <<pc, now, samples, samplesFile, reportVars, owed, boundVars>>

\* sendEvents: a failure keeps the events.
PostEventsLater ==
  /\ pc \in {"events", "again"} /\ events > 0 /\ ~Waiting("events")
  /\ Later("events")
  /\ AfterEvents
  /\ UNCHANGED <<now, queueVars, reportVars, owed, boundVars>>

\* sendEvents has no event, or must wait.
EventsEnd ==
  /\ pc \in {"events", "again"} /\ (events = 0 \/ Waiting("events"))
  /\ AfterEvents
  /\ UNCHANGED <<now, queueVars, reportVars, wait, left, owed, boundVars>>

\* setInterval: a usable interval is applied and saved.
SetInterval(n) ==
  IF n \in 1..MaxInterval /\ n # interval
  THEN interval' = n /\ intervalFile' = n
  ELSE UNCHANGED <<interval, intervalFile>>

\* Fault: an accepted request drops the whole queue.
DropAll(n) == SaveSamples(<<>>)

\* dropSamples.
Drop(n) == SaveSamples(Rest(samples, n))

Batch == Lower(Len(samples), SamplesBatch)
CanPostSamples == pc = "samples" /\ samples # <<>> /\ ~Waiting("samples")

\* sendSamples: the control plane stores a batch and replies.
PostSamples ==
  /\ CanPostSamples /\ Answered("samples")
  /\ owed' = owed \ First(samples, Batch)
  /\ Drop(Batch)
  /\ \E n \in Intervals : SetInterval(n)
  /\ UNCHANGED <<pc, now, events, eventsFile, pending, samplesSent, restarts>>

\* sendSamples: 400, or 422 for the samples: they are dropped.
PostSamplesRefused ==
  /\ CanPostSamples /\ Answered("samples") /\ now < OutageEnd
  /\ owed' = owed \ First(samples, Batch)
  /\ Drop(Batch)
  /\ UNCHANGED <<pc, now, events, eventsFile, reportVars, restarts>>

\* The end of sendSamples in report: with no sample left, the next report is
\* an interval away; else the next tick tries again. The commands come when
\* no event waits.
AfterSamples(sent) ==
  /\ samplesSent' = sent
  /\ pending' = IF sent THEN 0 ELSE pending
  /\ pc' = IF events = 0 THEN "commands" ELSE "idle"

\* sendSamples: a failure keeps the samples. The control plane can have stored
\* them before its reply was lost.
PostSamplesLater ==
  /\ CanPostSamples
  /\ now >= OutageEnd => left = TimeOver
  /\ Later("samples")
  /\ owed' \in {owed, owed \ First(samples, Batch)}
  /\ AfterSamples(FALSE)
  /\ UNCHANGED <<now, queueVars, interval, intervalFile, boundVars>>

\* sendSamples has no sample, or must wait.
SamplesEnd ==
  /\ pc = "samples" /\ (samples = <<>> \/ Waiting("samples"))
  /\ AfterSamples(samples = <<>>)
  /\ UNCHANGED <<now, queueVars, interval, intervalFile, wait, left, owed, boundVars>>

\* commands: the results go in the events and are sent at once; or a command
\* ends the process, with its entry in the ledger.
Commands ==
  /\ pc = "commands"
  /\ \E n \in 0..MaxEvents :
       /\ events' = n /\ eventsFile' = n
       /\ pc' = IF n = 0 THEN "idle" ELSE "again"
  /\ left' = SlowRequests
  /\ UNCHANGED <<now, samples, samplesFile, reportVars, wait, owed, boundVars>>

\* The process ends, by a command or a crash, at any point.
Stop ==
  /\ pc # "down" /\ restarts < MaxRestarts /\ now < OutageEnd
  /\ restarts' = restarts + 1
  /\ pc' = "down"
  /\ UNCHANGED <<now, queueVars, reportVars, wait, left, owed, saveFails>>

Next ==
  \/ Start \/ Tick
  \/ PostEvents \/ PostEventsLater \/ EventsEnd
  \/ PostSamples \/ PostSamplesRefused \/ PostSamplesLater \/ SamplesEnd
  \/ Commands \/ Stop

Spec == Init /\ [][Next]_vars

-----------------------------------------------------------------------------
\* The values that each variable can have.
TypeOK ==
  /\ pc \in {"down", "idle", "events", "samples", "commands", "again"}
  /\ now \in Nat
  /\ samples \in Seq(Nat) /\ samplesFile \in Seq(Nat)
  /\ events \in 0..MaxEvents /\ eventsFile \in 0..MaxEvents
  /\ pending \in Nat /\ interval \in 1..MaxInterval /\ intervalFile \in 1..MaxInterval
  /\ samplesSent \in BOOLEAN
  /\ wait \in [Routes -> [retryAt : Nat, failures : Nat]]
  /\ left \in Nat \cup {TimeOver}
  /\ owed \subseteq Nat
  /\ restarts \in Nat /\ saveFails \in Nat

\* outbox: "Each change goes to disk, so a restart or a reboot loses nothing".
\* A sample that is not on the control plane, refused by it or pushed out of a
\* full queue is in memory, and on disk for the next process, unless a write
\* of the queue failed before.
NothingLost ==
  saveFails = 0 =>
    /\ pc # "down" => owed \subseteq ToSet(samples)
    /\ owed \subseteq ToSet(samplesFile)

\* "Each kind waits on its own: a broken events route must not stop the
\* metrics", and an outage must not either. From the longest wait after the
\* metrics route accepts again, no sample is held past the report of its
\* interval and the ticks that a full queue of events can take with slow
\* requests, in whatever way the events route fails.
LongestWait == Max({MaxBackoff, UnauthorizedWait, ThrottledWait, MaxRetryAfter})
SlowTicks == (MaxEvents - 1) \div (SlowRequests * EventsBatch)
RecoversInTime ==
  pc = "idle" /\ now >= OutageEnd - 1 + LongestWait + SlowTicks
    => \A s \in ToSet(samples) : now - s < MaxInterval - 1 + SlowTicks

\* "A value outside its range makes the control plane refuse the whole request
\* with a 400, and the agent then drops up to 240 samples. So the agent keeps
\* each value in its range" (clean.go): what it cleans is in its range, so a
\* request is accepted if the files of the sites and the traffic, which it does
\* not clean, were in range; it changes nothing that is in range, makes no value
\* known or not known, and names no folder that is not one of the server.
CleanedAccepted ==
  pc = "samples" /\ samples # <<>> => BadSamples = {} /\ BadStatus = {} /\ BadEvents = {}
=============================================================================
