-------------------------- MODULE Reporting_proofs --------------------------
(***************************************************************************)
(* Proofs about the queue of samples in Reporting, for queues and batches of *)
(* any size, any waits and intervals, and any number of minutes, stops and   *)
(* failures: no sample is lost, and after an outage none is held too long.   *)
(***************************************************************************)
EXTENDS Reporting, SequenceTheorems, WellFoundedInduction, TLAPS

\* The types that the proof needs.
QueueType ==
  /\ now \in Nat /\ saveFails \in Nat
  /\ samples \in Seq(Nat) /\ samplesFile \in Seq(Nat)

\* While no write failed, the file is the queue, also that of a process that ended.
FileInv == saveFails = 0 => samplesFile = samples /\ owed \subseteq ToSet(samples)

IInv == QueueType /\ FileInv

-----------------------------------------------------------------------------
\* The first items of a queue and the rest are all of it: what is dropped from
\* the front is what was sent, no more and no less (dropSamples).
LEMMA FrontAndRest ==
  ASSUME NEW q \in Seq(Nat), NEW n \in 0..Len(q)
  PROVE  /\ Rest(q, n) \in Seq(Nat)
         /\ \A x \in ToSet(q) : x \in First(q, n) \/ x \in ToSet(Rest(q, n))
<1>1. /\ Rest(q, n) \in Seq(Nat) /\ DOMAIN Rest(q, n) = 1..(Len(q) - n)
      /\ \A i \in 1..(Len(q) - n) : Rest(q, n)[i] = q[n + i]
  BY DEF Rest
<1>2. /\ DOMAIN SubSeq(q, 1, n) = 1..n
      /\ \A i \in 1..n : SubSeq(q, 1, n)[i] = q[i]
  OBVIOUS
<1>3. ASSUME NEW x \in ToSet(q) PROVE x \in First(q, n) \/ x \in ToSet(Rest(q, n))
  <2>1. PICK i \in 1..Len(q) : x = q[i]
    BY DEF ToSet
  <2>2. CASE i <= n
    <3> DEFINE front == SubSeq(q, 1, n)
    <3>1. i \in 1..n /\ DOMAIN front = 1..n /\ front[i] = x
      BY <1>2, <2>1, <2>2
    <3>2. First(q, n) = {front[j] : j \in DOMAIN front}
      BY DEF First, ToSet
    <3> HIDE DEF front
    <3>3. QED
      BY <3>1, <3>2
  <2>3. CASE i > n
    <3>1. i - n \in 1..(Len(q) - n) /\ n + (i - n) = i
      BY <2>1, <2>3
    <3>2. QED
      BY <1>1, <2>1, <3>1 DEF ToSet
  <2>4. QED
    BY <2>1, <2>2, <2>3
<1>4. QED
  BY <1>1, <1>3

\* A save that works puts the queue in the file; one that fails is counted.
LEMMA SaveKeeps ==
  ASSUME IInv, NEW q \in Seq(Nat), SaveSamples(q), now' \in Nat,
         saveFails = 0 => owed' \subseteq ToSet(q)
  PROVE  IInv'
<1> USE DEF IInv, QueueType, FileInv
<1>1. CASE samplesFile' = q /\ UNCHANGED saveFails
  BY <1>1 DEF SaveSamples
<1>2. CASE saveFails' = saveFails + 1 /\ UNCHANGED samplesFile
  <2>1. saveFails' # 0 /\ saveFails' \in Nat /\ samples' = q
    BY <1>2 DEF SaveSamples
  <2>2. QED
    BY <1>2, <2>1
<1>3. QED
  BY <1>1, <1>2 DEF SaveSamples

LEMMA Initial == Init => IInv
BY DEF Init, IInv, QueueType, FileInv

LEMMA AddKeeps ==
  ASSUME IInv, NEW s \in Nat, now' \in Nat, AddSample(s) PROVE IInv'
<1> DEFINE q == Append(samples, s)
           over == IF Len(q) > MaxSamples THEN Len(q) - MaxSamples ELSE 0
<1>1. samples \in Seq(Nat) /\ q \in Seq(Nat) /\ MaxSamples \in Nat
  BY LimitsAssumption DEF IInv, QueueType
<1>2. over \in 0..Len(q)
  BY <1>1
<1>3. SaveSamples(Rest(q, over)) /\ owed' = (owed \cup {s}) \ First(q, over)
  BY DEF AddSample
<1>4. ToSet(samples) \cup {s} \subseteq ToSet(q)
  <2>1. /\ DOMAIN q = 1..(Len(samples) + 1) /\ q[Len(samples) + 1] = s
        /\ \A i \in 1..Len(samples) : q[i] = samples[i]
    BY <1>1
  <2>2. DOMAIN samples = 1..Len(samples) /\ Len(samples) \in Nat
    BY <1>1
  <2> HIDE DEF q
  <2>3. QED
    BY <2>1, <2>2 DEF ToSet
<1> HIDE DEF q, over
<1>5. saveFails = 0 => owed' \subseteq ToSet(Rest(q, over))
  <2> SUFFICES ASSUME saveFails = 0, NEW x \in owed' PROVE x \in ToSet(Rest(q, over))
    OBVIOUS
  <2>1. x \in ToSet(q) /\ x \notin First(q, over)
    BY <1>3, <1>4 DEF IInv, FileInv
  <2>2. QED
    BY <1>1, <1>2, <2>1, FrontAndRest
<1>6. QED
  BY <1>1, <1>2, <1>3, <1>5, FrontAndRest, SaveKeeps

\* An answered request drops the batch that it had.
LEMMA DropKeeps ==
  ASSUME IInv, Drop(Batch), owed' = owed \ First(samples, Batch), UNCHANGED now
  PROVE  IInv'
<1>1. samples \in Seq(Nat) /\ SamplesBatch \in Nat
  BY LimitsAssumption DEF IInv, QueueType
<1>2. Batch \in 0..Len(samples)
  BY <1>1 DEF Batch, Lower
<1>3. SaveSamples(Rest(samples, Batch)) /\ now' \in Nat
  BY DEF Drop, IInv, QueueType
<1>4. saveFails = 0 => owed' \subseteq ToSet(Rest(samples, Batch))
  BY <1>1, <1>2, FrontAndRest DEF IInv, FileInv
<1>5. QED
  BY <1>1, <1>2, <1>3, <1>4, FrontAndRest, SaveKeeps

LEMMA Step == IInv /\ [Next]_vars => IInv'
<1> SUFFICES ASSUME IInv, [Next]_vars PROVE IInv'
  OBVIOUS
<1>1. CASE Start
  BY <1>1 DEF Start, IInv, QueueType, FileInv, boundVars
<1>2. CASE Tick
  <2>1. now' = now + 1 /\ now' \in Nat
    BY <1>2 DEF Tick, IInv, QueueType
  <2>2. CASE AddSample(now')
    BY <2>1, <2>2, AddKeeps
  <2>3. CASE NoSample
    BY <2>1, <2>3 DEF NoSample, IInv, QueueType, FileInv
  <2>4. QED
    BY <1>2, <2>2, <2>3 DEF Tick
<1>3. CASE PostSamples \/ PostSamplesRefused
  <2>1. Drop(Batch) /\ owed' = owed \ First(samples, Batch) /\ UNCHANGED now
    BY <1>3 DEF PostSamples, PostSamplesRefused
  <2>2. QED
    BY <2>1, DropKeeps
<1>4. CASE PostSamplesLater
  <2>1. UNCHANGED <<now, samples, samplesFile, saveFails>> /\ owed' \subseteq owed
    BY <1>4 DEF PostSamplesLater, queueVars, boundVars
  <2>2. QED
    BY <2>1 DEF IInv, QueueType, FileInv
<1>5. CASE PostEvents \/ PostEventsLater \/ EventsEnd \/ SamplesEnd \/ Commands \/ Stop \/ UNCHANGED vars
  <2>1. UNCHANGED <<now, samples, samplesFile, saveFails, owed>>
    BY <1>5 DEF PostEvents, PostEventsLater, EventsEnd, SamplesEnd, Commands, Stop, vars, queueVars, boundVars
  <2>2. QED
    BY <2>1 DEF IInv, QueueType, FileInv
<1>6. QED
  BY <1>1, <1>2, <1>3, <1>4, <1>5 DEF Next

\* "Each change goes to disk, so a restart or a reboot loses nothing" (outbox.go):
\* a sample that was neither answered nor pushed out of a full queue is in the
\* queue and in samples.json, whatever stops, lost replies and refusals there
\* were (addSample, sendSamples, outcome, dropSamples, save).
THEOREM NoSampleLost == Spec => []NothingLost
<1>1. IInv => NothingLost
  BY DEF IInv, FileInv, NothingLost
<1>2. QED
  BY <1>1, Initial, Step, PTL DEF Spec

-----------------------------------------------------------------------------
(***************************************************************************)
(* After an outage. The last minute in which the metrics route can fail by   *)
(* itself is LastOutage, so no wait of it goes on after Recovered. From then  *)
(* on a report is held up only by the events before it, which use the budget *)
(* of the send: such a send has taken SendEvents of them from the queue, and *)
(* there are at most MaxEvents.                                              *)
(***************************************************************************)
LastOutage == OutageEnd - 1
Recovered == LastOutage + LongestWait
SendEvents == SlowRequests * EventsBatch

SendType ==
  /\ now \in Nat
  /\ samples \in Seq(Nat) /\ samplesFile \in Seq(Nat)
  /\ events \in 0..MaxEvents /\ eventsFile \in 0..MaxEvents
  /\ pending \in Nat /\ interval \in 1..MaxInterval /\ intervalFile \in 1..MaxInterval
  /\ wait \in [Routes -> [retryAt : Int, failures : Nat]]
  /\ left \in Nat \cup {TimeOver}

\* The metrics route waits no longer than the longest wait from the outage.
WaitInv == wait["samples"].retryAt <= Recovered

\* A sample in the queue is not older than the report that is under way, unless
\* that report is one of the time of the outage. A process stops only before
\* the end of the outage, or has not started yet.
FreshInv ==
  /\ (\A s \in ToSet(samples) : now - s < pending) \/ pending >= now - LastOutage
  /\ pc = "down" => now < OutageEnd \/ (samples = <<>> /\ samplesFile = <<>> /\ pending = 0)

\* A report that has waited for p ticks at minute t: all of its ticks past its
\* interval but n, or all of those after Recovered but n, are accounted for.
EnoughTicks(n, p, t) == n >= p - interval + 1 \/ n >= t - Recovered + 1

\* Each report that came too late is one whose send found no time for its
\* samples, and was paid for with SendEvents events: n of those are gone.
SlowInv ==
  /\ pc = "idle" /\ pending >= interval =>
       \E n \in Nat : /\ EnoughTicks(n, pending, now) /\ (n = 0 \/ events >= 1)
                      /\ events + n * SendEvents <= MaxEvents
  /\ pc = "events" =>
       /\ pending >= interval /\ left \in 0..SlowRequests
       /\ \E n \in Nat :
            /\ EnoughTicks(n, pending - 1, now - 1)
            /\ events = 0
               \/ events + n * SendEvents + (SlowRequests - left) * EventsBatch <= MaxEvents
  /\ pc = "samples" /\ left = TimeOver =>
       \E n \in Nat : /\ EnoughTicks(n, pending, now) /\ n >= 1 /\ events >= 1
                      /\ events + n * SendEvents <= MaxEvents
  /\ pc \in {"commands", "again"} => pending < interval \/ now < Recovered

RecoveryInv == SendType /\ WaitInv /\ FreshInv /\ SlowInv

-----------------------------------------------------------------------------
\* What the limits are: the longest wait is at least each of the others.
LEMMA LimitFacts ==
  /\ MaxSamples \in Nat \ {0} /\ SamplesBatch \in Nat \ {0}
  /\ MaxEvents \in Nat \ {0} /\ EventsBatch \in Nat \ {0} /\ SlowRequests \in Nat \ {0}
  /\ MaxInterval \in Nat \ {0} /\ FirstBackoff \in Nat /\ MaxBackoff \in Nat /\ MaxShift \in Nat
  /\ UnauthorizedWait \in Nat /\ ThrottledWait \in Nat /\ MaxRetryAfter \in Nat
  /\ OutageEnd \in Nat
BY LimitsAssumption, BoundsAssumption

LEMMA GreatestOfFour ==
  ASSUME NEW a \in Nat, NEW b \in Nat, NEW c \in Nat, NEW d \in Nat
  PROVE  LET m == Max({a, b, c, d})
         IN  m \in Nat /\ m >= a /\ m >= b /\ m >= c /\ m >= d
<1>1. \E x \in {a, b, c, d} : \A y \in {a, b, c, d} : x >= y
  OBVIOUS
<1>2. QED
  BY <1>1 DEF Max

LEMMA WaitFacts ==
  /\ LongestWait \in Nat /\ LongestWait >= 1
  /\ LongestWait >= MaxInterval /\ LongestWait >= MaxBackoff
  /\ LongestWait >= UnauthorizedWait /\ LongestWait >= ThrottledWait
  /\ LongestWait >= MaxRetryAfter
  /\ LastOutage \in Int /\ Recovered \in Int /\ Recovered = LastOutage + LongestWait
  /\ SendEvents \in Nat \ {0}
  /\ \A t \in Nat : t < OutageEnd => t <= LastOutage /\ t < Recovered
<1>1. /\ LongestWait \in Nat /\ LongestWait >= MaxBackoff /\ LongestWait >= UnauthorizedWait
      /\ LongestWait >= ThrottledWait /\ LongestWait >= MaxRetryAfter
  BY LimitFacts, GreatestOfFour DEF LongestWait
<1>2. LongestWait >= MaxInterval /\ LongestWait >= 1
  BY <1>1, LimitFacts, IntervalAssumption
<1>3. LastOutage \in Int /\ Recovered \in Int
  BY <1>1, LimitFacts DEF LastOutage, Recovered
<1>4. SendEvents \in Nat \ {0}
  BY LimitFacts DEF SendEvents
<1>5. \A t \in Nat : t < OutageEnd => t <= LastOutage /\ t < Recovered
  BY <1>1, <1>2, LimitFacts DEF LastOutage, Recovered
<1>6. QED
  BY <1>1, <1>2, <1>3, <1>4, <1>5 DEF Recovered

\* The rest of a queue has no item that the queue has not.
LEMMA RestOfQueue ==
  ASSUME NEW q \in Seq(Nat), NEW n \in 0..Len(q)
  PROVE  Rest(q, n) \in Seq(Nat) /\ ToSet(Rest(q, n)) \subseteq ToSet(q)
<1> DEFINE r == Rest(q, n)
<1>1. /\ r \in Seq(Nat) /\ DOMAIN r = 1..(Len(q) - n)
      /\ \A i \in 1..(Len(q) - n) : r[i] = q[n + i]
  BY DEF Rest
<1>2. DOMAIN q = 1..Len(q) /\ Len(q) \in Nat
  OBVIOUS
<1>3. \A i \in 1..(Len(q) - n) : n + i \in 1..Len(q)
  BY <1>2
<1> HIDE DEF r
<1>4. ToSet(r) \subseteq ToSet(q)
  BY <1>1, <1>2, <1>3 DEF ToSet
<1>5. QED
  BY <1>1, <1>4 DEF r

\* A new sample adds itself only, and a full queue loses others.
LEMMA AddedSample ==
  ASSUME samples \in Seq(Nat), NEW s \in Nat, AddSample(s)
  PROVE  samples' \in Seq(Nat) /\ ToSet(samples') \subseteq ToSet(samples) \cup {s}
<1> DEFINE q == Append(samples, s)
           over == IF Len(q) > MaxSamples THEN Len(q) - MaxSamples ELSE 0
<1>1. q \in Seq(Nat) /\ MaxSamples \in Nat
  BY LimitFacts
<1>2. over \in 0..Len(q) /\ samples' = Rest(q, over)
  BY <1>1 DEF AddSample, SaveSamples
<1>3. /\ DOMAIN q = 1..(Len(samples) + 1) /\ q[Len(samples) + 1] = s
      /\ \A i \in 1..Len(samples) : q[i] = samples[i]
  BY <1>1
<1>4. DOMAIN samples = 1..Len(samples) /\ Len(samples) \in Nat
  OBVIOUS
<1> HIDE DEF q, over
<1>5. ToSet(q) \subseteq ToSet(samples) \cup {s}
  BY <1>3, <1>4 DEF ToSet
<1>6. QED
  BY <1>1, <1>2, <1>5, RestOfQueue

LEMMA DroppedBatch ==
  ASSUME samples \in Seq(Nat), Drop(Batch)
  PROVE  samples' \in Seq(Nat) /\ ToSet(samples') \subseteq ToSet(samples)
<1>1. Batch \in 0..Len(samples)
  BY LimitFacts DEF Batch, Lower
<1>2. QED
  BY <1>1, RestOfQueue DEF Drop, SaveSamples

\* A queue is saved as it is, or the file stays.
LEMMA SavedFile ==
  ASSUME samplesFile \in Seq(Nat), NEW q \in Seq(Nat), SaveSamples(q)
  PROVE  samplesFile' \in Seq(Nat)
BY DEF SaveSamples

-----------------------------------------------------------------------------
\* The wait of a failure in a row is at most MaxBackoff, however many there were.
LEMMA BackoffBound ==
  ASSUME NEW k \in Nat, NEW n \in Nat, NEW m \in Nat
  PROVE  Lower(k * 2 ^ n, m) \in Int /\ Lower(k * 2 ^ n, m) <= m
<1>1. Lower(k * 2 ^ n, m) <= m
  BY DEF Lower
<1>2. Lower(k * 2 ^ n, m) \in Int
  BY DEF Lower
<1>3. QED
  BY <1>1, <1>2

\* outcome: a failure sets the wait of its own route only, and never longer
\* than the longest wait from now.
WaitsLonger(route) ==
  /\ wait' \in [Routes -> [retryAt : Int, failures : Nat]]
  /\ wait'[route].retryAt <= now + LongestWait
  /\ \A r \in Routes \ {route} : wait'[r] = wait[r]

LEMMA WaitSet ==
  ASSUME SendType, NEW route \in Routes, NEW f \in Nat, NEW d \in Int, d <= LongestWait,
         wait' = [wait EXCEPT ![route] = [failures |-> f, retryAt |-> now + d]]
  PROVE  WaitsLonger(route)
<1>1. wait \in [Routes -> [retryAt : Int, failures : Nat]] /\ now \in Nat
  BY DEF SendType
<1>2. now + d \in Int /\ now + d <= now + LongestWait
  BY <1>1, WaitFacts
<1>3. wait' \in [Routes -> [retryAt : Int, failures : Nat]] /\ wait'[route].retryAt = now + d
  BY <1>1, <1>2
<1>4. \A r \in Routes \ {route} : wait'[r] = wait[r]
  BY <1>1
<1>5. QED
  BY <1>2, <1>3, <1>4 DEF WaitsLonger

LEMMA RetryAtSet ==
  ASSUME SendType, NEW route \in Routes, NEW d \in Int, d <= LongestWait,
         wait' = [wait EXCEPT ![route].retryAt = now + d]
  PROVE  WaitsLonger(route)
<1>1. wait[route] \in [retryAt : Int, failures : Nat]
  BY DEF SendType
<1> DEFINE f == wait[route].failures
<1>2. f \in Nat /\ [wait[route] EXCEPT !.retryAt = now + d] = [failures |-> f, retryAt |-> now + d]
  BY <1>1
<1>3. wait' = [wait EXCEPT ![route] = [failures |-> f, retryAt |-> now + d]]
  BY <1>2
<1> HIDE DEF f
<1>4. QED
  BY <1>2, <1>3, WaitSet

LEMMA WaitOfFailure ==
  ASSUME SendType, NEW route \in Routes, Failed(route) \/ Unauthorized(route) \/ Throttled(route)
  PROVE  WaitsLonger(route)
<1>1. CASE Failed(route)
  <2> DEFINE f == wait[route].failures + 1
             e == Lower(f - 1, MaxShift)
             d == Lower(FirstBackoff * 2 ^ e, MaxBackoff)
  <2>1. f \in Nat /\ e \in Nat
    BY LimitFacts DEF Lower, SendType
  <2>2. wait' = [wait EXCEPT ![route] = [failures |-> f, retryAt |-> now + d]]
    BY <1>1 DEF Failed
  <2> HIDE DEF e
  <2>3. d \in Int /\ d <= MaxBackoff
    BY <2>1, LimitFacts, BackoffBound
  <2> HIDE DEF f, d
  <2>4. d <= LongestWait
    BY <2>3, WaitFacts, LimitFacts
  <2>5. QED
    BY <2>1, <2>2, <2>3, <2>4, WaitSet
<1>2. CASE Unauthorized(route)
  <2>1. UnauthorizedWait \in Int /\ UnauthorizedWait <= LongestWait
    BY WaitFacts, LimitFacts
  <2>2. QED
    BY <1>2, <2>1, RetryAtSet DEF Unauthorized
<1>3. CASE Throttled(route)
  <2>1. PICK w \in 0..MaxRetryAfter :
          wait' = [wait EXCEPT ![route].retryAt = now + (IF w = 0 THEN ThrottledWait ELSE w)]
    BY <1>3 DEF Throttled, RetryAfters
  <2> DEFINE d == IF w = 0 THEN ThrottledWait ELSE w
  <2>2. d \in Int /\ d <= LongestWait
    BY WaitFacts, LimitFacts
  <2>3. wait' = [wait EXCEPT ![route].retryAt = now + d]
    BY <2>1
  <2> HIDE DEF d
  <2>4. QED
    BY <2>2, <2>3, RetryAtSet
<1>4. QED
  BY <1>1, <1>2, <1>3

LEMMA InTimeFacts ==
  ASSUME left \in Nat \cup {TimeOver}, InTime
  PROVE  left \in Nat /\ left' \in Nat /\ (left' = left \/ left' = left - 1)
BY DEF InTime, TimeOver

LEMMA NotInTimeFacts ==
  ASSUME left \in Nat \cup {TimeOver}, NotInTime
  PROVE  left' = TimeOver /\ left \in {0, TimeOver}
BY DEF NotInTime, TimeOver

LEMMA AnsweredFacts ==
  ASSUME SendType, NEW route \in Routes, Answered(route)
  PROVE  /\ InTime
         /\ wait' \in [Routes -> [retryAt : Int, failures : Nat]]
         /\ \A r \in Routes : wait'[r].retryAt = wait[r].retryAt
<1>1. /\ wait \in [Routes -> [retryAt : Int, failures : Nat]]
      /\ wait' = [wait EXCEPT ![route].failures = 0]
  BY DEF SendType, Answered
<1>2. [wait[route] EXCEPT !.failures = 0] = [failures |-> 0, retryAt |-> wait[route].retryAt]
  BY <1>1
<1>3. wait' = [wait EXCEPT ![route] = [failures |-> 0, retryAt |-> wait[route].retryAt]]
  BY <1>1, <1>2
<1>4. QED
  BY <1>1, <1>3 DEF Answered

\* outcome: data that stays has a new wait, or the time of the send is over.
LEMMA LaterFacts ==
  ASSUME SendType, NEW route \in Routes, Later(route)
  PROVE  (InTime /\ WaitsLonger(route)) \/ (NotInTime /\ UNCHANGED wait)
BY WaitOfFailure DEF Later

LEMMA RecoveryInitial == Init => RecoveryInv
<1> SUFFICES ASSUME Init PROVE RecoveryInv
  OBVIOUS
<1>1. SendType
  BY LimitFacts DEF Init, SendType, NoWait, Routes, TimeOver
<1>2. WaitInv
  BY LimitFacts, WaitFacts DEF Init, WaitInv, NoWait, Routes, LastOutage
<1>3. FreshInv
  BY DEF Init, FreshInv, ToSet
<1>4. SlowInv
  BY DEF Init, SlowInv
<1>5. QED
  BY <1>1, <1>2, <1>3, <1>4 DEF RecoveryInv

LEMMA RecoveryTypes == SendType /\ [Next]_vars => SendType'
<1> SUFFICES ASSUME SendType, [Next]_vars PROVE SendType'
  OBVIOUS
<1>0. "events" \in Routes /\ "samples" \in Routes
  BY DEF Routes
<1>1. CASE Start
  <2>1. Lower(eventsFile + 1, MaxEvents) \in 0..MaxEvents
    BY LimitFacts DEF SendType, Lower
  <2>2. events' \in 0..MaxEvents /\ eventsFile' = events'
    BY <1>1, <2>1 DEF Start, SendType
  <2>3. wait' \in [Routes -> [retryAt : Int, failures : Nat]]
    BY <1>1 DEF Start, NoWait
  <2>4. UNCHANGED <<now, samplesFile, intervalFile>> /\ samples' = samplesFile
        /\ interval' = intervalFile /\ pending' = 0 /\ left' = SlowRequests
    BY <1>1 DEF Start
  <2>5. QED
    BY <2>2, <2>3, <2>4, LimitFacts DEF SendType
<1>2. CASE Tick
  <2>1. now' \in Nat /\ pending' \in Nat /\ UNCHANGED <<events, eventsFile, interval, intervalFile, wait>>
        /\ left' \in Nat \cup {TimeOver}
    BY <1>2, LimitFacts DEF Tick, SendType
  <2>2. CASE AddSample(now')
    <3> DEFINE q == Append(samples, now')
               over == IF Len(q) > MaxSamples THEN Len(q) - MaxSamples ELSE 0
    <3>1. q \in Seq(Nat)
      BY <2>1 DEF SendType
    <3>2. over \in 0..Len(q)
      BY <3>1, LimitFacts
    <3>3. SaveSamples(Rest(q, over))
      BY <2>2 DEF AddSample
    <3> HIDE DEF q, over
    <3>4. samplesFile' \in Seq(Nat)
      BY <3>1, <3>2, <3>3, RestOfQueue, SavedFile DEF SendType
    <3>5. samples' \in Seq(Nat)
      BY <2>1, <2>2, AddedSample DEF SendType
    <3>6. QED
      BY <2>1, <3>4, <3>5 DEF SendType
  <2>3. CASE NoSample
    BY <2>1, <2>3 DEF NoSample, SendType
  <2>4. QED
    BY <1>2, <2>2, <2>3 DEF Tick
<1>3. CASE PostEvents
  <2>1. events' \in 0..MaxEvents /\ eventsFile' = events'
    BY <1>3, LimitFacts DEF PostEvents, Lower, SendType
  <2>2. left' \in Nat /\ wait' \in [Routes -> [retryAt : Int, failures : Nat]]
    BY <1>0, <1>3, AnsweredFacts, InTimeFacts DEF PostEvents, SendType
  <2>3. UNCHANGED <<now, samples, samplesFile, pending, interval, intervalFile>>
    BY <1>3 DEF PostEvents, reportVars
  <2>4. QED
    BY <2>1, <2>2, <2>3 DEF SendType
<1>4. ASSUME NEW route \in Routes, Later(route)
      PROVE  left' \in Nat \cup {TimeOver} /\ wait' \in [Routes -> [retryAt : Int, failures : Nat]]
  <2>1. CASE InTime /\ WaitsLonger(route)
    BY <2>1, InTimeFacts DEF SendType, WaitsLonger
  <2>2. CASE NotInTime /\ UNCHANGED wait
    BY <2>2, NotInTimeFacts DEF SendType
  <2>3. QED
    BY <1>4, <2>1, <2>2, LaterFacts
<1>5. CASE PostEventsLater
  <2>1. Later("events") /\ UNCHANGED <<now, samples, samplesFile, events, eventsFile, pending, interval, intervalFile>>
    BY <1>5 DEF PostEventsLater, queueVars, reportVars
  <2>2. QED
    BY <1>0, <1>4, <2>1 DEF SendType
<1>6. CASE PostSamples \/ PostSamplesRefused
  <2>1. /\ Answered("samples") /\ Drop(Batch)
        /\ UNCHANGED <<now, events, eventsFile, pending>>
    BY <1>6 DEF PostSamples, PostSamplesRefused, reportVars
  <2>2. interval' \in 1..MaxInterval /\ intervalFile' \in 1..MaxInterval
    BY <1>6 DEF PostSamples, PostSamplesRefused, reportVars, SetInterval, SendType
  <2>3. left' \in Nat /\ wait' \in [Routes -> [retryAt : Int, failures : Nat]]
    BY <1>0, <2>1, AnsweredFacts, InTimeFacts DEF SendType
  <2>4. Batch \in 0..Len(samples)
    BY LimitFacts DEF Batch, Lower, SendType
  <2>5. samples' \in Seq(Nat) /\ samplesFile' \in Seq(Nat)
    BY <2>1, <2>4, DroppedBatch, RestOfQueue, SavedFile DEF SendType, Drop
  <2>6. QED
    BY <2>1, <2>2, <2>3, <2>5 DEF SendType
<1>7. CASE PostSamplesLater
  <2>1. Later("samples") /\ UNCHANGED <<now, samples, samplesFile, events, eventsFile, pending, interval, intervalFile>>
    BY <1>7 DEF PostSamplesLater, AfterSamples, queueVars
  <2>2. QED
    BY <1>0, <1>4, <2>1 DEF SendType
<1>8. CASE SamplesEnd
  <2>1. /\ UNCHANGED <<now, samples, samplesFile, events, eventsFile, interval, intervalFile, wait, left>>
        /\ pending' \in {0, pending}
    BY <1>8 DEF SamplesEnd, AfterSamples, queueVars
  <2>2. QED
    BY <2>1 DEF SendType
<1>9. CASE Commands
  <2>1. events' \in 0..MaxEvents /\ eventsFile' = events' /\ left' = SlowRequests
        /\ UNCHANGED <<now, samples, samplesFile, pending, interval, intervalFile, wait>>
    BY <1>9 DEF Commands, reportVars
  <2>2. QED
    BY <2>1, LimitFacts DEF SendType
<1>10. CASE EventsEnd \/ Stop \/ UNCHANGED vars
  <2>1. UNCHANGED <<now, samples, samplesFile, events, eventsFile, pending, interval, intervalFile, wait, left>>
    BY <1>10 DEF EventsEnd, Stop, vars, queueVars, reportVars
  <2>2. QED
    BY <2>1 DEF SendType
<1>11. QED
  BY <1>1, <1>2, <1>3, <1>5, <1>6, <1>7, <1>8, <1>9, <1>10 DEF Next

-----------------------------------------------------------------------------
\* After the outage the metrics route has no new wait.
LEMMA RecoveryWaits == SendType /\ WaitInv /\ [Next]_vars => WaitInv'
<1> SUFFICES ASSUME SendType, WaitInv, [Next]_vars PROVE WaitInv'
  OBVIOUS
<1>0. "events" \in Routes /\ "samples" \in Routes /\ "samples" # "events" /\ now \in Nat
  BY DEF Routes, SendType
<1>1. CASE Start
  <2>1. wait'["samples"].retryAt = 0
    BY <1>0, <1>1 DEF Start, NoWait
  <2>2. 0 <= Recovered
    BY WaitFacts, LimitFacts DEF Recovered, LastOutage
  <2>3. QED
    BY <2>1, <2>2 DEF WaitInv
<1>2. CASE PostEvents \/ PostSamples \/ PostSamplesRefused
  <2>1. Answered("events") \/ Answered("samples")
    BY <1>2 DEF PostEvents, PostSamples, PostSamplesRefused
  <2>2. wait'["samples"].retryAt = wait["samples"].retryAt
    BY <1>0, <2>1, AnsweredFacts
  <2>3. QED
    BY <2>2 DEF WaitInv
<1>3. CASE PostEventsLater
  <2>1. wait'["samples"] = wait["samples"]
    BY <1>0, <1>3, LaterFacts DEF PostEventsLater, WaitsLonger
  <2>2. QED
    BY <2>1 DEF WaitInv
<1>4. CASE PostSamplesLater
  <2>1. (InTime /\ WaitsLonger("samples")) \/ UNCHANGED wait
    BY <1>0, <1>4, LaterFacts DEF PostSamplesLater
  <2>2. CASE InTime /\ WaitsLonger("samples")
    <3>1. left # TimeOver
      BY <2>2 DEF InTime
    <3>2. now < OutageEnd
      BY <1>0, <1>4, <3>1, LimitFacts DEF PostSamplesLater
    <3>3. now + LongestWait <= Recovered
      BY <1>0, <3>2, WaitFacts
    <3>4. wait'["samples"].retryAt \in Int /\ wait'["samples"].retryAt <= now + LongestWait
      BY <1>0, <2>2 DEF WaitsLonger
    <3>5. QED
      BY <1>0, <3>3, <3>4, WaitFacts DEF WaitInv
  <2>3. CASE UNCHANGED wait
    BY <2>3 DEF WaitInv
  <2>4. QED
    BY <2>1, <2>2, <2>3
<1>5. CASE Tick \/ EventsEnd \/ SamplesEnd \/ Commands \/ Stop \/ UNCHANGED vars
  <2>1. UNCHANGED wait
    BY <1>5 DEF Tick, EventsEnd, SamplesEnd, Commands, Stop, vars
  <2>2. QED
    BY <2>1 DEF WaitInv
<1>6. QED
  BY <1>1, <1>2, <1>3, <1>4, <1>5 DEF Next

\* A minute and a tick later, an older sample is as far from its report.
LEMMA OneTickOn ==
  ASSUME NEW t \in Nat, NEW p \in Nat, NEW S, NEW T, S \subseteq Nat, T \subseteq S \cup {t + 1},
         (\A s \in S : t - s < p) \/ p >= t - LastOutage
  PROVE  (\A s \in T : (t + 1) - s < p + 1) \/ p + 1 >= (t + 1) - LastOutage
<1>1. CASE \A s \in S : t - s < p
  <2>1. \A s \in Nat : t - s < p => (t + 1) - s < p + 1
    OBVIOUS
  <2>2. \A s \in S : (t + 1) - s < p + 1
    BY <1>1, <2>1
  <2>3. (t + 1) - (t + 1) < p + 1
    OBVIOUS
  <2>4. QED
    BY <2>2, <2>3
<1>2. CASE p >= t - LastOutage
  BY <1>2, WaitFacts
<1>3. QED
  BY <1>1, <1>2

LEMMA RecoveryFresh == SendType /\ FreshInv /\ [Next]_vars => FreshInv'
<1> SUFFICES ASSUME SendType, FreshInv, [Next]_vars PROVE FreshInv'
  OBVIOUS
<1>0. now \in Nat /\ pending \in Nat /\ samples \in Seq(Nat) /\ ToSet(samples) \subseteq Nat
  BY DEF SendType, ToSet
<1>1. CASE Start
  <2>1. samples' = samplesFile /\ pending' = 0 /\ now' = now /\ pc' = "again" /\ pc = "down"
    BY <1>1 DEF Start
  <2>2. CASE now < OutageEnd
    <3>1. 0 >= now - LastOutage
      BY <1>0, <2>2, WaitFacts
    <3>2. QED
      BY <2>1, <3>1 DEF FreshInv
  <2>3. CASE samplesFile = <<>>
    <3>1. ToSet(<<>>) = {}
      BY DEF ToSet
    <3>2. QED
      BY <2>1, <2>3, <3>1 DEF FreshInv
  <2>4. QED
    BY <2>1, <2>2, <2>3 DEF FreshInv
<1>2. CASE Tick
  <2>1. now' = now + 1 /\ pending' = pending + 1 /\ pc' # "down"
    BY <1>2 DEF Tick
  <2>2. ToSet(samples') \subseteq ToSet(samples) \cup {now + 1}
    BY <1>0, <1>2, <2>1, AddedSample DEF Tick, NoSample
  <2>3. (\A s \in ToSet(samples) : now - s < pending) \/ pending >= now - LastOutage
    BY DEF FreshInv
  <2>4. (\A s \in ToSet(samples') : (now + 1) - s < pending + 1) \/ pending + 1 >= (now + 1) - LastOutage
    BY <1>0, <2>2, <2>3, OneTickOn
  <2>5. QED
    BY <2>1, <2>4 DEF FreshInv, LastOutage
<1>3. ASSUME ToSet(samples') \subseteq ToSet(samples), UNCHANGED <<now, pending>>, pc' # "down"
      PROVE  FreshInv'
  BY <1>3 DEF FreshInv, LastOutage
<1>4. CASE PostSamples \/ PostSamplesRefused
  <2>1. Drop(Batch) /\ UNCHANGED <<now, pending>> /\ pc' = "samples"
    BY <1>4 DEF PostSamples, PostSamplesRefused, CanPostSamples, reportVars
  <2>2. QED
    BY <1>0, <1>3, <2>1, DroppedBatch
<1>5. CASE PostSamplesLater
  <2>1. UNCHANGED <<now, samples, pending>> /\ pc' # "down"
    BY <1>5 DEF PostSamplesLater, AfterSamples, queueVars
  <2>2. QED
    BY <1>3, <2>1
<1>6. CASE SamplesEnd
  <2>1. CASE samples = <<>>
    <3>1. samples' = <<>> /\ pc' # "down" /\ ToSet(<<>>) = {}
      BY <1>6, <2>1 DEF SamplesEnd, AfterSamples, queueVars, ToSet
    <3>2. QED
      BY <3>1 DEF FreshInv
  <2>2. CASE samples # <<>>
    <3>1. UNCHANGED <<now, samples, pending>> /\ pc' # "down"
      BY <1>6, <2>2 DEF SamplesEnd, AfterSamples, queueVars
    <3>2. QED
      BY <1>3, <3>1
  <2>3. QED
    BY <2>1, <2>2
<1>7. CASE PostEvents \/ PostEventsLater \/ EventsEnd \/ Commands
  <2>1. UNCHANGED <<now, samples, pending>> /\ pc' # "down"
    BY <1>7 DEF PostEvents, PostEventsLater, EventsEnd, Commands, AfterEvents, queueVars, reportVars
  <2>2. QED
    BY <1>3, <2>1
<1>8. CASE Stop
  <2>1. UNCHANGED <<now, samples, pending>> /\ now < OutageEnd
    BY <1>8 DEF Stop, queueVars, reportVars
  <2>2. QED
    BY <2>1 DEF FreshInv, LastOutage
<1>9. CASE UNCHANGED vars
  BY <1>9 DEF FreshInv, LastOutage, vars, queueVars, reportVars
<1>10. QED
  BY <1>1, <1>2, <1>4, <1>5, <1>6, <1>7, <1>8, <1>9 DEF Next

-----------------------------------------------------------------------------
\* With no tick more than the interval, or before Recovered, none is owed to
\* slow sends.
LEMMA NotLate ==
  ASSUME SendType', pc' \in {"idle", "commands", "again"}, pending' < interval' \/ now' < Recovered
  PROVE  SlowInv'
<1>1. Recovered' = Recovered /\ SendEvents' = SendEvents
  BY DEF Recovered, LastOutage, SendEvents
<1>2. /\ pending' \in Nat /\ now' \in Nat /\ interval' \in Nat
      /\ events' \in Nat /\ events' <= MaxEvents
  BY LimitFacts DEF SendType
<1>3. 0 >= pending' - interval' + 1 \/ 0 >= now' - Recovered + 1
  <2>1. \A a, b \in Int : a < b => 0 >= a - b + 1
    OBVIOUS
  <2>2. pending' < interval' \/ now' < Recovered
    BY <1>1
  <2>3. pending' \in Int /\ interval' \in Int /\ now' \in Int /\ Recovered \in Int
    BY <1>2, WaitFacts
  <2>4. QED
    BY <2>1, <2>2, <2>3
<1>4. events' + 0 * SendEvents <= MaxEvents
  BY <1>2, WaitFacts
<1>5. CASE pc' = "idle"
  <2>1. \E n \in Nat : /\ (n >= pending' - interval' + 1 \/ n >= now' - Recovered + 1)
                       /\ (n = 0 \/ events' >= 1)
                       /\ events' + n * SendEvents <= MaxEvents
    BY <1>3, <1>4
  <2>2. QED
    BY <1>1, <1>5, <2>1 DEF SlowInv, EnoughTicks
<1>6. CASE pc' \in {"commands", "again"}
  BY <1>1, <1>6 DEF SlowInv
<1>7. QED
  BY <1>5, <1>6

\* A batch that was sent used a slow request of the budget, at most.
LEMMA OneBatch ==
  ASSUME NEW e \in Nat, NEW n \in Nat, NEW k \in Nat, NEW k1 \in Nat, k1 = k \/ k1 = k + 1,
         NEW b \in Nat, NEW c \in Nat, NEW m \in Nat, e + n * c + k * b <= m, e > b
  PROVE  (e - b) + n * c + k1 * b <= m
<1>1. k1 * b = k * b \/ k1 * b = k * b + b
  OBVIOUS
<1>2. n * c \in Nat /\ k * b \in Nat /\ k1 * b \in Nat
  OBVIOUS
<1>3. QED
  BY <1>1, <1>2

\* A send whose time is over had all of its slow requests for events.
LEMMA OneSend ==
  ASSUME NEW e \in Nat, NEW n \in Nat, NEW c \in Nat, NEW m \in Nat, e + n * c + c <= m
  PROVE  e + (n + 1) * c <= m
<1>1. (n + 1) * c = n * c + c /\ n * c \in Nat
  OBVIOUS
<1>2. QED
  BY <1>1

LEMMA SlowTick ==
  ASSUME SendType, SendType', SlowInv, Tick PROVE SlowInv'
<1>0. /\ Recovered' = Recovered /\ SendEvents' = SendEvents /\ SendEvents \in Nat /\ Recovered \in Int
      /\ now \in Nat /\ pending \in Nat /\ interval \in Nat /\ events \in Nat /\ events <= MaxEvents
  BY WaitFacts, LimitFacts DEF Recovered, LastOutage, SendEvents, SendType
<1>1. /\ pc = "idle" /\ now' = now + 1 /\ pending' = pending + 1
      /\ interval' = interval /\ events' = events
  BY DEF Tick
<1>2. CASE pending' < interval
  <2>1. pc' = "idle" /\ pending' < interval'
    BY <1>1, <1>2 DEF Tick
  <2>2. QED
    BY <2>1, NotLate
<1>3. CASE ~(pending' < interval)
  <2>1. pc' = "events" /\ left' = SlowRequests /\ pending' >= interval'
    BY <1>0, <1>1, <1>3 DEF Tick
  <2>2. \E n \in Nat : EnoughTicks(n, pending, now) /\ events + n * SendEvents <= MaxEvents
    <3>1. CASE pending >= interval
      BY <1>1, <3>1 DEF SlowInv
    <3>2. CASE pending < interval
      <4>1. EnoughTicks(0, pending, now)
        BY <1>0, <3>2 DEF EnoughTicks
      <4>2. events + 0 * SendEvents <= MaxEvents
        BY <1>0
      <4>3. QED
        BY <4>1, <4>2
    <3>3. QED
      BY <1>0, <3>1, <3>2
  <2>3. PICK n \in Nat : EnoughTicks(n, pending, now) /\ events + n * SendEvents <= MaxEvents
    BY <2>2
  <2>4. n >= (pending' - 1) - interval' + 1 \/ n >= (now' - 1) - Recovered + 1
    BY <1>0, <1>1, <2>3 DEF EnoughTicks
  <2>5. events' + n * SendEvents + (SlowRequests - left') * EventsBatch <= MaxEvents
    <3>1. (SlowRequests - left') * EventsBatch = 0
      BY <2>1, LimitFacts
    <3>2. n * SendEvents \in Nat
      BY <1>0
    <3>3. QED
      BY <1>0, <1>1, <2>3, <3>1, <3>2
  <2>6. left' \in 0..SlowRequests
    BY <2>1, LimitFacts
  <2>7. QED
    BY <1>0, <2>1, <2>4, <2>5, <2>6 DEF SlowInv, EnoughTicks
<1>4. QED
  BY <1>2, <1>3

LEMMA SlowEvents ==
  ASSUME SendType, SendType', SlowInv, PostEvents PROVE SlowInv'
<1>0. /\ Recovered' = Recovered /\ SendEvents' = SendEvents /\ SendEvents \in Nat
      /\ events \in Nat /\ events > 0 /\ events <= MaxEvents /\ EventsBatch \in Nat
  BY WaitFacts, LimitFacts DEF Recovered, LastOutage, SendEvents, SendType, PostEvents
<1>1. /\ pc \in {"events", "again"}
      /\ UNCHANGED <<pc, now, pending, interval>>
      /\ events' = events - Lower(events, EventsBatch)
  BY DEF PostEvents, reportVars
<1>2. left \in Nat /\ left' \in Nat /\ (left' = left \/ left' = left - 1)
  BY AnsweredFacts, InTimeFacts DEF PostEvents, Routes, SendType
<1>3. CASE pc = "again"
  <2>1. pending' < interval' \/ now' < Recovered
    BY <1>1, <1>3 DEF SlowInv
  <2>2. QED
    BY <1>1, <1>3, <2>1, NotLate
<1>4. CASE pc = "events"
  <2>1. PICK n \in Nat :
          /\ EnoughTicks(n, pending - 1, now - 1)
          /\ events + n * SendEvents + (SlowRequests - left) * EventsBatch <= MaxEvents
    BY <1>0, <1>4 DEF SlowInv
  <2>2. left \in 0..SlowRequests /\ left' \in 0..SlowRequests /\ pending' >= interval'
    BY <1>1, <1>2, <1>4, LimitFacts DEF SlowInv
  <2>3. events' = 0 \/ events' + n * SendEvents + (SlowRequests - left') * EventsBatch <= MaxEvents
    <3>1. CASE events <= EventsBatch
      BY <1>0, <1>1, <3>1 DEF Lower
    <3>2. CASE events > EventsBatch
      <4> DEFINE k == SlowRequests - left
                 k1 == SlowRequests - left'
      <4>1. events' = events - EventsBatch
        BY <1>0, <1>1, <3>2 DEF Lower
      <4>2. \A m \in Nat : \A a, b \in 0..m :
              b = a \/ b = a - 1 =>
                m - a \in Nat /\ m - b \in Nat /\ (m - b = m - a \/ m - b = (m - a) + 1)
        OBVIOUS
      <4>3. k \in Nat /\ k1 \in Nat /\ (k1 = k \/ k1 = k + 1)
        BY <1>2, <2>2, <4>2, LimitFacts
      <4>4. events + n * SendEvents + k * EventsBatch <= MaxEvents /\ MaxEvents \in Nat
        BY <2>1, LimitFacts
      <4> HIDE DEF k, k1
      <4>5. (events - EventsBatch) + n * SendEvents + k1 * EventsBatch <= MaxEvents
        BY <1>0, <3>2, <4>3, <4>4, OneBatch
      <4>6. QED
        BY <4>1, <4>5 DEF k1
    <3>3. QED
      BY <1>0, <3>1, <3>2
  <2>4. n >= (pending' - 1) - interval' + 1 \/ n >= (now' - 1) - Recovered + 1
    BY <1>1, <2>1 DEF EnoughTicks
  <2>5. pc' = "events"
    BY <1>1, <1>4
  <2>6. QED
    BY <1>0, <2>1, <2>2, <2>3, <2>4, <2>5 DEF SlowInv, EnoughTicks
<1>5. QED
  BY <1>1, <1>3, <1>4

LEMMA SlowEventsLater ==
  ASSUME SendType, SendType', SlowInv, PostEventsLater PROVE SlowInv'
<1>0. /\ Recovered' = Recovered /\ SendEvents' = SendEvents /\ SendEvents \in Nat
      /\ Recovered \in Int /\ now \in Nat /\ pending \in Nat /\ interval \in Nat
      /\ events \in Nat /\ events > 0 /\ MaxEvents \in Nat
  BY WaitFacts, LimitFacts DEF Recovered, LastOutage, SendEvents, SendType, PostEventsLater
<1>1. /\ pc \in {"events", "again"} /\ UNCHANGED <<now, pending, interval, events>>
      /\ pc' = IF pc = "events" THEN "samples" ELSE "idle"
  BY DEF PostEventsLater, reportVars, queueVars, AfterEvents
<1>2. CASE pc = "again"
  <2>1. pending' < interval' \/ now' < Recovered
    BY <1>1, <1>2 DEF SlowInv
  <2>2. QED
    BY <1>1, <1>2, <2>1, NotLate
<1>3. CASE pc = "events" /\ InTime
  <2>1. left' # TimeOver
    BY <1>3, InTimeFacts DEF SendType, TimeOver
  <2>2. QED
    BY <1>1, <1>3, <2>1 DEF SlowInv
<1>4. CASE pc = "events" /\ NotInTime
  <2>1. left = 0
    BY <1>4, NotInTimeFacts DEF SendType, SlowInv, TimeOver
  <2>2. PICK n \in Nat :
          /\ EnoughTicks(n, pending - 1, now - 1)
          /\ events + n * SendEvents + (SlowRequests - left) * EventsBatch <= MaxEvents
    BY <1>0, <1>4 DEF SlowInv
  <2>3. events + n * SendEvents + SendEvents <= MaxEvents
    BY <2>1, <2>2, LimitFacts DEF SendEvents
  <2>4. events + (n + 1) * SendEvents <= MaxEvents
    BY <1>0, <2>3, OneSend
  <2>5. n + 1 >= pending - interval + 1 \/ n + 1 >= now - Recovered + 1
    BY <1>0, <2>2 DEF EnoughTicks
  <2>6. n + 1 \in Nat /\ n + 1 >= 1 /\ events >= 1 /\ pc' = "samples"
    BY <1>0, <1>1, <1>4
  <2> DEFINE k == n + 1
  <2>7. k \in Nat /\ k >= 1 /\ events' >= 1 /\ events' + k * SendEvents <= MaxEvents
        /\ (k >= pending' - interval' + 1 \/ k >= now' - Recovered + 1)
    BY <1>1, <2>4, <2>5, <2>6
  <2> HIDE DEF k
  <2>8. QED
    BY <1>0, <2>6, <2>7 DEF SlowInv, EnoughTicks
<1>5. QED
  BY <1>1, <1>2, <1>3, <1>4, LaterFacts DEF PostEventsLater, Routes

LEMMA SlowSamplesLater ==
  ASSUME SendType, SendType', SlowInv, PostSamplesLater PROVE SlowInv'
<1>0. /\ Recovered' = Recovered /\ SendEvents' = SendEvents /\ now \in Nat /\ OutageEnd \in Nat
      /\ events \in Nat
  BY LimitFacts DEF Recovered, LastOutage, SendEvents, SendType
<1>1. /\ pc = "samples" /\ UNCHANGED <<now, pending, interval, events>>
      /\ pc' = IF events = 0 THEN "commands" ELSE "idle"
      /\ now >= OutageEnd => left = TimeOver
  BY DEF PostSamplesLater, CanPostSamples, AfterSamples, queueVars
<1>2. CASE now < OutageEnd
  <2>1. now' < Recovered
    BY <1>0, <1>1, <1>2, WaitFacts
  <2>2. QED
    BY <1>1, <2>1, NotLate
<1>3. CASE now >= OutageEnd
  <2>1. \E n \in Nat : /\ EnoughTicks(n, pending, now) /\ n >= 1 /\ events >= 1
                       /\ events + n * SendEvents <= MaxEvents
    BY <1>1, <1>3 DEF SlowInv
  <2>2. events >= 1 /\ pc' = "idle"
    BY <1>0, <1>1, <2>1
  <2>3. QED
    BY <1>0, <1>1, <2>1, <2>2 DEF SlowInv, EnoughTicks
<1>4. QED
  BY <1>0, <1>2, <1>3

LEMMA SlowSamplesEnd ==
  ASSUME SendType, SendType', WaitInv, SamplesEnd PROVE SlowInv'
<1>1. /\ UNCHANGED <<now, interval, events>> /\ pc' \in {"idle", "commands"}
      /\ pending' = IF samples = <<>> THEN 0 ELSE pending
      /\ samples = <<>> \/ Waiting("samples")
  BY DEF SamplesEnd, AfterSamples, queueVars
<1>2. CASE samples = <<>>
  <2>1. pending' < interval'
    BY <1>1, <1>2 DEF SendType
  <2>2. QED
    BY <1>1, <2>1, NotLate
<1>3. CASE Waiting("samples")
  <2>1. now \in Int /\ wait["samples"].retryAt \in Int /\ Recovered \in Int
    BY WaitFacts DEF SendType, Routes
  <2>2. now < wait["samples"].retryAt /\ wait["samples"].retryAt <= Recovered
    BY <1>3 DEF Waiting, WaitInv
  <2>3. now' < Recovered
    BY <1>1, <2>1, <2>2
  <2>4. QED
    BY <1>1, <2>3, NotLate
<1>4. QED
  BY <1>1, <1>2, <1>3

LEMMA RecoverySlow == SendType /\ SendType' /\ WaitInv /\ SlowInv /\ [Next]_vars => SlowInv'
<1> SUFFICES ASSUME SendType, SendType', WaitInv, SlowInv, [Next]_vars PROVE SlowInv'
  OBVIOUS
<1>0. Recovered' = Recovered /\ SendEvents' = SendEvents
  BY DEF Recovered, LastOutage, SendEvents
<1>1. CASE Start
  <2>1. pc' = "again" /\ pending' = 0
    BY <1>1 DEF Start
  <2>2. pending' < interval'
    BY <2>1 DEF SendType
  <2>3. QED
    BY <2>1, <2>2, NotLate
<1>2. CASE PostSamples \/ PostSamplesRefused
  <2>1. Answered("samples") /\ pc' = "samples"
    BY <1>2 DEF PostSamples, PostSamplesRefused, CanPostSamples
  <2>2. left' # TimeOver
    BY <2>1, AnsweredFacts, InTimeFacts DEF Routes, SendType, TimeOver
  <2>3. QED
    BY <2>1, <2>2 DEF SlowInv
<1>3. CASE EventsEnd
  <2>1. /\ pc \in {"events", "again"} /\ UNCHANGED <<now, pending, interval, events, left>>
        /\ pc' = IF pc = "events" THEN "samples" ELSE "idle"
    BY <1>3 DEF EventsEnd, AfterEvents, queueVars, reportVars
  <2>2. CASE pc = "events"
    <3>1. left' # TimeOver
      BY <2>1, <2>2, LimitFacts DEF SlowInv, TimeOver
    <3>2. QED
      BY <2>1, <2>2, <3>1 DEF SlowInv
  <2>3. CASE pc = "again"
    <3>1. pending' < interval' \/ now' < Recovered
      BY <2>1, <2>3 DEF SlowInv
    <3>2. QED
      BY <2>1, <2>3, <3>1, NotLate
  <2>4. QED
    BY <2>1, <2>2, <2>3
<1>4. CASE Commands
  <2>1. pc = "commands" /\ UNCHANGED <<now, pending, interval>> /\ pc' \in {"idle", "again"}
    BY <1>4 DEF Commands, reportVars
  <2>2. pending' < interval' \/ now' < Recovered
    BY <2>1 DEF SlowInv
  <2>3. QED
    BY <2>1, <2>2, NotLate
<1>5. CASE Stop
  <2>1. pc' = "down"
    BY <1>5 DEF Stop
  <2>2. QED
    BY <2>1 DEF SlowInv
<1>6. CASE UNCHANGED vars
  <2>1. UNCHANGED <<pc, now, pending, interval, events, left>>
    BY <1>6 DEF vars, queueVars, reportVars
  <2>2. QED
    BY <1>0, <2>1 DEF SlowInv, EnoughTicks
<1>7. QED
  BY <1>1, <1>2, <1>3, <1>4, <1>5, <1>6, SlowTick, SlowEvents, SlowEventsLater, SlowSamplesLater,
     SlowSamplesEnd DEF Next

-----------------------------------------------------------------------------
LEMMA RecoveryStep == RecoveryInv /\ [Next]_vars => RecoveryInv'
BY RecoveryTypes, RecoveryWaits, RecoveryFresh, RecoverySlow DEF RecoveryInv

LEMMA SlowTicksBound ==
  ASSUME NEW n \in Nat, NEW e \in Nat, e >= 1, e + n * SendEvents <= MaxEvents
  PROVE  n <= SlowTicks
<1>1. \A c \in Nat \ {0}, m \in Nat : n * c <= m => n <= m \div c
  OBVIOUS
<1>2. n * SendEvents \in Nat /\ MaxEvents - 1 \in Nat
  BY WaitFacts, LimitFacts
<1>3. n * SendEvents <= MaxEvents - 1
  BY <1>2, LimitFacts
<1>4. QED
  BY <1>1, <1>2, <1>3, WaitFacts DEF SlowTicks, SendEvents

LEMMA SlowTicksNat == SlowTicks \in Nat
<1>1. \A c \in Nat \ {0}, m \in Nat : m \div c \in Nat
  OBVIOUS
<1>2. MaxEvents - 1 \in Nat
  BY LimitFacts
<1>3. QED
  BY <1>1, <1>2, WaitFacts DEF SlowTicks, SendEvents

LEMMA RecoveryHolds == RecoveryInv => RecoversInTime
<1> SUFFICES ASSUME RecoveryInv, pc = "idle", now >= OutageEnd - 1 + LongestWait + SlowTicks,
                    NEW s \in ToSet(samples)
             PROVE  now - s < MaxInterval - 1 + SlowTicks
  BY DEF RecoversInTime
<1>1. /\ now \in Nat /\ pending \in Nat /\ interval \in Nat /\ interval <= MaxInterval
      /\ MaxInterval \in Nat /\ s \in Nat /\ events \in Nat
  BY LimitFacts DEF RecoveryInv, SendType, ToSet
<1>2. now >= Recovered + SlowTicks /\ now - LastOutage >= MaxInterval + SlowTicks
  BY <1>1, WaitFacts, SlowTicksNat, LimitFacts DEF Recovered, LastOutage
<1>3. pending <= interval - 1 + SlowTicks
  <2>1. CASE pending < interval
    BY <1>1, <2>1, SlowTicksNat
  <2>2. CASE pending >= interval
    <3>1. PICK n \in Nat : /\ EnoughTicks(n, pending, now) /\ (n = 0 \/ events >= 1)
                           /\ events + n * SendEvents <= MaxEvents
      BY <2>2 DEF RecoveryInv, SlowInv
    <3>2. n <= SlowTicks
      BY <1>1, <3>1, SlowTicksBound, SlowTicksNat
    <3>3. n >= pending - interval + 1
      BY <1>1, <1>2, <3>1, <3>2, WaitFacts, SlowTicksNat DEF EnoughTicks
    <3>4. QED
      BY <1>1, <3>2, <3>3, SlowTicksNat
  <2>3. QED
    BY <1>1, <2>1, <2>2
<1>4. now - s < pending
  BY <1>1, <1>2, <1>3, WaitFacts, SlowTicksNat DEF RecoveryInv, FreshInv
<1>5. QED
  BY <1>1, <1>3, <1>4, SlowTicksNat

\* "Each kind waits on its own: a broken events route must not stop the metrics"
\* (send.go): from the longest wait after the metrics route accepts again, a
\* sample is held no longer than its interval and the ticks that a full queue of
\* events can take, in whatever way the events route fails and whatever the
\* replies of the outage were (tick, report, sendEvents, sendSamples, outcome).
THEOREM SamplesCatchUp == Spec => []RecoversInTime
<1>1. QED
  BY RecoveryInitial, RecoveryStep, RecoveryHolds, PTL DEF Spec

-----------------------------------------------------------------------------
(***************************************************************************)
(* The value ranges: for every sample, status and event, and not only those  *)
(* of a run, what is cleaned is accepted and keeps its meaning.              *)
(***************************************************************************)
LEMMA CleanFacts ==
  /\ MaxInt \in Nat /\ MaxPercent \in Nat /\ MaxLoad \in Nat /\ MaxSites \in Nat
  /\ MaxDirectory \in Nat /\ MaxText \in Nat /\ MaxCpus \in Nat
BY CleanAssumption

\* A pointer is nil or points to one value.
LEMMA PointerCases ==
  ASSUME NEW S, NEW v \in Pointer(S)
  PROVE  v = NotKnown \/ (v # NotKnown /\ v[1] \in S /\ v = <<v[1]>>)
<1>1. v \in Seq(S) /\ Len(v) \in {0, 1}
  <2>1. v \in Seq(S) /\ Len(v) <= 1
    BY DEF Pointer
  <2>2. Len(v) \in Nat
    BY <2>1
  <2>3. QED
    BY <2>1, <2>2
<1>2. CASE Len(v) = 0
  BY <1>1, <1>2 DEF NotKnown
<1>3. CASE Len(v) = 1
  <2>1. v[1] \in S /\ v # NotKnown
    BY <1>1, <1>3 DEF NotKnown
  <2>2. <<v[1]>> \in Seq(S) /\ Len(<<v[1]>>) = 1 /\ <<v[1]>>[1] = v[1]
    BY <2>1
  <2>3. v = <<v[1]>>
    BY <1>1, <1>3, <2>2, SeqEqual
  <2>4. QED
    BY <2>1, <2>3
<1>4. QED
  BY <1>1, <1>2, <1>3

\* clamp, clampInt, truncate: a value in range, and the same one if it was.
LEMMA ClampWithin ==
  ASSUME NEW hi \in Nat, NEW v \in Int
  PROVE  Within(Clamp(v, hi), hi) /\ (Within(v, hi) => Clamp(v, hi) = v)
BY DEF Clamp, Within, Lower, Upper, NaN

LEMMA ClampIntWithin ==
  ASSUME NEW v \in Nat
  PROVE  Within(ClampInt(v), MaxInt) /\ (Within(v, MaxInt) => ClampInt(v) = v)
BY CleanFacts DEF ClampInt, Within, Lower

LEMMA TruncateWithin ==
  ASSUME NEW v \in Nat
  PROVE  Within(Truncate(v), MaxText) /\ (Within(v, MaxText) => Truncate(v) = v)
BY CleanFacts DEF Truncate, Within, Lower

\* A pointer of which the value was changed, or nil, as it was.
PointerCleaned(v, c, hi) ==
  /\ v = NotKnown <=> c = NotKnown
  /\ KnownWithin(c, hi) /\ (KnownWithin(v, hi) => c = v)

LEMMA ValueCleaned ==
  ASSUME NEW S, NEW v \in Pointer(S), NEW hi, NEW x,
         v # NotKnown => Within(x, hi) /\ (Within(v[1], hi) => x = v[1])
  PROVE  PointerCleaned(v, IF v = NotKnown THEN v ELSE <<x>>, hi)
<1>1. CASE v = NotKnown
  BY <1>1 DEF PointerCleaned, KnownWithin
<1>2. CASE v # NotKnown
  <2>1. v = <<v[1]>> /\ <<x>> # NotKnown /\ <<x>>[1] = x
    BY <1>2, PointerCases DEF NotKnown
  <2>2. QED
    BY <1>2, <2>1 DEF PointerCleaned, KnownWithin
<1>3. QED
  BY <1>1, <1>2

LEMMA ClampPtrCleaned ==
  ASSUME NEW v \in Pointer(Int), NEW hi \in Nat
  PROVE  PointerCleaned(v, ClampPtr(v, hi), hi)
BY PointerCases, ClampWithin, ValueCleaned DEF ClampPtr

LEMMA ClampIntPtrCleaned ==
  ASSUME NEW v \in Pointer(Nat) PROVE PointerCleaned(v, ClampIntPtr(v), MaxInt)
BY PointerCases, ClampIntWithin, ValueCleaned DEF ClampIntPtr

LEMMA TruncatePtrCleaned ==
  ASSUME NEW v \in Pointer(Nat) PROVE PointerCleaned(v, TruncatePtr(v), MaxText)
BY PointerCases, TruncateWithin, ValueCleaned DEF TruncatePtr

-----------------------------------------------------------------------------
\* cleanSites, one site at a time.
LEMMA CleanSiteCleaned ==
  ASSUME NEW s \in SiteType
  PROVE  /\ CleanSite(s).directory = s.directory /\ CleanSite(s).name = s.name
         /\ CleanSite(s).files = s.files
         /\ s.directory \in 1..MaxDirectory => SiteWithin(CleanSite(s))
         /\ SiteWithin(s) => CleanSite(s) = s
<1>1. s.cpu \in Pointer(Int) /\ s.bytes \in Pointer(Nat)
      /\ s = [directory |-> s.directory, name |-> s.name, cpu |-> s.cpu, bytes |-> s.bytes,
              files |-> s.files]
  BY DEF SiteType
<1>2. /\ PointerCleaned(s.cpu, ClampPtr(s.cpu, MaxPercent), MaxPercent)
      /\ PointerCleaned(s.bytes, ClampIntPtr(s.bytes), MaxInt)
  BY <1>1, CleanFacts, ClampPtrCleaned, ClampIntPtrCleaned
<1>3. /\ CleanSite(s).directory = s.directory /\ CleanSite(s).name = s.name
      /\ CleanSite(s).files = s.files
      /\ CleanSite(s).cpu = ClampPtr(s.cpu, MaxPercent) /\ CleanSite(s).bytes = ClampIntPtr(s.bytes)
  BY <1>1 DEF CleanSite
<1>4. s.directory \in 1..MaxDirectory => SiteWithin(CleanSite(s))
  BY <1>2, <1>3 DEF SiteWithin, PointerCleaned
<1>5. SiteWithin(s) => CleanSite(s) = s
  <2>1. SiteWithin(s) => ClampPtr(s.cpu, MaxPercent) = s.cpu /\ ClampIntPtr(s.bytes) = s.bytes
    BY <1>2 DEF SiteWithin, PointerCleaned
  <2>2. QED
    BY <1>1, <2>1 DEF CleanSite
<1>6. QED
  BY <1>3, <1>4, <1>5

\* The sites of a list that fit, cleaned.
FitSites(sites) ==
  {CleanSite(sites[j]) : j \in {k \in 1..Len(sites) : sites[k].directory \in 1..MaxDirectory}}

\* What the loop has kept of the first n sites: all of them, as they were, if the
\* control plane would accept the list.
KeptOf(out, n, sites) ==
  /\ out \in Seq(FitSites(sites)) /\ Len(out) <= MaxSites
  /\ ListWithin(sites) => Len(out) = n /\ \A i \in 1..n : out[i] = sites[i]

LEMMA KeptNone == ASSUME NEW sites PROVE KeptOf(<<>>, 0, sites)
BY CleanFacts DEF KeptOf

LEMMA KeptNext ==
  ASSUME NEW sites \in Seq(SiteType), NEW n \in 1..Len(sites), NEW out, KeptOf(out, n - 1, sites)
  PROVE  KeptOf(KeepSite(out, sites[n]), n, sites)
<1> DEFINE s == sites[n]
<1>1. s \in SiteType /\ n \in Nat /\ Len(sites) \in Nat /\ Len(out) \in Nat
  BY DEF KeptOf
<1>2. CASE Len(out) = MaxSites \/ s.directory \notin 1..MaxDirectory
  <2>1. ~ListWithin(sites)
    <3>1. ListWithin(sites) => Len(out) = n - 1 /\ Len(sites) <= MaxSites /\ SiteWithin(s)
      BY DEF KeptOf, ListWithin
    <3>2. QED
      BY <1>1, <1>2, <3>1, CleanFacts DEF SiteWithin
  <2>2. KeepSite(out, s) = out
    BY <1>2 DEF KeepSite
  <2>3. QED
    BY <2>1, <2>2 DEF KeptOf
<1>3. CASE ~(Len(out) = MaxSites \/ s.directory \notin 1..MaxDirectory)
  <2> DEFINE c == CleanSite(s)
             T == FitSites(sites)
             q == Append(out, c)
  <2>1. KeepSite(out, s) = q
    BY <1>3 DEF KeepSite
  <2>2. c \in T
    BY <1>3 DEF FitSites
  <2>3. out \in Seq(T) /\ Len(out) <= MaxSites
    BY DEF KeptOf
  <2>4. ListWithin(sites) => c = s /\ Len(out) = n - 1 /\ \A i \in 1..(n - 1) : out[i] = sites[i]
    BY <1>1, CleanSiteCleaned DEF KeptOf, ListWithin
  <2> HIDE DEF T, c
  <2>5. q \in Seq(T) /\ Len(q) = Len(out) + 1 /\ q[Len(out) + 1] = c
        /\ \A i \in 1..Len(out) : q[i] = out[i]
    BY <2>2, <2>3
  <2> HIDE DEF q
  <2>6. Len(q) <= MaxSites
    BY <1>1, <1>3, <2>3, <2>5, CleanFacts
  <2>7. ListWithin(sites) => Len(q) = n /\ \A i \in 1..n : q[i] = sites[i]
    BY <1>1, <2>4, <2>5
  <2>8. KeptOf(q, n, sites)
    BY <2>5, <2>6, <2>7 DEF KeptOf, T
  <2>9. QED
    BY <2>1, <2>8
<1>4. QED
  BY <1>2, <1>3

\* What holds for a number and not for all has a least number that it fails for.
LEMMA Least ==
  ASSUME NEW T, T \subseteq Nat, T # {}
  PROVE  \E n \in T : \A m \in T : ~(m < n)
<1>1. PICK n \in T : \A m \in T : <<m, n>> \notin OpToRel(<, Nat)
  BY NatLessThanWellFounded, WFMin
<1>2. \A m \in T : m < n => <<m, n>> \in OpToRel(<, Nat)
  BY DEF OpToRel
<1>3. QED
  BY <1>1, <1>2

\* The loop over the first n sites, as a function of n.
IsLoop(f, n, sites) ==
  f = [i \in 0..n |-> IF i = 0 THEN <<>> ELSE KeepSite(f[i - 1], sites[i])]

LEMMA LoopExists ==
  ASSUME NEW sites
  PROVE  \A n \in Nat : \E f : IsLoop(f, n, sites)
<1> DEFINE Bad == {n \in Nat : ~\E f : IsLoop(f, n, sites)}
<1> SUFFICES ASSUME Bad # {} PROVE FALSE
  OBVIOUS
<1>1. PICK n \in Bad : \A m \in Bad : ~(m < n)
  <2>1. Bad \subseteq Nat
    OBVIOUS
  <2> HIDE DEF Bad
  <2>2. QED
    BY <2>1, Least
<1>2. CASE n = 0
  <2> DEFINE f == [i \in 0..0 |-> <<>>]
  <2>1. IsLoop(f, 0, sites)
    BY DEF IsLoop
  <2>2. QED
    BY <1>1, <1>2, <2>1
<1>3. CASE n # 0
  <2>1. n - 1 \in Nat /\ n - 1 < n /\ n \in Nat
    BY <1>1, <1>3
  <2>2. PICK f : IsLoop(f, n - 1, sites)
    BY <1>1, <2>1
  <2> DEFINE g == [i \in 0..n |-> IF i = 0 THEN <<>> ELSE KeepSite(f[i - 1], sites[i])]
  <2>3. \A i \in 0..(n - 1) : f[i] = (IF i = 0 THEN <<>> ELSE KeepSite(f[i - 1], sites[i]))
    BY <2>1, <2>2 DEF IsLoop
  <2>4. \A i \in 0..(n - 1) : g[i] = f[i]
    BY <2>1, <2>3
  <2>5. \A i \in 0..n : i # 0 => g[i - 1] = f[i - 1]
    <3>1. \A i \in 0..n : i # 0 => i - 1 \in 0..(n - 1)
      BY <2>1
    <3> HIDE DEF g
    <3>2. QED
      BY <2>4, <3>1
  <2>6. g = [i \in 0..n |-> IF i = 0 THEN <<>> ELSE KeepSite(g[i - 1], sites[i])]
    BY <2>5
  <2>7. IsLoop(g, n, sites)
    BY <2>6 DEF IsLoop
  <2>8. QED
    BY <1>1, <2>7
<1>4. QED
  BY <1>2, <1>3

LEMMA ListKept ==
  ASSUME NEW sites \in Seq(SiteType)
  PROVE  KeptOf(CleanList(sites), Len(sites), sites)
<1> DEFINE out[n \in 0..Len(sites)] == IF n = 0 THEN <<>> ELSE KeepSite(out[n - 1], sites[n])
<1>1. Len(sites) \in Nat
  OBVIOUS
<1>2. out = CHOOSE f : IsLoop(f, Len(sites), sites)
  BY DEF IsLoop
<1>3. IsLoop(out, Len(sites), sites)
  BY <1>1, <1>2, LoopExists
<1>4. CleanList(sites) = out[Len(sites)]
  BY DEF CleanList
<1> HIDE DEF out
<1> DEFINE Bad == {n \in 0..Len(sites) : ~KeptOf(out[n], n, sites)}
<1>5. SUFFICES ASSUME Bad # {} PROVE FALSE
  BY <1>1, <1>4
<1>6. PICK n \in Bad : \A m \in Bad : ~(m < n)
  <2>1. Bad \subseteq Nat
    BY <1>1
  <2> HIDE DEF Bad
  <2>2. QED
    BY <1>5, <2>1, Least
<1>7. n \in 0..Len(sites) /\ ~KeptOf(out[n], n, sites)
  BY <1>6
<1>8. \A i \in 0..Len(sites) : out[i] = (IF i = 0 THEN <<>> ELSE KeepSite(out[i - 1], sites[i]))
  BY <1>3 DEF IsLoop
<1>9. CASE n = 0
  BY <1>7, <1>8, <1>9, KeptNone
<1>10. CASE n # 0
  <2>1. n - 1 \in 0..Len(sites) /\ n - 1 < n /\ n \in 1..Len(sites)
    BY <1>1, <1>7, <1>10
  <2>2. KeptOf(out[n - 1], n - 1, sites)
    BY <1>6, <2>1
  <2>3. KeptOf(KeepSite(out[n - 1], sites[n]), n, sites)
    BY <2>1, <2>2, KeptNext
  <2>4. QED
    BY <1>7, <1>8, <1>10, <2>3
<1>11. QED
  BY <1>9, <1>10

\* cleanSites: the list is accepted, has sites of the server only, and is the
\* same one if it was accepted already.
LEMMA CleanListCleaned ==
  ASSUME NEW sites \in Seq(SiteType)
  PROVE  /\ ListWithin(CleanList(sites)) /\ SitesOf(CleanList(sites), sites)
         /\ ListWithin(sites) => CleanList(sites) = sites
<1> DEFINE out == CleanList(sites)
<1>1. KeptOf(out, Len(sites), sites)
  BY ListKept
<1> HIDE DEF out
<1>2. \A i \in DOMAIN out : out[i] \in FitSites(sites)
  BY <1>1 DEF KeptOf
<1>3. ASSUME NEW i \in DOMAIN out
      PROVE  /\ SiteWithin(out[i])
             /\ \E j \in DOMAIN sites :
                  /\ sites[j].name = out[i].name /\ sites[j].directory = out[i].directory
                  /\ sites[j].files = out[i].files
  <2>1. PICK j \in 1..Len(sites) : sites[j].directory \in 1..MaxDirectory /\ out[i] = CleanSite(sites[j])
    BY <1>2, <1>3 DEF FitSites
  <2>2. sites[j] \in SiteType /\ j \in DOMAIN sites
    BY <2>1
  <2>3. /\ SiteWithin(out[i]) /\ out[i].name = sites[j].name
        /\ out[i].directory = sites[j].directory /\ out[i].files = sites[j].files
    BY <2>1, <2>2, CleanSiteCleaned
  <2>4. QED
    BY <2>2, <2>3
<1>4. ListWithin(out) /\ SitesOf(out, sites)
  BY <1>1, <1>3 DEF ListWithin, SitesOf, KeptOf
<1>5. ASSUME ListWithin(sites) PROVE out = sites
  <2>1. Len(out) = Len(sites) /\ \A i \in 1..Len(sites) : out[i] = sites[i]
    BY <1>1, <1>5 DEF KeptOf
  <2>2. out \in Seq(FitSites(sites) \cup SiteType) /\ sites \in Seq(FitSites(sites) \cup SiteType)
    BY <1>1 DEF KeptOf
  <2>3. QED
    BY <2>1, <2>2, SeqEqual
<1>6. QED
  BY <1>4, <1>5 DEF out

LEMMA SitesCleaned ==
  ASSUME NEW v \in Pointer(Seq(SiteType))
  PROVE  LET c == CleanSites(v)
         IN  /\ v = NotKnown <=> c = NotKnown
             /\ c = NotKnown \/ ListWithin(c[1])
             /\ v # NotKnown => SitesOf(c[1], v[1])
             /\ v = NotKnown \/ ListWithin(v[1]) => c = v
<1>1. CASE v = NotKnown
  BY <1>1 DEF CleanSites
<1>2. CASE v # NotKnown
  <2> DEFINE list == CleanList(v[1])
  <2>1. v = <<v[1]>> /\ v[1] \in Seq(SiteType)
    BY <1>2, PointerCases
  <2>2. /\ ListWithin(list) /\ SitesOf(list, v[1])
        /\ ListWithin(v[1]) => list = v[1]
    BY <2>1, CleanListCleaned
  <2>3. CleanSites(v) = <<list>>
    BY <1>2 DEF CleanSites
  <2> HIDE DEF list
  <2>4. <<list>> # NotKnown /\ <<list>>[1] = list
    BY DEF NotKnown
  <2>5. QED
    BY <1>2, <2>1, <2>2, <2>3, <2>4
<1>3. QED
  BY <1>1, <1>2

LEMMA SampleAlways == ASSUME NEW s \in SampleType PROVE SampleCleaned(s)
<1> DEFINE c == CleanSample(s)
<1>1. /\ s.cpu \in Int /\ s.load \in Int /\ s.bytes \in Nat /\ s.peak \in Pointer(Int)
      /\ s.rate \in Pointer(Nat) /\ s.sites \in Pointer(Seq(SiteType))
      /\ s = [cpu |-> s.cpu, load |-> s.load, bytes |-> s.bytes, peak |-> s.peak,
              rate |-> s.rate, sites |-> s.sites, traffic |-> s.traffic]
  BY DEF SampleType
<1>2. /\ c.cpu = Clamp(s.cpu, MaxPercent) /\ c.load = Clamp(s.load, MaxLoad)
      /\ c.bytes = ClampInt(s.bytes) /\ c.peak = ClampPtr(s.peak, MaxPercent)
      /\ c.rate = ClampIntPtr(s.rate) /\ c.sites = CleanSites(s.sites) /\ c.traffic = s.traffic
      /\ c = [cpu |-> c.cpu, load |-> c.load, bytes |-> c.bytes, peak |-> c.peak,
              rate |-> c.rate, sites |-> c.sites, traffic |-> c.traffic]
  BY DEF CleanSample
<1> HIDE DEF c
<1>3. /\ Within(c.cpu, MaxPercent) /\ (Within(s.cpu, MaxPercent) => c.cpu = s.cpu)
      /\ Within(c.load, MaxLoad) /\ (Within(s.load, MaxLoad) => c.load = s.load)
      /\ Within(c.bytes, MaxInt) /\ (Within(s.bytes, MaxInt) => c.bytes = s.bytes)
  BY <1>1, <1>2, CleanFacts, ClampWithin, ClampIntWithin
<1>4. PointerCleaned(s.peak, c.peak, MaxPercent) /\ PointerCleaned(s.rate, c.rate, MaxInt)
  BY <1>1, <1>2, CleanFacts, ClampPtrCleaned, ClampIntPtrCleaned
<1>5. /\ s.sites = NotKnown <=> c.sites = NotKnown
      /\ c.sites = NotKnown \/ ListWithin(c.sites[1])
      /\ s.sites # NotKnown => SitesOf(c.sites[1], s.sites[1])
      /\ s.sites = NotKnown \/ ListWithin(s.sites[1]) => c.sites = s.sites
  BY <1>1, <1>2, SitesCleaned
<1>6. CleanedWithin(c) /\ SameMeaning(s, c)
  BY <1>2, <1>3, <1>4, <1>5 DEF CleanedWithin, SameMeaning, PointerCleaned
<1>7. ASSUME UncleanedWithin(s) PROVE SampleAccepted(c)
  <2>1. ASSUME c.sites # NotKnown PROVE FilesWithin(c.sites[1])
    BY <1>5, <1>7, <2>1 DEF UncleanedWithin, FilesWithin, SitesOf
  <2>2. UncleanedWithin(c)
    BY <1>2, <1>7, <2>1 DEF UncleanedWithin
  <2>3. QED
    BY <1>6, <2>2 DEF SampleAccepted
<1>8. ASSUME CleanedWithin(s) PROVE c = s
  <2>1. /\ c.cpu = s.cpu /\ c.load = s.load /\ c.bytes = s.bytes
        /\ c.peak = s.peak /\ c.rate = s.rate /\ c.sites = s.sites
    BY <1>3, <1>4, <1>5, <1>8 DEF CleanedWithin, PointerCleaned
  <2>2. QED
    BY <1>1, <1>2, <2>1
<1>9. QED
  BY <1>6, <1>7, <1>8 DEF SampleCleaned, c

LEMMA StatusAlways == ASSUME NEW s \in StatusType PROVE StatusCleaned(s)
<1> DEFINE c == CleanStatus(s)
<1>1. /\ s.text \in Nat /\ s.uptime \in Nat /\ s.updates \in Pointer(Nat) /\ s.version \in Pointer(Nat)
      /\ s.cpus \in Pointer(Int) /\ s.docker \in Pointer(STRING)
      /\ s = [text |-> s.text, uptime |-> s.uptime, updates |-> s.updates, version |-> s.version,
              cpus |-> s.cpus, docker |-> s.docker]
  BY DEF StatusType
<1>2. /\ c.text = Truncate(s.text) /\ c.uptime = ClampInt(s.uptime)
      /\ c.updates = ClampIntPtr(s.updates) /\ c.version = TruncatePtr(s.version)
      /\ c.cpus = IF s.cpus # NotKnown /\ s.cpus[1] \notin 1..MaxCpus THEN NotKnown ELSE s.cpus
      /\ c.docker = IF s.docker = <<"other">> THEN NotKnown ELSE s.docker
      /\ c = [text |-> c.text, uptime |-> c.uptime, updates |-> c.updates, version |-> c.version,
              cpus |-> c.cpus, docker |-> c.docker]
  BY DEF CleanStatus
<1> HIDE DEF c
<1>3. /\ Within(c.text, MaxText) /\ (Within(s.text, MaxText) => c.text = s.text)
      /\ Within(c.uptime, MaxInt) /\ (Within(s.uptime, MaxInt) => c.uptime = s.uptime)
  BY <1>1, <1>2, ClampIntWithin, TruncateWithin
<1>4. PointerCleaned(s.updates, c.updates, MaxInt) /\ PointerCleaned(s.version, c.version, MaxText)
  BY <1>1, <1>2, ClampIntPtrCleaned, TruncatePtrCleaned
<1>5. /\ c.cpus = NotKnown \/ c.cpus[1] \in 1..MaxCpus
      /\ s.cpus = NotKnown \/ s.cpus[1] \in 1..MaxCpus => c.cpus = s.cpus
  BY <1>2
<1>6. /\ c.docker # <<"other">>
      /\ s.docker # <<"other">> => c.docker = s.docker
  <2>1. NotKnown # <<"other">>
    BY DEF NotKnown
  <2>2. QED
    BY <1>2, <2>1
<1>7. StatusAccepted(c)
  BY <1>3, <1>4, <1>5, <1>6 DEF StatusAccepted, PointerCleaned
<1>8. ASSUME StatusAccepted(s) PROVE c = s
  <2>1. /\ c.text = s.text /\ c.uptime = s.uptime /\ c.updates = s.updates
        /\ c.version = s.version /\ c.cpus = s.cpus /\ c.docker = s.docker
    BY <1>3, <1>4, <1>5, <1>6, <1>8 DEF StatusAccepted, PointerCleaned
  <2>2. QED
    BY <1>1, <1>2, <2>1
<1>9. QED
  BY <1>7, <1>8 DEF StatusCleaned, c

LEMMA EventAlways == ASSUME NEW e \in EventType PROVE EventCleaned(e)
<1> DEFINE c == CleanEvent(e)
<1>1. /\ e.name \in Nat /\ e.data \in Pointer(Nat)
      /\ e = [commandId |-> e.commandId, name |-> e.name, data |-> e.data]
  BY DEF EventType
<1>2. /\ c.commandId = (IF e.commandId = "other" THEN "" ELSE e.commandId)
      /\ c.name = Truncate(e.name) /\ c.data = TruncatePtr(e.data)
      /\ c = [commandId |-> c.commandId, name |-> c.name, data |-> c.data]
  BY DEF CleanEvent
<1> HIDE DEF c
<1>3. Within(c.name, MaxText) /\ (Within(e.name, MaxText) => c.name = e.name)
  BY <1>1, <1>2, TruncateWithin
<1>4. PointerCleaned(e.data, c.data, MaxText)
  BY <1>1, <1>2, TruncatePtrCleaned
<1>5. c.commandId # "other" /\ (e.commandId # "other" => c.commandId = e.commandId)
  BY <1>2
<1>6. EventAccepted(c)
  BY <1>3, <1>4, <1>5 DEF EventAccepted, PointerCleaned
<1>7. ASSUME EventAccepted(e) PROVE c = e
  <2>1. c.commandId = e.commandId /\ c.name = e.name /\ c.data = e.data
    BY <1>3, <1>4, <1>5, <1>7 DEF EventAccepted, PointerCleaned
  <2>2. QED
    BY <1>1, <1>2, <2>1
<1>8. QED
  BY <1>6, <1>7 DEF EventCleaned, c

\* "The agent keeps each value in its range" (clean.go): of each sample, status
\* and event that there can be, with any number of sites, each field that is
\* cleaned is in its range; the sample is accepted if the two fields that are not
\* cleaned, the files of its sites and its traffic, were in theirs; what was in
\* range stays as it was, and the sample says nothing else of the server
\* (cleanSample, cleanSites, cleanStatus, cleanEvent).
THEOREM CleanedValues ==
  /\ \A s \in SampleType : SampleCleaned(s)
  /\ \A s \in StatusType : StatusCleaned(s)
  /\ \A e \in EventType : EventCleaned(e)
BY SampleAlways, StatusAlways, EventAlways

\* Nothing that the agent cleans makes the control plane refuse its request
\* (clean.go:12-16), whatever samples, statuses and events the agent has.
THEOREM RequestsAccepted == Spec => []CleanedAccepted
<1>1. BadSamples = {} /\ BadStatus = {} /\ BadEvents = {}
  BY CleanedValues, InputsAssumption DEF BadSamples, BadStatus, BadEvents
<1>2. CleanedAccepted
  BY <1>1 DEF CleanedAccepted
<1>3. QED
  BY <1>2, PTL
=============================================================================
