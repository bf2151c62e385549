------------------------ MODULE AgentCommands_proofs ------------------------
(***************************************************************************)
(* Proofs about AgentCommands, for every set of commands and versions and   *)
(* every bound: the order of versions, type correctness, that a command     *)
(* runs at most one time, that no result is lost silently, that a poll      *)
(* comes after the results, that the agent installs no older version,       *)
(* that a chain of its installs over ordered versions does not come back,   *)
(* and that the results of one command agree.                               *)
(***************************************************************************)
EXTENDS AgentCommands, FiniteSetTheorems, TLAPS

-----------------------------------------------------------------------------
(***************************************************************************)
(* The order of versions, for every version.                                *)
(***************************************************************************)

\* compareVersions is a strict order on the versions that it orders: it is
\* irreflexive and transitive, and of two versions one at most is older.
THEOREM OlderIsStrict == \A a, b, c \in Version : OrderIsStrict(a, b, c)
BY DEF OrderIsStrict, Older, Same, Ordered, Precedes, HasPrerelease, Version

\* What the agent installs by itself, fly update calls newer.
THEOREM AgentAndFlyAgree == \A v, w \in Version : DecidersAgree(v, w)
BY DEF DecidersAgree, Older, Ordered, Precedes, HasPrerelease, IsNewer, IsComparable,
       PrecedesTag, Version

-----------------------------------------------------------------------------
(***************************************************************************)
(* The invariants.                                                          *)
(***************************************************************************)

\* The command of the step is set only between its first and its last step.
Between == {"down", "boot", "resolve", "idle", "send", "poll", "run", "check"}

\* cur is the command that the present step says, and one that was issued;
\* what is to be marked sent, installed or restarted for is in the ledger.
CurInv ==
  /\ pc \in Between => cur = NoCommand
  /\ cur # NoCommand => cur \in Issued
  /\ pc \in {"mark", "install"} => Has(cur)

\* The ledger knows only issued commands, and an entry is not older than its
\* command: what prune forgets, the control plane does not send any more.
AgeInv ==
  /\ todo \subseteq Issued
  /\ \A c \in Issued : issuedAt[c] <= day
  /\ \A c \in Commands : (Has(c) \/ ledgerFile[c] # "absent") =>
       c \in Issued /\ issuedAt[c] <= ranAt[c]

\* Before the effect of a command begins, it did not run, and the record of
\* the command is on the disk.
EffectInv ==
  ( \/ pc = "install"
    \/ pc = "exit" /\ cur # NoCommand /\ cmd[cur].verb = "restart" )
  => (cur \notin forgotten => ran[cur] = 0) /\ ledgerFile[cur] # "absent"

\* A command that ran is on record until the control plane stops to send it, or
\* until a start could not read the record.
RanInv ==
  \A c \in Commands \ forgotten : ran[c] # 0 =>
    /\ ran[c] = 1
    /\ c \in Issued
    /\ ledgerFile[c] # "absent" \/ Expired(c)
    /\ Up => Has(c) \/ (Expired(c) /\ c \notin todo)

IInv == TypeOK /\ CurInv /\ AgeInv /\ EffectInv /\ RanInv
-----------------------------------------------------------------------------
(***************************************************************************)
(* What the helpers do.                                                     *)
(***************************************************************************)

\* The parts of the queue that a batch or an eviction takes are events.
LEMMA QueueTypes ==
  ASSUME NEW q, q \subseteq Event
  PROVE  /\ \A n \in Nat : Newest(q, n) \subseteq Event /\ Oldest(q, n) \subseteq Event
         /\ Aged(q) \subseteq Event
         /\ Results(q) \subseteq Commands
<1>1. \A n \in Nat : Newest(q, n) \subseteq Event /\ Oldest(q, n) \subseteq Event
  BY DEF Newest, Oldest
<1>2. Aged(q) \subseteq Event
  <2> SUFFICES ASSUME NEW e \in q
               PROVE  [age |-> e.age + 1, name |-> e.name, cmd |-> e.cmd] \in Event
    BY DEF Aged
  <2>1. e \in Event
    OBVIOUS
  <2>2. CASE e \in [age : Nat, name : Verdicts, cmd : Commands]
    BY <2>2 DEF Event
  <2>3. CASE e \in [age : Nat, name : {"started"}, cmd : {NoCommand}]
    BY <2>3 DEF Event
  <2>4. QED
    BY <2>1, <2>2, <2>3 DEF Event
<1>3. Results(q) \subseteq Commands
  <2> SUFFICES ASSUME NEW e \in q, e.name # "started"
               PROVE  e.cmd \in Commands
    BY DEF Results
  <2>1. e \in Event
    OBVIOUS
  <2>2. QED
    BY <2>1 DEF Event
<1>4. QED
  BY <1>1, <1>2, <1>3

\* A failed write raises the number of failures and nothing else.
LEMMA SaveEventsType ==
  ASSUME TypeOK, NEW q, q \subseteq Event, SaveEvents(q)
  PROVE  events' \subseteq Event /\ eventsFile' \subseteq Event /\ diskErrors' \in Nat
BY DEF TypeOK, SaveEvents, WriteFails

\* addEvent keeps the queue a set of events, for a result and for a start.
LEMMA AddEventType ==
  ASSUME TypeOK, NEW name, NEW c, AddEvent(name, c),
         \/ name \in Verdicts /\ c \in Commands
         \/ name = "started" /\ c = NoCommand
  PROVE  /\ events' \subseteq Event /\ eventsFile' \subseteq Event
         /\ dropped' \subseteq Commands
         /\ diskErrors' \in Nat
<1> DEFINE old  == IF name = "started" THEN {e \in events : e.name # "started"} ELSE events
           q    == Aged(old) \cup {[age |-> 0, name |-> name, cmd |-> c]}
           kept == Newest(q, MaxEvents)
<1>1. old \subseteq Event
  BY DEF TypeOK
<1>2. [age |-> 0, name |-> name, cmd |-> c] \in Event
  BY DEF Event
<1>3. q \subseteq Event
  <2>1. Aged(old) \subseteq Event
    BY <1>1, QueueTypes
  <2>2. QED
    BY <2>1, <1>2
<1>4. kept \subseteq Event /\ Results(q \ kept) \subseteq Commands
  <2>1. MaxEvents \in Nat
    BY LimitsAssumption
  <2>2. kept \subseteq Event
    BY <2>1, <1>3, QueueTypes
  <2>3. q \ kept \subseteq Event
    BY <1>3
  <2>4. QED
    BY <2>2, <2>3, QueueTypes
<1>5. SaveEvents(kept) /\ dropped' = dropped \cup Results(q \ kept)
  BY DEF AddEvent
<1>6. QED
  BY <1>4, <1>5, SaveEventsType DEF TypeOK

\* The ledger of memory and of the disk after a save or an add.
LEMMA LedgerTypes ==
  ASSUME TypeOK
  PROVE  /\ \A l \in [Commands -> EntryState] : SaveLedger(l) =>
              /\ ledger' \in [Commands -> EntryState]
              /\ ledgerFile' \in [Commands -> EntryState]
              /\ diskErrors' \in Nat
         /\ \A c \in Commands, st \in EntryState : \A a, b : LedgerAdd(c, st, a, b) =>
              /\ ledger' \in [Commands -> EntryState]
              /\ ledgerFile' \in [Commands -> EntryState]
              /\ ranAt' \in [Commands -> Nat]
              /\ pc' \in {a, b}
              /\ diskErrors' \in Nat
BY DEF TypeOK, SaveLedger, LedgerAdd, WriteFails

LEMMA BatchType ==
  ASSUME TypeOK
  PROVE  Batch \subseteq Event /\ Results(Batch) \subseteq Commands
<1>1. Batch \subseteq Event
  BY QueueTypes, LimitsAssumption DEF TypeOK, Batch
<1>2. QED
  BY <1>1, QueueTypes

LEMMA AcceptedType ==
  ASSUME TypeOK
  PROVE  Accepted(Batch) \in [Commands -> SUBSET Verdicts]
<1>1. \A c \in Commands : {e.name : e \in {f \in Batch : f.cmd = c}} \subseteq Verdicts
  <2> SUFFICES ASSUME NEW e \in Batch, e.cmd \in Commands PROVE e.name \in Verdicts
    OBVIOUS
  <2>1. e \in Event
    BY BatchType
  <2>2. QED
    BY <2>1, NoCommandAssumption DEF Event
<1>2. QED
  BY <1>1 DEF TypeOK, Accepted

LEMMA PrunedType ==
  ASSUME TypeOK
  PROVE  Pruned \in [Commands -> EntryState]
BY DEF TypeOK, Pruned, EntryState

\* Init has the types, and each step keeps them.
LEMMA TypeInit == Init => TypeOK
BY VersionsAssumption DEF Init, NothingRan, TypeOK, EntryState

LEMMA TypeStep == TypeOK /\ [Next]_vars => TypeOK'
<1> SUFFICES ASSUME TypeOK, [Next]_vars PROVE TypeOK'
  OBVIOUS
<1>1. ASSUME NEW c \in Commands, Issue(c) PROVE TypeOK'
  BY <1>1 DEF TypeOK, EntryState, Issue, Issued, NotIssued, cpVars, diskVars, memVars, ghostVars, boundVars
<1>2. ASSUME NextDay PROVE TypeOK'
  BY <1>2 DEF TypeOK, EntryState, NextDay, cpVars, diskVars, memVars, ghostVars, boundVars
<1>3. ASSUME FlyStart PROVE TypeOK'
  BY <1>3 DEF TypeOK, EntryState, FlyStart, cpVars, diskVars, memVars, ghostVars, boundVars
<1>4. ASSUME NEW v \in Versions, FlyUpdate(v) PROVE TypeOK'
  BY <1>4 DEF TypeOK, EntryState, FlyUpdate, cpVars, diskVars, memVars, ghostVars, boundVars
<1>5. ASSUME FlyEnd PROVE TypeOK'
  BY <1>5 DEF TypeOK, EntryState, FlyEnd, cpVars, diskVars, memVars, ghostVars, boundVars
<1>6. ASSUME Stop PROVE TypeOK'
  BY <1>6, QueueTypes DEF TypeOK, EntryState, Stop, LoseMemory, NothingRan, cpVars, diskVars, memVars, ghostVars, boundVars
<1>7. ASSUME Start PROVE TypeOK'
  <2>1. PICK badQueue, badLedger \in BOOLEAN :
          /\ LoadEvents(badQueue) /\ LoadLedger(badLedger)
          /\ diskErrors' = diskErrors + Fault(badQueue) + Fault(badLedger)
    BY <1>7 DEF Start
  <2>2. events' \subseteq Event /\ eventsFile' \subseteq Event /\ lost' \subseteq Commands
    BY <2>1, QueueTypes DEF LoadEvents, TypeOK
  <2>3. /\ ledger' \in [Commands -> EntryState] /\ ledgerFile' \in [Commands -> EntryState]
        /\ forgotten' \subseteq Commands
    BY <2>1 DEF LoadLedger, NothingRan, TypeOK, EntryState
  <2>4. diskErrors' \in Nat
    BY <2>1 DEF Fault, TypeOK
  <2>5. QED
    BY <1>7, <2>2, <2>3, <2>4 DEF TypeOK, Start, cpVars
<1>8. ASSUME Exit PROVE TypeOK'
  BY <1>8, QueueTypes DEF TypeOK, EntryState, Exit, LoseMemory, NothingRan, cpVars, diskVars, memVars, ghostVars, boundVars
<1>9. ASSUME AddStarted PROVE TypeOK'
  BY <1>9, AddEventType DEF TypeOK, EntryState, AddStarted, cpVars, diskVars, memVars, ghostVars, boundVars
<1>10. ASSUME NEW c \in Commands, ResolveOne(c) PROVE TypeOK'
  <2>1. /\ events' \subseteq Event /\ eventsFile' \subseteq Event
        /\ dropped' \subseteq Commands /\ diskErrors' \in Nat
    BY <1>10, AddEventType DEF TypeOK, Verdicts, ResolveOne
  <2>2. QED
    BY <1>10, <2>1 DEF TypeOK, ResolveOne, cpVars, diskVars, memVars, ghostVars, boundVars
<1>11. ASSUME MarkSent PROVE TypeOK'
  BY <1>11, LedgerTypes DEF TypeOK, EntryState, MarkSent, cpVars, diskVars, memVars, ghostVars, boundVars
<1>12. ASSUME Resolved PROVE TypeOK'
  BY <1>12 DEF TypeOK, EntryState, Resolved, cpVars, diskVars, memVars, ghostVars, boundVars
<1>13. ASSUME Report PROVE TypeOK'
  BY <1>13 DEF TypeOK, EntryState, Report, cpVars, diskVars, memVars, ghostVars, boundVars
<1>14. ASSUME NoReport PROVE TypeOK'
  BY <1>14 DEF TypeOK, EntryState, NoReport, cpVars, diskVars, memVars, ghostVars, boundVars
<1>15. ASSUME PostSent PROVE TypeOK'
  BY <1>15, SaveEventsType, BatchType, AcceptedType DEF TypeOK, EntryState, PostSent, cpVars, diskVars, memVars, ghostVars, boundVars
<1>16. ASSUME PostRefused PROVE TypeOK'
  BY <1>16, SaveEventsType, BatchType DEF TypeOK, EntryState, PostRefused, cpVars, diskVars, memVars, ghostVars, boundVars
<1>17. ASSUME PostLater PROVE TypeOK'
  BY <1>17, AcceptedType DEF TypeOK, PostLater, AfterUnsent, cpVars, diskVars, memVars, ghostVars, boundVars
<1>18. ASSUME SendDone PROVE TypeOK'
  BY <1>18 DEF TypeOK, EntryState, SendDone, cpVars, diskVars, memVars, ghostVars, boundVars
<1>19. ASSUME Poll PROVE TypeOK'
  BY <1>19, LedgerTypes, PrunedType DEF TypeOK, EntryState, Poll, Sendable, Open, Issued, cpVars, diskVars, memVars, ghostVars, boundVars
<1>20. ASSUME PollFailed PROVE TypeOK'
  BY <1>20 DEF TypeOK, EntryState, PollFailed, cpVars, diskVars, memVars, ghostVars, boundVars
<1>21. ASSUME NEW c \in Commands, SkipRan(c) PROVE TypeOK'
  BY <1>21 DEF TypeOK, EntryState, SkipRan, cpVars, diskVars, memVars, ghostVars, boundVars
<1>22. ASSUME NEW c \in Commands, RunRestart(c) PROVE TypeOK'
  BY <1>22, LedgerTypes DEF TypeOK, EntryState, RunRestart, Take, cpVars, diskVars, memVars, ghostVars, boundVars
<1>23. ASSUME NEW c \in Commands, RunUnknown(c) PROVE TypeOK'
  <2>1. /\ events' \subseteq Event /\ eventsFile' \subseteq Event
        /\ dropped' \subseteq Commands /\ diskErrors' \in Nat
    BY <1>23, AddEventType DEF TypeOK, Verdicts, RunUnknown, Take
  <2>2. QED
    BY <1>23, <2>1 DEF TypeOK, RunUnknown, Take, cpVars, diskVars, memVars, ghostVars, boundVars
<1>24. ASSUME NEW c \in Commands, RunRefused(c) PROVE TypeOK'
  BY <1>24 DEF TypeOK, EntryState, RunRefused, Take, cpVars, diskVars, memVars, ghostVars, boundVars
<1>25. ASSUME NEW c \in Commands, RunSame(c) PROVE TypeOK'
  <2>1. /\ events' \subseteq Event /\ eventsFile' \subseteq Event
        /\ dropped' \subseteq Commands /\ diskErrors' \in Nat
    BY <1>25, AddEventType DEF TypeOK, Verdicts, RunSame, Take
  <2>2. QED
    BY <1>25, <2>1 DEF TypeOK, RunSame, Take, cpVars, diskVars, memVars, ghostVars, boundVars
<1>26. ASSUME NEW c \in Commands, RunUpdate(c) PROVE TypeOK'
  BY <1>26, LedgerTypes DEF TypeOK, EntryState, RunUpdate, Take, cpVars, diskVars, memVars, ghostVars, boundVars
<1>27. ASSUME Installed PROVE TypeOK'
  BY <1>27, VersionsAssumption DEF TypeOK, Kinds, NotIssued, Installed, cpVars, diskVars, memVars, ghostVars, boundVars
<1>28. ASSUME InstallFailed PROVE TypeOK'
  <2>1. /\ events' \subseteq Event /\ eventsFile' \subseteq Event
        /\ dropped' \subseteq Commands /\ diskErrors' \in Nat
    BY <1>28, AddEventType DEF TypeOK, Verdicts, InstallFailed
  <2>2. QED
    BY <1>28, <2>1 DEF TypeOK, InstallFailed, cpVars, diskVars, memVars, ghostVars, boundVars
<1>29. ASSUME AddFailed PROVE TypeOK'
  <2>1. /\ events' \subseteq Event /\ eventsFile' \subseteq Event
        /\ dropped' \subseteq Commands /\ diskErrors' \in Nat
    BY <1>29, AddEventType DEF TypeOK, Verdicts, AddFailed
  <2>2. QED
    BY <1>29, <2>1 DEF TypeOK, AddFailed, cpVars, diskVars, memVars, ghostVars, boundVars
<1>30. ASSUME Record PROVE TypeOK'
  <2>1. cur \in Commands /\ "sent" \in EntryState
    BY <1>30 DEF Record, TypeOK, EntryState
  <2>2. CASE Has(cur)
    <3>1. [ledger EXCEPT ![cur] = "sent"] \in [Commands -> EntryState]
      BY <2>1 DEF TypeOK
    <3>2. QED
      BY <1>30, <2>2, <3>1, LedgerTypes DEF TypeOK, Record, cpVars, diskVars, memVars, ghostVars, boundVars
  <2>3. CASE ~Has(cur)
    BY <1>30, <2>1, <2>3, LedgerTypes DEF TypeOK, Record, cpVars, diskVars, memVars, ghostVars, boundVars
  <2>4. QED
    BY <2>2, <2>3
<1>31. ASSUME CommandsDone PROVE TypeOK'
  BY <1>31 DEF TypeOK, EntryState, CommandsDone, cpVars, diskVars, memVars, ghostVars, boundVars
<1>32. ASSUME NEW v \in Versions, AutoInstall(v) PROVE TypeOK'
  BY <1>32 DEF TypeOK, EntryState, AutoInstall, cpVars, diskVars, memVars, ghostVars, boundVars
<1>33. ASSUME TickDone PROVE TypeOK'
  BY <1>33 DEF TypeOK, EntryState, TickDone, cpVars, diskVars, memVars, ghostVars, boundVars
<1>34. CASE UNCHANGED vars
  BY <1>34 DEF TypeOK, vars, cpVars, diskVars, memVars, ghostVars, boundVars
<1>35. QED
  BY <1>1, <1>2, <1>3, <1>4, <1>5, <1>6, <1>7, <1>8, <1>9, <1>10, <1>11, <1>12, <1>13, <1>14, <1>15, <1>16, <1>17, <1>18, <1>19, <1>20, <1>21, <1>22, <1>23, <1>24, <1>25, <1>26, <1>27, <1>28, <1>29, <1>30, <1>31, <1>32, <1>33, <1>34 DEF Next, Environment, Agent, Command

\* Each variable keeps its type, in memory and on the disk.
THEOREM TypeCorrect == Spec => []TypeOK
<1>1. QED
  BY TypeInit, TypeStep, PTL DEF Spec

\* The agent and fly update agree about each version, whichever one runs.
THEOREM DecidersKeepAgreeing == Spec => []SameDecision
<1>1. TypeOK => SameDecision
  BY AgentAndFlyAgree, VersionsAssumption DEF TypeOK, SameDecision
<1>2. QED
  BY <1>1, TypeCorrect, PTL

-----------------------------------------------------------------------------
(***************************************************************************)
(* A command runs at most one time.                                         *)
(***************************************************************************)

LEMMA RunsInit == Init => IInv
BY TypeInit DEF Init, NothingRan, IInv, CurInv, AgeInv, EffectInv, RanInv, Between, Has, Up,
                Expired, Issued, NotIssued

LEMMA RunsStep == IInv /\ [Next]_vars => IInv'
<1> SUFFICES ASSUME IInv, [Next]_vars PROVE CurInv' /\ AgeInv' /\ EffectInv' /\ RanInv'
  BY TypeStep DEF IInv
<1>1. ASSUME NEW c \in Commands, Issue(c) PROVE CurInv' /\ AgeInv' /\ EffectInv' /\ RanInv'
  BY <1>1, NoCommandAssumption DEF IInv, TypeOK, CurInv, AgeInv, EffectInv, RanInv, Between, Has, Up, Expired, Issued, Issue, NotIssued, Kinds, cpVars, diskVars, memVars, ghostVars, boundVars
<1>2. ASSUME NextDay PROVE CurInv' /\ AgeInv' /\ EffectInv' /\ RanInv'
  <2>1. /\ day' = day + 1
        /\ UNCHANGED <<cmd, issuedAt, ledgerFile, pc, ledger, todo, cur, ranAt, ran, forgotten>>
    BY <1>2 DEF NextDay, cpVars, diskVars, memVars, ghostVars, boundVars
  <2>2. \A c \in Commands : Expired(c) => Expired(c)'
    BY <2>1, LimitsAssumption DEF IInv, TypeOK, Expired
  <2>3. CurInv' /\ EffectInv'
    BY <2>1 DEF IInv, CurInv, EffectInv, Between, Has, Issued
  <2>4. AgeInv'
    BY <2>1 DEF IInv, TypeOK, AgeInv, Has, Issued
  <2>5. RanInv'
    BY <2>1, <2>2 DEF IInv, RanInv, Has, Up, Issued
  <2>6. QED
    BY <2>3, <2>4, <2>5
<1>3. ASSUME FlyStart PROVE CurInv' /\ AgeInv' /\ EffectInv' /\ RanInv'
  BY <1>3, NoCommandAssumption DEF IInv, TypeOK, CurInv, AgeInv, EffectInv, RanInv, Between, Has, Up, Expired, Issued, FlyStart, cpVars, diskVars, memVars, ghostVars, boundVars
<1>4. ASSUME NEW v \in Versions, FlyUpdate(v) PROVE CurInv' /\ AgeInv' /\ EffectInv' /\ RanInv'
  BY <1>4, NoCommandAssumption DEF IInv, TypeOK, CurInv, AgeInv, EffectInv, RanInv, Between, Has, Up, Expired, Issued, FlyUpdate, cpVars, diskVars, memVars, ghostVars, boundVars
<1>5. ASSUME FlyEnd PROVE CurInv' /\ AgeInv' /\ EffectInv' /\ RanInv'
  BY <1>5, NoCommandAssumption DEF IInv, TypeOK, CurInv, AgeInv, EffectInv, RanInv, Between, Has, Up, Expired, Issued, FlyEnd, cpVars, diskVars, memVars, ghostVars, boundVars
<1>6. ASSUME Stop PROVE CurInv' /\ AgeInv' /\ EffectInv' /\ RanInv'
  BY <1>6, NoCommandAssumption DEF IInv, TypeOK, CurInv, AgeInv, EffectInv, RanInv, Between, Has, Up, Expired, Issued, Stop, LoseMemory, NothingRan, cpVars, diskVars, memVars, ghostVars, boundVars
<1>7. ASSUME Start PROVE CurInv' /\ AgeInv' /\ EffectInv' /\ RanInv'
  <2>1. /\ pc' = "boot" /\ cur' = NoCommand /\ todo' = {} /\ forgotten \subseteq forgotten'
        /\ UNCHANGED <<cmd, issuedAt, day, ranAt, ran>>
    BY <1>7 DEF Start, LoadLedger, cpVars
  <2>2. \A c \in Commands : /\ ledger'[c] \in {"absent", ledgerFile[c]}
                            /\ ledgerFile'[c] \in {"absent", ledgerFile[c]}
                            /\ \/ c \in forgotten' \/ ledgerFile[c] = "absent"
                               \/ ledger'[c] = ledgerFile[c] /\ ledgerFile'[c] = ledgerFile[c]
    BY <1>7 DEF Start, LoadLedger, NothingRan
  <2>3. CurInv' /\ EffectInv'
    BY <2>1 DEF CurInv, EffectInv, Between
  <2>4. AgeInv'
    BY <2>1, <2>2 DEF IInv, TypeOK, AgeInv, Has, Issued
  <2>5. RanInv'
    BY <2>1, <2>2 DEF IInv, RanInv, Has, Up, Issued, Expired
  <2>6. QED
    BY <2>3, <2>4, <2>5
<1>8. ASSUME Exit PROVE CurInv' /\ AgeInv' /\ EffectInv' /\ RanInv'
  BY <1>8, NoCommandAssumption DEF IInv, TypeOK, CurInv, AgeInv, EffectInv, RanInv, Between, Has, Up, Expired, Issued, Exit, LoseMemory, NothingRan, cpVars, diskVars, memVars, ghostVars, boundVars
<1>9. ASSUME AddStarted PROVE CurInv' /\ AgeInv' /\ EffectInv' /\ RanInv'
  BY <1>9, NoCommandAssumption DEF IInv, TypeOK, CurInv, AgeInv, EffectInv, RanInv, Between, Has, Up, Expired, Issued, AddStarted, cpVars, diskVars, memVars, ghostVars, boundVars
<1>10. ASSUME NEW c \in Commands, ResolveOne(c) PROVE CurInv' /\ AgeInv' /\ EffectInv' /\ RanInv'
  BY <1>10, NoCommandAssumption DEF IInv, TypeOK, CurInv, AgeInv, EffectInv, RanInv, Between, Has, Up, Expired, Issued, ResolveOne, cpVars, diskVars, memVars, ghostVars, boundVars
<1>11. ASSUME MarkSent PROVE CurInv' /\ AgeInv' /\ EffectInv' /\ RanInv'
  BY <1>11, NoCommandAssumption DEF IInv, TypeOK, CurInv, AgeInv, EffectInv, RanInv, Between, Has, Up, Expired, Issued, MarkSent, SaveLedger, cpVars, diskVars, memVars, ghostVars, boundVars
<1>12. ASSUME Resolved PROVE CurInv' /\ AgeInv' /\ EffectInv' /\ RanInv'
  BY <1>12, NoCommandAssumption DEF IInv, TypeOK, CurInv, AgeInv, EffectInv, RanInv, Between, Has, Up, Expired, Issued, Resolved, cpVars, diskVars, memVars, ghostVars, boundVars
<1>13. ASSUME Report PROVE CurInv' /\ AgeInv' /\ EffectInv' /\ RanInv'
  BY <1>13, NoCommandAssumption DEF IInv, TypeOK, CurInv, AgeInv, EffectInv, RanInv, Between, Has, Up, Expired, Issued, Report, cpVars, diskVars, memVars, ghostVars, boundVars
<1>14. ASSUME NoReport PROVE CurInv' /\ AgeInv' /\ EffectInv' /\ RanInv'
  BY <1>14, NoCommandAssumption DEF IInv, TypeOK, CurInv, AgeInv, EffectInv, RanInv, Between, Has, Up, Expired, Issued, NoReport, cpVars, diskVars, memVars, ghostVars, boundVars
<1>15. ASSUME PostSent PROVE CurInv' /\ AgeInv' /\ EffectInv' /\ RanInv'
  BY <1>15, NoCommandAssumption DEF IInv, TypeOK, CurInv, AgeInv, EffectInv, RanInv, Between, Has, Up, Expired, Issued, PostSent, cpVars, diskVars, memVars, ghostVars, boundVars
<1>16. ASSUME PostRefused PROVE CurInv' /\ AgeInv' /\ EffectInv' /\ RanInv'
  BY <1>16, NoCommandAssumption DEF IInv, TypeOK, CurInv, AgeInv, EffectInv, RanInv, Between, Has, Up, Expired, Issued, PostRefused, cpVars, diskVars, memVars, ghostVars, boundVars
<1>17. ASSUME PostLater PROVE CurInv' /\ AgeInv' /\ EffectInv' /\ RanInv'
  BY <1>17, NoCommandAssumption DEF IInv, TypeOK, CurInv, AgeInv, EffectInv, RanInv, Between, Has, Up, Expired, Issued, PostLater, AfterUnsent, cpVars, diskVars, memVars, ghostVars, boundVars
<1>18. ASSUME SendDone PROVE CurInv' /\ AgeInv' /\ EffectInv' /\ RanInv'
  BY <1>18, NoCommandAssumption DEF IInv, TypeOK, CurInv, AgeInv, EffectInv, RanInv, Between, Has, Up, Expired, Issued, SendDone, cpVars, diskVars, memVars, ghostVars, boundVars
<1>19. ASSUME Poll PROVE CurInv' /\ AgeInv' /\ EffectInv' /\ RanInv'
  BY <1>19, LimitsAssumption, NoCommandAssumption DEF IInv, TypeOK, CurInv, AgeInv, EffectInv, RanInv, Between, Has, Up, Expired, Issued, Poll, SaveLedger, Sendable, Open, Pruned, cpVars, diskVars, memVars, ghostVars, boundVars
<1>20. ASSUME PollFailed PROVE CurInv' /\ AgeInv' /\ EffectInv' /\ RanInv'
  BY <1>20, NoCommandAssumption DEF IInv, TypeOK, CurInv, AgeInv, EffectInv, RanInv, Between, Has, Up, Expired, Issued, PollFailed, cpVars, diskVars, memVars, ghostVars, boundVars
<1>21. ASSUME NEW c \in Commands, SkipRan(c) PROVE CurInv' /\ AgeInv' /\ EffectInv' /\ RanInv'
  BY <1>21, NoCommandAssumption DEF IInv, TypeOK, CurInv, AgeInv, EffectInv, RanInv, Between, Has, Up, Expired, Issued, SkipRan, cpVars, diskVars, memVars, ghostVars, boundVars
<1>22. ASSUME NEW c \in Commands, RunRestart(c) PROVE CurInv' /\ AgeInv' /\ EffectInv' /\ RanInv'
  BY <1>22, NoCommandAssumption DEF IInv, TypeOK, CurInv, AgeInv, EffectInv, RanInv, Between, Has, Up, Expired, Issued, RunRestart, Take, LedgerAdd, cpVars, diskVars, memVars, ghostVars, boundVars
<1>23. ASSUME NEW c \in Commands, RunUnknown(c) PROVE CurInv' /\ AgeInv' /\ EffectInv' /\ RanInv'
  BY <1>23, NoCommandAssumption DEF IInv, TypeOK, CurInv, AgeInv, EffectInv, RanInv, Between, Has, Up, Expired, Issued, RunUnknown, Take, cpVars, diskVars, memVars, ghostVars, boundVars
<1>24. ASSUME NEW c \in Commands, RunRefused(c) PROVE CurInv' /\ AgeInv' /\ EffectInv' /\ RanInv'
  BY <1>24, NoCommandAssumption DEF IInv, TypeOK, CurInv, AgeInv, EffectInv, RanInv, Between, Has, Up, Expired, Issued, RunRefused, Take, cpVars, diskVars, memVars, ghostVars, boundVars
<1>25. ASSUME NEW c \in Commands, RunSame(c) PROVE CurInv' /\ AgeInv' /\ EffectInv' /\ RanInv'
  BY <1>25, NoCommandAssumption DEF IInv, TypeOK, CurInv, AgeInv, EffectInv, RanInv, Between, Has, Up, Expired, Issued, RunSame, Take, cpVars, diskVars, memVars, ghostVars, boundVars
<1>26. ASSUME NEW c \in Commands, RunUpdate(c) PROVE CurInv' /\ AgeInv' /\ EffectInv' /\ RanInv'
  BY <1>26, NoCommandAssumption DEF IInv, TypeOK, CurInv, AgeInv, EffectInv, RanInv, Between, Has, Up, Expired, Issued, RunUpdate, Take, LedgerAdd, cpVars, diskVars, memVars, ghostVars, boundVars
<1>27. ASSUME Installed PROVE CurInv' /\ AgeInv' /\ EffectInv' /\ RanInv'
  BY <1>27, NoCommandAssumption DEF IInv, TypeOK, CurInv, AgeInv, EffectInv, RanInv, Between, Has, Up, Expired, Issued, Installed, cpVars, diskVars, memVars, ghostVars, boundVars
<1>28. ASSUME InstallFailed PROVE CurInv' /\ AgeInv' /\ EffectInv' /\ RanInv'
  BY <1>28, NoCommandAssumption DEF IInv, TypeOK, CurInv, AgeInv, EffectInv, RanInv, Between, Has, Up, Expired, Issued, InstallFailed, cpVars, diskVars, memVars, ghostVars, boundVars
<1>29. ASSUME AddFailed PROVE CurInv' /\ AgeInv' /\ EffectInv' /\ RanInv'
  BY <1>29, NoCommandAssumption DEF IInv, TypeOK, CurInv, AgeInv, EffectInv, RanInv, Between, Has, Up, Expired, Issued, AddFailed, cpVars, diskVars, memVars, ghostVars, boundVars
<1>30. ASSUME Record PROVE CurInv' /\ AgeInv' /\ EffectInv' /\ RanInv'
  BY <1>30, NoCommandAssumption DEF IInv, TypeOK, CurInv, AgeInv, EffectInv, RanInv, Between, Has, Up, Expired, Issued, Record, SaveLedger, LedgerAdd, cpVars, diskVars, memVars, ghostVars, boundVars
<1>31. ASSUME CommandsDone PROVE CurInv' /\ AgeInv' /\ EffectInv' /\ RanInv'
  BY <1>31, NoCommandAssumption DEF IInv, TypeOK, CurInv, AgeInv, EffectInv, RanInv, Between, Has, Up, Expired, Issued, CommandsDone, cpVars, diskVars, memVars, ghostVars, boundVars
<1>32. ASSUME NEW v \in Versions, AutoInstall(v) PROVE CurInv' /\ AgeInv' /\ EffectInv' /\ RanInv'
  BY <1>32, NoCommandAssumption DEF IInv, TypeOK, CurInv, AgeInv, EffectInv, RanInv, Between, Has, Up, Expired, Issued, AutoInstall, cpVars, diskVars, memVars, ghostVars, boundVars
<1>33. ASSUME TickDone PROVE CurInv' /\ AgeInv' /\ EffectInv' /\ RanInv'
  BY <1>33, NoCommandAssumption DEF IInv, TypeOK, CurInv, AgeInv, EffectInv, RanInv, Between, Has, Up, Expired, Issued, TickDone, cpVars, diskVars, memVars, ghostVars, boundVars
<1>34. CASE UNCHANGED vars
  BY <1>34 DEF IInv, TypeOK, CurInv, AgeInv, EffectInv, RanInv, Between, Has, Up, Expired, Issued, vars, cpVars, diskVars, memVars, ghostVars, boundVars
<1>35. QED
  BY <1>1, <1>2, <1>3, <1>4, <1>5, <1>6, <1>7, <1>8, <1>9, <1>10, <1>11, <1>12, <1>13, <1>14, <1>15, <1>16, <1>17, <1>18, <1>19, <1>20, <1>21, <1>22, <1>23, <1>24, <1>25, <1>26, <1>27, <1>28, <1>29, <1>30, <1>31, <1>32, <1>33, <1>34 DEF Next, Environment, Agent, Command

\* "Each command runs at most one time, also after a crash": no restart and
\* no install of a command begins a second time.
THEOREM AtMostOnce == Spec => []RunsAtMostOnce
<1>1. IInv => RunsAtMostOnce
  BY DEF IInv, TypeOK, RanInv, RunsAtMostOnce
<1>2. QED
  BY <1>1, RunsInit, RunsStep, PTL DEF Spec

-----------------------------------------------------------------------------
(***************************************************************************)
(* The result of a command is not lost. It moves: to the queue, to the file *)
(* of the queue, to the control plane; and the mark in the ledger follows.  *)
(***************************************************************************)

\* The result of c is in the queue in memory, or at the control plane, or it was
\* dropped or lost by one of the two rules that ResultNotLost names.
Safe(c) == answers[c] # {} \/ c \in dropped \cup lost \cup Results(events)

\* While the process runs: what is marked in memory or on the disk, and what the
\* next process would find in the file of the queue, is safe without that file.
KeptInv ==
  Up => \A c \in Commands :
    ledger[c] = "sent" \/ ledgerFile[c] = "sent" \/ c \in Results(eventsFile) => Safe(c)

\* Without a process, the file of the queue has what the file of the ledger needs.
DownInv ==
  pc = "down" =>
    /\ events = {}
    /\ \A c \in Commands : ledgerFile[c] = "sent" => Safe(c) \/ c \in Results(eventsFile)

\* The event comes before its mark.
EventFirst == pc \in {"mark", "record"} => Safe(cur)

\* After resolve, only the command of the present step has no result yet.
OpenInv ==
  /\ pc \in {"boot", "resolve"} => phase = "boot"
  /\ pc \in {"idle", "send", "poll", "run", "check"} => \A c \in Commands : ledger[c] # "open"
  /\ pc \in {"install", "fail", "record"} \/ (pc = "mark" /\ phase # "boot") =>
       \A c \in Commands : ledger[c] = "open" => c = cur

PollInv == pc = "poll" => events = {}

ResultsInv == KeptInv /\ DownInv /\ EventFirst /\ OpenInv /\ PollInv

\* What a step of the running process does to results that are safe.
Keeps ==
  /\ \A c \in Commands : answers[c] # {} => answers'[c] # {}
  /\ dropped \subseteq dropped' /\ lost \subseteq lost'
  /\ \A c \in Results(events) : c \in Results(events') \cup dropped' \/ answers'[c] # {}
  /\ eventsFile' = eventsFile \/ eventsFile' = events'

LEMMA SafeStays ==
  ASSUME Keeps, NEW c \in Commands
  PROVE  /\ Safe(c) => Safe(c)'
         /\ c \in Results(events') => Safe(c)'
BY DEF Keeps, Safe

\* addEvent: each result of the queue, and the new one, is in the queue or was
\* evicted; the other fields of an event do not change with its age.
LEMMA AddEventKeeps ==
  ASSUME TypeOK, NEW name, NEW c, AddEvent(name, c)
  PROVE  /\ \A d \in Results(events) : d \in Results(events') \cup dropped'
         /\ name # "started" => c \in Results(events') \cup dropped'
         /\ dropped \subseteq dropped'
         /\ eventsFile' = eventsFile \/ eventsFile' = events'
         /\ \A e \in events' : \/ e.name = name /\ e.cmd = c
                               \/ \E f \in events : e.name = f.name /\ e.cmd = f.cmd
<1> DEFINE old  == IF name = "started" THEN {e \in events : e.name # "started"} ELSE events
           new  == [age |-> 0, name |-> name, cmd |-> c]
           q    == Aged(old) \cup {new}
           kept == Newest(q, MaxEvents)
<1>1. events' = kept /\ dropped' = dropped \cup Results(q \ kept)
      /\ (eventsFile' = eventsFile \/ eventsFile' = events')
  BY DEF AddEvent, SaveEvents
<1>2. kept \subseteq q
  BY DEF Newest
<1>3. ASSUME NEW d \in Results(events) PROVE d \in Results(q)
  <2>1. PICK e \in events : e.name # "started" /\ e.cmd = d
    BY <1>3 DEF Results
  <2>2. e \in old
    BY <2>1
  <2>3. [age |-> e.age + 1, name |-> e.name, cmd |-> e.cmd] \in q
    BY <2>2 DEF Aged
  <2>4. \E f \in q : f.name # "started" /\ f.cmd = d
    BY <2>1, <2>3
  <2> HIDE DEF q
  <2>5. QED
    BY <2>4 DEF Results
<1>4. name # "started" => c \in Results(q)
  <2>1. new \in q /\ new.name = name /\ new.cmd = c
    OBVIOUS
  <2> HIDE DEF q, new
  <2>2. QED
    BY <2>1 DEF Results
<1>5. \A d \in Results(q) : d \in Results(kept) \cup Results(q \ kept)
  BY DEF Results
<1>6. \A e \in q : e = new \/ \E f \in events : e.name = f.name /\ e.cmd = f.cmd
  BY DEF Aged
<1> HIDE DEF q, kept
<1>7. \A e \in events' : \/ e.name = name /\ e.cmd = c
                         \/ \E f \in events : e.name = f.name /\ e.cmd = f.cmd
  BY <1>1, <1>2, <1>6
<1>8. QED
  BY <1>1, <1>3, <1>4, <1>5, <1>7

\* What the control plane accepts is an answer to each command of the batch.
LEMMA AcceptedAnswers ==
  ASSUME TypeOK
  PROVE  /\ \A c \in Commands : answers[c] \subseteq Accepted(Batch)[c]
         /\ \A c \in Results(Batch) : c \in Commands /\ Accepted(Batch)[c] # {}
         /\ \A c \in Results(events) : c \in Results(events \ Batch) \cup Results(Batch)
<1>1. \A c \in Commands : Accepted(Batch)[c] = answers[c] \cup {e.name : e \in {f \in Batch : f.cmd = c}}
  BY DEF Accepted
<1>2. ASSUME NEW c \in Results(Batch) PROVE c \in Commands /\ Accepted(Batch)[c] # {}
  <2>1. PICK e \in Batch : e.name # "started" /\ e.cmd = c
    BY <1>2 DEF Results
  <2>2. c \in Commands
    BY BatchType
  <2>3. e.name \in {d.name : d \in {f \in Batch : f.cmd = c}}
    BY <2>1
  <2>4. QED
    BY <1>1, <2>2, <2>3
<1>3. \A c \in Results(events) : c \in Results(events \ Batch) \cup Results(Batch)
  BY DEF Results
<1>4. QED
  BY <1>1, <1>2, <1>3

\* Each step but a start and an end of the process keeps results safe.
LEMMA QueueKeeps ==
  ASSUME TypeOK, [Next]_vars, ~Start, ~Stop, ~Exit
  PROVE  Keeps
<1>1. CASE UNCHANGED <<answers, dropped, lost, events, eventsFile>>
  BY <1>1 DEF Keeps
<1>2. ASSUME NEW name, NEW c, AddEvent(name, c), UNCHANGED <<answers, lost>> PROVE Keeps
  BY <1>2, AddEventKeeps DEF Keeps
<1>3. CASE PostSent
  <2>1. /\ answers' = Accepted(Batch) /\ events' = events \ Batch /\ UNCHANGED <<dropped, lost>>
        /\ eventsFile' = eventsFile \/ eventsFile' = events'
    BY <1>3 DEF PostSent, SaveEvents, ghostVars
  <2>2. QED
    BY <2>1, AcceptedAnswers DEF Keeps
<1>4. CASE PostRefused
  <2>1. /\ events' = events \ Batch /\ dropped' = dropped \cup Results(Batch) /\ UNCHANGED <<answers, lost>>
        /\ eventsFile' = eventsFile \/ eventsFile' = events'
    BY <1>4 DEF PostRefused, SaveEvents, cpVars
  <2>2. QED
    BY <2>1, AcceptedAnswers DEF Keeps
<1>5. CASE PostLater
  <2>1. /\ answers' = answers \/ answers' = Accepted(Batch)
        /\ UNCHANGED <<dropped, lost, events, eventsFile>>
    BY <1>5 DEF PostLater, memVars, diskVars, ghostVars
  <2>2. \A c \in Commands : answers[c] # {} => answers'[c] # {}
    BY <2>1, AcceptedAnswers
  <2>3. QED
    BY <2>1, <2>2 DEF Keeps
<1>6. CASE AddStarted
  BY <1>2, <1>6 DEF AddStarted, cpVars
<1>7. ASSUME NEW c \in Commands, ResolveOne(c) PROVE Keeps
  BY <1>2, <1>7 DEF ResolveOne, cpVars
<1>8. ASSUME NEW c \in Commands, RunUnknown(c) PROVE Keeps
  BY <1>2, <1>8 DEF RunUnknown, cpVars
<1>9. ASSUME NEW c \in Commands, RunSame(c) PROVE Keeps
  BY <1>2, <1>9 DEF RunSame, cpVars
<1>10. CASE InstallFailed
  BY <1>2, <1>10 DEF InstallFailed, cpVars
<1>11. CASE AddFailed
  BY <1>2, <1>11 DEF AddFailed, cpVars
<1>12. CASE UNCHANGED vars
  BY <1>1, <1>12 DEF vars, cpVars, diskVars, memVars, ghostVars
<1>13. CASE Environment
  BY <1>1, <1>13 DEF Environment, Issue, NextDay, FlyStart, FlyUpdate, FlyEnd,
     cpVars, diskVars, memVars, ghostVars
<1>14. CASE MarkSent \/ Resolved \/ Report \/ NoReport \/ SendDone \/ Poll \/ PollFailed
            \/ Installed \/ Record \/ CommandsDone \/ TickDone
  BY <1>1, <1>14 DEF MarkSent, Resolved, Report, NoReport, SendDone, Poll, PollFailed,
     Installed, Record, CommandsDone, TickDone, cpVars, diskVars, memVars, ghostVars
<1>15. CASE \E c \in Commands : SkipRan(c) \/ RunRestart(c) \/ RunRefused(c) \/ RunUpdate(c)
  BY <1>1, <1>15 DEF SkipRan, RunRestart, RunRefused, RunUpdate, cpVars, diskVars, memVars, ghostVars
<1>16. CASE \E v \in Versions : AutoInstall(v)
  BY <1>1, <1>16 DEF AutoInstall, cpVars, diskVars, memVars, ghostVars
<1>17. QED
  BY <1>3, <1>4, <1>5, <1>6, <1>7, <1>8, <1>9, <1>10, <1>11, <1>12, <1>13, <1>14, <1>15, <1>16
  DEF Next, Agent, Command

\* A mark comes from an earlier mark, or its result is safe.
Marked(c) == ledger[c] = "sent" \/ ledgerFile[c] = "sent"
MarkedSafe == \A c \in Commands : Marked(c)' => Marked(c) \/ Safe(c)'

LEMMA KeptAcross ==
  ASSUME TypeOK, ResultsInv, Keeps, Up, Up', MarkedSafe
  PROVE  KeptInv' /\ DownInv'
<1>1. ASSUME NEW c \in Commands, Marked(c)' \/ c \in Results(eventsFile')
      PROVE  Safe(c)'
  <2>1. CASE Marked(c)'
    BY <1>1, <2>1, SafeStays DEF ResultsInv, KeptInv, Marked, MarkedSafe
  <2>2. CASE c \in Results(eventsFile')
    BY <1>1, <2>2, SafeStays DEF ResultsInv, KeptInv, Keeps
  <2>3. QED
    BY <1>1, <2>1, <2>2
<1>2. QED
  BY <1>1 DEF KeptInv, DownInv, Up, Marked

LEMMA ResultsInit == Init => ResultsInv
BY DEF Init, NothingRan, ResultsInv, KeptInv, DownInv, EventFirst, OpenInv, PollInv, Up

\* A process that ends loses only what was not in the file; the next one begins
\* with the files.
LEMMA EndKeepsResults ==
  ASSUME TypeOK, ResultsInv, Up, LoseMemory, UNCHANGED <<answers, dropped, eventsFile, ledgerFile>>
  PROVE  ResultsInv'
<1>1. ASSUME NEW c \in Commands, ledgerFile[c] = "sent"
      PROVE  Safe(c)' \/ c \in Results(eventsFile)
  <2>1. Safe(c)
    BY <1>1 DEF ResultsInv, KeptInv
  <2>2. QED
    BY <2>1 DEF Safe, LoseMemory
<1>2. QED
  BY <1>1 DEF LoseMemory, NothingRan, ResultsInv, KeptInv, DownInv, EventFirst, OpenInv, PollInv, Up

LEMMA StartKeepsResults ==
  ASSUME TypeOK, ResultsInv, Start
  PROVE  ResultsInv'
<1>1. /\ pc = "down" /\ pc' = "boot" /\ phase' = "boot" /\ events' = eventsFile'
      /\ UNCHANGED <<answers, dropped>>
  BY DEF Start, LoadEvents, cpVars
<1>2. /\ lost \subseteq lost' /\ \A c \in Results(eventsFile) : c \in lost' \cup Results(eventsFile')
      /\ \A c \in Commands : ledger'[c] = "sent" \/ ledgerFile'[c] = "sent" => ledgerFile[c] = "sent"
  BY DEF Start, LoadEvents, LoadLedger, NothingRan
<1>3. \A c \in Commands : ledgerFile[c] = "sent" \/ c \in Results(eventsFile') => Safe(c)'
  <2>1. Results({}) = {}
    BY DEF Results
  <2>2. \A c \in Commands : ledgerFile[c] = "sent" => Safe(c) \/ c \in Results(eventsFile)
    BY <1>1 DEF ResultsInv, DownInv
  <2>3. \A c \in Commands : Safe(c) => Safe(c)'
    BY <1>1, <1>2, <2>1 DEF Safe, ResultsInv, DownInv
  <2>4. QED
    BY <1>1, <1>2, <2>2, <2>3 DEF Safe
<1>4. QED
  BY <1>1, <1>2, <1>3 DEF ResultsInv, KeptInv, DownInv, EventFirst, OpenInv, PollInv, Up

\* The steps that leave the ledger alone.
LEMMA QueueStepKeepsResults ==
  ASSUME TypeOK, ResultsInv, Keeps, Up, Up', UNCHANGED <<ledger, ledgerFile>>,
         pc' = "poll" => events' = {},
         pc' \in {"boot", "resolve"} => phase' = "boot",
         pc' = "mark" \/ pc' = "record" => Safe(cur)',
         pc' \in {"idle", "send", "poll", "run", "check"} =>
           \A c \in Commands : ledger[c] # "open",
         pc' \in {"install", "fail", "record"} \/ (pc' = "mark" /\ phase' # "boot") =>
           \A c \in Commands : ledger[c] = "open" => c = cur'
  PROVE  ResultsInv'
<1>1. MarkedSafe
  BY DEF MarkedSafe, Marked
<1>2. KeptInv' /\ DownInv'
  BY <1>1, KeptAcross
<1>3. QED
  BY <1>2 DEF ResultsInv, EventFirst, OpenInv, PollInv

\* The steps that write the ledger: st becomes the state of c.
LEMMA LedgerStepKeepsResults ==
  ASSUME TypeOK, ResultsInv, Keeps, Up, Up', NEW c \in Commands, NEW st \in EntryState,
         ledger' = [ledger EXCEPT ![c] = st], ledgerFile' = ledgerFile \/ ledgerFile' = ledger',
         st = "sent" => Safe(c),
         pc' \notin {"mark", "record", "poll"},
         pc' \in {"boot", "resolve"} => phase' = "boot",
         pc' \in {"idle", "send", "run", "check"} => \A d \in Commands : ledger'[d] # "open",
         pc' \in {"install", "fail"} => \A d \in Commands : ledger'[d] = "open" => d = cur'
  PROVE  ResultsInv'
<1>1. MarkedSafe
  <2> SUFFICES ASSUME NEW d \in Commands, Marked(d)' PROVE Marked(d) \/ Safe(d)'
    BY DEF MarkedSafe
  <2>1. CASE d = c
    BY <2>1, SafeStays DEF TypeOK, Marked
  <2>2. CASE d # c
    BY <2>2 DEF TypeOK, Marked
  <2>3. QED
    BY <2>1, <2>2
<1>2. KeptInv' /\ DownInv'
  BY <1>1, KeptAcross
<1>3. QED
  BY <1>2 DEF ResultsInv, EventFirst, OpenInv, PollInv

LEMMA ResultsStep == TypeOK /\ ResultsInv /\ [Next]_vars => ResultsInv'
<1> SUFFICES ASSUME TypeOK, ResultsInv, [Next]_vars PROVE ResultsInv'
  OBVIOUS
<1> USE DEF Up
<1>1. CASE Start
  BY <1>1, StartKeepsResults
<1>2. CASE Stop \/ Exit
  BY <1>2, EndKeepsResults DEF Stop, Exit, cpVars, diskVars
<1>3. ASSUME ~Start, ~Stop, ~Exit PROVE ResultsInv'
  <2>1. Keeps
    BY <1>3, QueueKeeps
  <2> USE DEF ResultsInv, OpenInv
  <2>2. CASE UNCHANGED <<answers, dropped, lost, events, eventsFile, ledger, ledgerFile, pc, phase, cur>>
    BY <2>2 DEF KeptInv, DownInv, EventFirst, PollInv, Safe
  <2>3. CASE Environment
    BY <1>3, <2>2, <2>3 DEF Environment, Issue, NextDay, FlyStart, FlyUpdate, FlyEnd,
       cpVars, diskVars, memVars, ghostVars
  <2>4. CASE UNCHANGED vars
    BY <2>2, <2>4 DEF vars, cpVars, diskVars, memVars, ghostVars
  <2>5. CASE AddStarted
    BY <2>1, <2>5, QueueStepKeepsResults DEF AddStarted
  <2>6. ASSUME NEW c \in Commands, ResolveOne(c) PROVE ResultsInv'
    <3>1. Safe(c)'
      BY <2>6, AddEventKeeps DEF ResolveOne, Safe
    <3>2. pc' = "mark" /\ phase' = "boot" /\ cur' = c
      BY <2>6 DEF ResolveOne
    <3>3. QED
      BY <2>1, <2>6, <3>1, <3>2, QueueStepKeepsResults DEF ResolveOne
  <2>7. CASE MarkSent
    <3>1. /\ cur \in Commands /\ Safe(cur) /\ ledger' = [ledger EXCEPT ![cur] = "sent"]
          /\ ledgerFile' = ledgerFile \/ ledgerFile' = ledger'
      BY <2>7 DEF MarkSent, SaveLedger, EventFirst, TypeOK
    <3>2. phase # "boot" => \A d \in Commands : ledger'[d] # "open"
      BY <2>7, <3>1 DEF MarkSent, TypeOK
    <3>3. /\ pc' = (IF phase = "boot" THEN "resolve" ELSE "run") /\ phase' = phase
      BY <2>7 DEF MarkSent
    <3>4. QED
      BY <2>1, <2>7, <3>1, <3>2, <3>3, LedgerStepKeepsResults DEF MarkSent, EntryState
  <2>8. CASE Resolved \/ Report \/ NoReport \/ SendDone \/ PollFailed
             \/ Installed \/ CommandsDone \/ TickDone \/ \E v \in Versions : AutoInstall(v)
    <3>1. /\ UNCHANGED <<events, eventsFile, ledger, ledgerFile, cur>>
          /\ pc # "down" /\ pc' \in {"idle", "send", "poll", "check", "exit"}
          /\ pc' = "poll" => events = {}
      BY <2>8 DEF Resolved, Report, NoReport, SendDone, PollFailed, Installed, CommandsDone,
         TickDone, AutoInstall, diskVars, memVars, TypeOK
    <3>2. pc' = "exit" \/ \A c \in Commands : ledger[c] # "open"
      BY <2>8 DEF Resolved, Report, NoReport, SendDone, PollFailed, Installed, CommandsDone,
         TickDone, AutoInstall
    <3>3. QED
      BY <2>1, <3>1, <3>2, QueueStepKeepsResults
  <2>9. CASE PostSent \/ PostRefused \/ PostLater
    BY <2>1, <2>9, QueueStepKeepsResults DEF PostSent, PostRefused, PostLater, AfterUnsent,
       diskVars, memVars
  <2>10. CASE Poll
    <3>1. /\ \A c \in Commands : ledger'[c] = "sent" => ledger[c] = "sent"
          /\ \A c \in Commands : ledger'[c] = "open" => ledger[c] = "open"
          /\ ledgerFile' = ledgerFile \/ ledgerFile' = ledger'
      BY <2>10 DEF Poll, SaveLedger, Pruned
    <3>2. KeptInv' /\ DownInv'
      BY <2>1, <2>10, <3>1, KeptAcross DEF Poll, MarkedSafe, Marked
    <3>3. QED
      BY <2>10, <3>1, <3>2 DEF Poll, EventFirst, PollInv
  <2>11. ASSUME NEW c \in Commands, SkipRan(c) PROVE ResultsInv'
    BY <2>2, <2>11 DEF SkipRan, cpVars, diskVars, ghostVars
  <2>12. ASSUME NEW c \in Commands, RunRestart(c) \/ RunUpdate(c) PROVE ResultsInv'
    <3>1. /\ ledger' = [ledger EXCEPT ![c] = "open"] /\ cur' = c /\ pc' \in {"exit", "install", "fail"}
          /\ ledgerFile' = ledgerFile \/ ledgerFile' = ledger'
      BY <2>12 DEF RunRestart, RunUpdate, Take, LedgerAdd
    <3>2. \A d \in Commands : ledger'[d] = "open" => d = c
      BY <2>12, <3>1 DEF RunRestart, RunUpdate, Take, TypeOK
    <3>3. pc = "run"
      BY <2>12 DEF RunRestart, RunUpdate, Take
    <3>4. QED
      BY <2>1, <3>1, <3>2, <3>3, LedgerStepKeepsResults DEF EntryState
  <2>13. ASSUME NEW c \in Commands, RunUnknown(c) \/ RunSame(c) PROVE ResultsInv'
    <3>1. Safe(c)'
      BY <2>13, AddEventKeeps DEF RunUnknown, RunSame, Safe
    <3>2. pc = "run" /\ pc' = "record" /\ cur' = c /\ UNCHANGED <<ledger, ledgerFile>>
      BY <2>13 DEF RunUnknown, RunSame, Take
    <3>3. QED
      BY <2>1, <3>1, <3>2, QueueStepKeepsResults
  <2>14. ASSUME NEW c \in Commands, RunRefused(c) PROVE ResultsInv'
    BY <2>1, <2>14, QueueStepKeepsResults DEF RunRefused, Take, diskVars
  <2>15. CASE InstallFailed \/ AddFailed
    <3>1. Safe(cur)'
      BY <2>15, AddEventKeeps DEF InstallFailed, AddFailed, Safe
    <3>2. /\ pc \in {"install", "fail"} /\ pc' \in {"mark", "record"}
          /\ cur' = cur /\ UNCHANGED <<ledger, ledgerFile>>
      BY <2>15 DEF InstallFailed, AddFailed
    <3>3. QED
      BY <2>1, <3>1, <3>2, QueueStepKeepsResults
  <2>16. CASE Record
    <3>1. /\ cur \in Commands /\ Safe(cur) /\ ledger' = [ledger EXCEPT ![cur] = "sent"]
          /\ ledgerFile' = ledgerFile \/ ledgerFile' = ledger'
          /\ pc' = "run"
      BY <2>16 DEF Record, SaveLedger, LedgerAdd, EventFirst, TypeOK
    <3>2. \A d \in Commands : ledger'[d] # "open"
      BY <2>16, <3>1 DEF Record, TypeOK
    <3>3. QED
      BY <2>1, <2>16, <3>1, <3>2, LedgerStepKeepsResults DEF Record, EntryState
  <2>17. QED
    BY <1>3, <2>3, <2>4, <2>5, <2>6, <2>7, <2>8, <2>9, <2>10, <2>11, <2>12, <2>13, <2>14, <2>15, <2>16
    DEF Next, Agent, Command
<1>4. QED
  BY <1>1, <1>2, <1>3

LEMMA ResultsInvariant == Spec => [](TypeOK /\ ResultsInv)
<1>1. QED
  BY TypeInit, TypeStep, ResultsInit, ResultsStep, PTL DEF Spec

\* What ran.json calls sent is in the queue, on the disk or in memory, or at the
\* control plane, or went by one of the two rules: for any number of commands,
\* crashes, failed writes, refusals and sizes of the queue.
THEOREM ResultIsNotLost == Spec => []ResultNotLost
<1>1. TypeOK /\ ResultsInv => ResultNotLost
  BY DEF TypeOK, ResultsInv, KeptInv, DownInv, Safe, ResultNotLost, Up
<1>2. QED
  BY <1>1, ResultsInvariant, PTL

\* report polls only when the results of the commands that ran are at the
\* control plane: the queue is empty, and no entry of the ledger is open.
THEOREM PollComesAfterResults == Spec => []PollAfterResults
<1>1. TypeOK /\ ResultsInv => PollAfterResults
  <2> SUFFICES ASSUME TypeOK, ResultsInv, pc = "poll", NEW c \in Commands, Has(c)
               PROVE  answers[c] # {} \/ c \in dropped \cup lost
    BY DEF PollAfterResults
  <2>1. ledger[c] = "sent" /\ events = {}
    BY DEF TypeOK, EntryState, Has, ResultsInv, OpenInv, PollInv
  <2>2. QED
    BY <2>1 DEF ResultsInv, KeptInv, Up, Safe, Results
<1>2. QED
  BY <1>1, ResultsInvariant, PTL

-----------------------------------------------------------------------------
(***************************************************************************)
(* No downgrade and one verdict. Both need a server on which only the agent *)
(* changes the binary; the verdict also needs writes that work, and a       *)
(* control plane that sends no command again after its result.              *)
(***************************************************************************)

\* A running process is the binary on the disk, until it installs another one.
BinaryInv ==
  /\ fly = NoVersion
  /\ Up /\ pc # "exit" => running = binary

\* What is about to be installed for a command is what update lets pass.
InstallInv == pc = "install" => NotYet(binary, cmd[cur].target)

DowngradeInv == BinaryInv /\ InstallInv

LEMMA DowngradeInit == Init => DowngradeInv
BY DEF Init, DowngradeInv, BinaryInv, InstallInv, Up

LEMMA DowngradeStep ==
  ASSUME OperatorUpdates = FALSE, IInv, DowngradeInv, [Next]_vars
  PROVE  DowngradeInv'
<1> USE DEF DowngradeInv, BinaryInv, InstallInv, Up
<1>1. CASE \E c \in Commands : Issue(c)
  <2>1. PICK c \in Commands : Issue(c)
    BY <1>1
  <2>2. pc = "install" => cur # c
    BY <2>1, NoCommandAssumption DEF Issue, IInv, TypeOK, CurInv
  <2>3. cmd \in [Commands -> Kinds \cup {NotIssued}] /\ (pc = "install" => cur \in Commands)
    BY DEF IInv, TypeOK
  <2>4. UNCHANGED <<pc, binary, running, fly, cur>> /\ \E k \in Kinds : cmd' = [cmd EXCEPT ![c] = k]
    BY <2>1 DEF Issue, diskVars, memVars
  <2>5. pc = "install" => cmd'[cur] = cmd[cur]
    BY <2>2, <2>3, <2>4
  <2>6. QED
    BY <2>4, <2>5
<1>2. CASE FlyStart \/ FlyEnd \/ \E v \in Versions : FlyUpdate(v)
  BY <1>2 DEF FlyStart, FlyEnd, FlyUpdate, cpVars, diskVars, memVars
<1>3. CASE NextDay \/ UNCHANGED vars
  BY <1>3 DEF NextDay, vars, cpVars, diskVars, memVars
<1>4. CASE Stop \/ Exit \/ Start
  BY <1>4 DEF Stop, Exit, Start, LoseMemory, diskVars
<1>5. ASSUME NEW c \in Commands, RunUpdate(c) PROVE DowngradeInv'
  <2>1. pc = "run" /\ cur' = c /\ UNCHANGED <<cmd, binary, running, fly>>
    BY <1>5 DEF RunUpdate, Take, cpVars
  <2>2. NotYet(running, cmd[c].target) /\ pc' \in {"install", "fail"}
    BY <1>5 DEF RunUpdate, NotYet, LedgerAdd
  <2>3. QED
    BY <2>1, <2>2
<1>6. ASSUME NEW c \in Commands, SkipRan(c) \/ RunRestart(c) \/ RunUnknown(c) \/ RunRefused(c) \/ RunSame(c)
      PROVE  DowngradeInv'
  BY <1>6 DEF SkipRan, RunRestart, RunUnknown, RunRefused, RunSame, Take, LedgerAdd, cpVars, diskVars
<1>7. CASE Installed \/ \E v \in Versions : AutoInstall(v)
  BY <1>7 DEF Installed, AutoInstall, memVars
<1>8. CASE AddStarted \/ MarkSent \/ Resolved \/ Report \/ NoReport \/ PostSent \/ PostRefused
           \/ PostLater \/ SendDone \/ Poll \/ PollFailed
  <2>1. UNCHANGED <<cmd, binary, running, fly>> /\ pc \notin {"exit", "down"} /\ pc' # "install"
    BY <1>8 DEF AddStarted, MarkSent, Resolved, Report, NoReport, PostSent, PostRefused, PostLater,
       AfterUnsent, SendDone, Poll, PollFailed, cpVars, diskVars, memVars, IInv, TypeOK
  <2>2. QED
    BY <2>1
<1>9. CASE InstallFailed \/ AddFailed \/ Record \/ CommandsDone \/ TickDone
           \/ \E c \in Commands : ResolveOne(c)
  BY <1>9 DEF InstallFailed, AddFailed, Record, LedgerAdd, CommandsDone, TickDone, ResolveOne,
     cpVars, diskVars, memVars
<1>10. QED
  BY <1>1, <1>2, <1>3, <1>4, <1>5, <1>6, <1>7, <1>8, <1>9 DEF Next, Environment, Agent, Command

\* The steps that end the process for a new binary.
LEMMA OnlyInstallsExit ==
  ASSUME Next, pc \in {"install", "check"}, pc' = "exit"
  PROVE  Installed \/ \E v \in Versions : AutoInstall(v)
BY DEF Next, Environment, Agent, Command, Issue, NextDay, FlyStart, FlyUpdate, FlyEnd, Stop,
   LoseMemory, Start, Exit, AddStarted, MarkSent, Resolved, Report, NoReport, PostSent,
   PostRefused, PostLater, SendDone, Poll, PollFailed, InstallFailed, AddFailed, Record,
   CommandsDone, TickDone, ResolveOne, SkipRan, RunRestart, RunUnknown, RunRefused, RunSame,
   RunUpdate, Take, Up

\* "The agent never downgrades": the agent never puts an older binary in place of
\* the installed one, as long as nobody else replaces it (with fly update it
\* can: run commands_fly). For any versions, and orders that are not total.
THEOREM NoDowngrade ==
  ASSUME OperatorUpdates = FALSE
  PROVE  Spec => NeverDowngrades
<1>1. IInv /\ DowngradeInv /\ [Next]_vars => [InstallsNoOlder]_vars
  <2> SUFFICES ASSUME IInv, DowngradeInv, Next, pc \in {"install", "check"}, pc' = "exit"
               PROVE  ~Older(binary', binary)
    BY DEF InstallsNoOlder
  <2>1. Installed \/ \E v \in Versions : AutoInstall(v)
    BY OnlyInstallsExit
  <2>2. \A v, w \in Version : NotYet(v, w) \/ Older(v, w) => ~Older(w, v)
    BY OlderIsStrict DEF OrderIsStrict, NotYet, Older, Ordered
  <2>3. NotYet(binary, binary') \/ Older(binary, binary')
    BY <2>1 DEF Installed, AutoInstall, DowngradeInv, BinaryInv, InstallInv, Up
  <2>4. binary \in Version /\ binary' \in Version
    BY VersionsAssumption, TypeStep DEF IInv, TypeOK
  <2>5. QED
    BY <2>2, <2>3, <2>4
<1>2. QED
  BY <1>1, RunsInit, RunsStep, DowngradeInit, DowngradeStep, PTL DEF Spec, NeverDowngrades

\* The binary is the newest of what was installed, where all of it is ordered.
ChainInv ==
  /\ binary \in had
  /\ AllOrdered(had) => \A v \in had \ {binary} : Older(v, binary)

LEMMA ChainInit == Init => ChainInv
BY DEF Init, ChainInv

\* An install of the agent: a new version that is newer than the binary, where it
\* has an order with it.
LEMMA InstallGoesOn ==
  ASSUME OperatorUpdates = FALSE, IInv, DowngradeInv, Installed \/ \E v \in Versions : AutoInstall(v)
  PROVE  /\ had' = had \cup {binary'} /\ binary \in Version /\ binary' \in Version
         /\ had \subseteq Version
         /\ Ordered(binary, binary') => Older(binary, binary')
<1>1. had' = had \cup {binary'}
  BY DEF Installed, AutoInstall
<1>2. NotYet(binary, binary') \/ Older(binary, binary')
  BY DEF Installed, AutoInstall, DowngradeInv, BinaryInv, InstallInv, Up
<1>3. binary \in Versions /\ binary' \in Versions /\ had \subseteq Versions
  <2>1. TypeOK'
    BY TypeStep DEF IInv, Next, Agent
  <2>2. QED
    BY <2>1 DEF IInv, TypeOK
<1>4. QED
  BY <1>1, <1>2, <1>3, VersionsAssumption DEF NotYet

\* Older carries over from the versions of the chain to the one that is new.
LEMMA ChainGoesOn ==
  ASSUME NEW S \in SUBSET Version, NEW b \in S, NEW n \in Version, AllOrdered(S \cup {n}),
         AllOrdered(S) => \A v \in S \ {b} : Older(v, b),
         Ordered(b, n) => Older(b, n)
  PROVE  n \notin S /\ \A v \in S : Older(v, n)
<1>1. Older(b, n) /\ \A v \in S \ {b} : Older(v, b)
  BY DEF AllOrdered
<1>2. \A v \in S : Older(v, n)
  BY <1>1, OlderIsStrict DEF OrderIsStrict
<1>3. ~Older(n, n)
  BY DEF Older
<1>4. QED
  BY <1>2, <1>3

LEMMA ChainStep ==
  ASSUME OperatorUpdates = FALSE, IInv, DowngradeInv, ChainInv, [Next]_vars
  PROVE  ChainInv'
<1>1. CASE UNCHANGED <<binary, had>>
  BY <1>1 DEF ChainInv, AllOrdered
<1>2. CASE Installed \/ \E v \in Versions : AutoInstall(v)
  <2>1. /\ had' = had \cup {binary'} /\ binary' \in Version /\ had \in SUBSET Version
        /\ binary \in had /\ (Ordered(binary, binary') => Older(binary, binary'))
    BY <1>2, InstallGoesOn DEF ChainInv
  <2>2. ASSUME AllOrdered(had \cup {binary'}) PROVE \A v \in had : Older(v, binary')
    BY <2>1, <2>2, ChainGoesOn DEF ChainInv
  <2>3. QED
    BY <2>1, <2>2 DEF ChainInv
<1>3. CASE Environment
  BY <1>1, <1>3 DEF Environment, Issue, NextDay, FlyStart, FlyUpdate, FlyEnd, Stop, diskVars, ghostVars,
     DowngradeInv, BinaryInv
<1>4. CASE UNCHANGED vars
  BY <1>1, <1>4 DEF vars, diskVars, ghostVars
<1>5. CASE \/ Start \/ Exit \/ AddStarted \/ MarkSent \/ Resolved \/ Report \/ NoReport
           \/ PostSent \/ PostRefused \/ PostLater \/ SendDone
  BY <1>1, <1>5 DEF Start, Exit, AddStarted, MarkSent, Resolved, Report, NoReport,
     PostSent, PostRefused, PostLater, SendDone, diskVars, ghostVars
<1>6. CASE \/ Poll \/ PollFailed \/ InstallFailed \/ AddFailed \/ Record \/ CommandsDone \/ TickDone
           \/ \E c \in Commands : ResolveOne(c) \/ Command(c)
  BY <1>1, <1>6 DEF Poll, PollFailed, InstallFailed, AddFailed, Record, CommandsDone, TickDone,
     ResolveOne, Command, SkipRan, RunRestart, RunUnknown, RunRefused, RunSame, RunUpdate, diskVars, ghostVars
<1>7. QED
  BY <1>2, <1>3, <1>4, <1>5, <1>6 DEF Next, Agent

\* A chain of installs does not come back to a version that the server had, as
\* long as the versions of the chain are ordered with each other and nobody else
\* replaces the binary. For any versions, commands and crashes; a target that has
\* no order with the version that runs is installed too, and ends the premise.
THEOREM ChainsDoNotComeBack ==
  ASSUME OperatorUpdates = FALSE
  PROVE  Spec => NoUpdateCycle
<1>1. IInv /\ DowngradeInv /\ ChainInv /\ [Next]_vars => [InstallsNoneAgain]_vars
  <2> SUFFICES ASSUME IInv, DowngradeInv, ChainInv, Next, pc \in {"install", "check"}, pc' = "exit",
                      AllOrdered(had')
               PROVE  binary' \notin had
    BY DEF InstallsNoneAgain
  <2>1. Installed \/ \E v \in Versions : AutoInstall(v)
    BY OnlyInstallsExit
  <2>2. /\ had' = had \cup {binary'} /\ binary' \in Version /\ had \in SUBSET Version
        /\ binary \in had /\ (Ordered(binary, binary') => Older(binary, binary'))
    BY <2>1, InstallGoesOn DEF ChainInv
  <2>3. AllOrdered(had \cup {binary'})
    BY <2>2
  <2>4. QED
    BY <2>2, <2>3, ChainGoesOn DEF ChainInv
<1>2. QED
  BY <1>1, RunsInit, RunsStep, DowngradeInit, DowngradeStep, ChainInit, ChainStep, PTL
  DEF Spec, NoUpdateCycle

-----------------------------------------------------------------------------
\* One verdict. All that was ever said of a command and can still be heard: the
\* answers, and the events in memory and on the disk.
Names(c) == answers[c] \cup {e.name : e \in {f \in events \cup eventsFile : f.cmd = c}}

\* What resolve will say of an open command.
WillSay(c) ==
  IF cmd[c].verb = "update" /\ NotYet(binary, cmd[c].target) THEN "failed" ELSE "completed"

FilesAsMemory == Up => eventsFile = events /\ ledgerFile = ledger

\* Nothing was said of a command that is still to do, or whose step begins.
TodoInv ==
  /\ todo # {} => pc \in {"run", "install", "fail", "record", "mark", "exit"}
  /\ phase = "boot" => todo = {}
  /\ cur \notin todo
  /\ \A c \in todo : Names(c) = {}
  /\ pc \in {"fail", "install"} => Names(cur) = {}
  /\ pc = "fail" => ledger[cur] = "absent"

\* What was said of an open command is what resolve will say.
OpenVerdict == \A c \in Commands : ledgerFile[c] = "open" => Names(c) \subseteq {WillSay(c)}

OneName == \A c \in Commands : \A m, n \in Names(c) : m = n

VerdictInv == FilesAsMemory /\ TodoInv /\ OpenVerdict /\ OneName
Before == IInv /\ ResultsInv /\ DowngradeInv /\ VerdictInv

\* A step that says nothing new, and one that says n of c.
Quiet == \A d \in Commands : Names(d)' \subseteq Names(d)
Says(n, c) == \A d \in Commands : Names(d)' \subseteq Names(d) \cup (IF d = c THEN {n} ELSE {})

LEMMA VerdictInit == Init => VerdictInv
BY NoCommandAssumption DEF Init, VerdictInv, FilesAsMemory, TodoInv, OpenVerdict, OneName, Names, Up

\* Reads and writes work.
LEMMA NoWriteFails ==
  ASSUME MaxDiskErrors = 0, TypeOK
  PROVE  /\ \A q : SaveEvents(q) => events' = q /\ eventsFile' = q
         /\ \A l : SaveLedger(l) => ledger' = l /\ ledgerFile' = l
         /\ \A c, st, a, b : LedgerAdd(c, st, a, b) =>
              /\ ledger' = [ledger EXCEPT ![c] = st] /\ ledgerFile' = ledger' /\ pc' = a
         /\ \A n, c : AddEvent(n, c) => eventsFile' = events'
         /\ Start => /\ UNCHANGED <<eventsFile, ledgerFile, forgotten, lost>>
                     /\ events' = eventsFile /\ ledger' = ledgerFile
<1>1. ~WriteFails
  BY DEF TypeOK, WriteFails
<1>2. Start => LoadEvents(FALSE) /\ LoadLedger(FALSE)
  <2> SUFFICES ASSUME Start PROVE LoadEvents(FALSE) /\ LoadLedger(FALSE)
    OBVIOUS
  <2>1. PICK q, l \in BOOLEAN : /\ LoadEvents(q) /\ LoadLedger(l)
                                /\ diskErrors + Fault(q) + Fault(l) <= 0
    BY DEF Start
  <2>2. ~q /\ ~l
    BY <2>1 DEF Fault, TypeOK
  <2>3. q = FALSE /\ l = FALSE
    BY <2>2
  <2>4. QED
    BY <2>1, <2>3
<1>3. QED
  BY <1>1, <1>2 DEF SaveEvents, SaveLedger, LedgerAdd, AddEvent, LoadEvents, LoadLedger

LEMMA AddSays ==
  ASSUME MaxDiskErrors = 0, TypeOK, NEW n, NEW c, AddEvent(n, c), UNCHANGED answers
  PROVE  Says(n, c)
<1>1. eventsFile' = events'
  BY NoWriteFails
<1>2. ASSUME NEW d \in Commands, NEW e \in events', e.cmd = d
      PROVE  e.name \in Names(d) \/ (d = c /\ e.name = n)
  <2>1. CASE e.name = n /\ e.cmd = c
    BY <1>2, <2>1
  <2>2. CASE \E f \in events : e.name = f.name /\ e.cmd = f.cmd
    BY <1>2, <2>2 DEF Names
  <2>3. QED
    BY <2>1, <2>2, AddEventKeeps
<1>3. QED
  BY <1>1, <1>2 DEF Says, Names

\* A request tells the control plane what was in the queue.
LEMMA PostQuiet ==
  ASSUME TypeOK, events' \subseteq events, eventsFile' \subseteq events \cup eventsFile,
         answers' = answers \/ answers' = Accepted(Batch)
  PROVE  Quiet
<1>1. Batch \subseteq events
  BY DEF Batch, Oldest
<1>2. \A d \in Commands : Accepted(Batch)[d] \subseteq Names(d)
  BY <1>1 DEF Accepted, Names
<1>3. \A d \in Commands : answers'[d] \subseteq Names(d)
  BY <1>2 DEF Names
<1>4. QED
  BY <1>3 DEF Quiet, Names

\* What a quiet step must leave as it was.
LEMMA QuietKeeps ==
  ASSUME Before, Quiet, UNCHANGED <<binary, todo, cur, ledger, ledgerFile>>,
         \A c \in Commands : ledgerFile[c] = "open" => cmd'[c] = cmd[c],
         FilesAsMemory',
         todo # {} => pc' \in {"run", "install", "fail", "record", "mark", "exit"},
         phase' = "boot" => todo = {},
         pc' \in {"fail", "install"} => Names(cur) = {} /\ cur \in Commands,
         pc' = "fail" => ledger[cur] = "absent"
  PROVE  VerdictInv'
<1>1. todo \subseteq Commands
  BY DEF Before, IInv, TypeOK
<1>2. TodoInv'
  BY <1>1 DEF Before, VerdictInv, TodoInv, Quiet
<1>3. OpenVerdict'
  <2> SUFFICES ASSUME NEW c \in Commands, ledgerFile[c] = "open" PROVE Names(c)' \subseteq {WillSay(c)'}
    BY DEF OpenVerdict
  <2>1. WillSay(c)' = WillSay(c)
    BY DEF WillSay
  <2>2. QED
    BY <2>1 DEF Before, VerdictInv, OpenVerdict, Quiet
<1>4. OneName'
  BY DEF Before, VerdictInv, OneName, Quiet
<1>5. QED
  BY <1>2, <1>3, <1>4 DEF VerdictInv

\* A verdict on c, of which nothing else was said.
LEMMA SaysKeeps ==
  ASSUME Before, NEW c \in Commands, NEW n, Says(n, c), Names(c) \subseteq {n},
         ledgerFile[c] = "open" => WillSay(c) = n,
         UNCHANGED <<binary, cmd, ledger, ledgerFile, phase>>,
         FilesAsMemory', todo' = todo \ {c}, cur' = c,
         pc' \in {"record", "mark"}
  PROVE  VerdictInv'
<1>1. todo \subseteq Commands
  BY DEF Before, IInv, TypeOK
<1>2. \A d \in Commands : d # c => Names(d)' \subseteq Names(d)
  BY DEF Says
<1>3. Names(c)' \subseteq {n}
  BY DEF Says
<1>4. TodoInv'
  BY <1>1, <1>2 DEF Before, VerdictInv, TodoInv
<1>5. OpenVerdict'
  <2> SUFFICES ASSUME NEW d \in Commands, ledgerFile[d] = "open" PROVE Names(d)' \subseteq {WillSay(d)'}
    BY DEF OpenVerdict
  <2>1. WillSay(d)' = WillSay(d)
    BY DEF WillSay
  <2>2. QED
    BY <1>2, <1>3, <2>1 DEF Before, VerdictInv, OpenVerdict
<1>6. OneName'
  BY <1>2, <1>3 DEF Before, VerdictInv, OneName
<1>7. QED
  BY <1>4, <1>5, <1>6 DEF VerdictInv

\* A step that says nothing, and opens only commands of which nothing was said.
LEMMA QuietVerdict ==
  ASSUME Before, Quiet, UNCHANGED <<binary, cmd>>, FilesAsMemory', TodoInv',
         \A c \in Commands : ledgerFile'[c] = "open" => ledgerFile[c] = "open" \/ Names(c) = {}
  PROVE  VerdictInv'
<1>1. \A c \in Commands : WillSay(c)' = WillSay(c)
  BY DEF WillSay
<1>2. OpenVerdict'
  BY <1>1 DEF Before, VerdictInv, OpenVerdict, Quiet
<1>3. OneName'
  BY DEF Before, VerdictInv, OneName, Quiet
<1>4. QED
  BY <1>2, <1>3 DEF VerdictInv

LEMMA VerdictStep ==
  ASSUME MaxDiskErrors = 0, StaleReplies = FALSE, OperatorUpdates = FALSE, Before, [Next]_vars
  PROVE  VerdictInv'
<1> DEFINE Frame == UNCHANGED <<answers, events, eventsFile>>
<1>1. Frame => Quiet
  BY DEF Quiet, Names
<1>2. /\ TypeOK /\ todo \subseteq Commands
      /\ FilesAsMemory /\ TodoInv /\ BinaryInv /\ OpenVerdict
  BY DEF Before, IInv, TypeOK, VerdictInv, DowngradeInv
<1> USE DEF Up
<1>3. CASE UNCHANGED <<answers, events, eventsFile, binary, todo, cur, ledger, ledgerFile, pc, phase, cmd>>
  <2>1. FilesAsMemory'
    BY <1>2, <1>3 DEF FilesAsMemory
  <2>2. pc' \in {"fail", "install"} => cur \in Commands
    BY <1>2, <1>3 DEF TypeOK
  <2>3. QED
    BY <1>1, <1>2, <1>3, <2>1, <2>2, QuietKeeps DEF TodoInv
<1>4. ASSUME NEW c \in Commands, Issue(c) PROVE VerdictInv'
  <2>1. /\ UNCHANGED <<answers, events, eventsFile, binary, todo, cur, ledger, ledgerFile, pc, phase>>
        /\ c \notin Issued /\ \E k \in Kinds : cmd' = [cmd EXCEPT ![c] = k]
    BY <1>4 DEF Issue, diskVars, memVars
  <2>2. \A d \in Commands : ledgerFile[d] = "open" => cmd'[d] = cmd[d]
    <3>1. \A d \in Commands : ledgerFile[d] = "open" => d # c
      BY <2>1 DEF Before, IInv, AgeInv
    <3>2. QED
      BY <1>2, <2>1, <3>1 DEF TypeOK
  <2>3. FilesAsMemory'
    BY <1>2, <2>1 DEF FilesAsMemory
  <2>4. pc' \in {"fail", "install"} => cur \in Commands
    BY <1>2, <2>1 DEF TypeOK
  <2>5. QED
    BY <1>1, <1>2, <2>1, <2>2, <2>3, <2>4, QuietKeeps DEF TodoInv
<1>5. CASE NextDay \/ UNCHANGED vars
  BY <1>3, <1>5 DEF NextDay, vars, cpVars, diskVars, memVars
<1>6. CASE FlyStart \/ FlyEnd \/ \E v \in Versions : FlyUpdate(v)
  BY <1>2, <1>3, <1>6 DEF FlyStart, FlyEnd, FlyUpdate, BinaryInv, cpVars, diskVars, memVars
<1>7. CASE Start \/ Stop \/ Exit
  <2>1. /\ UNCHANGED <<answers, cmd, binary, eventsFile, ledgerFile>>
        /\ todo' = {} /\ phase' = "boot" /\ events' \subseteq eventsFile
        /\ \/ pc' = "down"
           \/ pc' = "boot" /\ events' = eventsFile /\ ledger' = ledgerFile
    BY <1>2, <1>7, NoWriteFails DEF Start, Stop, Exit, LoseMemory, cpVars, diskVars
  <2>2. Quiet
    BY <2>1 DEF Quiet, Names
  <2>3. TodoInv' /\ FilesAsMemory'
    BY <2>1 DEF TodoInv, FilesAsMemory
  <2>4. QED
    BY <2>1, <2>2, <2>3, QuietVerdict
<1>8. CASE AddStarted
  <2>1. Quiet
    BY <1>2, <1>8, AddSays, NoCommandAssumption DEF AddStarted, Says, Quiet, cpVars
  <2>2. /\ UNCHANGED <<cmd, binary, todo, cur, ledger, ledgerFile, phase>> /\ eventsFile' = events'
        /\ pc = "boot" /\ pc' = "resolve"
    BY <1>2, <1>8, NoWriteFails DEF AddStarted, cpVars
  <2>3. FilesAsMemory' /\ todo = {}
    BY <1>2, <2>2 DEF FilesAsMemory, TodoInv
  <2>4. QED
    BY <2>1, <2>2, <2>3, QuietKeeps
<1>9. ASSUME NEW c \in Commands, ResolveOne(c) PROVE VerdictInv'
  <2>1. /\ pc = "resolve" /\ ledger[c] = "open" /\ pc' = "mark" /\ cur' = c
        /\ UNCHANGED <<answers, cmd, binary, todo, ledger, ledgerFile, phase>>
    BY <1>9 DEF ResolveOne, cpVars
  <2>2. AddEvent(WillSay(c), c)
    BY <1>2, <1>9, <2>1 DEF ResolveOne, BinaryInv, WillSay, NotYet
  <2>3. Says(WillSay(c), c) /\ eventsFile' = events'
    BY <1>2, <2>1, <2>2, AddSays, NoWriteFails
  <2>4. todo = {} /\ ledgerFile = ledger /\ FilesAsMemory'
    BY <1>2, <2>1, <2>3 DEF TodoInv, FilesAsMemory
  <2>5. Names(c) \subseteq {WillSay(c)}
    BY <1>2, <2>1, <2>4 DEF OpenVerdict
  <2>6. QED
    BY <2>1, <2>3, <2>4, <2>5, SaysKeeps
<1>10. CASE InstallFailed \/ AddFailed
  <2>1. /\ pc \in {"install", "fail"} /\ pc' \in {"mark", "record"} /\ cur' = cur /\ AddEvent("failed", cur)
        /\ UNCHANGED <<answers, cmd, binary, todo, ledger, ledgerFile, phase>>
    BY <1>10 DEF InstallFailed, AddFailed, cpVars
  <2>2. Says("failed", cur) /\ eventsFile' = events' /\ cur \in Commands
    BY <1>2, <2>1, AddSays, NoWriteFails DEF TypeOK
  <2>3. Names(cur) = {} /\ cur \notin todo /\ ledgerFile = ledger /\ FilesAsMemory'
    BY <1>2, <2>1, <2>2 DEF TodoInv, FilesAsMemory
  <2>4. ledgerFile[cur] = "open" => WillSay(cur) = "failed"
    BY <1>2, <2>1, <2>3 DEF TodoInv, WillSay, TypeOK, Before, DowngradeInv, InstallInv
  <2>5. todo' = todo \ {cur}
    BY <2>1, <2>3
  <2>6. QED
    BY <2>1, <2>2, <2>3, <2>4, <2>5, SaysKeeps
<1>11. ASSUME NEW c \in Commands, RunUnknown(c) \/ RunSame(c) PROVE VerdictInv'
  <2>1. PICK n : AddEvent(n, c)
    BY <1>11 DEF RunUnknown, RunSame
  <2>2. /\ pc = "run" /\ c \in todo /\ ledger[c] = "absent" /\ todo' = todo \ {c} /\ cur' = c
        /\ pc' = "record" /\ UNCHANGED <<answers, cmd, binary, ledger, ledgerFile, phase>>
    BY <1>11 DEF RunUnknown, RunSame, Take, Has, cpVars
  <2>3. Says(n, c) /\ eventsFile' = events'
    BY <1>2, <2>1, <2>2, AddSays, NoWriteFails
  <2>4. Names(c) = {} /\ ledgerFile[c] # "open" /\ FilesAsMemory'
    BY <1>2, <2>2, <2>3 DEF TodoInv, FilesAsMemory
  <2>5. QED
    BY <2>2, <2>3, <2>4, SaysKeeps
<1>12. CASE PostSent \/ PostRefused \/ PostLater
  <2>1. /\ events' \subseteq events /\ eventsFile' \subseteq events \cup eventsFile
        /\ answers' = answers \/ answers' = Accepted(Batch)
        /\ eventsFile' = events' \/ UNCHANGED <<events, eventsFile>>
    BY <1>2, <1>12, NoWriteFails DEF PostSent, PostRefused, PostLater, cpVars, diskVars, memVars
  <2>2. /\ pc = "send" /\ pc' \notin {"fail", "install", "down"}
        /\ UNCHANGED <<cmd, binary, todo, cur, ledger, ledgerFile, phase>>
    BY <1>12 DEF PostSent, PostRefused, PostLater, AfterUnsent, cpVars, diskVars, memVars
  <2>3. Quiet
    BY <1>2, <2>1, PostQuiet
  <2>4. FilesAsMemory' /\ todo = {}
    BY <1>2, <2>1, <2>2 DEF FilesAsMemory, TodoInv
  <2>5. QED
    BY <2>2, <2>3, <2>4, QuietKeeps
<1>13. CASE Resolved \/ Report \/ NoReport \/ SendDone \/ PollFailed \/ CommandsDone \/ TickDone
  <2>1. /\ UNCHANGED <<answers, events, eventsFile, cmd, binary, todo, cur, ledger, ledgerFile>>
        /\ pc \in {"resolve", "idle", "send", "poll", "run", "check"}
        /\ pc = "run" => todo = {}
        /\ pc' \in {"send", "check", "idle", "poll"} /\ phase' \in {phase, "report"}
    BY <1>2, <1>13 DEF Resolved, Report, NoReport, SendDone, PollFailed, CommandsDone, TickDone,
       TypeOK, cpVars, diskVars, memVars
  <2>2. todo = {} /\ FilesAsMemory' /\ Quiet
    BY <1>1, <1>2, <2>1 DEF TodoInv, FilesAsMemory
  <2>3. QED
    BY <2>1, <2>2, QuietKeeps
<1>14. CASE Poll
  <2>1. /\ pc = "poll" /\ pc' = "run" /\ phase' = "results" /\ todo' = Open
        /\ UNCHANGED <<answers, events, eventsFile, cmd, binary, cur>>
    BY <1>14 DEF Poll, cpVars
  <2>2. /\ ledgerFile = ledger /\ eventsFile = {} /\ events = {} /\ cur = NoCommand
    BY <1>2, <2>1 DEF FilesAsMemory, Before, ResultsInv, PollInv, IInv, CurInv, Between
  <2>3. ledgerFile' = ledger' /\ \A c \in Commands : ledgerFile'[c] = "open" => ledgerFile[c] = "open"
    BY <1>2, <1>14, <2>2, NoWriteFails DEF Poll, Pruned
  <2>4. \A c \in Open : Names(c) = {} /\ c \in Commands
    BY <2>2 DEF Open, Sendable, Issued, Names
  <2>5. TodoInv'
    BY <1>1, <2>1, <2>2, <2>4, NoCommandAssumption DEF TodoInv, Quiet
  <2>6. FilesAsMemory'
    BY <2>1, <2>2, <2>3 DEF FilesAsMemory
  <2>7. QED
    BY <1>1, <2>1, <2>3, <2>5, <2>6, QuietVerdict
<1>15. ASSUME NEW c \in Commands, SkipRan(c) PROVE VerdictInv'
  <2>1. /\ UNCHANGED <<answers, events, eventsFile, cmd, binary, cur, ledger, ledgerFile, pc, phase>>
        /\ todo' \subseteq todo /\ pc = "run"
    BY <1>15 DEF SkipRan, cpVars, diskVars
  <2>2. TodoInv' /\ FilesAsMemory'
    BY <1>1, <1>2, <2>1 DEF TodoInv, FilesAsMemory, Quiet
  <2>3. QED
    BY <1>1, <2>1, <2>2, QuietVerdict
<1>16. ASSUME NEW c \in Commands, RunRestart(c) \/ RunUpdate(c) PROVE VerdictInv'
  <2>1. /\ UNCHANGED <<answers, events, eventsFile, cmd, binary, phase>>
        /\ pc = "run" /\ c \in todo /\ todo' = todo \ {c} /\ cur' = c
        /\ ledger' = [ledger EXCEPT ![c] = "open"] /\ ledgerFile' = ledger' /\ pc' \in {"exit", "install"}
    BY <1>2, <1>16, NoWriteFails DEF RunRestart, RunUpdate, Take, cpVars
  <2>2. Names(c) = {} /\ ledgerFile = ledger
    BY <1>2, <2>1 DEF TodoInv, FilesAsMemory
  <2>3. \A d \in Commands : ledgerFile'[d] = "open" => ledgerFile[d] = "open" \/ Names(d) = {}
    BY <1>2, <2>1, <2>2 DEF TypeOK
  <2>4. TodoInv' /\ FilesAsMemory'
    BY <1>1, <1>2, <2>1, <2>2 DEF TodoInv, FilesAsMemory, Quiet
  <2>5. QED
    BY <1>1, <2>1, <2>3, <2>4, QuietVerdict
<1>17. ASSUME NEW c \in Commands, RunRefused(c) PROVE VerdictInv'
  <2>1. /\ UNCHANGED <<answers, events, eventsFile, cmd, binary, phase, ledger, ledgerFile>>
        /\ pc = "run" /\ c \in todo /\ todo' = todo \ {c} /\ cur' = c /\ pc' = "fail"
        /\ ledger[c] = "absent"
    BY <1>17 DEF RunRefused, Take, Has, cpVars, diskVars
  <2>2. TodoInv' /\ FilesAsMemory'
    BY <1>1, <1>2, <2>1 DEF TodoInv, FilesAsMemory, Quiet
  <2>3. QED
    BY <1>1, <2>1, <2>2, QuietVerdict
\* A new binary changes what resolve will say, of the command of the install only.
<1>18. CASE Installed \/ \E v \in Versions : AutoInstall(v)
  <2>1. /\ UNCHANGED <<answers, events, eventsFile, cmd, todo, cur, ledger, ledgerFile, phase>>
        /\ pc \in {"install", "check"} /\ pc' = "exit"
    BY <1>18 DEF Installed, AutoInstall, cpVars, memVars
  <2>2. FilesAsMemory' /\ ledgerFile = ledger
    BY <1>2, <2>1 DEF FilesAsMemory
  <2>3. TodoInv'
    BY <1>1, <1>2, <2>1 DEF TodoInv, Quiet
  <2>4. \A c \in Commands : ledgerFile[c] = "open" => Names(c) = {}
    BY <1>2, <2>1, <2>2 DEF TodoInv, Before, ResultsInv, OpenInv
  <2>5. OpenVerdict' /\ OneName'
    BY <1>1, <2>1, <2>4 DEF OpenVerdict, OneName, Quiet, Before, VerdictInv
  <2>6. QED
    BY <2>2, <2>3, <2>5 DEF VerdictInv
<1>19. CASE MarkSent \/ Record
  <2>1. /\ UNCHANGED <<answers, events, eventsFile, cmd, binary, phase, todo>>
        /\ pc \in {"mark", "record"} /\ cur \in Commands /\ cur' = NoCommand
        /\ pc' = "run" \/ (pc' = "resolve" /\ phase = "boot")
        /\ ledger' = [ledger EXCEPT ![cur] = "sent"] /\ ledgerFile' = ledger'
    BY <1>2, <1>19, NoWriteFails DEF MarkSent, Record, TypeOK, cpVars
  <2>2. TodoInv'
    BY <1>1, <1>2, <2>1, NoCommandAssumption DEF TodoInv, Quiet
  <2>3. FilesAsMemory' /\ ledgerFile = ledger
    BY <1>2, <2>1 DEF FilesAsMemory
  <2>4. \A c \in Commands : ledgerFile'[c] = "open" => ledgerFile[c] = "open"
    BY <1>2, <2>1, <2>3 DEF TypeOK
  <2>5. QED
    BY <1>1, <2>1, <2>2, <2>3, <2>4, QuietVerdict
<1>20. QED
  BY <1>4, <1>5, <1>6, <1>7, <1>8, <1>9, <1>10, <1>11, <1>12, <1>13, <1>14, <1>15, <1>16, <1>17, <1>18, <1>19
  DEF Next, Environment, Agent, Command

\* The control plane never gets two different results for one command, wherever
\* crashes come, whatever is refused or installed in between, for any number of
\* commands. The three premises are those of the run of ImplementsLife.
THEOREM VerdictIsOne ==
  ASSUME MaxDiskErrors = 0, StaleReplies = FALSE, OperatorUpdates = FALSE
  PROVE  Spec => []OneVerdict
<1>1. Before => OneVerdict
  <2> SUFFICES ASSUME Before, NEW c \in Commands PROVE Cardinality(answers[c]) <= 1
    BY DEF OneVerdict
  <2>1. \A m, n \in answers[c] : m = n
    BY DEF Before, VerdictInv, OneName, Names
  <2>2. answers[c] = {} \/ \E n : answers[c] = {n}
    BY <2>1
  <2>3. Cardinality(answers[c]) = 0 \/ Cardinality(answers[c]) = 1
    BY <2>2, FS_EmptySet, FS_Singleton
  <2>4. QED
    BY <2>3
<1>2. Init => Before
  BY RunsInit, ResultsInit, DowngradeInit, VerdictInit DEF Before
<1>3. Before /\ [Next]_vars => Before'
  BY RunsStep, ResultsStep, DowngradeStep, VerdictStep DEF Before, IInv
<1>4. QED
  BY <1>1, <1>2, <1>3, PTL DEF Spec

-----------------------------------------------------------------------------
(***************************************************************************)
(* The life of a command.                                                   *)
(***************************************************************************)

\* What a step is about to say or to do is right for its command.
StepFits ==
  /\ pc = "fail" => cmd[cur].verb \in {"update", "badargs"} /\ cur \notin done
  /\ pc = "exit" /\ cur # NoCommand /\ cmd[cur].verb = "restart" => Names(cur) = {}

\* Only an update or a restart is open. An update that was carried out is what the
\* binary is, and a restart began or is the next step.
OpenFits ==
  \A c \in Commands : ledgerFile[c] = "open" =>
    \/ cmd[c].verb = "update" /\ (c \in done => ~NotYet(binary, cmd[c].target))
    \/ cmd[c].verb = "restart" /\ (c \in done \/ (pc = "exit" /\ cur = c))

\* All that was ever said of a command is true of it.
NamesFit == \A c \in Commands : Names(c) \subseteq Life!True(c)

\* What was carried out began, and a restart that began was carried out.
RanFits ==
  \A c \in Commands :
    /\ ran[c] # 0 => cmd[c].verb \in {"restart", "update"}
    /\ c \in done => ran[c] # 0
    /\ cmd[c].verb = "restart" /\ ran[c] # 0 => c \in done

\* No list was lost, and the server had the version that it has.
HadFits == forgotten = {} /\ binary \in had

LifeInv == StepFits /\ OpenFits /\ NamesFit /\ RanFits /\ HadFits

\* The server has had the target of update c, or a newer version.
Reached(c) == cmd[c].verb = "update" /\ \E v \in had : ~NotYet(v, cmd[c].target)

\* The verdicts that are true of a command, by its verb.
LEMMA TrueOf ==
  ASSUME NEW c \in Commands
  PROVE  /\ cmd[c].verb = "restart" /\ c \in done    => Life!True(c) = {"completed"}
         /\ cmd[c].verb = "restart" /\ c \notin done => Life!True(c) = {}
         /\ cmd[c].verb = "update" => \A n : n \in Life!True(c) <=>
              ((n = "completed" /\ Reached(c)) \/ (n = "failed" /\ c \notin done))
         /\ cmd[c].verb = "unknown" => Life!True(c) = {"unknown"}
         /\ cmd[c].verb = "badargs" => Life!True(c) = {"failed"}
         /\ cmd[c].verb = "none"    => Life!True(c) = {}
BY DEF Life!True, Reached

LEMMA TrueNext ==
  ASSUME NEW c \in Commands
  PROVE  /\ cmd'[c].verb = "restart" /\ c \in done'    => Life!True(c)' = {"completed"}
         /\ cmd'[c].verb = "restart" /\ c \notin done' => Life!True(c)' = {}
         /\ cmd'[c].verb = "update" => \A n : n \in Life!True(c)' <=>
              ((n = "completed" /\ Reached(c)') \/ (n = "failed" /\ c \notin done'))
         /\ cmd'[c].verb = "unknown" => Life!True(c)' = {"unknown"}
         /\ cmd'[c].verb = "badargs" => Life!True(c)' = {"failed"}
         /\ cmd'[c].verb = "none"    => Life!True(c)' = {}
BY DEF Life!True, Reached

\* The verb of a command is one of the five.
LEMMA VerbOf ==
  ASSUME TypeOK, NEW c \in Commands
  PROVE  cmd[c].verb \in {"restart", "unknown", "badargs", "update", "none"}
BY DEF TypeOK, Kinds, NotIssued

\* What was true of a command is true after the step, but a failure of an update that
\* the step carries out.
LEMMA TrueStays ==
  ASSUME TypeOK, UNCHANGED cmd, done \subseteq done', had \subseteq had', NEW c \in Commands,
         c \in done' => c \in done
  PROVE  Life!True(c) \subseteq Life!True(c)'
<1>1. Reached(c) => Reached(c)'
  BY DEF Reached
<1>2. CASE cmd[c].verb = "update"
  BY <1>1, <1>2, TrueOf, TrueNext
<1>3. CASE cmd[c].verb # "update"
  <2>1. c \in done' <=> c \in done
    OBVIOUS
  <2>2. QED
    BY <1>3, <2>1, VerbOf, TrueOf, TrueNext
<1>4. QED
  BY <1>2, <1>3

LEMMA LifeInit == Init => LifeInv
<1> SUFFICES ASSUME Init PROVE LifeInv
  OBVIOUS
<1>1. \A c \in Commands : Names(c) = {}
  BY DEF Init, Names
<1>2. QED
  BY <1>1 DEF Init, NothingRan, LifeInv, StepFits, OpenFits, NamesFit, RanFits, HadFits

\* What a step must leave as it was, or do, for all that was said to stay true.
LEMMA LifeKeeps ==
  ASSUME TypeOK, LifeInv, UNCHANGED cmd, done \subseteq done', had \subseteq had',
         \A c \in Commands : c \in done' => c \in done \/ Names(c)' = {},
         \A c \in Commands : Names(c)' \subseteq Names(c) \cup Life!True(c)',
         OpenFits', RanFits', StepFits', HadFits'
  PROVE  LifeInv'
<1>1. ASSUME NEW c \in Commands PROVE Names(c)' \subseteq Life!True(c)'
  <2>1. CASE Names(c)' = {}
    BY <2>1
  <2>2. CASE c \in done' => c \in done
    <3>1. Life!True(c) \subseteq Life!True(c)'
      BY <2>2, TrueStays
    <3>2. Names(c) \subseteq Life!True(c)
      BY DEF LifeInv, NamesFit
    <3>3. QED
      BY <3>1, <3>2
  <2>3. QED
    BY <2>1, <2>2
<1>2. QED
  BY <1>1 DEF LifeInv, NamesFit

\* The steps that say nothing, run nothing and install nothing.
LEMMA QuietLife ==
  ASSUME TypeOK, LifeInv, Quiet, UNCHANGED <<cmd, ran, done, had, binary, forgotten>>,
         \A c \in Commands : ledgerFile'[c] = "open" =>
           ledgerFile[c] = "open" \/ (cmd[c].verb = "update" /\ c \notin done),
         pc = "exit" => pc' = "exit" /\ cur' = cur,
         pc' = "fail" => \/ pc = "fail" /\ cur' = cur
                         \/ cmd[cur'].verb \in {"update", "badargs"} /\ cur' \notin done,
         pc' = "exit" => \/ pc = "exit"
                         \/ cur' = NoCommand
                         \/ cur' \in Commands /\ cmd[cur'].verb # "restart"
  PROVE  LifeInv'
<1>1. pc = "exit" => cur \in Commands \cup {NoCommand}
  BY DEF TypeOK
<1>2. StepFits'
  BY <1>1, NoCommandAssumption DEF LifeInv, StepFits, Quiet
<1>3. \A c \in Commands : Names(c)' \subseteq Names(c) \cup Life!True(c)'
  BY DEF Quiet
<1>4. OpenFits' /\ RanFits' /\ HadFits'
  BY DEF LifeInv, OpenFits, RanFits, HadFits
<1>5. QED
  BY <1>2, <1>3, <1>4, LifeKeeps

\* The steps that say n of the command of the present step.
LEMMA SaysLife ==
  ASSUME TypeOK, LifeInv, NEW c \in Commands, NEW n, Says(n, c),
         UNCHANGED <<cmd, ledgerFile, done, had, binary, forgotten>>,
         n \in Life!True(c)',
         \A d \in Commands : ran[d] # 0 => ran'[d] # 0,
         \A d \in Commands : ran'[d] # 0 => ran[d] # 0 \/ cmd[d].verb = "update",
         pc # "exit", pc' \notin {"exit", "fail"}
  PROVE  LifeInv'
<1>1. \A d \in Commands : Names(d)' \subseteq Names(d) \cup Life!True(d)'
  BY DEF Says
<1>2. StepFits'
  BY DEF StepFits
<1>3. OpenFits' /\ HadFits'
  BY DEF LifeInv, OpenFits, HadFits
<1>4. RanFits'
  BY DEF LifeInv, RanFits
<1>5. QED
  BY <1>1, <1>2, <1>3, <1>4, LifeKeeps

\* A command that is to do, or whose step just began, was not carried out.
LEMMA NotDone ==
  ASSUME TypeOK, RanInv, RanFits, HadFits, pc = "run", NEW c \in todo, ~Has(c)
  PROVE  c \in Commands /\ ran[c] = 0 /\ c \notin done
BY DEF TypeOK, RanInv, RanFits, HadFits, Up

LEMMA LifeStep ==
  ASSUME MaxDiskErrors = 0, StaleReplies = FALSE, OperatorUpdates = FALSE,
         Before, LifeInv, [Next]_vars
  PROVE  LifeInv'
<1> DEFINE Frame == UNCHANGED <<answers, events, eventsFile>>
<1>1. Frame => Quiet
  BY DEF Quiet, Names
<1>2. /\ TypeOK /\ todo \subseteq Commands
      /\ FilesAsMemory /\ TodoInv /\ CurInv /\ AgeInv /\ EffectInv /\ RanInv /\ BinaryInv
      /\ StepFits /\ OpenFits /\ RanFits /\ HadFits
  BY DEF Before, IInv, TypeOK, VerdictInv, LifeInv, DowngradeInv
<1> USE DEF Up
<1>3. CASE UNCHANGED <<answers, events, eventsFile, cur, ledgerFile, pc, cmd, ran, done, had, binary, forgotten>>
  BY <1>1, <1>2, <1>3, QuietLife
\* Nothing was said or done of a command that is not issued.
<1>4. ASSUME NEW c \in Commands, Issue(c) PROVE LifeInv'
  <2>1. /\ UNCHANGED <<answers, events, eventsFile, todo, cur, ledger, ledgerFile, pc, ran>>
        /\ UNCHANGED <<done, had, binary, forgotten>>
        /\ c \notin Issued /\ \E k \in Kinds : cmd' = [cmd EXCEPT ![c] = k]
    BY <1>4 DEF Issue, diskVars, memVars, ghostVars
  <2>2. /\ cmd[c].verb = "none" /\ \A d \in Commands : d # c => cmd'[d] = cmd[d]
    BY <1>2, <2>1 DEF TypeOK, Issued, NotIssued
  <2>3. ledgerFile[c] # "open" /\ cur # c
    BY <1>2, <2>1, NoCommandAssumption DEF AgeInv, CurInv
  <2>4. ran[c] = 0 /\ Names(c) = {}
    BY <2>2, TrueOf DEF LifeInv, RanFits, NamesFit
  <2>5. \A d \in Commands : Names(d)' = Names(d)
    BY <2>1 DEF Names
  <2>6. NamesFit'
    <3> SUFFICES ASSUME NEW d \in Commands PROVE Names(d)' \subseteq Life!True(d)'
      BY DEF NamesFit
    <3>1. CASE d = c
      BY <2>4, <2>5, <3>1
    <3>2. CASE d # c
      <4>1. cmd'[d] = cmd[d] /\ (Reached(d)' <=> Reached(d))
        BY <2>1, <2>2, <3>2 DEF Reached
      <4>2. Life!True(d) \subseteq Life!True(d)'
        BY <1>2, <2>1, <4>1, VerbOf, TrueOf, TrueNext
      <4>3. QED
        BY <2>5, <4>2 DEF LifeInv, NamesFit
    <3>3. QED
      BY <3>1, <3>2
  <2>7. OpenFits' /\ RanFits' /\ HadFits'
    BY <1>2, <2>1, <2>2, <2>3, <2>4 DEF OpenFits, RanFits, HadFits
  <2>8. StepFits'
    <3>1. pc = "fail" => cur \in Commands
      BY <1>2 DEF TypeOK
    <3>2. cur # NoCommand => cur \in Commands
      BY <1>2 DEF TypeOK
    <3>3. QED
      BY <1>2, <2>1, <2>2, <2>3, <2>5, <3>1, <3>2 DEF StepFits
  <2>9. QED
    BY <2>6, <2>7, <2>8 DEF LifeInv
<1>5. CASE NextDay \/ FlyStart \/ FlyEnd \/ (\E v \in Versions : FlyUpdate(v)) \/ UNCHANGED vars
  BY <1>2, <1>3, <1>5 DEF NextDay, FlyStart, FlyEnd, FlyUpdate, BinaryInv,
     vars, cpVars, diskVars, memVars, ghostVars
<1>6. CASE Start \/ Stop
  <2>1. /\ UNCHANGED <<answers, cmd, ran, done, had, binary, forgotten, eventsFile, ledgerFile>>
        /\ events' \subseteq eventsFile /\ pc # "exit" /\ pc' \in {"down", "boot"}
    BY <1>2, <1>6, NoWriteFails DEF Start, Stop, LoseMemory, cpVars, diskVars, ghostVars
  <2>2. Quiet
    BY <2>1 DEF Quiet, Names
  <2>3. QED
    BY <1>2, <2>1, <2>2, QuietLife
\* The end of the process is the restart that was asked for.
<1>7. CASE Exit
  <2>1. /\ UNCHANGED <<answers, cmd, eventsFile, ledgerFile, had, binary, forgotten>>
        /\ events' = {} /\ pc = "exit" /\ pc' = "down"
    BY <1>7 DEF Exit, LoseMemory, cpVars, diskVars
  <2>2. Quiet /\ StepFits'
    BY <2>1 DEF Quiet, Names, StepFits
  <2>3. CASE cur # NoCommand /\ cmd[cur].verb = "restart"
    <3>1. /\ ran' = [ran EXCEPT ![cur] = @ + 1] /\ done' = done \cup {cur}
          /\ cur \in Commands /\ Names(cur) = {}
      BY <1>2, <1>7, <2>1, <2>3 DEF Exit, TypeOK, StepFits
    <3>2. \A c \in Commands : c \in done' => c \in done \/ Names(c)' = {}
      BY <2>2, <3>1 DEF Quiet
    <3>3. ran[cur] + 1 # 0 /\ \A c \in Commands : c # cur => ran'[c] = ran[c]
      BY <1>2, <3>1 DEF TypeOK
    <3>4. RanFits'
      BY <1>2, <2>1, <2>3, <3>1, <3>3 DEF RanFits, TypeOK
    <3>5. OpenFits' /\ HadFits'
      BY <1>2, <2>1, <2>3, <3>1 DEF OpenFits, HadFits
    <3>6. QED
      BY <1>2, <2>1, <2>2, <3>1, <3>2, <3>4, <3>5, LifeKeeps DEF Quiet
  <2>4. CASE ~(cur # NoCommand /\ cmd[cur].verb = "restart")
    <3>1. UNCHANGED <<ran, done>>
      BY <1>7, <2>4 DEF Exit
    <3>2. \A c \in Commands : ~(cmd[c].verb = "restart" /\ cur = c)
      BY <2>4, NoCommandAssumption
    <3>3. RanFits' /\ OpenFits' /\ HadFits'
      BY <1>2, <2>1, <3>1, <3>2 DEF RanFits, OpenFits, HadFits
    <3>4. QED
      BY <1>2, <2>1, <2>2, <3>1, <3>3, LifeKeeps DEF Quiet
  <2>5. QED
    BY <2>3, <2>4
<1>8. CASE AddStarted
  <2>1. Quiet
    BY <1>2, <1>8, AddSays, NoCommandAssumption DEF AddStarted, Says, Quiet, cpVars
  <2>2. /\ UNCHANGED <<cmd, cur, ledgerFile, ran, done, had, binary, forgotten>>
        /\ pc = "boot" /\ pc' = "resolve"
    BY <1>8 DEF AddStarted, cpVars
  <2>3. QED
    BY <1>2, <2>1, <2>2, QuietLife
\* An open restart is told only after it began, and an update by what the binary is.
<1>9. ASSUME NEW c \in Commands, ResolveOne(c) PROVE LifeInv'
  <2>1. PICK n \in {"completed", "failed"} :
          /\ AddEvent(n, c)
          /\ n = "failed" <=> (cmd[c].verb = "update" /\ NotYet(running, cmd[c].target))
    BY <1>9 DEF ResolveOne
  <2>2. /\ pc = "resolve" /\ ledger[c] = "open" /\ pc' = "mark"
        /\ UNCHANGED <<answers, cmd, ledgerFile, ran, done, had, binary, forgotten>>
    BY <1>9 DEF ResolveOne, cpVars
  <2>3. Says(n, c)
    BY <1>2, <2>1, <2>2, AddSays
  <2>4. ledgerFile[c] = "open" /\ running = binary
    BY <1>2, <2>2 DEF FilesAsMemory, BinaryInv
  <2>5. CASE cmd[c].verb = "update"
    <3>1. n = "completed" => Reached(c)'
      BY <1>2, <2>1, <2>2, <2>4, <2>5 DEF Reached, HadFits
    <3>2. n = "failed" => c \notin done'
      BY <1>2, <2>1, <2>2, <2>4, <2>5 DEF OpenFits
    <3>3. n \in Life!True(c)'
      BY <2>2, <2>5, <3>1, <3>2, TrueNext
    <3>4. QED
      BY <1>2, <2>2, <2>3, <3>3, SaysLife
  <2>6. CASE cmd[c].verb # "update"
    <3>1. n = "completed" /\ cmd'[c].verb = "restart" /\ c \in done'
      BY <1>2, <2>1, <2>2, <2>4, <2>6 DEF OpenFits
    <3>2. n \in Life!True(c)'
      BY <3>1, TrueNext
    <3>3. QED
      BY <1>2, <2>2, <2>3, <3>2, SaysLife
  <2>7. QED
    BY <2>5, <2>6
<1>10. CASE InstallFailed \/ AddFailed
  <2>1. /\ pc \in {"install", "fail"} /\ pc' \in {"mark", "record"} /\ AddEvent("failed", cur)
        /\ UNCHANGED <<answers, cmd, ledgerFile, done, had, binary, forgotten>> /\ cur \in Commands
        /\ ran' = ran \/ (pc = "install" /\ ran' = [ran EXCEPT ![cur] = @ + 1])
    BY <1>2, <1>10 DEF InstallFailed, AddFailed, cpVars, TypeOK
  <2>2. cmd[cur].verb \in {"update", "badargs"} /\ (pc = "install" => cmd[cur].verb = "update")
    BY <1>2, <2>1 DEF TypeOK, StepFits
  <2>3. cur \notin done
    BY <1>2, <2>1 DEF StepFits, EffectInv, RanFits, HadFits
  <2>4. PICK k \in Commands : k = cur
    BY <2>1
  <2>5. Says("failed", k)
    BY <1>2, <2>1, <2>4, AddSays
  <2>6. "failed" \in Life!True(k)'
    BY <2>1, <2>2, <2>3, <2>4, TrueNext
  <2>7. \A d \in Commands : ran[d] # 0 => ran'[d] # 0
    BY <1>2, <2>1 DEF TypeOK
  <2>8. \A d \in Commands : ran'[d] # 0 => ran[d] # 0 \/ cmd[d].verb = "update"
    BY <1>2, <2>1, <2>2 DEF TypeOK
  <2>9. pc # "exit" /\ pc' \notin {"exit", "fail"}
    BY <2>1
  <2>10. QED
    BY <1>2, <2>1, <2>5, <2>6, <2>7, <2>8, <2>9, SaysLife
<1>11. ASSUME NEW c \in Commands, RunUnknown(c) \/ RunSame(c) PROVE LifeInv'
  <2>1. PICK n : /\ AddEvent(n, c)
                 /\ \/ n = "unknown" /\ cmd[c].verb = "unknown"
                    \/ n = "completed" /\ cmd[c].verb = "update" /\ Same(running, cmd[c].target)
    BY <1>11 DEF RunUnknown, RunSame
  <2>2. /\ pc = "run" /\ pc' = "record"
        /\ UNCHANGED <<answers, cmd, ledgerFile, ran, done, had, binary, forgotten>>
    BY <1>11 DEF RunUnknown, RunSame, Take, cpVars
  <2>3. Says(n, c)
    BY <1>2, <2>1, <2>2, AddSays
  <2>4. n = "completed" => Reached(c)'
    <3>1. Same(running, cmd[c].target) => ~NotYet(running, cmd[c].target)
      BY DEF Same, NotYet, Older
    <3>2. QED
      BY <1>2, <2>1, <2>2, <3>1 DEF Reached, BinaryInv, HadFits
  <2>5. n \in Life!True(c)'
    BY <2>1, <2>2, <2>4, TrueNext
  <2>6. QED
    BY <1>2, <2>2, <2>3, <2>5, SaysLife
<1>12. CASE PostSent \/ PostRefused \/ PostLater
  <2>1. /\ events' \subseteq events /\ eventsFile' \subseteq events \cup eventsFile
        /\ answers' = answers \/ answers' = Accepted(Batch)
    BY <1>2, <1>12, NoWriteFails DEF PostSent, PostRefused, PostLater, cpVars, diskVars, memVars
  <2>2. /\ pc = "send" /\ pc' \in {"send", "idle", "check"}
        /\ UNCHANGED <<cmd, ran, ledgerFile, done, had, binary, forgotten>>
    BY <1>12 DEF PostSent, PostRefused, PostLater, AfterUnsent, cpVars, diskVars, memVars, ghostVars
  <2>3. QED
    BY <1>2, <2>1, <2>2, PostQuiet, QuietLife
<1>13. CASE \/ Resolved \/ Report \/ NoReport \/ SendDone \/ PollFailed \/ CommandsDone \/ TickDone
            \/ \E c \in Commands : SkipRan(c)
  <2>1. /\ UNCHANGED <<answers, events, eventsFile, cmd, ledgerFile, ran, done, had, binary, forgotten>>
        /\ pc \in {"resolve", "idle", "send", "poll", "run", "check"}
        /\ pc' \in {"send", "check", "idle", "poll", "run"}
    BY <1>2, <1>13 DEF Resolved, Report, NoReport, SendDone, PollFailed, CommandsDone, TickDone,
       SkipRan, TypeOK, cpVars, diskVars, memVars, ghostVars
  <2>2. QED
    BY <1>1, <1>2, <2>1, QuietLife
<1>14. CASE Poll
  <2>1. /\ pc = "poll" /\ pc' = "run"
        /\ UNCHANGED <<answers, events, eventsFile, cmd, ran, done, had, binary, forgotten>>
    BY <1>14 DEF Poll, cpVars, ghostVars
  <2>2. ledgerFile = ledger
    BY <1>2, <2>1 DEF FilesAsMemory
  <2>3. \A c \in Commands : ledgerFile'[c] = "open" => ledgerFile[c] = "open"
    BY <1>2, <1>14, <2>2, NoWriteFails DEF Poll, Pruned
  <2>4. QED
    BY <1>1, <1>2, <2>1, <2>3, QuietLife
<1>15. ASSUME NEW c \in Commands, RunRestart(c) PROVE LifeInv'
  <2>1. /\ UNCHANGED <<answers, events, eventsFile, cmd, ran, done, had, binary, forgotten>>
        /\ pc = "run" /\ c \in todo /\ cur' = c /\ cmd[c].verb = "restart"
        /\ ledger' = [ledger EXCEPT ![c] = "open"] /\ ledgerFile' = ledger' /\ pc' = "exit"
    BY <1>2, <1>15, NoWriteFails DEF RunRestart, Take, cpVars
  <2>2. ledgerFile = ledger
    BY <1>2, <2>1 DEF FilesAsMemory
  <2>3. \A d \in Commands : ledgerFile'[d] = "open" => ledgerFile[d] = "open" \/ d = c
    BY <1>2, <2>1, <2>2 DEF TypeOK
  <2>4. StepFits'
    BY <1>1, <1>2, <2>1 DEF StepFits, TodoInv, Quiet
  <2>5. \A d \in Commands : Names(d)' \subseteq Names(d) \cup Life!True(d)'
    BY <1>1, <2>1 DEF Quiet
  <2>6. OpenFits' /\ RanFits' /\ HadFits'
    BY <1>2, <2>1, <2>3 DEF OpenFits, RanFits, HadFits
  <2>7. QED
    BY <1>2, <2>1, <2>4, <2>5, <2>6, LifeKeeps
<1>16. ASSUME NEW c \in Commands, RunUpdate(c) PROVE LifeInv'
  <2>1. /\ UNCHANGED <<answers, events, eventsFile, cmd, ran, done, had, binary, forgotten>>
        /\ pc = "run" /\ cur' = c /\ cmd[c].verb = "update" /\ c \in todo /\ ~Has(c)
        /\ ledger' = [ledger EXCEPT ![c] = "open"] /\ ledgerFile' = ledger' /\ pc' = "install"
    BY <1>2, <1>16, NoWriteFails DEF RunUpdate, Take, cpVars
  <2>2. ledgerFile = ledger /\ c \notin done
    BY <1>2, <2>1, NotDone DEF FilesAsMemory
  <2>3. \A d \in Commands : ledgerFile'[d] = "open" =>
          ledgerFile[d] = "open" \/ (cmd[d].verb = "update" /\ d \notin done)
    BY <1>2, <2>1, <2>2 DEF TypeOK
  <2>4. QED
    BY <1>1, <1>2, <2>1, <2>3, QuietLife
<1>17. ASSUME NEW c \in Commands, RunRefused(c) PROVE LifeInv'
  <2>1. /\ UNCHANGED <<answers, events, eventsFile, cmd, ran, ledgerFile, done, had, binary, forgotten>>
        /\ pc = "run" /\ cur' = c /\ pc' = "fail" /\ cmd[c].verb \in {"update", "badargs"}
        /\ c \in todo /\ ~Has(c)
    BY <1>17 DEF RunRefused, Take, cpVars, diskVars, ghostVars
  <2>2. c \notin done
    BY <1>2, <2>1, NotDone
  <2>3. QED
    BY <1>1, <1>2, <2>1, <2>2, QuietLife
\* The binary becomes the target of the only command that is open.
<1>18. CASE Installed
  <2>1. /\ UNCHANGED <<answers, events, eventsFile, cmd, cur, ledgerFile, forgotten>>
        /\ pc = "install" /\ pc' = "exit" /\ ran' = [ran EXCEPT ![cur] = @ + 1]
        /\ done' = done \cup {cur} /\ had' = had \cup {binary'} /\ binary' = cmd[cur].target
        /\ cur \in Commands /\ cmd[cur].verb = "update"
    BY <1>2, <1>18 DEF Installed, TypeOK, cpVars, memVars
  <2>2. Quiet /\ Names(cur) = {} /\ \A d \in Commands : ledgerFile[d] = "open" => d = cur
    BY <1>1, <1>2, <2>1 DEF TodoInv, FilesAsMemory, Before, ResultsInv, OpenInv
  <2>3. \A d \in Commands : d \in done' => d \in done \/ Names(d)' = {}
    BY <2>1, <2>2 DEF Quiet
  <2>4. ran[cur] + 1 # 0 /\ \A d \in Commands : d # cur => ran'[d] = ran[d]
    BY <1>2, <2>1 DEF TypeOK
  <2>5. RanFits'
    BY <1>2, <2>1, <2>4 DEF RanFits, TypeOK
  <2>6. ~NotYet(binary', cmd[cur].target)
    BY <2>1 DEF NotYet, Ordered, Older
  <2>7. OpenFits' /\ HadFits'
    BY <1>2, <2>1, <2>2, <2>6 DEF OpenFits, HadFits
  <2>8. StepFits'
    BY <2>1 DEF StepFits
  <2>9. QED
    BY <1>2, <2>1, <2>2, <2>3, <2>5, <2>7, <2>8, LifeKeeps DEF Quiet
\* No command is open when the agent updates by itself.
<1>19. CASE \E v \in Versions : AutoInstall(v)
  <2>1. /\ UNCHANGED <<answers, events, eventsFile, cmd, cur, ledgerFile, ran, done, forgotten>>
        /\ pc = "check" /\ pc' = "exit" /\ had' = had \cup {binary'}
    BY <1>19 DEF AutoInstall, cpVars, memVars
  <2>2. cur = NoCommand /\ \A d \in Commands : ledgerFile[d] # "open"
    BY <1>2, <2>1 DEF CurInv, Between, FilesAsMemory, Before, ResultsInv, OpenInv
  <2>3. Quiet /\ StepFits' /\ OpenFits' /\ RanFits' /\ HadFits'
    BY <1>1, <1>2, <2>1, <2>2 DEF StepFits, OpenFits, RanFits, HadFits
  <2>4. QED
    BY <1>2, <2>1, <2>3, LifeKeeps DEF Quiet
<1>20. CASE MarkSent \/ Record
  <2>1. /\ UNCHANGED <<answers, events, eventsFile, cmd, ran, done, had, binary, forgotten>>
        /\ pc \in {"mark", "record"} /\ cur \in Commands /\ pc' \in {"run", "resolve"}
        /\ ledger' = [ledger EXCEPT ![cur] = "sent"] /\ ledgerFile' = ledger'
    BY <1>2, <1>20, NoWriteFails DEF MarkSent, Record, TypeOK, cpVars, ghostVars
  <2>2. ledgerFile = ledger
    BY <1>2, <2>1 DEF FilesAsMemory
  <2>3. \A c \in Commands : ledgerFile'[c] = "open" => ledgerFile[c] = "open"
    BY <1>2, <2>1, <2>2 DEF TypeOK
  <2>4. QED
    BY <1>1, <1>2, <2>1, <2>3, QuietLife
<1>21. QED
  BY <1>4, <1>5, <1>6, <1>7, <1>8, <1>9, <1>10, <1>11, <1>12, <1>13, <1>14, <1>15, <1>16, <1>17,
     <1>18, <1>19, <1>20
  DEF Next, Environment, Agent, Command

\* Each step is one of the life of a command, or changes nothing that it tells of: by what
\* holds before the step, and because no command has two results after it.
LEMMA LifeSteps ==
  ASSUME Before, Before', LifeInv, LifeInv', [Next]_vars
  PROVE  [Life!Next]_(Life!vars)
<1> DEFINE verb    == [c \in Commands |-> cmd[c].verb]
           begun   == {c \in Commands : ran[c] # 0}
           reached == {c \in Commands : cmd[c].verb = "update" /\ \E v \in had : ~NotYet(v, cmd[c].target)}
<1> USE DEF Life!vars
<1>1. /\ TypeOK /\ TodoInv /\ EffectInv /\ RanFits /\ StepFits /\ HadFits
  BY DEF Before, IInv, VerdictInv, LifeInv
<1>2. CASE UNCHANGED <<cmd, ran, answers, done, had>>
  BY <1>2
<1>3. ASSUME NEW c \in Commands, Issue(c) PROVE Life!Next
  <2>1. UNCHANGED <<ran, answers, done, had>> /\ c \notin Issued
    BY <1>3 DEF Issue, ghostVars
  <2>2. PICK k \in Kinds : cmd' = [cmd EXCEPT ![c] = k]
    BY <1>3 DEF Issue
  <2>3. verb[c] = "none"
    BY <2>1 DEF Issued, NotIssued
  <2>4. verb' = [verb EXCEPT ![c] = k.verb] /\ k.verb \in {"restart", "update", "unknown", "badargs"}
    BY <1>1, <2>2 DEF TypeOK, Kinds
  <2>5. \A d \in Commands : d # c => cmd'[d] = cmd[d]
    BY <1>1, <2>2 DEF TypeOK
  <2>6. /\ c \notin reached /\ (c \in reached' => verb'[c] = "update")
        /\ \A d \in Commands : d # c => (d \in reached' <=> d \in reached)
    BY <2>1, <2>3, <2>5
  <2>7. reached' \in {reached, IF verb'[c] = "update" THEN reached \cup {c} ELSE reached}
    <3>1. CASE c \in reached'
      BY <2>6, <3>1
    <3>2. CASE c \notin reached'
      BY <2>6, <3>2
    <3>3. QED
      BY <3>1, <3>2
  <2>8. Life!Issue(c)
    BY <2>1, <2>3, <2>4, <2>7 DEF Life!Issue
  <2>9. QED
    BY <2>8 DEF Life!Next
\* The effect of k begins, of which nothing was said.
<1>4. ASSUME NEW k \in Commands, cmd[k].verb \in {"restart", "update"}, ran[k] = 0, Names(k) = {},
             ran' = [ran EXCEPT ![k] = @ + 1], UNCHANGED <<cmd, answers>>,
             \/ cmd[k].verb = "restart" /\ done' = done \cup {k} /\ UNCHANGED had
             \/ cmd[k].verb = "update" /\ UNCHANGED <<done, had>>
             \/ /\ cmd[k].verb = "update" /\ done' = done \cup {k} /\ had \subseteq had'
                /\ cmd[k].target \in had'
      PROVE  Life!Next
  <2>1. begun' = begun \cup {k} /\ k \notin begun
    BY <1>1, <1>4 DEF TypeOK
  <2>2. verb[k] \in {"restart", "update"} /\ answers[k] = {} /\ verb[k] = cmd[k].verb
    BY <1>4 DEF Names
  <2>3. UNCHANGED had => UNCHANGED reached
    BY <1>4
  <2>4. had \subseteq had' => reached \subseteq reached'
    BY <1>4
  <2>5. reached' \subseteq {c \in Commands : verb[c] = "update"}
    BY <1>4
  <2>6. cmd[k].verb = "update" /\ cmd[k].target \in had' => k \in reached'
    BY <1>4 DEF NotYet, Ordered, Older
  <2>7. \/ verb[k] = "restart" /\ done' = done \cup {k} /\ UNCHANGED reached
        \/ verb[k] = "update" /\ UNCHANGED <<done, reached>>
        \/ /\ verb[k] = "update" /\ done' = done \cup {k}
           /\ reached \cup {k} \subseteq reached' /\ reached' \subseteq Life!Updates
    <3> HIDE DEF reached, verb, begun
    <3>1. reached' \subseteq Life!Updates
      BY <2>5 DEF Life!Updates, verb
    <3>2. QED
      BY <1>4, <2>2, <2>3, <2>4, <2>6, <3>1
  <2>8. UNCHANGED <<verb, answers>>
    BY <1>4
  <2>9. Life!Begin(k)
    <3> HIDE DEF reached
    <3>1. QED
      BY <2>1, <2>2, <2>7, <2>8 DEF Life!Begin, reached
  <2>10. \E c \in Commands : Life!Begin(c)
    BY <1>4, <2>9
  <2>11. QED
    BY <2>10 DEF Life!Next
<1>5. CASE Exit
  <2>1. UNCHANGED <<cmd, answers, had>>
    BY <1>5 DEF Exit, cpVars
  <2>2. CASE cur # NoCommand /\ cmd[cur].verb = "restart"
    <3>1. ran' = [ran EXCEPT ![cur] = @ + 1] /\ done' = done \cup {cur} /\ pc = "exit"
      BY <1>5, <2>2 DEF Exit
    <3>2. cur \in Commands /\ ran[cur] = 0 /\ Names(cur) = {}
      BY <1>1, <2>2, <3>1 DEF TypeOK, EffectInv, StepFits, HadFits
    <3>3. QED
      BY <1>4, <2>1, <2>2, <3>1, <3>2
  <2>3. CASE ~(cur # NoCommand /\ cmd[cur].verb = "restart")
    BY <1>2, <1>5, <2>1, <2>3 DEF Exit
  <2>4. QED
    BY <2>2, <2>3
<1>6. CASE Installed \/ InstallFailed
  <2>1. pc = "install" /\ ran' = [ran EXCEPT ![cur] = @ + 1] /\ UNCHANGED <<cmd, answers>>
    BY <1>6 DEF Installed, InstallFailed, cpVars
  <2>2. cur \in Commands /\ cmd[cur].verb = "update" /\ ran[cur] = 0 /\ Names(cur) = {}
    BY <1>1, <2>1 DEF TypeOK, EffectInv, TodoInv, HadFits
  <2>3. \/ UNCHANGED <<done, had>>
        \/ done' = done \cup {cur} /\ had \subseteq had' /\ cmd[cur].target \in had'
    BY <1>6 DEF Installed, InstallFailed
  <2>4. QED
    BY <1>4, <2>1, <2>2, <2>3
\* The control plane takes what waited, and still has one result of each command.
<1>7. CASE PostSent \/ PostLater
  <2>1. UNCHANGED <<cmd, ran, done, had>> /\ (answers' = answers \/ answers' = Accepted(Batch))
    BY <1>7 DEF PostSent, PostLater, ghostVars
  <2>2. CASE answers' = answers
    BY <1>2, <2>1, <2>2
  <2>3. CASE answers' = Accepted(Batch)
    <3>1. answers' \in [Commands -> SUBSET {"completed", "failed", "unknown"}]
      BY DEF Before, IInv, TypeOK, Verdicts
    <3>2. ASSUME NEW c \in Commands
          PROVE  answers'[c] = answers[c] \/ (answers[c] = {} /\ \E r \in Life!True(c) : answers'[c] = {r})
      <4>1. answers[c] \subseteq answers'[c]
        BY <1>1, <2>3, AcceptedAnswers
      <4>2. \A m, n \in answers'[c] : m = n
        BY DEF Before, VerdictInv, OneName, Names
      <4>3. answers'[c] \subseteq Life!True(c)'
        BY DEF LifeInv, NamesFit, Names
      <4>4. Life!True(c)' = Life!True(c)
        BY <2>1 DEF Life!True
      <4>5. QED
        BY <4>1, <4>2, <4>3, <4>4
    <3>3. QED
      BY <2>1, <3>1, <3>2 DEF Life!Next, Life!Answer
  <2>4. QED
    BY <2>1, <2>2, <2>3
<1>8. CASE \/ NextDay \/ FlyStart \/ FlyEnd \/ Start \/ Stop
           \/ AddStarted \/ MarkSent \/ Resolved \/ Report \/ NoReport \/ PostRefused \/ SendDone
           \/ Poll \/ PollFailed \/ AddFailed \/ Record \/ CommandsDone \/ TickDone \/ UNCHANGED vars
  BY <1>2, <1>8 DEF NextDay, FlyStart, FlyEnd, Start, Stop, AddStarted, MarkSent, Resolved,
     Report, NoReport, PostRefused, SendDone, Poll, PollFailed, AddFailed, Record, CommandsDone, TickDone,
     vars, cpVars, ghostVars
<1>9. ASSUME NEW c \in Commands, ResolveOne(c) \/ Command(c) PROVE [Life!Next]_(Life!vars)
  BY <1>2, <1>9 DEF ResolveOne, Command, SkipRan, RunRestart, RunUnknown, RunRefused, RunSame, RunUpdate,
     cpVars, ghostVars
\* A new binary, of the agent itself or of an administrator.
<1>10. CASE \E v \in Versions : AutoInstall(v) \/ FlyUpdate(v)
  <2>1. UNCHANGED <<cmd, ran, answers, done>> /\ had \subseteq had'
    BY <1>10 DEF AutoInstall, FlyUpdate, cpVars
  <2>2. reached \subseteq reached' /\ reached' \subseteq Life!Updates /\ UNCHANGED <<verb, begun>>
    BY <2>1 DEF Life!Updates
  <2>3. QED
    BY <2>1, <2>2 DEF Life!Next, Life!Upgrade
<1>11. QED
  BY <1>3, <1>5, <1>6, <1>7, <1>8, <1>9, <1>10 DEF Next, Environment, Agent

\* The agent keeps its promise of each command: its effect begins at most one time and
\* never after its result, and what the control plane has of it is one result, the last
\* word, and true. The three premises are those of the run that checks it.
THEOREM CommandsKeepTheirLife ==
  ASSUME MaxDiskErrors = 0, StaleReplies = FALSE, OperatorUpdates = FALSE
  PROVE  Spec => ImplementsLife
<1>1. Init => Before /\ LifeInv
  BY RunsInit, ResultsInit, DowngradeInit, VerdictInit, LifeInit DEF Before
<1>2. Before /\ LifeInv /\ [Next]_vars => Before' /\ LifeInv'
  BY RunsStep, ResultsStep, DowngradeStep, VerdictStep, LifeStep DEF Before, IInv
<1>3. Init => Life!Init
  BY DEF Init, Life!Init, NotIssued
<1>4. Before /\ Before' /\ LifeInv /\ LifeInv' /\ [Next]_vars => [Life!Next]_(Life!vars)
  BY LifeSteps
<1>5. QED
  BY <1>1, <1>2, <1>3, <1>4, PTL DEF Spec, ImplementsLife, Life!Spec
=============================================================================
