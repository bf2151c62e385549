------------------------- MODULE AutoUpdate_proofs -------------------------
(***************************************************************************)
(* The proofs that a release withdrawn during its wait is installed nowhere, *)
(* that only the reviewed build is, and that the checks come once a day, for *)
(* every length of the wait, slot, size of the steps of the clock, and       *)
(* number of crashes, failed writes, signatures and changes of the files on  *)
(* GitHub.                                                                   *)
(***************************************************************************)
EXTENDS AutoUpdate, TLAPS

LEMMA SlotAfterType ==
  ASSUME NEW t \in Int PROVE SlotAfter(t) \in Int
<1>1. t % Day \in Int
  BY TimesAssumption
<1>2. QED
  BY <1>1, TimesAssumption DEF SlotAfter

LEMMA NextCheckType ==
  ASSUME NEW t \in Int PROVE NextCheck(t) \in Int
BY SlotAfterType, TimesAssumption DEF NextCheck, Zero

-----------------------------------------------------------------------------
\* The clock is ahead of the real time by at most MaxAhead.
ClockInv == wall - real <= MaxAhead /\ real >= 0

\* A release that can be found is not withdrawn, and the first signature is not
\* of the future.
GithubInv == /\ release # "withdrawn" => withdrawnAt = Never
             /\ firstSigned <= real

\* Each signature, on GitHub, in the directory of the script and in a check,
\* covers the reviewed build and is not older than the first one.
Genuine(s) == s # NoSignature =>
  s.of = "tag" /\ firstSigned # Never /\ firstSigned <= s.at
SignatureInv ==
  /\ Genuine(signature) /\ Genuine(got.signature) /\ Genuine(sigFile)
  /\ script = "sign" => got.sums = "tag"

\* A check knows no later time than its clock showed, and no time passes
\* during it: a withdrawal after it found the release is of this time.
CheckInv ==
  /\ pc \in {"list", "signature", "sums"} => checkTime <= real + MaxAhead
  /\ pc \in {"signature", "sums"} => (withdrawnAt # Never => withdrawnAt = real)

\* From the end of a check that found the release, its signature waited, and a
\* withdrawal comes or came after that wait.
Waited == /\ firstSigned # Never
          /\ real + MaxAhead >= firstSigned + Wait
          /\ withdrawnAt # Never => withdrawnAt + MaxAhead >= firstSigned + Wait
WaitInv == pc = "install" \/ binary # "old" => Waited

\* What is installed, and what an install waits for, is the reviewed build.
ReviewInv == /\ binary \in {"old", "tag"}
             /\ pc = "install" => sha256 = "tag"

IInv == TypeOK /\ ClockInv /\ GithubInv /\ SignatureInv /\ CheckInv /\ WaitInv /\ ReviewInv

LEMMA MaxAheadType == MaxAhead \in Nat /\ Wait \in Nat /\ Day \in Nat \ {0}
BY BoundsAssumption, TimesAssumption

LEMMA SignatureTypes ==
  /\ NoSignature \in Signatures /\ NoSignature.of = "none"
  /\ \A k \in Keys, t \in Int, b \in Builds :
       /\ Sign(k, t, b) \in Signatures
       /\ Sign(k, t, b).of = b /\ Sign(k, t, b).at = t
BY DEF NoSignature, Sign, Signatures, Never

LEMMA Initially == Init => IInv
<1> SUFFICES ASSUME Init PROVE IInv
  OBVIOUS
<1>1. wall \in Int /\ real \in Int /\ real >= 0 /\ wall = real
  BY MaxAheadType DEF Init
<1>2. TypeOK
  <2>1. ReleasesTypeOK
    BY SignatureTypes DEF Init, ReleasesInit, ReleasesTypeOK, Empty, Builds, Never
  <2>2. NoSignature \in Signatures /\ Zero \in Int /\ Never \in Int
    BY SignatureTypes DEF Zero, Never
  <2>3. QED
    BY <1>1, <2>1, <2>2 DEF Init, TypeOK, Binaries
<1>3. ClockInv /\ GithubInv
  BY <1>1, MaxAheadType DEF Init, ReleasesInit, ClockInv, GithubInv, Never
<1>4. SignatureInv /\ CheckInv /\ WaitInv /\ ReviewInv
  BY DEF Init, ReleasesInit, SignatureInv, Genuine, Empty, CheckInv, WaitInv, ReviewInv
<1>5. QED
  BY <1>2, <1>3, <1>4 DEF IInv

-----------------------------------------------------------------------------
\* The steps of the agent.
LEMMA StartStep == IInv /\ Start => IInv'
<1> SUFFICES ASSUME IInv, Start PROVE IInv'
  OBVIOUS
<1>1. lastUpdateCheck' \in Int /\ nextUpdateCheck' \in Int
  BY NextCheckType DEF IInv, TypeOK, Start, Zero
<1>2. TypeOK'
  BY <1>1 DEF ConfigFromEnv, ParseSwitch, IInv, TypeOK, ReleasesTypeOK, Start, checkVars, clockVars, boundVars,
    releaseVars, filesVars, scriptVars
<1>3. QED
  BY <1>2 DEF IInv, ClockInv, GithubInv, SignatureInv, Genuine, CheckInv, WaitInv, Waited,
    ReviewInv, Start, checkVars, clockVars, boundVars, releaseVars, filesVars, scriptVars

LEMMA TickStep == IInv /\ Tick => IInv'
<1> SUFFICES ASSUME IInv, Tick PROVE IInv'
  OBVIOUS
<1> USE DEF Tick, releaseVars, filesVars, scriptVars
<1>1. wall' \in Int /\ real' \in Int /\ real' = real + 1 /\ wall' = wall + 1
  BY DEF IInv, TypeOK
<1>2. pc' \in {"idle", "list"} /\ (pc' = "list" => checkTime' = wall')
  BY DEF Check
<1>3. TypeOK'
  <2>1. CASE Check
    <3>1. nextUpdateCheck' \in Int
      BY <1>1, <2>1, NextCheckType DEF Check
    <3>2. QED
      BY <1>1, <2>1, <3>1 DEF Check, SaveState, IInv, TypeOK, ReleasesTypeOK
  <2>2. CASE UNCHANGED <<pc, timeVars, checkTime, checkedAt, saveFails>>
    BY <1>1, <2>2 DEF IInv, TypeOK, ReleasesTypeOK, timeVars
  <2>3. QED
    BY <2>1, <2>2
<1>4. ClockInv' /\ GithubInv' /\ SignatureInv' /\ ReviewInv'
  BY <1>1, <1>2, MaxAheadType DEF IInv, TypeOK, ReleasesTypeOK, ClockInv, GithubInv,
    SignatureInv, Genuine, ReviewInv
<1>5. CheckInv'
  BY <1>1, <1>2, MaxAheadType DEF IInv, TypeOK, ReleasesTypeOK, ClockInv, CheckInv
<1>6. WaitInv'
  BY <1>1, <1>2, MaxAheadType DEF IInv, TypeOK, ReleasesTypeOK, WaitInv, Waited
<1>7. QED
  BY <1>3, <1>4, <1>5, <1>6 DEF IInv

\* A check finds a release that is published, so not withdrawn.
LEMMA ListStep == IInv /\ (List \/ FetchSignature) => IInv'
<1> SUFFICES ASSUME IInv, List \/ FetchSignature PROVE IInv'
  OBVIOUS
<1> USE DEF List, FetchSignature, CheckUnchanged, checkVars, timeVars, clockVars, boundVars,
  releaseVars, filesVars, scriptVars
<1>1. TypeOK'
  BY DEF IInv, TypeOK, ReleasesTypeOK
<1>2. QED
  BY <1>1 DEF IInv, ClockInv, GithubInv, SignatureInv, Genuine, CheckInv, WaitInv, Waited,
    ReviewInv

\* Its signature covers the reviewed build and waited, by a clock that is at
\* most MaxAhead ahead.
LEMMA FetchSumsStep == IInv /\ FetchSums => IInv'
<1> SUFFICES ASSUME IInv, FetchSums PROVE IInv'
  OBVIOUS
<1> USE DEF FetchSums, CheckUnchanged, timeVars, clockVars, boundVars, releaseVars,
  filesVars, scriptVars
<1>1. sigFile.of = sums /\ sums \in Builds /\ sigFile.of # "none"
  BY DEF Verify, IInv, TypeOK, ReleasesTypeOK, Builds
<1>2. sums = "tag" /\ firstSigned # Never /\ firstSigned <= sigFile.at
  BY <1>1, SignatureTypes DEF IInv, SignatureInv, Genuine
<1>3. checkTime >= firstSigned + Wait
  BY <1>2, MaxAheadType DEF IInv, TypeOK, ReleasesTypeOK, Signatures
<1>4. Waited
  BY <1>2, <1>3, MaxAheadType DEF IInv, TypeOK, ReleasesTypeOK, CheckInv, Waited
<1>5. TypeOK'
  BY <1>1 DEF IInv, TypeOK, ReleasesTypeOK
<1>6. QED
  BY <1>2, <1>4, <1>5 DEF IInv, ClockInv, GithubInv, SignatureInv, Genuine, CheckInv, WaitInv,
    Waited, ReviewInv

\* The archive that is installed has the sum that the signature covers.
LEMMA InstallStep == IInv /\ Install => IInv'
<1> SUFFICES ASSUME IInv, Install PROVE IInv'
  OBVIOUS
<1> USE DEF Install, CheckEnds, CheckUnchanged, timeVars, clockVars, boundVars, releaseVars,
  filesVars, scriptVars
<1>1. TypeOK'
  BY SignatureTypes DEF IInv, TypeOK, ReleasesTypeOK, Binaries, Zero
<1>2. QED
  BY <1>1 DEF IInv, ClockInv, GithubInv, SignatureInv, Genuine, CheckInv, WaitInv,
    Waited, ReviewInv

LEMMA ProcessSteps ==
  IInv /\ (SetInterval \/ NoUpdate \/ Exit \/ Crash \/ UNCHANGED vars) => IInv'
<1> SUFFICES ASSUME IInv, SetInterval \/ NoUpdate \/ Exit \/ Crash \/ UNCHANGED vars
             PROVE IInv'
  OBVIOUS
<1> USE DEF SetInterval, SaveState, NoUpdate, Exit, Crash, vars, CheckEnds, CheckUnchanged,
  checkVars, timeVars, clockVars, boundVars, releaseVars, filesVars, scriptVars
<1>1. TypeOK'
  BY SignatureTypes DEF IInv, TypeOK, ReleasesTypeOK, Zero
<1>2. QED
  BY <1>1 DEF IInv, ClockInv, GithubInv, SignatureInv, Genuine, CheckInv, WaitInv,
    Waited, ReviewInv

LEMMA DownStep == IInv /\ Down => IInv'
<1> SUFFICES ASSUME IInv, Down PROVE IInv'
  OBVIOUS
<1> USE DEF Down, checkVars, timeVars, boundVars, releaseVars, filesVars, scriptVars
<1>1. wall' \in Int /\ real' \in Int /\ real' = real + 1 /\ wall' = wall + 1
  BY DEF IInv, TypeOK
<1>2. TypeOK'
  BY <1>1 DEF IInv, TypeOK, ReleasesTypeOK
<1>3. ClockInv' /\ GithubInv' /\ SignatureInv' /\ CheckInv' /\ ReviewInv'
  BY <1>1, MaxAheadType DEF IInv, TypeOK, ReleasesTypeOK, ClockInv, GithubInv,
    SignatureInv, Genuine, CheckInv, ReviewInv
<1>4. WaitInv'
  BY <1>1, MaxAheadType DEF IInv, TypeOK, ReleasesTypeOK, WaitInv, Waited
<1>5. QED
  BY <1>2, <1>3, <1>4 DEF IInv

LEMMA StepClockStep == ASSUME NEW d \in Steps PROVE IInv /\ StepClock(d) => IInv'
<1> SUFFICES ASSUME IInv, StepClock(d) PROVE IInv'
  OBVIOUS
<1> USE DEF StepClock, checkVars, timeVars, releaseVars, filesVars, scriptVars
<1>1. wall' \in Int /\ wall' - real <= MaxAhead
  BY BoundsAssumption DEF IInv, TypeOK
<1>2. TypeOK'
  BY <1>1 DEF IInv, TypeOK, ReleasesTypeOK
<1>3. QED
  BY <1>1, <1>2 DEF IInv, ClockInv, GithubInv, SignatureInv, Genuine, CheckInv, WaitInv,
    Waited, ReviewInv

-----------------------------------------------------------------------------
\* The steps of the maintainer and of GitHub. The script signs only the build of
\* the tag; a withdrawal after a check that found the release comes after the
\* wait.
LEMMA GithubStep == IInv /\ Github => IInv'
<1> SUFFICES ASSUME IInv, Github PROVE IInv'
  OBVIOUS
<1> USE MaxAheadType
<1>1. UNCHANGED <<pc, autoUpdate, lastUpdateCheck, nextUpdateCheck, saved, checkTime, sigFile,
                  sha256, running, binary, wall, real, checkedAt, steps, saveFails, restarts>>
  BY DEF Github, timeVars, checkVars, clockVars, boundVars
<1>2. ASSUME ReleasesTypeOK', GithubInv', SignatureInv',
             firstSigned' = firstSigned \/ (firstSigned = Never /\ firstSigned' = real),
             withdrawnAt' = withdrawnAt \/ (withdrawnAt = Never /\ withdrawnAt' = real)
      PROVE  IInv'
  <2>1. TypeOK' /\ ClockInv' /\ ReviewInv'
    BY <1>1, <1>2 DEF IInv, TypeOK, ClockInv, ReviewInv
  <2>2. CheckInv' /\ WaitInv'
    BY <1>1, <1>2 DEF IInv, TypeOK, ReleasesTypeOK, CheckInv, WaitInv, Waited
  <2>3. QED
    BY <2>1, <2>2, <1>2 DEF IInv
<1>3. CASE ScriptStarts \/ ScriptChecks \/ ScriptStops
  <2>1. ReleasesTypeOK'
    BY <1>3, SignatureTypes DEF IInv, TypeOK, ReleasesTypeOK, ScriptStarts, ScriptChecks,
      ScriptStops, ScriptEnds, Empty, filesVars
  <2>2. GithubInv' /\ SignatureInv'
    BY <1>1, <1>3 DEF IInv, TypeOK, ReleasesTypeOK, GithubInv, SignatureInv, Genuine,
      ScriptStarts, ScriptChecks, ScriptStops, ScriptEnds, Empty, filesVars
  <2>3. QED
    BY <1>2, <1>3, <2>1, <2>2 DEF ScriptStarts, ScriptChecks, ScriptStops
<1>4. CASE ScriptSigns(real)
  <2>1. PICK k \in Keys : got' = [got EXCEPT !.signature = Sign(k, real, got.sums)]
    BY <1>4 DEF ScriptSigns, SignFile
  <2>2. got.sums = "tag" /\ script' = "upload"
    BY <1>4 DEF ScriptSigns, IInv, SignatureInv
  <2>3. got'.signature = Sign(k, real, "tag") /\ got'.sums = "tag"
    BY <2>1, <2>2 DEF IInv, TypeOK, ReleasesTypeOK
  <2>4. ReleasesTypeOK'
    BY <1>4, <2>1, <2>2, SignatureTypes DEF IInv, TypeOK, ReleasesTypeOK, ScriptSigns,
      filesVars, Builds
  <2>5. firstSigned' # Never /\ firstSigned' <= real
        /\ (firstSigned # Never => firstSigned' = firstSigned)
    BY <1>4 DEF ScriptSigns, IInv, TypeOK, ReleasesTypeOK, ClockInv, GithubInv, Never
  <2>6. Genuine(got.signature)'
    BY <2>3, <2>5, SignatureTypes DEF Genuine, Builds, IInv, TypeOK
  <2>7. Genuine(signature)' /\ Genuine(sigFile)'
    BY <1>1, <1>4, <2>5 DEF IInv, SignatureInv, Genuine, ScriptSigns
  <2>8. GithubInv' /\ SignatureInv'
    BY <1>1, <1>4, <2>2, <2>5, <2>6, <2>7 DEF IInv, GithubInv, SignatureInv, ScriptSigns
  <2>9. QED
    BY <1>2, <1>4, <2>4, <2>8 DEF ScriptSigns
<1>5. CASE ScriptUploads
  <2>1. ReleasesTypeOK'
    BY <1>5, SignatureTypes DEF IInv, TypeOK, ReleasesTypeOK, ScriptUploads, ScriptEnds,
      Empty, filesVars
  <2>2. GithubInv' /\ SignatureInv'
    BY <1>1, <1>5 DEF IInv, TypeOK, ReleasesTypeOK, GithubInv, SignatureInv, Genuine,
      ScriptUploads, ScriptEnds, Empty
  <2>3. QED
    BY <1>2, <1>5, <2>1, <2>2 DEF ScriptUploads
<1>6. CASE Publish \/ Swap \/ Withdraw(real)
  <2>1. ReleasesTypeOK'
    BY <1>6 DEF IInv, TypeOK, ReleasesTypeOK, Publish, Swap, Withdraw, filesVars, scriptVars
  <2>2. GithubInv' /\ SignatureInv'
    BY <1>1, <1>6 DEF IInv, GithubInv, SignatureInv, Genuine, Publish, Swap, Withdraw,
      filesVars, scriptVars
  <2>3. withdrawnAt' = withdrawnAt \/ (withdrawnAt = Never /\ withdrawnAt' = real)
    BY <1>6 DEF IInv, GithubInv, Publish, Swap, Withdraw
  <2>4. QED
    BY <1>2, <1>6, <2>1, <2>2, <2>3 DEF Publish, Swap, Withdraw
<1>7. QED
  BY <1>3, <1>4, <1>5, <1>6 DEF Github, ReleasesNext

LEMMA Inductive == IInv /\ [Next]_vars => IInv'
BY StartStep, TickStep, ListStep, FetchSumsStep, InstallStep, ProcessSteps, DownStep,
  StepClockStep, GithubStep DEF Next

-----------------------------------------------------------------------------
\* Every behaviour keeps the types of the variables.
THEOREM TypeCorrect == Spec => []TypeOK
<1>1. IInv => TypeOK
  BY DEF IInv
<1>2. QED
  BY Initially, Inductive, <1>1, PTL DEF Spec

\* A release that the maintainer withdraws before its wait ends, by a clock at
\* most MaxAhead behind the agent's, is never the binary of the agent.
THEOREM WithdrawnNotInstalled == Spec => []WithdrawnInTime
<1>1. IInv => WithdrawnInTime
  BY MaxAheadType
  DEF IInv, TypeOK, ReleasesTypeOK, WaitInv, Waited, WithdrawnInTime
<1>2. QED
  BY Initially, Inductive, <1>1, PTL DEF Spec

\* The agent installs nothing but the build that the maintainer reviewed,
\* whatever the files on GitHub change to between the steps of the script and the
\* requests of a check.
THEOREM OnlyReviewedInstalled == Spec => []InstalledIsReviewed
<1>1. IInv => InstalledIsReviewed
  BY DEF IInv, ReviewInv, InstalledIsReviewed
<1>2. QED
  BY Initially, Inductive, <1>1, PTL DEF Spec

-----------------------------------------------------------------------------
(***************************************************************************)
(* Once a day, and not two times in half a day.                             *)
(***************************************************************************)

\* The next check is after the gap, at most a day after its end.
LEMMA NextCheckBounds ==
  ASSUME NEW t \in Int, t # Zero
  PROVE  /\ NextCheck(t) \in Int
         /\ t + CheckGap < NextCheck(t)
         /\ NextCheck(t) <= t + CheckGap + Day
<1>1. t + CheckGap \in Int
  BY TimesAssumption
<1>2. (t + CheckGap) % Day \in 0..(Day - 1)
  BY <1>1, TimesAssumption
<1>3. QED
  BY <1>1, <1>2, TimesAssumption DEF NextCheck, SlotAfter

\* While the wall clock does not step, the two clocks agree, and no check is of
\* the future.
ClocksAgree == steps = 0 => wall = real /\ checkedAt <= real

\* The time of the last check that the agent has, in memory or on the disk: none
\* or a time up to the last check; and the last check itself as long as every
\* write succeeds.
Known(time) == /\ time = Zero \/ (checkedAt # Never /\ time <= checkedAt)
               /\ saveFails = 0 => time = (IF checkedAt = Never THEN Zero ELSE checkedAt)
TimesKnown == steps = 0 => Known(lastUpdateCheck) /\ Known(saved)

\* An agent that checks waits for the slot after that time.
NextIsDue ==
  pc # "down" /\ autoUpdate => nextUpdateCheck = NextCheck(lastUpdateCheck)
DailyInv == TypeOK /\ real >= 0 /\ ClocksAgree /\ TimesKnown /\ NextIsDue

LEMMA DailyInitially == Init => DailyInv
<1> SUFFICES ASSUME Init PROVE DailyInv
  OBVIOUS
<1>1. TypeOK /\ real >= 0
  BY Initially DEF IInv, ClockInv
<1>2. QED
  BY <1>1 DEF Init, DailyInv, TypeOK, ClocksAgree, TimesKnown, Known, NextIsDue, Never

\* A start takes the time from the disk. Without a step, it is not of the future.
LEMMA DailyStart == DailyInv /\ Start /\ TypeOK' => DailyInv'
<1> SUFFICES ASSUME DailyInv, Start, TypeOK' PROVE DailyInv'
  OBVIOUS
<1>1. UNCHANGED <<saved, wall, real, checkedAt, steps, saveFails>>
  BY DEF Start, clockVars, boundVars
<1>2. /\ lastUpdateCheck' = IF autoUpdate' /\ saved > wall THEN Zero ELSE saved
      /\ nextUpdateCheck' = IF autoUpdate' THEN NextCheck(lastUpdateCheck') ELSE Zero
  BY DEF Start
<1>3. steps = 0 => ~(saved > wall)
  BY DEF DailyInv, TypeOK, ClocksAgree, TimesKnown, Known, Zero
<1>4. TimesKnown'
  BY <1>1, <1>2, <1>3 DEF DailyInv, TimesKnown, Known
<1>5. QED
  BY <1>1, <1>2, <1>4 DEF DailyInv, ClocksAgree, NextIsDue

LEMMA DailyTick == DailyInv /\ Tick /\ TypeOK' => DailyInv'
<1> SUFFICES ASSUME DailyInv, Tick, TypeOK' PROVE DailyInv'
  OBVIOUS
<1>1. wall' = wall + 1 /\ real' = real + 1 /\ UNCHANGED <<steps, autoUpdate>> /\ pc = "idle"
  BY DEF Tick
<1>2. CASE Check
  <2>1. /\ checkedAt' = real' /\ lastUpdateCheck' = wall'
        /\ nextUpdateCheck' = NextCheck(wall')
        /\ \/ saved' = wall' /\ saveFails' = saveFails
           \/ saved' = saved /\ saveFails' # 0
    BY <1>2 DEF Check, SaveState, DailyInv, TypeOK
  <2>2. ClocksAgree' /\ NextIsDue' /\ real' >= 0
    BY <1>1, <2>1 DEF DailyInv, TypeOK, ClocksAgree, NextIsDue
  <2>3. TimesKnown'
    BY <1>1, <2>1 DEF DailyInv, TypeOK, ClocksAgree, TimesKnown, Known, Never
  <2>4. QED
    BY <2>2, <2>3 DEF DailyInv
<1>3. CASE UNCHANGED <<pc, timeVars, checkTime, checkedAt, saveFails>>
  BY <1>1, <1>3 DEF DailyInv, TypeOK, ClocksAgree, TimesKnown, Known, NextIsDue, timeVars
<1>4. QED
  BY <1>2, <1>3 DEF Tick

LEMMA DailySetInterval == DailyInv /\ SetInterval /\ TypeOK' => DailyInv'
<1> SUFFICES ASSUME DailyInv, SetInterval, TypeOK' PROVE DailyInv'
  OBVIOUS
<1>1. /\ UNCHANGED <<pc, autoUpdate, lastUpdateCheck, nextUpdateCheck, wall, real, checkedAt, steps>>
      /\ \/ saved' = lastUpdateCheck /\ saveFails' = saveFails
         \/ saved' = saved /\ saveFails' # 0
  BY DEF SetInterval, SaveState, clockVars, DailyInv, TypeOK
<1>2. QED
  BY <1>1 DEF DailyInv, ClocksAgree, TimesKnown, Known, NextIsDue

LEMMA DailyDown == DailyInv /\ Down /\ TypeOK' => DailyInv'
BY DEF Down, DailyInv, TypeOK, ClocksAgree, TimesKnown, Known, NextIsDue, timeVars, boundVars

LEMMA DailyOthers ==
  ASSUME DailyInv, TypeOK',
         \/ NoUpdate \/ List \/ FetchSignature \/ FetchSums \/ Install \/ Exit \/ Crash
         \/ Github \/ UNCHANGED vars
  PROVE  DailyInv'
<1>1. /\ UNCHANGED <<autoUpdate, lastUpdateCheck, nextUpdateCheck, saved, wall, real,
                     checkedAt, steps, saveFails>>
      /\ pc' # "down" => pc # "down"
  BY DEF NoUpdate, List, FetchSignature, FetchSums, Install, Exit, Crash, Github, vars,
    CheckUnchanged, timeVars, clockVars, boundVars
<1>2. QED
  BY <1>1 DEF DailyInv, ClocksAgree, TimesKnown, Known, NextIsDue

LEMMA DailyStepClock ==
  ASSUME DailyInv, TypeOK', NEW d \in Steps, StepClock(d) PROVE DailyInv'
<1>1. steps' # 0 /\ UNCHANGED <<pc, autoUpdate, lastUpdateCheck, nextUpdateCheck, real>>
  BY DEF StepClock, DailyInv, TypeOK, timeVars
<1>2. QED
  BY <1>1 DEF DailyInv, ClocksAgree, TimesKnown, NextIsDue

LEMMA DailyInductive == DailyInv /\ TypeOK' /\ [Next]_vars => DailyInv'
BY DailyStart, DailyTick, DailySetInterval, DailyDown, DailyOthers, DailyStepClock DEF Next

LEMMA DailyAlways == Spec => []DailyInv
BY TypeCorrect, DailyInitially, DailyInductive, PTL DEF Spec

\* While the wall clock does not step and state.json can be written, two checks
\* are at least checkGap apart, over any number of crashes and restarts.
THEOREM ChecksKeepTheGap == Spec => GapKept
<1>1. DailyInv /\ [Next]_vars => [ChecksApart]_vars
  <2> SUFFICES ASSUME DailyInv, Next, CheckBegins, checkedAt # Never, steps = 0, saveFails = 0
               PROVE  real' - checkedAt >= CheckGap
    BY DEF ChecksApart
  <2>1. Tick /\ autoUpdate /\ wall' >= nextUpdateCheck /\ wall' = wall + 1 /\ real' = real + 1
    BY DEF CheckBegins, Next, Start, Tick, SetInterval, NoUpdate, List, FetchSignature, FetchSums,
      Install, Exit, Crash, Down, Github, StepClock
  <2>2. lastUpdateCheck = checkedAt /\ nextUpdateCheck = NextCheck(checkedAt) /\ wall = real
    BY <2>1 DEF DailyInv, TimesKnown, Known, ClocksAgree, NextIsDue, Tick
  <2>3. /\ NextCheck(checkedAt) \in Int /\ checkedAt + CheckGap < NextCheck(checkedAt)
        /\ checkedAt \in Int /\ real \in Int
    BY NextCheckBounds DEF DailyInv, TypeOK, Zero, Never
  <2>4. QED
    BY <2>1, <2>2, <2>3, TimesAssumption
<1>2. QED
  BY DailyAlways, <1>1, PTL DEF Spec, GapKept

\* While the wall clock does not step, no tick of an agent that checks for
\* releases leaves the last check more than a day and the gap behind, also when
\* state.json could not be written.
THEOREM ChecksInTime == Spec => CheckedInTime
<1>1. DailyInv /\ [Next]_vars => [OnceADay]_vars
  <2> SUFFICES ASSUME DailyInv, Next, TickPasses, pc' = "idle"
               PROVE  checkedAt # Never /\ checkedAt > real' - (Day + CheckGap)
    BY DEF OnceADay
  <2>1. Tick /\ wall' < nextUpdateCheck /\ wall' = wall + 1 /\ real' = real + 1
    <3>1. Tick
      BY DEF TickPasses, Next, Start, Tick, SetInterval, NoUpdate, List, FetchSignature, FetchSums,
        Install, Exit, Crash, Down, Github, StepClock, CheckUnchanged, clockVars, DailyInv, TypeOK
    <3>2. ~Check
      BY DEF Check
    <3>3. wall' \in Int /\ nextUpdateCheck \in Int
      BY <3>1 DEF DailyInv, TypeOK, Tick
    <3>4. QED
      BY <3>1, <3>2, <3>3 DEF Tick, TickPasses
  <2>2. /\ nextUpdateCheck = NextCheck(lastUpdateCheck) /\ wall = real
        /\ lastUpdateCheck = Zero \/ (checkedAt # Never /\ lastUpdateCheck <= checkedAt)
    BY <2>1 DEF DailyInv, TimesKnown, Known, ClocksAgree, NextIsDue, Tick, TickPasses
  <2>3. /\ lastUpdateCheck \in Int /\ checkedAt \in Int /\ real \in Int /\ real >= 0
    BY DEF DailyInv, TypeOK
  <2>4. lastUpdateCheck # Zero
    BY <2>1, <2>2, <2>3 DEF NextCheck, Zero
  <2>5. /\ NextCheck(lastUpdateCheck) \in Int
        /\ NextCheck(lastUpdateCheck) <= lastUpdateCheck + CheckGap + Day
    BY <2>3, <2>4, NextCheckBounds
  <2>6. QED
    BY <2>1, <2>2, <2>3, <2>4, <2>5, TimesAssumption
<1>2. QED
  BY DailyAlways, <1>1, PTL DEF Spec, CheckedInTime
=============================================================================
