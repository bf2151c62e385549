------------------------------- MODULE Clean -------------------------------
(***************************************************************************)
(* The value ranges (clean.go of internal/agent): what the agent makes of a  *)
(* sample, a status and an event before they go in a queue or a request, and *)
(* what the control plane accepts.                                          *)
(*                                                                         *)
(* Fields with the same rule are one field here. A text is its length in     *)
(* characters. A number of the agent can be above what the control plane can *)
(* hold (a uint64 and an integer of PHP), negative, or NaN. A value that can *)
(* be not known (nil) is <<>> or <<v>>: what is done with it keeps <<>>.     *)
(*                                                                         *)
(* Two fields of a sample are sent as they are: the files of a site          *)
(* (FilesBytes), which cleanSites leaves out, and the bytes of each host     *)
(* (Traffic), which cleanSample leaves out.                                 *)
(***************************************************************************)
EXTENDS Integers, Sequences

CONSTANTS
  MaxInt,        \* math.MaxInt64
  MaxPercent,    \* 100
  MaxLoad,       \* maxLoad
  MaxSites,      \* maxSites
  MaxDirectory,  \* maxDirectoryLen
  MaxText,       \* maxStatusTextLen, maxArchLen, maxVersionLen, maxEventNameLen, maxErrorLen
  MaxCpus,       \* maxCPUCount
  InSamples,     \* the samples that the collector can make,
  InStatus,      \* the statuses of the agent
  InEvents       \* and its events

ASSUME CleanAssumption ==
  {MaxInt, MaxPercent, MaxLoad, MaxSites, MaxDirectory, MaxText, MaxCpus} \subseteq Nat

NaN == -1000
NotKnown == <<>>

\* A pointer to a value of S, and the types of wire.Site, Sample, Status and Event.
Pointer(S) == {v \in Seq(S) : Len(v) <= 1}
SiteType ==
  [directory : Nat, name : STRING, cpu : Pointer(Int), bytes : Pointer(Nat), files : Pointer(Nat)]
SampleType ==
  [cpu : Int, load : Int, bytes : Nat, peak : Pointer(Int), rate : Pointer(Nat),
   sites : Pointer(Seq(SiteType)), traffic : Pointer(Seq(Nat))]
StatusType ==
  [text : Nat, uptime : Nat, updates : Pointer(Nat), version : Pointer(Nat),
   cpus : Pointer(Int), docker : Pointer(STRING)]
EventType == [commandId : STRING, name : Nat, data : Pointer(Nat)]

ASSUME InputsAssumption ==
  InSamples \subseteq SampleType /\ InStatus \subseteq StatusType /\ InEvents \subseteq EventType

Lower(a, b) == IF a < b THEN a ELSE b
Upper(a, b) == IF a > b THEN a ELSE b

-----------------------------------------------------------------------------
ClampInt(v) == Lower(v, MaxInt)
ClampIntPtr(v) == IF v = NotKnown THEN v ELSE <<ClampInt(v[1])>>

\* clamp: NaN becomes the lowest value.
Clamp(v, hi) == IF v = NaN THEN 0 ELSE Lower(Upper(v, 0), hi)
ClampPtr(v, hi) == IF v = NotKnown THEN v ELSE <<Clamp(v[1], hi)>>

Truncate(len) == Lower(len, MaxText)

TruncatePtr(v) == IF v = NotKnown THEN v ELSE <<Truncate(v[1])>>

CleanSite(s) ==
  [s EXCEPT !.cpu = ClampPtr(@, MaxPercent), !.bytes = ClampIntPtr(@)]

\* Fault: a directory that is too long is cut, like each other text.
KeepSiteCut(out, s) ==
  IF Len(out) = MaxSites \/ s.directory = 0
  THEN out ELSE Append(out, [CleanSite(s) EXCEPT !.directory = Lower(@, MaxDirectory)])

\* cleanSites, for one site: none with a directory that is empty or too long,
\* and at most MaxSites of the others.
KeepSite(out, s) ==
  IF Len(out) = MaxSites \/ s.directory \notin 1..MaxDirectory
  THEN out ELSE Append(out, CleanSite(s))

\* cleanSites: not known and none stay different.
CleanList(sites) ==
  LET out[n \in 0..Len(sites)] == IF n = 0 THEN <<>> ELSE KeepSite(out[n - 1], sites[n])
  IN  out[Len(sites)]
CleanSites(sites) == IF sites = NotKnown THEN sites ELSE <<CleanList(sites[1])>>

CleanSample(s) ==
  [cpu |-> Clamp(s.cpu, MaxPercent), load |-> Clamp(s.load, MaxLoad),
   bytes |-> ClampInt(s.bytes), peak |-> ClampPtr(s.peak, MaxPercent),
   rate |-> ClampIntPtr(s.rate), sites |-> CleanSites(s.sites), traffic |-> s.traffic]

\* cleanStatus: a number of CPUs or a state of Docker that the control plane
\* does not know becomes not known.
CleanStatus(s) ==
  [text |-> Truncate(s.text), uptime |-> ClampInt(s.uptime),
   updates |-> ClampIntPtr(s.updates), version |-> TruncatePtr(s.version),
   cpus |-> IF s.cpus # NotKnown /\ s.cpus[1] \notin 1..MaxCpus THEN NotKnown ELSE s.cpus,
   docker |-> IF s.docker = <<"other">> THEN NotKnown ELSE s.docker]

\* cleanEvent: an id of a command that is not a ULID goes.
CleanEvent(e) ==
  [commandId |-> IF e.commandId = "other" THEN "" ELSE e.commandId,
   name |-> Truncate(e.name), data |-> TruncatePtr(e.data)]

-----------------------------------------------------------------------------
\* What the control plane accepts, as clean.go:12-16 and 121-123 say of it.
Within(v, hi) == v \in 0..hi
KnownWithin(v, hi) == v = NotKnown \/ Within(v[1], hi)

SiteWithin(s) ==
  /\ s.directory \in 1..MaxDirectory
  /\ KnownWithin(s.cpu, MaxPercent) /\ KnownWithin(s.bytes, MaxInt)
ListWithin(sites) == Len(sites) <= MaxSites /\ \A i \in DOMAIN sites : SiteWithin(sites[i])
\* The fields that cleanSample brings in range,
CleanedWithin(s) ==
  /\ Within(s.cpu, MaxPercent) /\ Within(s.load, MaxLoad) /\ Within(s.bytes, MaxInt)
  /\ KnownWithin(s.peak, MaxPercent) /\ KnownWithin(s.rate, MaxInt)
  /\ s.sites = NotKnown \/ ListWithin(s.sites[1])
\* and the two that it leaves as they are.
FilesWithin(sites) == \A i \in DOMAIN sites : KnownWithin(sites[i].files, MaxInt)
UncleanedWithin(s) ==
  /\ s.sites = NotKnown \/ FilesWithin(s.sites[1])
  /\ s.traffic = NotKnown \/ \A i \in DOMAIN s.traffic[1] : Within(s.traffic[1][i], MaxInt)
SampleAccepted(s) == CleanedWithin(s) /\ UncleanedWithin(s)

StatusAccepted(s) ==
  /\ Within(s.text, MaxText) /\ Within(s.uptime, MaxInt)
  /\ KnownWithin(s.updates, MaxInt) /\ KnownWithin(s.version, MaxText)
  /\ s.cpus = NotKnown \/ s.cpus[1] \in 1..MaxCpus
  /\ s.docker # <<"other">>

EventAccepted(e) ==
  /\ e.commandId # "other"
  /\ Within(e.name, MaxText) /\ KnownWithin(e.data, MaxText)

\* A cleaned sample has the values that were not known, and its sites are sites
\* of the server: a directory and files are those of its name.
SitesOf(out, sites) ==
  \A i \in DOMAIN out : \E j \in DOMAIN sites :
    /\ sites[j].name = out[i].name /\ sites[j].directory = out[i].directory
    /\ sites[j].files = out[i].files
SameMeaning(s, c) ==
  /\ s.peak = NotKnown <=> c.peak = NotKnown
  /\ s.rate = NotKnown <=> c.rate = NotKnown
  /\ s.sites = NotKnown <=> c.sites = NotKnown
  /\ s.sites # NotKnown => SitesOf(c.sites[1], s.sites[1])
  /\ c.traffic = s.traffic

\* What is cleaned is accepted, for a sample if the two fields that are not
\* cleaned were in range; and what is in range stays as it is.
SampleCleaned(s) ==
  LET c == CleanSample(s)
  IN  /\ CleanedWithin(c) /\ (UncleanedWithin(s) => SampleAccepted(c))
      /\ SameMeaning(s, c) /\ (CleanedWithin(s) => c = s)
StatusCleaned(s) ==
  LET c == CleanStatus(s) IN StatusAccepted(c) /\ (StatusAccepted(s) => c = s)
EventCleaned(e) ==
  LET c == CleanEvent(e) IN EventAccepted(c) /\ (EventAccepted(e) => c = e)
BadSamples == {s \in InSamples : ~SampleCleaned(s)}
BadStatus == {s \in InStatus : ~StatusCleaned(s)}
BadEvents == {e \in InEvents : ~EventCleaned(e)}
=============================================================================
