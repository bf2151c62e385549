------------------------------- MODULE Sites -------------------------------
(***************************************************************************)
(* The sites of a server under the commands of fly and the agent: fly and    *)
(* others start and stop the projects (FlyCommands), and each minute the     *)
(* agent asks Docker which projects run and measures their folders           *)
(* (DiskWalker) and reads the CPU time of their containers (SiteUse): sites of *)
(* internal/metrics/sites.go.                                               *)
(***************************************************************************)
EXTENDS FlyCommands, DiskWalker, SiteUse

vars == <<flyVars, diskVars>>

Init == FlyInit /\ DiskInit

\* Collector.sites: without an answer of Docker there are no sites in the
\* sample, and the walker is not asked.
SampleSites == docker /\ Sample(up \cap Dirs)

Fly == FlyNext /\ UNCHANGED diskVars
Sampler == (SampleSites \/ Take \/ Start) /\ UNCHANGED flyVars
Walker == Walk /\ UNCHANGED flyVars
Hour == HourPasses /\ UNCHANGED flyVars

Next == Fly \/ Sampler \/ Walker \/ Hour
Spec == Init /\ [][Next]_vars /\ WF_vars(Sampler) /\ WF_vars(Walker) /\ WF_vars(Hour)

-----------------------------------------------------------------------------
\* The values that each variable can have.
TypeOK == FlyTypeOK /\ DiskTypeOK

\* sites: "a container that started or restarted in the minute is left out". The
\* CPU time in a sample is that of a container that ran from one tick to the
\* other, whatever happened to the container.
CPUTrue == pc = "take" => Misleading = {}

\* walkOne: "A walk that hangs in a system call stays behind; the other folders
\* and the next walks go on". A project that runs in the end, with a folder that
\* can be measured, is measured and sent again and again, whatever the folders
\* before it do.
AlwaysMeasured == \A d \in Steady : <>[](docker /\ d \in up) => []<>HasDisk(d)
=============================================================================
