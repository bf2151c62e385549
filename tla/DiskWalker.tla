----------------------------- MODULE DiskWalker -----------------------------
(***************************************************************************)
(* The measurement of the folders of the sites in the background:           *)
(* diskWalker of internal/metrics/sites.go, and the part of sites that uses  *)
(* it. The sampler (each minute) and the walk are two goroutines; one mutex  *)
(* guards running, last and results. The module has no Next of its own:      *)
(* Sites says which projects a sample sees.                                 *)
(*                                                                         *)
(* A directory is a number, so that the walk has its order. The walk of a    *)
(* folder answers, fails, or hangs in a system call.                        *)
(***************************************************************************)
EXTENDS Integers, FiniteSetsExt

CONSTANTS
  Dirs,      \* the directories of the projects
  Steady,    \* those whose walk answers
  Hangs      \* those on a mount that does not answer

ASSUME DirsAssumption ==
  /\ Dirs \subseteq Nat /\ Steady \subseteq Dirs /\ Hangs \subseteq Dirs \ Steady

VARIABLES
  pc,         \* the sampler: "wait", "take", "start"
  projects,   \* the projects of this sample
  running,    \* w.running
  due,        \* whether the last walk started an hour ago or more
  results,    \* w.results: the directories that were measured, not yet sent
  walks       \* the walk goroutines: what is left to walk, and what is found

diskVars == <<pc, projects, running, due, results, walks>>

-----------------------------------------------------------------------------
DiskInit ==
  /\ pc = "wait" /\ projects = {}
  /\ running = FALSE /\ due = TRUE /\ results = {}
  /\ walks = {}

\* sites: the projects P of the containers that Docker lists.
Sample(P) ==
  /\ pc = "wait" /\ pc' = "take"
  /\ projects' = P
  /\ UNCHANGED <<running, due, results, walks>>

\* take: the results go in this sample, and in no other.
Take ==
  /\ pc = "take" /\ pc' = "start"
  /\ results' = {}
  /\ UNCHANGED <<projects, running, due, walks>>

\* Fault: an hour is enough, also when the last walk still runs.
CanStartAnyTime == projects # {} /\ due

\* start, its guard.
CanStart == ~running /\ projects # {} /\ due

\* start: a walk begins in a goroutine, or not.
Start ==
  /\ pc = "start" /\ pc' = "wait"
  /\ IF CanStart
     THEN /\ running' = TRUE /\ due' = FALSE
          /\ walks' = walks \cup {[left |-> projects, found |-> {}]}
     ELSE UNCHANGED <<running, due, walks>>
  /\ projects' = {}
  /\ UNCHANGED results

\* Fault: walkOne waits for the walk of its folder, however long.
Ends(d) == d \notin Hangs

\* walkOne returns: with an answer, an error, or when the timeout is over.
Returns(d) == TRUE

\* walkOne: the first folder that is left is measured, or it fails, or it hangs
\* and its goroutine stays behind.
WalkOne(w) ==
  /\ w.left # {}
  /\ LET d == Min(w.left)
     IN  \E f \in {w.found, w.found \cup {d}} :
           /\ Returns(d)
           /\ d \in Steady => d \in f
           /\ d \in Hangs => d \notin f
           /\ walks' = (walks \ {w}) \cup {[left |-> w.left \ {d}, found |-> f]}
  /\ UNCHANGED <<pc, projects, running, due, results>>

\* The walk ends: its results replace those of the walk before.
WalkEnd(w) ==
  /\ w.left = {}
  /\ results' = w.found /\ running' = FALSE
  /\ walks' = walks \ {w}
  /\ UNCHANGED <<pc, projects, due>>

Walk == \E w \in walks : WalkOne(w) \/ WalkEnd(w)

\* sitesDiskEvery after the start of the last walk.
HourPasses ==
  /\ ~due /\ due' = TRUE
  /\ UNCHANGED <<pc, projects, running, results, walks>>

-----------------------------------------------------------------------------
\* The values that each variable can have.
DiskTypeOK ==
  /\ pc \in {"wait", "take", "start"}
  /\ projects \subseteq Dirs /\ results \subseteq Dirs
  /\ running \in BOOLEAN /\ due \in BOOLEAN
  /\ walks \subseteq [left : SUBSET Dirs, found : SUBSET Dirs]

\* start: "when no walk runs". One walk reads the disks at a time, although
\* start is called each minute and a walk can take longer than the hour; and
\* running says when there is one.
OneWalk == Cardinality(walks) <= 1 /\ (running <=> walks # {})

\* The sample that is made has the disk use of directory d.
HasDisk(d) == pc = "take" /\ d \in projects \cap results
=============================================================================
