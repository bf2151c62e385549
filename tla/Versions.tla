------------------------------ MODULE Versions ------------------------------
(***************************************************************************)
(* The order of release versions that the agent and fly update decide with: *)
(* compareVersions (internal/agent/commands.go) and isNewer, IsLocalBuild   *)
(* (internal/release/release.go).                                           *)
(*                                                                         *)
(* A version string is abstracted to what those functions tell apart:       *)
(*   semver   golang.org/x/mod/semver accepts it (FALSE for "dev");         *)
(*   core     the position of major.minor.patch;                            *)
(*   pre      the position of its pre-release tag, 0 when it has none;      *)
(*   local    git describe added its suffix (-3-gabcdef1, -dirty);          *)
(*   build    what semver does not order: +metadata, or v1 for v1.0.0.      *)
(***************************************************************************)
EXTENDS Naturals

Version == [semver : BOOLEAN, core : Nat, pre : Nat, local : BOOLEAN, build : Nat]

\* semver.Prerelease(v) # "": the suffix of git describe reads as one.
HasPrerelease(v) == v.pre # 0 \/ v.local

\* Two versions that compareVersions puts in order: ok is TRUE.
Ordered(a, b) ==
  \/ a = b
  \/ /\ a.semver /\ b.semver
     /\ ~(HasPrerelease(a) /\ HasPrerelease(b) /\ a.core = b.core)

\* Fault: a pre-release is older than each release, also than an earlier one.
PrecedesAnyRelease(a, b) ==
  \/ a.core < b.core
  \/ HasPrerelease(a) /\ ~HasPrerelease(b)

\* semver.Compare(a, b) < 0, for versions that are not two pre-releases of
\* one release.
Precedes(a, b) ==
  \/ a.core < b.core
  \/ a.core = b.core /\ HasPrerelease(a) /\ ~HasPrerelease(b)

\* compareVersions(a, b) gives cmp < 0, ok and cmp = 0, ok.
Older(a, b) == a # b /\ Ordered(a, b) /\ Precedes(a, b)
Same(a, b)  == Ordered(a, b) /\ (a = b \/ (~Precedes(a, b) /\ ~Precedes(b, a)))

\* IsLocalBuild: the string ends with what git describe adds after a tag.
IsLocalBuild(v) == v.local

\* Fault: a pre-release tag sorts after no tag.
PrecedesTagByNumber(p, q) == p < q

\* The order of semver.Compare on pre-release tags: no tag sorts last.
PrecedesTag(p, q) == p # 0 /\ (q = 0 \/ p < q)

\* isNewer(latest, current): fly update strips the suffix of git describe
\* from the running version, and needs it to be semver then.
IsComparable(current) == current.semver
IsNewer(latest, current) ==
  /\ IsComparable(current)
  /\ \/ current.core < latest.core
     \/ current.core = latest.core /\ PrecedesTag(current.pre, latest.pre)

-----------------------------------------------------------------------------
(***************************************************************************)
(* What the two deciders need of the order.                                 *)
(***************************************************************************)

\* compareVersions is a strict order on the versions that it orders. Of two that
\* it does not order, it says nothing.
OrderIsStrict(a, b, c) ==
  /\ ~(Older(a, b) /\ Older(b, a))
  /\ ~(Older(a, b) /\ Same(a, b))
  /\ Older(a, b) /\ Older(b, c) => Older(a, c)

\* The agent and fly update agree: a release that the agent installs over a
\* release build is one that fly update calls newer. The other way round it
\* holds except between two pre-releases of one release.
DecidersAgree(running, latest) ==
  running.semver /\ latest.semver /\ ~running.local /\ ~latest.local =>
    /\ Older(running, latest) => IsNewer(latest, running)
    /\ IsNewer(latest, running) /\ Ordered(running, latest) => Older(running, latest)

=============================================================================
