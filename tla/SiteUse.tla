------------------------------ MODULE SiteUse ------------------------------
(***************************************************************************)
(* The CPU time of a site in a sample: the part of Collector.sites that      *)
(* compares the CPU time of a container at two ticks. It decides which pairs *)
(* of readings belong together; Container and its events are the server that *)
(* the readings are of.                                                     *)
(***************************************************************************)
EXTENDS Integers

CONSTANTS
  MaxAge,     \* maxAge: two ticks that are further apart are not compared
  Units       \* bound: the units of time in the life of a container

ASSUME UnitsAssumption == MaxAge \in Nat /\ Units \in Nat

Unknown == -1

\* The reading of a tick: containerReadings, for one container. usage is empty when
\* the container, or its cgroup, is not there.
Reading(boot, at, usage) == [bootID |-> boot, at |-> at, usage |-> usage]

\* Fault: the same container, whatever its cgroup.
SameContainer(old, now) == old.id = now.id /\ now.usec >= old.usec

\* Only a container that both ticks saw, with the same id and the same cgroup.
SameCgroup(old, now) == old.id = now.id /\ old.cgroup = now.cgroup /\ now.usec >= old.usec

Usable(prev, cur) ==
  prev.bootID = cur.bootID /\ cur.at > prev.at /\ cur.at - prev.at <= MaxAge

CPUTime(prev, cur) ==
  IF Usable(prev, cur) /\ \E o \in prev.usage, u \in cur.usage : SameCgroup(o, u)
  THEN LET o == CHOOSE o \in prev.usage : TRUE
           u == CHOOSE u \in cur.usage : TRUE
       IN  u.usec - o.usec
  ELSE Unknown

-----------------------------------------------------------------------------
\* What can happen to a container in a unit of time. "restart" keeps its id and
\* makes a cgroup; "renew" (down and up) makes an id too; after "reboot" the
\* numbers of the cgroups begin again. used is all the CPU time there was.
Events == {"work", "rest", "restart", "renew", "gone", "reboot"}

NewCgroup(c) == [c EXCEPT !.cgroup = @ + 1, !.usec = 0, !.up = TRUE]

After(c, event) ==
  CASE event = "work" /\ c.up -> [c EXCEPT !.usec = @ + 1, !.used = @ + 1]
    [] event = "restart"      -> NewCgroup(c)
    [] event = "renew"        -> [NewCgroup(c) EXCEPT !.id = @ + 1]
    [] event = "gone"         -> [c EXCEPT !.up = FALSE]
    [] event = "reboot"       -> [NewCgroup(c) EXCEPT !.boot = @ + 1, !.cgroup = 1]
    [] OTHER                  -> c

\* The container at each time, when these events come one after the other.
NewContainer == [boot |-> 1, id |-> 1, cgroup |-> 1, usec |-> 0, used |-> 0, up |-> TRUE]
Life(events) ==
  LET life[t \in 1..(Units + 1)] ==
        IF t = 1 THEN NewContainer ELSE After(life[t - 1], events[t - 1])
  IN  life

\* sites reads cpu.stat at time t, and then the id of the cgroup folder, at time g.
ReadAt(life, t, g) ==
  Reading(life[t].boot, t,
          IF life[t].up
          THEN {[id |-> life[t].id, usec |-> life[t].usec, cgroup |-> life[g].cgroup]}
          ELSE {})

SameRun(c, d) == <<c.boot, c.id, c.cgroup, c.up>> = <<d.boot, d.id, d.cgroup, d.up>>

\* The figure for two ticks, against what the container really used: never more,
\* and exactly that when no restart fell between the two reads of one tick. There
\* is a figure when the container just ran.
FigureIsTrue(life, t1, g1, t2, g2) ==
  LET cpu  == CPUTime(ReadAt(life, t1, g1), ReadAt(life, t2, g2))
      used == life[t2].used - life[t1].used
      ran  == life[t1].up /\ t2 - t1 <= MaxAge /\ \A t \in t1..t2 : SameRun(life[t], life[t1])
  IN  /\ cpu # Unknown => cpu <= used
      /\ g1 = t1 /\ g2 = t2 => cpu \in {used, Unknown} /\ (ran => cpu = used)

\* The lives of a container with a figure that is wrong.
Misleading ==
  {events \in [1..Units -> Events] :
     \E t1, t2 \in 1..Units : \E g1 \in {t1, t1 + 1}, g2 \in {t2, t2 + 1} :
       t1 < t2 /\ ~FigureIsTrue(Life(events), t1, g1, t2, g2)}
=============================================================================
