------------------------------ MODULE Windows ------------------------------
(***************************************************************************)
(* The windows between the readings of a minute (windows.go of              *)
(* internal/metrics, and the times of a reading in metrics.go).              *)
(*                                                                         *)
(* A reading of this process has a monotonic time, which a step of the wall *)
(* clock does not move; one from counters.json has not.                      *)
(***************************************************************************)
EXTENDS Integers, Sequences, SequencesExt

CONSTANTS
  MaxAge,       \* maxAge
  MinWindow     \* minWindow

ASSUME WindowsAssumption == {MaxAge, MinWindow} \subseteq Nat \ {0}

NoReading == [boot |-> 0]

\* Fault: the times lost their monotonic part.
WallBetween(a, b) == b.wall - a.wall

\* b.At.Sub(a.At).
Between(a, b) == IF a.saved THEN b.wall - a.wall ELSE b.at - a.at

\* The two readings are of one boot, and not more than about a minute apart.
OfOneMinute(a, b) == a.boot = b.boot /\ Between(a, b) > 0 /\ Between(a, b) <= MaxAge

\* Fault: a reading is left out when it is close to the one before it only.
TooCloseBefore(out, r, c) == out # <<>> /\ Between(Last(out), r) < MinWindow

TooClose(out, r, c) == \/ out # <<>> /\ Between(Last(out), r) < MinWindow
                       \/ Between(r, c) < MinWindow

\* chain: p, the readings at least MinWindow from their neighbours, and c.
Chain(p, rs, c) ==
  LET kept[n \in 0..Len(rs)] ==
        IF n = 0 THEN IF p # NoReading /\ Between(p, c) > 0 THEN <<p>> ELSE <<>>
        ELSE LET out == kept[n - 1]
             IN  IF TooClose(out, rs[n], c) THEN out ELSE Append(out, rs[n])
  IN  Append(kept[Len(rs)], c)
=============================================================================
