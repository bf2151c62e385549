---------------------------- MODULE MCAutoUpdate ----------------------------
(***************************************************************************)
(* A day of four units, a gap of half a day, and a slot in the afternoon.   *)
(***************************************************************************)
EXTENDS AutoUpdate

\* Steps below, at and above the gap, and forward by more than a slot.
MCSteps == {-1, -2, -3, 1, 2}
\* A small step back, as NTP makes it.
SmallStepBack == {-1}
\* A key that the release and the agent trust, and one that they do not.
MCKeys == {"k1"}
MCAllKeys == {"k1", "k2"}
\* The switch is not set, off, or not known; and a token that is missing.
AllGood == [k \in RequiredKeys |-> "good"]
MCEnvironments ==
  {[keys |-> AllGood, switch |-> v] : v \in {"", "off", "typo"}}
  \cup {[keys |-> [AllGood EXCEPT !["FLY_AGENT_TOKEN"] = ""], switch |-> "on"]}
\* The slot of a server in the afternoon.
MCSlot == UpdateSlot(7, Day)
=============================================================================
