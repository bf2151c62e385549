--------------------------- MODULE MCAgentCommands ---------------------------
(* Small instances of AgentCommands for TLC. *)
EXTENDS AgentCommands, TLC

CONSTANTS c1, c2

V(core, pre) == [semver |-> TRUE, core |-> core, pre |-> pre, local |-> FALSE, build |-> 0]

v1  == V(1, 0)
v2  == V(2, 0)
v3  == V(3, 0)
\* Two dev tags of the release after v1: they have no order.
d2a == V(2, 1)
d2b == V(2, 2)

TwoVersions   == {v1, v2}
DevVersions   == {v1, d2a, d2b, v2}
ThreeVersions == {v1, v2, v3}

Symmetry == Permutations(Commands)

-----------------------------------------------------------------------------
\* Two releases, their pre-releases, local builds of them, other spellings of
\* one version, and "dev".
Sample ==
  [semver : {TRUE}, core : 1..2, pre : 0..2, local : BOOLEAN, build : 0..1]
    \cup [semver : {FALSE}, core : {0}, pre : {0}, local : {FALSE}, build : 0..1]
=============================================================================
