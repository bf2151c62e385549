---------------------------- MODULE CommandLife ----------------------------
(***************************************************************************)
(* What the agent promises the control plane of each command: it begins at   *)
(* most one time and never after its result, and the result is one, the last *)
(* word, and true ("Commands from FlyWP" in docs/monitoring-agent.md;        *)
(* runCommand, update and resolve of internal/agent/commands.go).            *)
(***************************************************************************)
CONSTANT Commands

VARIABLES
  verb,     \* what each command asks for, or "none" before it is issued
  begun,    \* the commands whose effect began
  done,     \* the commands that were carried out: restarted, or installed
  reached,  \* the updates whose target, or a newer version, the server has had
  answers   \* the results that the control plane has of each command

vars == <<verb, begun, done, reached, answers>>

Init ==
  /\ verb = [c \in Commands |-> "none"] /\ begun = {} /\ done = {} /\ reached = {}
  /\ answers = [c \in Commands |-> {}]

Updates == {c \in Commands : verb[c] = "update"}

\* An update can ask for a version that the server has.
Issue(c) ==
  /\ verb[c] = "none"
  /\ \E v \in {"restart", "update", "unknown", "badargs"} : verb' = [verb EXCEPT ![c] = v]
  /\ reached' \in {reached, IF verb'[c] = "update" THEN reached \cup {c} ELSE reached}
  /\ UNCHANGED <<begun, done, answers>>

\* The agent restarts, or installs the binary of an update, which can fail. A new
\* binary can be the target of other updates too.
Begin(c) ==
  /\ verb[c] \in {"restart", "update"} /\ c \notin begun /\ answers[c] = {}
  /\ begun' = begun \cup {c}
  /\ \/ verb[c] = "restart" /\ done' = done \cup {c} /\ UNCHANGED reached
     \/ verb[c] = "update" /\ UNCHANGED <<done, reached>>
     \/ /\ verb[c] = "update" /\ done' = done \cup {c}
        /\ reached \cup {c} \subseteq reached' /\ reached' \subseteq Updates
  /\ UNCHANGED <<verb, answers>>

\* The agent updates by itself.
Upgrade ==
  /\ reached \subseteq reached' /\ reached' \subseteq Updates
  /\ UNCHANGED <<verb, begun, done, answers>>

\* The results that are true of a command: a restart completes when it was done;
\* an update completes when the server has had its target or a newer version,
\* and fails when it was refused or not carried out.
True(c) ==
  CASE verb[c] = "restart" -> IF c \in done THEN {"completed"} ELSE {}
    [] verb[c] = "update"  -> (IF c \in reached THEN {"completed"} ELSE {})
                                \cup (IF c \in done THEN {} ELSE {"failed"})
    [] verb[c] = "unknown" -> {"unknown"}
    [] verb[c] = "badargs" -> {"failed"}
    [] OTHER               -> {}

\* One request brings the results of some commands that had none.
Answer ==
  /\ answers' \in [Commands -> SUBSET {"completed", "failed", "unknown"}]
  /\ \A c \in Commands :
       answers'[c] = answers[c] \/ (answers[c] = {} /\ \E r \in True(c) : answers'[c] = {r})
  /\ UNCHANGED <<verb, begun, done, reached>>

Next == Answer \/ Upgrade \/ \E c \in Commands : Issue(c) \/ Begin(c)
Spec == Init /\ [][Next]_vars
=============================================================================
