---------------------------- MODULE FlyCommands ----------------------------
(***************************************************************************)
(* The commands of fly that start and stop projects of Docker Compose:      *)
(* cmd/site.go, cmd/global.go, cmd/base.go, and their exit codes in          *)
(* cmd/root.go. A command is a short program of compose calls, one child     *)
(* process each. Between two calls Docker can stop, a compose file can come  *)
(* or go, and somebody else can start or stop a project.                     *)
(*                                                                         *)
(* A site is a number, so that the loops have the order of ReadDir, which     *)
(* always answers. "exec" stands for exec, wp and logs, which change nothing. *)
(***************************************************************************)
EXTENDS Integers, Sequences, SequencesExt, FiniteSetsExt

CONSTANT Sites       \* the folders of the sites in /home/fly

Base == 0            \* /home/fly/.fly
Projects == {Base} \cup Sites

\* Without a site, the commands on all sites do nothing.
ASSUME SitesAssumption == Sites \subseteq Nat \ {Base} /\ Sites # {}

VARIABLES
  docker,    \* whether Docker answers
  files,     \* the sites whose compose file the user can look at
  up,        \* the projects with running containers
  cmd        \* the command that runs, or that was the last

flyVars == <<docker, files, up, cmd>>

-----------------------------------------------------------------------------
\* A command: its compose calls, in order, on one project or on each site.
\* each: after a failed call the command goes on with the next site.
OnSites(verbs) == [verbs |-> verbs, on |-> Sites, each |-> TRUE]
OnOne(verbs, p) == [verbs |-> verbs, on |-> {p}, each |-> FALSE]

SiteCommands == {OnOne(v, s) : v \in {<<"up">>, <<"down">>, <<"restart">>, <<"exec">>}, s \in Sites}
BaseCommands == {OnOne(v, Base) : v \in {<<"up", "ps">>, <<"down">>, <<"down", "up", "ps">>}}

\* Fault: the sites are started only when all of them stopped.
RestartSitesAtOnce == [OnSites(<<"down", "up">>) EXCEPT !.each = FALSE]

RestartSites == OnSites(<<"down", "up">>)
SitesCommands == {OnSites(<<"up">>), OnSites(<<"down">>), RestartSites}

Commands == SiteCommands \cup BaseCommands \cup SitesCommands

\* The exit codes: ExitUnavailable, a failed child or another error, Ctrl-C.
Unavailable == 69
Failed == 1
Interrupted == 130

\* verb, todo: the calls of the present loop, one on each project of todo; verbs:
\* the loops after it. errs: the calls that failed. alone: nobody else changed a project or a file meanwhile.
\* Of a command that is over there is only its exit code.
Ended(code) == [of |-> OnSites(<<>>), at |-> "end", verb |-> "", todo |-> {},
                verbs |-> <<>>, errs |-> {}, code |-> code, alone |-> TRUE]

\* A command before its first loop.
Called(c) == [of |-> c, at |-> "run", verb |-> "", todo |-> {},
              verbs |-> c.verbs, errs |-> {}, code |-> 0, alone |-> TRUE]

\* One loop, and the project of its next call, in the order of ReadDir.
Loop(c) == [c EXCEPT !.verb = Head(c.verbs), !.verbs = Tail(@), !.todo = c.of.on]
Project == Min(cmd.todo)

FlyInit ==
  /\ docker \in BOOLEAN /\ files \in SUBSET Sites /\ up \in SUBSET Projects
  /\ cmd = Ended(0)

\* docker.Check: the CLI, the compose plugin and the daemon answer in time.
Check == docker

\* FindComposeFile, for a command on one site; the path of Base is fixed.
Found(c) == c.each \/ c.on \subseteq files \cup {Base}

\* PersistentPreRunE: no call for root, and none when a part of Docker does not
\* answer.
Begin(c) ==
  /\ cmd.at = "end"
  /\ \E root \in BOOLEAN :
       cmd' = CASE ~root /\ ~Check -> Ended(Unavailable)
                [] ~root /\ Check /\ Found(c) -> Loop(Called(c))
                [] OTHER -> Ended(Failed)
  /\ UNCHANGED <<docker, files, up>>

\* exitCode: forEachSite joins the errors with %v, so their code is 1; a child's
\* own code is passed on, and is 1 here too.
ExitCode(errs) == IF errs = {} THEN 0 ELSE Failed

\* The call on the first project is behind: the next project, the next loop, or
\* the end of the command.
Advance(c) ==
  LET next == [c EXCEPT !.todo = @ \ {Project}]
  IN  IF next.todo # {} THEN next
      ELSE IF next.verbs # <<>> THEN Loop(next)
      ELSE Ended(ExitCode(c.errs))

\* What docker compose does to a project.
Effect(verb, p) ==
  CASE verb = "up"   -> up \cup {p}
    [] verb = "down" -> up \ {p}
    [] OTHER         -> up

\* forEachSite passes over a folder whose compose file os.Stat does not show:
\* there is none, or the folder is closed to the user. That is no error.
Skip ==
  /\ cmd.at = "run" /\ cmd.of.each /\ Project \notin files
  /\ cmd' = Advance(cmd)
  /\ UNCHANGED <<docker, files, up>>

\* Fault: the answer of the last site stands for those of all.
LastError(errs, call, ok) == IF ok THEN {} ELSE {call}

\* The errors of all sites are returned together.
Errors(errs, call, ok) == IF ok THEN errs ELSE errs \cup {call}

\* The command, when its present call has answered.
Answered(ok) == [cmd EXCEPT !.errs = Errors(@, <<cmd.verb, Project>>, ok)]

\* RunCompose: one child process. It works, if Docker answers and the file is there;
Call ==
  /\ cmd.at = "run" /\ docker /\ Project \in files \cup {Base}
  /\ up' = Effect(cmd.verb, Project)
  /\ cmd' = Advance(Answered(TRUE))
  /\ UNCHANGED <<docker, files>>

\* or it fails, with its effect on the project or without. That ends a command on
\* one project; forEachSite goes on with the next site.
CallFails ==
  /\ cmd.at = "run" /\ (cmd.of.each => Project \in files)
  /\ up' \in {up} \cup (IF docker THEN {Effect(cmd.verb, Project)} ELSE {})
  /\ cmd' = IF cmd.of.each THEN Advance(Answered(FALSE)) ELSE Ended(Failed)
  /\ UNCHANGED <<docker, files>>

\* Ctrl-C ends fly and its child.
Interrupt ==
  /\ cmd.at = "run" /\ cmd' = Ended(Interrupted)
  /\ UNCHANGED <<docker, files, up>>

\* Docker stops, or starts with the projects that were up.
DockerChanges == docker' = ~docker /\ UNCHANGED <<files, up, cmd>>

Disturb == cmd' = [cmd EXCEPT !.alone = cmd.at = "end"]

\* Another administrator, or a container that ends.
ProjectChanges(p) ==
  /\ docker /\ up' \in {up \cup {p}, up \ {p}} \ {up}
  /\ Disturb
  /\ UNCHANGED <<docker, files>>

\* A site is made or removed, or opened or closed to the user.
FileChanges(s) ==
  /\ files' \in {files \cup {s}, files \ {s}} \ {files}
  /\ Disturb
  /\ UNCHANGED <<docker, up>>

Command == (\E c \in Commands : Begin(c)) \/ Skip \/ Call \/ CallFails \/ Interrupt
Surroundings ==
  \/ DockerChanges
  \/ \E p \in Projects : ProjectChanges(p)
  \/ \E s \in Sites : FileChanges(s)
FlyNext == Command \/ Surroundings

-----------------------------------------------------------------------------
\* The values that each variable can have.
FlyTypeOK ==
  /\ docker \in BOOLEAN /\ files \subseteq Sites /\ up \subseteq Projects
  /\ cmd.at \in {"run", "end"} /\ (cmd.at = "end" \/ cmd.of \in Commands)
  /\ cmd.code \in {0, Failed, Unavailable, Interrupted}
  /\ cmd.errs \subseteq {"up", "down", "restart", "exec", "ps"} \X Projects

\* The last call of a command, which nobody disturbed.
Exits == cmd.at = "run" /\ cmd.alone /\ cmd'.at = "end" /\ cmd'.code # Interrupted

\* The exit code of a command is true, also when calls in its middle failed or
\* Docker stopped in between: after 0 each project of the command whose compose
\* file the user can look at is as the command says.
ExitTruthful ==
  [][Exits /\ cmd'.code = 0 =>
       \A p \in cmd.of.on \cap (files \cup {Base}) :
          /\ cmd.of.verbs = <<"down">> => p \notin up'
          /\ "up" \in ToSet(cmd.of.verbs) => p \in up']_flyVars

\* restartSitesCmd: "Start the sites even if some of them failed to stop". Unless
\* it is interrupted, "fly sites restart" leaves no site down that it can see and
\* whose start it did not try, and its exit code tells of those that it leaves down.
SitesComeBack ==
  [][Exits /\ cmd.of.on = Sites /\ cmd.of.verbs = <<"down", "up">> =>
       \A s \in files \ up' :
          /\ cmd'.code = Failed
          /\ <<"up", s>> \in cmd.errs \cup {<<cmd.verb, Project>>}]_flyVars
=============================================================================
