---------------------------- MODULE Sites_proofs ----------------------------
(***************************************************************************)
(* Proofs about the commands of fly and the walk of the agent, for any       *)
(* number of sites and folders, any order of commands, changes from outside  *)
(* and failed calls; and about the CPU time of a container, for any life.    *)
(***************************************************************************)
EXTENDS Sites, FiniteSetTheorems, WellFoundedInduction, TLAPS

\* One walk at most, and running says whether there is one.
WalkInv ==
  \/ walks = {} /\ running = FALSE
  \/ running = TRUE /\ \E w : walks = {w}

Verbs == {"up", "down", "restart", "exec", "ps"}

\* The command that runs is in the n-th loop of its commands.
InLoop(c, n) ==
  /\ n \in 1..Len(c.of.verbs) /\ c.verb = c.of.verbs[n]
  /\ c.verbs \in Seq(Verbs) /\ Len(c.verbs) = Len(c.of.verbs) - n
  /\ \A i \in 1..Len(c.verbs) : c.verbs[i] = c.of.verbs[n + i]

\* A call that is behind failed, or its project is in u, the projects that are up,
\* as the call says.
CallDone(verb, errs, p, u) ==
  \/ <<verb, p>> \in errs
  \/ (verb = "up" => p \in u) /\ (verb = "down" => p \notin u)

\* What a command knows of the projects that it had, if nobody disturbed it.
DoneInv(c) ==
  c.alone =>
    /\ \A p \in c.of.on \cap (files \cup {Base}) : p \notin c.todo => CallDone(c.verb, c.errs, p, up)
    /\ c.verb = "ps" => c.of.on \subseteq up

Shape(c) ==
  /\ c = [of |-> c.of, at |-> c.at, verb |-> c.verb, todo |-> c.todo, verbs |-> c.verbs,
          errs |-> c.errs, code |-> c.code, alone |-> c.alone]
  /\ c.alone \in BOOLEAN

CommandInv ==
  /\ Shape(cmd)
  /\ cmd.at = "run" =>
       /\ cmd.of \in Commands
       /\ \E n \in Nat : InLoop(cmd, n)
       /\ ~cmd.of.each => cmd.errs = {}
       /\ DoneInv(cmd)

FilesInv == files \subseteq Sites

IInv == WalkInv /\ CommandInv /\ FilesInv

-----------------------------------------------------------------------------
\* The verbs of a command, as calls, and what its last call is.
LEMMA VerbFacts ==
  /\ \A v \in {<<"up">>, <<"down">>, <<"restart">>, <<"exec">>} :
       v \in Seq(Verbs) /\ Len(v) = 1 /\ v[1] # "ps" /\ ToSet(v) = {v[1]} /\ v # <<"down", "up">>
       /\ (v = <<"down">> => v[1] = "down")
  /\ \A v : v = <<"up", "ps">> =>
       v \in Seq(Verbs) /\ Len(v) = 2 /\ v[1] = "up" /\ v[2] = "ps" /\ v # <<"down">> /\ v # <<"down", "up">>
  /\ \A v : v = <<"down", "up">> =>
       v \in Seq(Verbs) /\ Len(v) = 2 /\ v[1] = "down" /\ v[2] = "up" /\ v # <<"down">>
  /\ \A v : v = <<"down", "up", "ps">> =>
       v \in Seq(Verbs) /\ Len(v) = 3 /\ v[1] = "down" /\ v[2] = "up" /\ v[3] = "ps"
       /\ v # <<"down">> /\ v # <<"down", "up">>
<1>1. ASSUME NEW v \in {<<"up">>, <<"down">>, <<"restart">>, <<"exec">>}
      PROVE  v \in Seq(Verbs) /\ Len(v) = 1 /\ v[1] # "ps" /\ ToSet(v) = {v[1]} /\ v # <<"down", "up">>
             /\ (v = <<"down">> => v[1] = "down")
  <2>1. <<"up">> \in Seq(Verbs) /\ <<"down">> \in Seq(Verbs)
        /\ <<"restart">> \in Seq(Verbs) /\ <<"exec">> \in Seq(Verbs)
    BY DEF Verbs
  <2>2. v \in Seq(Verbs)
    BY ONLY <2>1, <1>1
  <2>3. Len(v) = 1 /\ v[1] # "ps" /\ v # <<"down", "up">> /\ (v = <<"down">> => v[1] = "down")
    BY <1>1
  <2>4. DOMAIN v = 1..1
    BY <2>2, <2>3
  <2>5. ToSet(v) = {v[1]}
    BY <2>4 DEF ToSet
  <2>6. QED
    BY <2>2, <2>3, <2>5
<1>2. ASSUME NEW v, v = <<"up", "ps">>
      PROVE  v \in Seq(Verbs) /\ Len(v) = 2 /\ v[1] = "up" /\ v[2] = "ps" /\ v # <<"down">> /\ v # <<"down", "up">>
  BY <1>2 DEF Verbs
<1>3. ASSUME NEW v, v = <<"down", "up">>
      PROVE  v \in Seq(Verbs) /\ Len(v) = 2 /\ v[1] = "down" /\ v[2] = "up" /\ v # <<"down">>
  BY <1>3 DEF Verbs
<1>4. ASSUME NEW v, v = <<"down", "up", "ps">>
      PROVE  v \in Seq(Verbs) /\ Len(v) = 3 /\ v[1] = "down" /\ v[2] = "up" /\ v[3] = "ps"
             /\ v # <<"down">> /\ v # <<"down", "up">>
  BY <1>4 DEF Verbs
<1>5. QED
  BY <1>1, <1>2, <1>3, <1>4

\* The commands: those on one project stop at the first error, and have the calls
\* of site.go and base.go; those on all sites have the loops of global.go.
LEMMA CommandFacts ==
  ASSUME NEW c \in Commands
  PROVE  /\ c.verbs \in Seq(Verbs) /\ Len(c.verbs) \in 1..3
         /\ \A n \in 1..Len(c.verbs) : c.verbs[n] = "ps" =>
              ~c.each /\ c.on = {Base} /\ n > 1 /\ c.verbs[n - 1] = "up"
         /\ c.each => c.on = Sites
         /\ "up" \in ToSet(c.verbs) => c.verbs[Len(c.verbs)] \in {"up", "ps"}
         /\ c.verbs = <<"down">> => c.verbs[Len(c.verbs)] = "down"
         /\ c.verbs = <<"down", "up">> => c.verbs[Len(c.verbs)] = "up" /\ c.each
<1>1. CASE c \in SiteCommands
  <2>1. PICK v \in {<<"up">>, <<"down">>, <<"restart">>, <<"exec">>}, s \in Sites : c = OnOne(v, s)
    BY <1>1 DEF SiteCommands
  <2>2. c.each = FALSE /\ c.verbs = v
    BY <2>1 DEF OnOne
  <2> HIDE <2>1
  <2>3. v \in Seq(Verbs) /\ Len(v) = 1 /\ v[1] # "ps" /\ ToSet(v) = {v[1]} /\ v # <<"down", "up">>
        /\ (v = <<"down">> => v[1] = "down")
    BY VerbFacts
  <2>4. QED
    BY <2>2, <2>3
<1>2. CASE c \in BaseCommands
  <2>1. PICK v \in {<<"up", "ps">>, <<"down">>, <<"down", "up", "ps">>} : c = OnOne(v, Base)
    BY <1>2 DEF BaseCommands
  <2>2. c.each = FALSE /\ c.verbs = v /\ c.on = {Base}
    BY <2>1 DEF OnOne
  <2>3. CASE v = <<"up", "ps">>
    BY <2>2, <2>3, VerbFacts
  <2>4. CASE v = <<"down">>
    BY <2>2, <2>4, VerbFacts
  <2>5. CASE v = <<"down", "up", "ps">>
    BY <2>2, <2>5, VerbFacts
  <2>6. QED
    BY <2>3, <2>4, <2>5
<1>3. CASE c \in SitesCommands
  <2>1. PICK v \in {<<"up">>, <<"down">>, <<"down", "up">>} : c = OnSites(v)
    BY <1>3 DEF SitesCommands, RestartSites
  <2>2. c.each = TRUE /\ c.verbs = v /\ c.on = Sites
    BY <2>1 DEF OnSites
  <2>3. CASE v = <<"up">>
    BY <2>2, <2>3, VerbFacts
  <2>4. CASE v = <<"down">>
    BY <2>2, <2>4, VerbFacts
  <2>5. CASE v = <<"down", "up">>
    BY <2>2, <2>5, VerbFacts
  <2>6. QED
    BY <2>3, <2>4, <2>5
<1>4. QED
  BY <1>1, <1>2, <1>3 DEF Commands

\* The next loop of a command, as a record.
LEMMA LoopIs ==
  ASSUME NEW c, Shape(c)
  PROVE  Loop(c) = [of |-> c.of, at |-> c.at, verb |-> Head(c.verbs), todo |-> c.of.on,
                    verbs |-> Tail(c.verbs), errs |-> c.errs, code |-> c.code, alone |-> c.alone]
<1> DEFINE head == Head(c.verbs)
           tail == Tail(c.verbs)
           on   == c.of.on
           c1   == [c EXCEPT !.verb = head]
           c2   == [c1 EXCEPT !.verbs = tail]
           c3   == [c2 EXCEPT !.todo = on]
<1>1. Loop(c) = [c EXCEPT !.verb = head, !.verbs = tail, !.todo = on]
  BY DEF Loop
<1> HIDE DEF head, tail, on
<1>2. c1 = [of |-> c.of, at |-> c.at, verb |-> head, todo |-> c.todo, verbs |-> c.verbs,
            errs |-> c.errs, code |-> c.code, alone |-> c.alone]
  BY DEF Shape
<1>3. c3 = [c EXCEPT !.verb = head, !.verbs = tail, !.todo = on]
  OBVIOUS
<1> HIDE DEF c1
<1>4. c2 = [of |-> c.of, at |-> c.at, verb |-> head, todo |-> c.todo, verbs |-> tail,
            errs |-> c.errs, code |-> c.code, alone |-> c.alone]
  BY <1>2
<1> HIDE DEF c2
<1>5. c3 = [of |-> c.of, at |-> c.at, verb |-> head, todo |-> on, verbs |-> tail,
            errs |-> c.errs, code |-> c.code, alone |-> c.alone]
  BY <1>4
<1> HIDE DEF c3
<1>6. QED
  BY <1>1, <1>3, <1>5 DEF head, tail, on

\* The three ways in which a command goes on after a call.
LEMMA Advancing ==
  ASSUME NEW c, Shape(c), NEW d, d = Advance(c)
  PROVE  \/ /\ c.todo \ {Project} # {} /\ Shape(d)
            /\ d.of = c.of /\ d.at = c.at /\ d.errs = c.errs /\ d.alone = c.alone
            /\ d.verb = c.verb /\ d.verbs = c.verbs /\ d.todo = c.todo \ {Project}
         \/ /\ c.todo \ {Project} = {} /\ c.verbs # <<>> /\ Shape(d)
            /\ d.of = c.of /\ d.at = c.at /\ d.errs = c.errs /\ d.alone = c.alone
            /\ d.verb = Head(c.verbs) /\ d.verbs = Tail(c.verbs) /\ d.todo = c.of.on
         \/ c.todo \ {Project} = {} /\ c.verbs = <<>> /\ d = Ended(ExitCode(c.errs))
<1> DEFINE next == [c EXCEPT !.todo = @ \ {Project}]
<1>1. next = [of |-> c.of, at |-> c.at, verb |-> c.verb, todo |-> c.todo \ {Project}, verbs |-> c.verbs,
              errs |-> c.errs, code |-> c.code, alone |-> c.alone]
  BY DEF Shape
<1>2. CASE next.todo # {}
  <2>1. d = next
    BY <1>2 DEF Advance
  <2>2. QED
    BY <1>1, <1>2, <2>1 DEF Shape
<1>3. CASE next.todo = {} /\ next.verbs # <<>>
  <2>1. d = Loop(next)
    BY <1>3 DEF Advance
  <2>2. d = [of |-> c.of, at |-> c.at, verb |-> Head(c.verbs), todo |-> c.of.on, verbs |-> Tail(c.verbs),
             errs |-> c.errs, code |-> c.code, alone |-> c.alone]
    <3>1. /\ Shape(next) /\ next.of = c.of /\ next.at = c.at /\ next.verbs = c.verbs
          /\ next.errs = c.errs /\ next.code = c.code /\ next.alone = c.alone
      BY <1>1 DEF Shape
    <3> HIDE DEF next
    <3>2. QED
      BY <2>1, <3>1, LoopIs
  <2>3. QED
    BY <1>1, <1>3, <2>2 DEF Shape
<1>4. CASE next.todo = {} /\ next.verbs = <<>>
  <2>1. d = Ended(ExitCode(c.errs))
    BY <1>4 DEF Advance
  <2>2. QED
    BY <1>1, <1>4, <2>1
<1>5. QED
  BY <1>2, <1>3, <1>4

\* The next loop of a command.
LEMMA NextLoop ==
  ASSUME NEW c, c.of \in Commands, NEW n \in Nat, InLoop(c, n), c.verbs # <<>>,
         NEW d, d.of = c.of, d.verb = Head(c.verbs), d.verbs = Tail(c.verbs)
  PROVE  InLoop(d, n + 1) /\ (d.verb = "ps" => c.verb = "up" /\ ~c.of.each /\ c.of.on = {Base})
<1>1. /\ c.verbs \in Seq(Verbs) /\ Len(c.verbs) > 0 /\ Len(c.verbs) = Len(c.of.verbs) - n
      /\ Len(c.of.verbs) \in Nat
  BY CommandFacts DEF InLoop
<1>2. /\ d.verb = c.verbs[1] /\ d.verbs \in Seq(Verbs) /\ Len(d.verbs) = Len(c.verbs) - 1
      /\ \A i \in 1..Len(d.verbs) : d.verbs[i] = c.verbs[i + 1]
  BY <1>1
<1>3. \A i \in 1..Len(c.verbs) : c.verbs[i] = c.of.verbs[n + i]
  BY DEF InLoop
<1>4. n + 1 \in 1..Len(c.of.verbs) /\ d.verb = c.of.verbs[n + 1]
  BY <1>1, <1>2, <1>3
<1>5. \A i \in 1..Len(d.verbs) : d.verbs[i] = c.of.verbs[(n + 1) + i]
  <2> SUFFICES ASSUME NEW i \in 1..Len(d.verbs) PROVE d.verbs[i] = c.of.verbs[(n + 1) + i]
    OBVIOUS
  <2>1. i + 1 \in 1..Len(c.verbs) /\ n + (i + 1) = (n + 1) + i
    BY <1>1, <1>2
  <2>2. QED
    BY <1>2, <1>3, <2>1
<1>6. InLoop(d, n + 1)
  BY <1>1, <1>2, <1>4, <1>5 DEF InLoop
<1>7. d.verb = "ps" => c.of.verbs[n] = "up" /\ ~c.of.each /\ c.of.on = {Base}
  <2>1. (n + 1) - 1 = n
    OBVIOUS
  <2>2. \A k \in 1..Len(c.of.verbs) : c.of.verbs[k] = "ps" =>
          ~c.of.each /\ c.of.on = {Base} /\ k > 1 /\ c.of.verbs[k - 1] = "up"
    BY CommandFacts
  <2>3. QED
    BY <1>4, <2>1, <2>2
<1>8. QED
  BY <1>6, <1>7 DEF InLoop

\* A call on the present project is behind, with the errors e.
Behind(e) ==
  /\ cmd.at = "run" /\ cmd' = Advance([cmd EXCEPT !.errs = e])
  /\ cmd.errs \subseteq e /\ (~cmd.of.each => e = {})
  /\ UNCHANGED files
  /\ \A p : p # Project => (p \in up' <=> p \in up)
  /\ Project \in cmd.of.on \cap (files \cup {Base}) =>
       CallDone(cmd.verb, e, Project, up')
  /\ cmd.verb = "ps" => up' = up

\* What is known when it was the last call.
Over(e) ==
  /\ cmd'.code = ExitCode(e)
  /\ cmd.verb = cmd.of.verbs[Len(cmd.of.verbs)]
  /\ cmd.alone => \A p \in cmd.of.on \cap (files \cup {Base}) : CallDone(cmd.verb, e, p, up')
  /\ cmd.alone /\ cmd.verb = "ps" => cmd.of.on \subseteq up'

LEMMA CallBehind ==
  ASSUME CommandInv, NEW e, Behind(e)
  PROVE  CommandInv' /\ (cmd'.at = "end" => Over(e))
<1> DEFINE c == [cmd EXCEPT !.errs = e]
<1>1. /\ Shape(c) /\ c.of = cmd.of /\ c.at = "run" /\ c.verb = cmd.verb /\ c.todo = cmd.todo
      /\ c.verbs = cmd.verbs /\ c.errs = e /\ c.alone = cmd.alone
  BY DEF CommandInv, Shape, Behind
<1>2. PICK n \in Nat : InLoop(cmd, n)
  BY DEF CommandInv, Behind
<1>3. InLoop(c, n) /\ cmd.of \in Commands
  BY <1>1, <1>2 DEF InLoop, CommandInv, Behind
<1>4. cmd' = Advance(c)
  BY DEF Behind
<1> HIDE DEF c
\* Each project whose call is behind, this one included.
<1>5. ASSUME cmd.alone, NEW p \in cmd.of.on \cap (files \cup {Base}), p \notin cmd.todo \ {Project}
      PROVE  CallDone(cmd.verb, e, p, up')
  <2>1. CASE p = Project
    BY <1>5, <2>1 DEF Behind
  <2>2. CASE p # Project
    <3>1. CallDone(cmd.verb, cmd.errs, p, up)
      BY <1>5, <2>2 DEF CommandInv, DoneInv, Behind
    <3>2. QED
      BY <2>2, <3>1 DEF CallDone, Behind
  <2>3. QED
    BY <2>1, <2>2
<1>6. cmd.alone /\ cmd.verb = "ps" => cmd.of.on \subseteq up'
  BY DEF CommandInv, DoneInv, Behind
<1>7. CASE cmd'.todo = cmd.todo \ {Project} /\ cmd'.verb = cmd.verb /\ cmd'.verbs = cmd.verbs
           /\ Shape(cmd') /\ cmd'.of = cmd.of /\ cmd'.at = "run" /\ cmd'.errs = e
           /\ cmd'.alone = cmd.alone
  <2>1. InLoop(cmd', n)
    BY <1>2, <1>7 DEF InLoop
  <2>2. DoneInv(cmd)'
    BY <1>5, <1>6, <1>7 DEF DoneInv, CallDone, Behind
  <2>3. QED
    BY <1>3, <1>7, <2>1, <2>2 DEF CommandInv, Behind, Shape, InLoop
<1>8. CASE /\ cmd.todo \ {Project} = {} /\ cmd.verbs # <<>> /\ Shape(cmd')
           /\ cmd'.of = cmd.of /\ cmd'.at = "run" /\ cmd'.errs = e /\ cmd'.alone = cmd.alone
           /\ cmd'.verb = Head(cmd.verbs) /\ cmd'.verbs = Tail(cmd.verbs) /\ cmd'.todo = cmd.of.on
  <2>1. /\ InLoop(cmd', n + 1)
        /\ cmd'.verb = "ps" => cmd.verb = "up" /\ ~cmd.of.each /\ cmd.of.on = {Base}
    BY <1>2, <1>3, <1>8, NextLoop
  <2>2. cmd'.alone /\ cmd'.verb = "ps" => cmd.of.on \subseteq up'
    <3> SUFFICES ASSUME cmd.alone, cmd'.verb = "ps" PROVE Base \in up'
      BY <1>8, <2>1
    <3>1. e = {} /\ cmd.verb = "up" /\ Base \in cmd.of.on
      BY <2>1 DEF Behind
    <3>2. QED
      BY <1>5, <1>8, <3>1 DEF CallDone
  <2>3. DoneInv(cmd)'
    BY <1>8, <2>2 DEF DoneInv
  <2>4. n + 1 \in Nat
    OBVIOUS
  <2>5. QED
    BY <1>3, <1>8, <2>1, <2>3, <2>4 DEF CommandInv, Behind, Shape, InLoop
<1>9. CASE cmd.todo \ {Project} = {} /\ cmd.verbs = <<>> /\ cmd' = Ended(ExitCode(e))
  <2>1. Shape(cmd') /\ cmd'.at = "end" /\ cmd'.code = ExitCode(e)
    BY <1>9 DEF Ended, Shape
  <2>2. cmd.verb = cmd.of.verbs[Len(cmd.of.verbs)]
    <3>1. Len(cmd.verbs) = 0 /\ Len(cmd.of.verbs) \in Nat
      BY <1>3, <1>9, CommandFacts
    <3>2. n = Len(cmd.of.verbs)
      BY <1>2, <3>1 DEF InLoop
    <3>3. QED
      BY <1>2, <3>2 DEF InLoop
  <2>3. cmd.alone => \A p \in cmd.of.on \cap (files \cup {Base}) : CallDone(cmd.verb, e, p, up')
    BY <1>5, <1>9 DEF CallDone
  <2>4. QED
    BY <1>6, <2>1, <2>2, <2>3 DEF CommandInv, Over, Shape
<1>10. QED
  BY <1>1, <1>4, <1>7, <1>8, <1>9, Advancing

\* The commands keep their invariant, and the last call of one leaves what Over says.
LastCall ==
  cmd.at = "run" /\ cmd'.at = "end" =>
    \/ \E e : Over(e) /\ e \subseteq cmd.errs \cup {<<cmd.verb, Project>>}
    \/ ~cmd.of.each /\ cmd'.code = Failed
    \/ cmd'.code = Interrupted

LEMMA CommandKeeps == CommandInv /\ [FlyNext]_flyVars => CommandInv' /\ LastCall
<1> SUFFICES ASSUME CommandInv, [FlyNext]_flyVars PROVE CommandInv' /\ LastCall
  OBVIOUS
<1>1. ASSUME NEW c \in Commands, Begin(c) PROVE CommandInv' /\ LastCall
  <2>1. cmd.at = "end" /\ UNCHANGED <<files, up>>
    BY <1>1 DEF Begin
  <2>2. ASSUME NEW code, cmd' = Ended(code) PROVE CommandInv'
    BY <2>2 DEF Ended, CommandInv, Shape
  <2>3. CASE cmd' = Loop(Called(c))
    <3> DEFINE d == Loop(Called(c))
    <3>1. d = [of |-> c, at |-> "run", verb |-> Head(c.verbs), todo |-> c.on, verbs |-> Tail(c.verbs),
               errs |-> {}, code |-> 0, alone |-> TRUE]
      <4>1. /\ Shape(Called(c)) /\ Called(c).of = c /\ Called(c).at = "run" /\ Called(c).verbs = c.verbs
            /\ Called(c).errs = {} /\ Called(c).code = 0 /\ Called(c).alone = TRUE
        BY DEF Called, Shape
      <4>2. QED
        BY <4>1, LoopIs
    <3>2. cmd' = d
      BY <2>3
    <3> HIDE DEF d
    <3>3. /\ c.verbs \in Seq(Verbs) /\ Len(c.verbs) \in 1..3
      BY CommandFacts
    <3>4. /\ Head(c.verbs) = c.verbs[1] /\ Tail(c.verbs) \in Seq(Verbs)
          /\ Len(Tail(c.verbs)) = Len(c.verbs) - 1
          /\ \A i \in 1..Len(Tail(c.verbs)) : Tail(c.verbs)[i] = c.verbs[i + 1]
      BY <3>3
    <3>5. InLoop(cmd', 1)
      BY <3>1, <3>2, <3>3, <3>4 DEF InLoop
    <3>6. c.verbs[1] # "ps"
      BY <3>3, CommandFacts
    <3>7. DoneInv(cmd)'
      BY <3>1, <3>2, <3>4, <3>6 DEF DoneInv
    <3>8. Shape(cmd')
      BY <3>1, <3>2 DEF Shape
    <3>9. QED
      BY <2>1, <3>1, <3>2, <3>5, <3>7, <3>8 DEF CommandInv, LastCall, Shape, InLoop
  <2>4. CASE cmd' = Ended(Unavailable) \/ cmd' = Ended(Failed)
    BY <2>1, <2>2, <2>4 DEF LastCall
  <2>5. QED
    BY <1>1, <2>3, <2>4 DEF Begin
<1>2. CASE Skip
  <2>1. [cmd EXCEPT !.errs = cmd.errs] = cmd
    BY DEF CommandInv, Shape
  <2>2. Project \notin cmd.of.on \cap (files \cup {Base})
    BY <1>2, CommandFacts, SitesAssumption DEF Skip, CommandInv
  <2>3. Behind(cmd.errs)
    BY <1>2, <2>1, <2>2 DEF Skip, Behind, CommandInv
  <2>4. QED
    BY <2>3, CallBehind DEF LastCall
<1>3. CASE Call
  <2>1. cmd' = Advance(Answered(TRUE)) /\ Answered(TRUE) = [cmd EXCEPT !.errs = cmd.errs]
    BY <1>3 DEF Call, Answered, Errors, CommandInv, Shape
  <2>2. /\ \A p : p # Project => (p \in up' <=> p \in up)
        /\ CallDone(cmd.verb, cmd.errs, Project, up')
        /\ cmd.verb = "ps" => up' = up
    BY <1>3 DEF Call, Effect, CallDone
  <2>3. Behind(cmd.errs)
    BY <1>3, <2>1, <2>2 DEF Call, Behind, CommandInv
  <2>4. QED
    BY <2>3, CallBehind DEF LastCall
<1>4. CASE CallFails
  <2>1. /\ \A p : p # Project => (p \in up' <=> p \in up)
        /\ cmd.verb = "ps" => up' = up
    BY <1>4 DEF CallFails, Effect
  <2>2. CASE cmd.of.each
    <3> DEFINE e == cmd.errs \cup {<<cmd.verb, Project>>}
    <3>1. cmd' = Advance(Answered(FALSE)) /\ Answered(FALSE) = [cmd EXCEPT !.errs = e]
      BY <1>4, <2>2 DEF CallFails, Answered, Errors, CommandInv, Shape
    <3>2. CallDone(cmd.verb, e, Project, up')
      BY DEF CallDone
    <3>3. Behind(e)
      BY <1>4, <2>1, <2>2, <3>1, <3>2 DEF CallFails, Behind, CommandInv
    <3>4. QED
      BY <3>3, CallBehind DEF LastCall
  <2>3. CASE ~cmd.of.each
    <3>1. cmd' = Ended(Failed)
      BY <1>4, <2>3 DEF CallFails
    <3>2. QED
      BY <2>3, <3>1 DEF Ended, CommandInv, Shape, LastCall
  <2>4. QED
    BY <2>2, <2>3
<1>5. CASE Interrupt
  <2>1. cmd' = Ended(Interrupted)
    BY <1>5 DEF Interrupt
  <2>2. QED
    BY <2>1 DEF Ended, CommandInv, Shape, LastCall
<1>6. CASE DockerChanges \/ UNCHANGED flyVars
  <2>1. UNCHANGED <<cmd, files, up>>
    BY <1>6 DEF DockerChanges, flyVars
  <2>2. QED
    BY <2>1 DEF CommandInv, Shape, InLoop, DoneInv, CallDone, LastCall
<1>7. CASE Disturb
  <2>1. cmd' = [of |-> cmd.of, at |-> cmd.at, verb |-> cmd.verb, todo |-> cmd.todo, verbs |-> cmd.verbs,
                errs |-> cmd.errs, code |-> cmd.code, alone |-> (cmd.at = "end")]
    BY <1>7 DEF Disturb, CommandInv, Shape
  <2>2. cmd.at = "run" => ~cmd'.alone
    BY <2>1
  <2>3. \A n \in Nat : InLoop(cmd, n) => InLoop(cmd', n)
    BY <2>1 DEF InLoop
  <2>4. Shape(cmd')
    BY <2>1 DEF Shape
  <2>5. DoneInv(cmd)' \/ cmd.at # "run"
    BY <2>2 DEF DoneInv
  <2>6. QED
    BY <2>1, <2>3, <2>4, <2>5 DEF CommandInv, LastCall, Shape, InLoop
<1>8. QED
  BY <1>1, <1>2, <1>3, <1>4, <1>5, <1>6, <1>7 DEF FlyNext, Command, Surroundings, ProjectChanges, FileChanges

-----------------------------------------------------------------------------
LEMMA Initial == Init => IInv
<1> SUFFICES ASSUME Init PROVE IInv
  OBVIOUS
<1>1. WalkInv
  BY DEF Init, DiskInit, WalkInv
<1>2. CommandInv
  BY DEF Init, FlyInit, Ended, CommandInv, Shape
<1>3. FilesInv
  BY DEF Init, FlyInit, FilesInv
<1>4. QED
  BY <1>1, <1>2, <1>3 DEF IInv

\* A walk begins only when running says that there is none.
LEMMA WalkKeeps == WalkInv /\ [Next]_vars => WalkInv'
<1> SUFFICES ASSUME WalkInv, [Next]_vars PROVE WalkInv'
  OBVIOUS
<1>1. CASE Start
  <2>1. CASE CanStart
    <3>1. walks = {} /\ running' = TRUE
      BY <1>1, <2>1 DEF Start, CanStart, WalkInv
    <3>2. walks' = {[left |-> projects, found |-> {}]}
      BY <1>1, <2>1, <3>1 DEF Start
    <3>3. QED
      BY <3>1, <3>2 DEF WalkInv
  <2>2. CASE ~CanStart
    BY <1>1, <2>2 DEF Start, WalkInv
  <2>3. QED
    BY <2>1, <2>2
<1>2. ASSUME NEW w \in walks, WalkOne(w) PROVE WalkInv'
  <2>1. running' = TRUE /\ walks = {w}
    BY <1>2 DEF WalkOne, WalkInv
  <2>2. PICK v : walks' = (walks \ {w}) \cup {v}
    BY <1>2 DEF WalkOne
  <2>3. walks' = {v}
    BY <2>1, <2>2
  <2>4. QED
    BY <2>1, <2>3 DEF WalkInv
<1>3. ASSUME NEW w \in walks, WalkEnd(w) PROVE WalkInv'
  <2>1. walks = {w} /\ running' = FALSE /\ walks' = walks \ {w}
    BY <1>3 DEF WalkEnd, WalkInv
  <2>2. walks' = {}
    BY <2>1
  <2>3. QED
    BY <2>1, <2>2 DEF WalkInv
<1>4. CASE UNCHANGED <<walks, running>>
  BY <1>4 DEF WalkInv
<1>5. QED
  BY <1>1, <1>2, <1>3, <1>4 DEF Next, Fly, Sampler, Walker, Hour, SampleSites, Sample, Take, Walk,
     HourPasses, diskVars, vars

LEMMA FlySteps == [Next]_vars => [FlyNext]_flyVars
BY DEF Next, Fly, Sampler, Walker, Hour, vars

\* Only sites have compose files.
LEMMA FilesKeep == FilesInv /\ [FlyNext]_flyVars => FilesInv'
BY DEF FilesInv, FlyNext, Command, Surroundings, Begin, Skip, Call, CallFails, Interrupt,
   DockerChanges, ProjectChanges, FileChanges, flyVars

LEMMA Step == IInv /\ [Next]_vars => IInv'
BY WalkKeeps, FlySteps, CommandKeeps, FilesKeep DEF IInv

LEMMA Invariant == Spec => []IInv
<1>1. QED
  BY Initial, Step, PTL DEF Spec

-----------------------------------------------------------------------------
\* One walk reads the disks at a time: start of diskWalker, called each minute,
\* never starts a second one, however long a walk takes, with any folders.
THEOREM OneWalkAtATime == Spec => []OneWalk
<1>1. IInv => OneWalk
  <2> SUFFICES ASSUME WalkInv PROVE OneWalk
    BY DEF IInv
  <2>1. CASE walks = {} /\ running = FALSE
    BY <2>1, FS_EmptySet DEF OneWalk
  <2>2. CASE running = TRUE /\ \E w : walks = {w}
    <3>1. PICK w : walks = {w}
      BY <2>2
    <3>2. Cardinality(walks) = 1
      BY <3>1, FS_Singleton
    <3>3. QED
      BY <2>2, <3>1, <3>2 DEF OneWalk
  <2>3. QED
    BY <2>1, <2>2 DEF WalkInv
<1>2. QED
  BY <1>1, Invariant, PTL

\* exitCode and forEachSite: an exit code 0 means that the projects are as the
\* command says, for any number of sites and any calls that fail in the middle.
THEOREM ExitCodeIsTrue == Spec => ExitTruthful
<1> DEFINE Truthful ==
      Exits /\ cmd'.code = 0 =>
        \A p \in cmd.of.on \cap (files \cup {Base}) :
          /\ cmd.of.verbs = <<"down">> => p \notin up'
          /\ "up" \in ToSet(cmd.of.verbs) => p \in up'
<1>1. IInv /\ [Next]_vars => [Truthful]_flyVars
  <2> SUFFICES ASSUME IInv, [Next]_vars, Exits, cmd'.code = 0,
                      NEW p \in cmd.of.on \cap (files \cup {Base})
               PROVE  /\ cmd.of.verbs = <<"down">> => p \notin up'
                      /\ "up" \in ToSet(cmd.of.verbs) => p \in up'
    OBVIOUS
  <2>1. LastCall /\ cmd.of \in Commands
    BY FlySteps, CommandKeeps DEF IInv, CommandInv, Exits
  <2>2. PICK e : Over(e)
    BY <2>1 DEF LastCall, Exits, Failed, Interrupted
  <2>3. e = {} /\ cmd.alone
    BY <2>2 DEF Over, ExitCode, Failed, Exits
  <2>4. /\ cmd.verb = "up" => p \in up'
        /\ cmd.verb = "down" => p \notin up'
        /\ cmd.verb = "ps" => p \in up'
    BY <2>2, <2>3 DEF Over, CallDone
  <2>5. QED
    BY <2>1, <2>2, <2>4, CommandFacts DEF Over
<1>2. QED
  BY <1>1, Invariant, PTL DEF Spec, ExitTruthful

\* restartSitesCmd: a restart of all sites tries the start of each, and says so
\* when it fails, for any number of sites.
THEOREM NoSiteLeftDown == Spec => SitesComeBack
<1> DEFINE ComeBack ==
      Exits /\ cmd.of.on = Sites /\ cmd.of.verbs = <<"down", "up">> =>
        \A s \in files \ up' :
          /\ cmd'.code = Failed
          /\ <<"up", s>> \in cmd.errs \cup {<<cmd.verb, Project>>}
<1>1. IInv /\ [Next]_vars => [ComeBack]_flyVars
  <2> SUFFICES ASSUME IInv, [Next]_vars, Exits, cmd.of.on = Sites, cmd.of.verbs = <<"down", "up">>,
                      NEW s \in files \ up'
               PROVE  /\ cmd'.code = Failed
                      /\ <<"up", s>> \in cmd.errs \cup {<<cmd.verb, Project>>}
    OBVIOUS
  <2>1. LastCall /\ cmd.of \in Commands
    BY FlySteps, CommandKeeps DEF IInv, CommandInv, Exits
  <2>2. cmd.of.each /\ cmd.of.verbs[Len(cmd.of.verbs)] = "up"
    BY <2>1, CommandFacts
  <2>3. PICK e : Over(e) /\ e \subseteq cmd.errs \cup {<<cmd.verb, Project>>}
    BY <2>1, <2>2 DEF LastCall, Exits
  <2>4. s \in Sites
    BY DEF IInv, FilesInv
  <2>5. <<"up", s>> \in e
    BY <2>2, <2>3, <2>4 DEF Over, CallDone, Exits
  <2>6. cmd'.code = Failed
    BY <2>3, <2>5 DEF Over, ExitCode
  <2>7. QED
    BY <2>3, <2>5, <2>6
<1>2. QED
  BY <1>1, Invariant, PTL DEF Spec, SitesComeBack

-----------------------------------------------------------------------------
(***************************************************************************)
(* The CPU time of a site, for a life of any length.                         *)
(***************************************************************************)
ContainerType == [boot : Nat, id : Nat, cgroup : Nat, usec : Nat, used : Nat, up : BOOLEAN]

\* What came of container c, when it is d now: with the same cgroup it used what
\* its cgroup counted; a cgroup that is new counts no more than was used since.
Since(c, d) ==
  /\ d \in ContainerType
  /\ d.boot >= c.boot /\ (d.boot = c.boot => d.cgroup >= c.cgroup)
  /\ IF d.boot = c.boot /\ d.cgroup = c.cgroup
     THEN d.usec - c.usec = d.used - c.used /\ d.usec >= c.usec
     ELSE d.usec <= d.used - c.used

\* The record that each event leaves.
LEMMA AfterIs ==
  ASSUME NEW c \in ContainerType, NEW e \in Events, NEW d, d = After(c, e)
  PROVE  /\ d \in ContainerType
         /\ \/ d = c
            \/ d.boot = c.boot /\ d.cgroup = c.cgroup /\ d.usec = c.usec + 1 /\ d.used = c.used + 1
            \/ d.boot = c.boot /\ d.cgroup = c.cgroup + 1 /\ d.usec = 0 /\ d.used = c.used
            \/ d.boot = c.boot /\ d.cgroup = c.cgroup /\ d.usec = c.usec /\ d.used = c.used
            \/ d.boot = c.boot + 1 /\ d.usec = 0 /\ d.used = c.used
<1>1. c.boot \in Nat /\ c.id \in Nat /\ c.cgroup \in Nat /\ c.usec \in Nat /\ c.used \in Nat /\ c.up \in BOOLEAN
  BY DEF ContainerType
<1>2. c = [boot |-> c.boot, id |-> c.id, cgroup |-> c.cgroup, usec |-> c.usec, used |-> c.used, up |-> c.up]
  BY DEF ContainerType
<1>new. NewCgroup(c) = [boot |-> c.boot, id |-> c.id, cgroup |-> c.cgroup + 1, usec |-> 0, used |-> c.used, up |-> TRUE]
  <2> DEFINE a == [c EXCEPT !.cgroup = c.cgroup + 1]
             b == [a EXCEPT !.usec = 0]
  <2>1. a = [boot |-> c.boot, id |-> c.id, cgroup |-> c.cgroup + 1, usec |-> c.usec, used |-> c.used, up |-> c.up]
    BY <1>2
  <2> HIDE DEF a
  <2>2. b = [boot |-> c.boot, id |-> c.id, cgroup |-> c.cgroup + 1, usec |-> 0, used |-> c.used, up |-> c.up]
    BY <2>1
  <2>3. NewCgroup(c) = [b EXCEPT !.up = TRUE]
    BY DEF NewCgroup, a
  <2> HIDE DEF b
  <2>4. QED
    BY <2>2, <2>3
<1>3. CASE e = "work" /\ c.up
  <2> DEFINE a == [c EXCEPT !.usec = c.usec + 1]
  <2>a. a = [boot |-> c.boot, id |-> c.id, cgroup |-> c.cgroup, usec |-> c.usec + 1, used |-> c.used, up |-> c.up]
    BY <1>2
  <2>b. d = [a EXCEPT !.used = c.used + 1]
    BY <1>3 DEF After
  <2> HIDE DEF a
  <2>1. d = [boot |-> c.boot, id |-> c.id, cgroup |-> c.cgroup, usec |-> c.usec + 1, used |-> c.used + 1, up |-> c.up]
    BY <2>a, <2>b
  <2>2. QED
    BY <1>1, <2>1 DEF ContainerType
<1>4. CASE e = "restart"
  <2>1. d = NewCgroup(c)
    BY <1>4 DEF After
  <2>2. QED
    BY <1>1, <1>new, <2>1 DEF ContainerType
<1> DEFINE k == NewCgroup(c)
<1>k. k = [boot |-> c.boot, id |-> c.id, cgroup |-> c.cgroup + 1, usec |-> 0, used |-> c.used, up |-> TRUE]
  BY <1>new
<1>r. /\ e = "renew" => d = [k EXCEPT !.id = k.id + 1]
      /\ e = "reboot" => d = [[k EXCEPT !.boot = k.boot + 1] EXCEPT !.cgroup = 1]
  BY DEF After
<1> HIDE DEF k
<1>5. CASE e = "renew"
  <2>1. k.id = c.id
    BY <1>k
  <2>2. d = [k EXCEPT !.id = c.id + 1]
    BY <1>5, <1>r, <2>1
  <2>3. d = [boot |-> c.boot, id |-> c.id + 1, cgroup |-> c.cgroup + 1, usec |-> 0, used |-> c.used, up |-> TRUE]
    BY <1>k, <2>2
  <2>4. QED
    BY <1>1, <2>3 DEF ContainerType
<1>6. CASE e = "gone"
  <2>1. d = [c EXCEPT !.up = FALSE]
    BY <1>6 DEF After
  <2>2. QED
    BY <1>1, <1>2, <2>1 DEF ContainerType
<1>7. CASE e = "reboot"
  <2> DEFINE a == [k EXCEPT !.boot = c.boot + 1]
  <2>1. /\ k = [boot |-> c.boot, id |-> c.id, cgroup |-> k.cgroup, usec |-> 0, used |-> c.used, up |-> k.up]
        /\ k.boot = c.boot /\ k.up \in BOOLEAN
    BY <1>k
  <2>2. a = [boot |-> c.boot + 1, id |-> c.id, cgroup |-> k.cgroup, usec |-> 0, used |-> c.used, up |-> k.up]
    BY <2>1
  <2>3. d = [a EXCEPT !.cgroup = 1]
    BY <1>7, <1>r, <2>1
  <2> HIDE DEF a
  <2>4. d = [boot |-> c.boot + 1, id |-> c.id, cgroup |-> 1, usec |-> 0, used |-> c.used, up |-> k.up]
    BY <2>2, <2>3
  <2>5. QED
    BY <1>1, <2>1, <2>4 DEF ContainerType
<1>8. CASE e = "rest" \/ (e = "work" /\ ~c.up)
  BY <1>8 DEF After
<1>9. QED
  BY <1>3, <1>4, <1>5, <1>6, <1>7, <1>8 DEF Events

LEMMA SinceAfter ==
  ASSUME NEW c \in ContainerType, NEW d, Since(c, d), NEW e \in Events
  PROVE  Since(c, After(d, e))
<1> DEFINE a == After(d, e)
<1>1. d \in ContainerType
  BY DEF Since
<1>2. /\ a \in ContainerType
      /\ \/ a = d
         \/ a.boot = d.boot /\ a.cgroup = d.cgroup /\ a.usec = d.usec + 1 /\ a.used = d.used + 1
         \/ a.boot = d.boot /\ a.cgroup = d.cgroup + 1 /\ a.usec = 0 /\ a.used = d.used
         \/ a.boot = d.boot /\ a.cgroup = d.cgroup /\ a.usec = d.usec /\ a.used = d.used
         \/ a.boot = d.boot + 1 /\ a.usec = 0 /\ a.used = d.used
  BY <1>1, AfterIs
<1> HIDE DEF a
<1>3. /\ c.boot \in Nat /\ c.cgroup \in Nat /\ c.usec \in Nat /\ c.used \in Nat
      /\ d.boot \in Nat /\ d.cgroup \in Nat /\ d.usec \in Nat /\ d.used \in Nat
      /\ a.boot \in Nat /\ a.cgroup \in Nat /\ a.usec \in Nat /\ a.used \in Nat
  BY <1>1, <1>2 DEF ContainerType
<1>4. d.used >= c.used
  BY <1>3 DEF Since
<1>5. Since(c, a)
  BY <1>2, <1>3, <1>4 DEF Since
<1>6. QED
  BY <1>5 DEF a

LEMMA Least ==
  ASSUME NEW T, T \subseteq Nat, T # {}
  PROVE  \E n \in T : \A m \in T : ~(m < n)
<1>1. PICK n \in T : \A m \in T : <<m, n>> \notin OpToRel(<, Nat)
  BY NatLessThanWellFounded, WFMin
<1>2. \A m \in T : m < n => <<m, n>> \in OpToRel(<, Nat)
  BY DEF OpToRel
<1>3. QED
  BY <1>1, <1>2

\* The first n containers of a life.
IsLife(f, n, events) ==
  f = [t \in 1..n |-> IF t = 1 THEN NewContainer ELSE After(f[t - 1], events[t - 1])]

\* There is such a function: the least n for which there is none would be one
\* more than an n for which there is one.
LEMMA LifeExists ==
  ASSUME NEW events
  PROVE  \A n \in Nat : \E f : IsLife(f, n, events)
<1> DEFINE Bad == {n \in Nat : ~\E f : IsLife(f, n, events)}
<1> SUFFICES ASSUME Bad # {} PROVE FALSE
  OBVIOUS
<1>1. PICK n \in Bad : \A m \in Bad : ~(m < n)
  <2>1. Bad \subseteq Nat
    OBVIOUS
  <2> HIDE DEF Bad
  <2>2. QED
    BY <2>1, Least
<1>2. CASE n = 0
  <2> DEFINE f == [t \in 1..0 |-> NewContainer]
  <2>1. IsLife(f, 0, events)
    BY DEF IsLife
  <2>2. QED
    BY <1>1, <1>2, <2>1
<1>3. CASE n # 0
  <2>1. n - 1 \in Nat /\ n - 1 < n /\ n \in Nat
    BY <1>1, <1>3
  <2>2. PICK f : IsLife(f, n - 1, events)
    BY <1>1, <2>1
  <2> DEFINE g == [t \in 1..n |-> IF t = 1 THEN NewContainer ELSE After(f[t - 1], events[t - 1])]
  <2>3. \A t \in 1..(n - 1) : f[t] = (IF t = 1 THEN NewContainer ELSE After(f[t - 1], events[t - 1]))
    BY <2>1, <2>2 DEF IsLife
  <2>4. \A t \in 1..(n - 1) : g[t] = f[t]
    BY <2>1, <2>3
  <2>5. \A t \in 1..n : t # 1 => g[t - 1] = f[t - 1]
    BY <2>1, <2>4
  <2>6. g = [t \in 1..n |-> IF t = 1 THEN NewContainer ELSE After(g[t - 1], events[t - 1])]
    BY <2>5
  <2>7. IsLife(g, n, events)
    BY <2>6 DEF IsLife
  <2>8. QED
    BY <1>1, <2>7
<1>4. QED
  BY <1>2, <1>3

LEMMA LifeIs ==
  ASSUME NEW events, NEW life, life = Life(events)
  PROVE  /\ life[1] = NewContainer
         /\ \A t \in 1..Units : life[t + 1] = After(life[t], events[t])
<1>1. life = CHOOSE f : IsLife(f, Units + 1, events)
  BY DEF Life, IsLife
<1>2. Units \in Nat /\ Units + 1 \in Nat
  BY UnitsAssumption
<1>3. IsLife(life, Units + 1, events)
  BY <1>1, <1>2, LifeExists
<1>4. \A t \in 1..(Units + 1) : life[t] = (IF t = 1 THEN NewContainer ELSE After(life[t - 1], events[t - 1]))
  BY <1>3 DEF IsLife
<1>5. 1 \in 1..(Units + 1) /\ \A t \in 1..Units : t + 1 \in 1..(Units + 1) /\ t + 1 # 1 /\ (t + 1) - 1 = t
  BY <1>2
<1>6. QED
  BY <1>4, <1>5

\* Each container of a life, and what came of it since, at any distance.
LEMMA LifeSince ==
  ASSUME NEW events \in [1..Units -> Events], NEW life, life = Life(events),
         NEW s \in Nat, NEW c \in ContainerType, s >= 1, c = life[s], Since(c, c)
  PROVE  \A t \in Nat : s <= t /\ t <= Units + 1 => Since(c, life[t])
<1> DEFINE Bad == {t \in Nat : s <= t /\ t <= Units + 1 /\ ~Since(c, life[t])}
<1> SUFFICES ASSUME Bad # {} PROVE FALSE
  OBVIOUS
<1>1. PICK t \in Bad : \A m \in Bad : ~(m < t)
  <2>1. Bad \subseteq Nat
    OBVIOUS
  <2> HIDE DEF Bad
  <2>2. QED
    BY <2>1, Least
<1>2. Units \in Nat /\ t \in Nat /\ s <= t /\ t <= Units + 1 /\ ~Since(c, life[t])
  BY <1>1, UnitsAssumption
<1>3. t # s
  BY <1>2
<1>4. t - 1 \in 1..Units /\ s <= t - 1 /\ t - 1 < t /\ t - 1 \in Nat /\ t - 1 <= Units + 1 /\ (t - 1) + 1 = t
  BY <1>2, <1>3
<1>5. Since(c, life[t - 1])
  BY <1>1, <1>4
<1>6. life[t] = After(life[t - 1], events[t - 1]) /\ events[t - 1] \in Events
  BY <1>4, LifeIs
<1>7. Since(c, life[t])
  BY <1>5, <1>6, SinceAfter
<1>8. QED
  BY <1>2, <1>7

LEMMA SinceItself ==
  ASSUME NEW c \in ContainerType
  PROVE  Since(c, c)
BY DEF Since, ContainerType

LEMMA SinceBefore ==
  ASSUME NEW events \in [1..Units -> Events], NEW life, life = Life(events),
         NEW s \in 1..(Units + 1), NEW t \in 1..(Units + 1), s <= t
  PROVE  life[s] \in ContainerType /\ Since(life[s], life[t])
<1>1. NewContainer \in ContainerType
  BY DEF NewContainer, ContainerType
<1>2. Units \in Nat /\ s \in Nat /\ t \in Nat /\ 1 <= s /\ s <= Units + 1 /\ t <= Units + 1
  BY UnitsAssumption
<1>3. \A u \in Nat : 1 <= u /\ u <= Units + 1 => Since(NewContainer, life[u])
  BY <1>1, LifeIs, LifeSince, SinceItself
<1>4. life[s] \in ContainerType
  BY <1>2, <1>3 DEF Since
<1>5. QED
  BY <1>2, <1>4, LifeSince, SinceItself

LEMMA FigureHolds ==
  ASSUME NEW events \in [1..Units -> Events], NEW t1 \in 1..Units, NEW t2 \in 1..Units, t1 < t2,
         NEW g1 \in {t1, t1 + 1}, NEW g2 \in {t2, t2 + 1}
  PROVE  FigureIsTrue(Life(events), t1, g1, t2, g2)
<1> DEFINE life == Life(events)
           c == life[t1]
           d == life[t2]
           o == [id |-> c.id, usec |-> c.usec, cgroup |-> life[g1].cgroup]
           u == [id |-> d.id, usec |-> d.usec, cgroup |-> life[g2].cgroup]
           prev == ReadAt(life, t1, g1)
           cur == ReadAt(life, t2, g2)
           cpu == CPUTime(prev, cur)
           used == d.used - c.used
<1>1. /\ Units \in Nat /\ t1 \in 1..(Units + 1) /\ t2 \in 1..(Units + 1) /\ t1 <= t2
      /\ t1 \in Int /\ t2 \in Int /\ MaxAge \in Int
  BY UnitsAssumption
<1>2. c \in ContainerType /\ d \in ContainerType /\ Since(c, d)
  BY <1>1, SinceBefore
<1>3. /\ c.boot \in Nat /\ c.cgroup \in Nat /\ c.usec \in Nat /\ c.used \in Nat /\ c.up \in BOOLEAN
      /\ d.boot \in Nat /\ d.cgroup \in Nat /\ d.usec \in Nat /\ d.used \in Nat /\ d.up \in BOOLEAN
  BY <1>2 DEF ContainerType
<1> HIDE DEF life
<1>4. /\ prev.usage = (IF c.up THEN {o} ELSE {}) /\ prev.bootID = c.boot /\ prev.at = t1
      /\ cur.usage = (IF d.up THEN {u} ELSE {}) /\ cur.bootID = d.boot /\ cur.at = t2
  BY DEF ReadAt, Reading
<1>5. /\ Usable(prev, cur) <=> c.boot = d.boot /\ t2 > t1 /\ t2 - t1 <= MaxAge
      /\ SameCgroup(o, u) <=> c.id = d.id /\ life[g1].cgroup = life[g2].cgroup /\ d.usec >= c.usec
  BY <1>4 DEF Usable, SameCgroup
<1> HIDE DEF c, d, prev, cur
<1>6. cpu = IF c.boot = d.boot /\ t2 - t1 <= MaxAge /\ c.up /\ d.up /\ SameCgroup(o, u)
            THEN d.usec - c.usec ELSE Unknown
  <2>1. c.up /\ d.up => (CHOOSE x \in prev.usage : TRUE) = o /\ (CHOOSE x \in cur.usage : TRUE) = u
    BY <1>4
  <2>2. o.usec = c.usec /\ u.usec = d.usec
    OBVIOUS
  <2>3. (\E x \in prev.usage, y \in cur.usage : SameCgroup(x, y)) <=> c.up /\ d.up /\ SameCgroup(o, u)
    BY <1>3, <1>4
  <2> HIDE DEF o, u
  <2>4. QED
    BY <1>5, <2>1, <2>2, <2>3 DEF CPUTime
<1> HIDE DEF cpu, o, u
<1>7. cpu # Unknown => c.boot = d.boot /\ SameCgroup(o, u) /\ cpu = d.usec - c.usec
  BY <1>6
<1>8. cpu # Unknown => cpu <= used
  BY <1>2, <1>3, <1>7 DEF Since
<1>9. ASSUME g1 = t1, g2 = t2 PROVE cpu \in {used, Unknown}
  <2>1. life[g1] = c /\ life[g2] = d
    BY <1>9 DEF c, d
  <2>2. cpu # Unknown => c.boot = d.boot /\ c.cgroup = d.cgroup /\ cpu = d.usec - c.usec
    BY <1>5, <1>7, <2>1
  <2>3. QED
    BY <1>2, <1>3, <2>2 DEF Since
<1>10. ASSUME g1 = t1, g2 = t2, c.up, t2 - t1 <= MaxAge, \A t \in t1..t2 : SameRun(life[t], life[t1])
       PROVE  cpu = used
  <2>1. life[g1] = c /\ life[g2] = d
    BY <1>10 DEF c, d
  <2>2. SameRun(d, c)
    BY <1>1, <1>10 DEF c, d
  <2>3. c.boot = d.boot /\ c.id = d.id /\ c.cgroup = d.cgroup /\ c.up = d.up
    BY <2>2 DEF SameRun
  <2>4. d.usec >= c.usec /\ d.usec - c.usec = used
    BY <1>2, <1>3, <2>3 DEF Since
  <2>5. SameCgroup(o, u)
    BY <1>5, <2>1, <2>3, <2>4
  <2>6. QED
    BY <1>6, <1>10, <2>3, <2>4, <2>5
<1>11. QED
  BY <1>8, <1>9, <1>10 DEF FigureIsTrue, cpu, prev, cur, c, d, life

\* In a life of any length, and at any two ticks of it, with a restart between the
\* two reads of each tick or not, the CPU time of a sample is true.
THEOREM FiguresAreTrue == Spec => []CPUTrue
<1>1. Misleading = {}
  BY FigureHolds DEF Misleading
<1>2. CPUTrue
  BY <1>1 DEF CPUTrue
<1>3. QED
  BY <1>2, PTL
=============================================================================
