----------------------------- MODULE TrafficLog -----------------------------
(***************************************************************************)
(* The reader of the traffic log, internal/metrics/traffic.go: it counts     *)
(* the lines that the proxy wrote since the last read, over restarts of the *)
(* agent, cuts of the log and new log files, while the proxy writes on.      *)
(*                                                                         *)
(* A line is two units long, so that a line can be half written. The names   *)
(* and byte counts of the lines are left out: what matters is which line is  *)
(* counted, and how often.                                                   *)
(***************************************************************************)
EXTENDS Integers, Sequences

CONSTANTS
  Limit,        \* trafficLimit, in units
  InodeReused,  \* whether a new file gets the inode of the old one
  HalfLines,    \* whether the proxy can be in the middle of a line
  MaxLines,     \* bound: the lines that the proxy writes
  MaxFiles,     \* bound: the log files, one after the other
  MaxStops,     \* bound: the stops of the agent
  MaxSaveFails  \* bound: the writes of traffic.json that fail

ASSUME BoundsAssumption ==
  /\ {Limit, MaxLines, MaxFiles, MaxStops, MaxSaveFails} \subseteq Nat
  /\ {InodeReused, HalfLines} \subseteq BOOLEAN

NoFile == 0
NoLine == 0

VARIABLES
  sameText, \* whether all requests to this server give the same line
  pc,       \* "idle", "read", "cut", "save", "deliver"
  files,    \* the log files, oldest first: the last one has the path
  written,  \* the number of the last line that the proxy began
  writing,  \* the line that the proxy is in the middle of, or NoLine
  fd,       \* the open file of this read
  size,     \* its size, when it was opened
  offset,   \* where this read starts, then where the next one will
  batch,    \* the lines of this read
  saved,    \* traffic.json, or none
  reported, \* how many samples each line went into
  tails,    \* the ends of lines that were taken for lines
  passed,   \* the lines that no read can have: from before the first read,
            \* gone with a cut or an old file, or read by a stopped agent
  stops, saveFails

boundVars == <<stops, saveFails>>
readVars == <<fd, size, offset, batch>>
proxyVars == <<files, written, writing>>
ghostVars == <<reported, tails, passed>>
vars == <<sameText, pc, proxyVars, readVars, saved, ghostVars, boundVars>>

-----------------------------------------------------------------------------
NoState == [inode |-> NoFile, offset |-> -1, head |-> <<>>]
SmallerOf(a, b) == IF a < b THEN a ELSE b
HasState == saved # NoState
Current == Len(files)
EmptyFile(inode) == [inode |-> inode, lines |-> <<>>, half |-> FALSE]
SizeOf(f) == 2 * Len(f.lines) + (IF f.half THEN 1 ELSE 0)

\* The text of a line, as far as two lines can be told apart.
Text(line) == IF sameText THEN [line EXCEPT !.id = 0] ELSE line
Whole(id) == [id |-> id, whole |-> TRUE]

\* head: the hash of the first bytes of a file, not past an offset. One line is
\* as long as trafficHead here.
HeadHash(f, o) ==
  LET first == IF f.lines = <<>> THEN Whole(writing) ELSE f.lines[1]
  IN  IF o <= 0 THEN <<>> ELSE <<SmallerOf(o, 2), Text(first)>>

\* Fault: a file is known by its inode and its size.
StartByInode(f) ==
  IF saved.offset < 0 \/ saved.inode # f.inode \/ SizeOf(f) < saved.offset
  THEN 0 ELSE saved.offset

\* read: where to start in a file: from its start when it is new or was cut.
StartOffset(f) ==
  IF \/ saved.offset < 0 \/ saved.inode # f.inode \/ SizeOf(f) < saved.offset
     \/ HeadHash(f, saved.offset) # saved.head
  THEN 0 ELSE saved.offset

\* The lines of f that end between two offsets.
LinesBetween(f, from, to) ==
  {f.lines[i] : i \in {j \in 1..Len(f.lines) : 2 * j > from /\ 2 * j <= to}}
Ids(lines) == {l.id : l \in lines}
AllIds(f) == Ids(LinesBetween(f, 0, SizeOf(f)))

-----------------------------------------------------------------------------
Init ==
  /\ sameText \in BOOLEAN
  /\ pc = "idle"
  /\ files = <<EmptyFile(1)>> /\ written = 0 /\ writing = NoLine
  /\ fd = NoFile /\ size = 0 /\ offset = 0 /\ batch = {}
  /\ saved = NoState
  /\ reported = [i \in 1..MaxLines |-> 0] /\ tails = {} /\ passed = {}
  /\ stops = 0 /\ saveFails = 0

\* read, first part: the file is opened, and its size is read. The first read
\* ever takes the end of the file as its offset.
Open ==
  /\ pc = "idle"
  /\ fd' = Current /\ size' = SizeOf(files[Current]) /\ batch' = {}
  /\ IF HasState
     THEN /\ offset' = StartOffset(files[Current]) /\ pc' = "read"
          /\ UNCHANGED passed
     ELSE /\ offset' = SizeOf(files[Current]) /\ pc' = "save"
          /\ passed' = passed \cup AllIds(files[Current]) \cup {writing}
  /\ UNCHANGED <<sameText, proxyVars, saved, reported, tails, boundVars>>

\* Fault: a line that is still being written is counted.
ReadHalfLine ==
  /\ pc = "read"
  /\ batch' = LinesBetween(files[fd], offset, size)
              \cup (IF files[fd].half /\ size % 2 = 1 THEN {Whole(writing)} ELSE {})
  /\ offset' = IF size > offset THEN size - (size % 2) ELSE offset
  /\ pc' = "cut"
  /\ UNCHANGED <<sameText, proxyVars, fd, size, saved, ghostVars, boundVars>>

\* read, the loop: the lines up to the size that Open saw. A line that was not
\* whole then waits for the next read. From the middle of a line, its end is
\* read as a line.
ReadLines ==
  /\ pc = "read"
  /\ batch' = {[id |-> l.id,
                 whole |-> l.whole /\ (offset % 2 = 0 \/ l # files[fd].lines[(offset + 1) \div 2])] :
                  l \in LinesBetween(files[fd], offset, size)}
  /\ offset' = IF batch' = {} THEN offset ELSE size - (size % 2)
  /\ pc' = "cut"
  /\ UNCHANGED <<sameText, proxyVars, fd, size, saved, ghostVars, boundVars>>

\* read: a large file that was read to its end is cut, or cannot be. What the
\* proxy wrote since Open goes with it.
Cut ==
  /\ pc = "cut" /\ pc' = "save"
  /\ \/ /\ offset = size /\ size > Limit
        /\ files' = [files EXCEPT ![fd] = EmptyFile(@.inode)]
        /\ offset' = 0
        /\ passed' = passed \cup Ids(LinesBetween(files[fd], offset, SizeOf(files[fd])))
                            \cup (IF files[fd].half THEN {writing} ELSE {})
     \/ UNCHANGED <<files, offset, passed>>
  /\ UNCHANGED <<sameText, written, writing, fd, size, batch, saved, reported, tails, boundVars>>

\* save: the offset, with the head of the file as it is now.
SaveOffset ==
  /\ pc = "save" /\ pc' = "deliver"
  /\ \/ /\ saved' = [inode |-> files[fd].inode, offset |-> offset, head |-> HeadHash(files[fd], offset)]
        /\ UNCHANGED saveFails
     \/ saveFails < MaxSaveFails /\ saveFails' = saveFails + 1 /\ UNCHANGED saved
  /\ UNCHANGED <<sameText, proxyVars, readVars, ghostVars, stops>>

\* The lines of the read go into the sample, and the sample in the outbox.
Deliver ==
  /\ pc = "deliver" /\ pc' = "idle"
  /\ reported' = [i \in DOMAIN reported |->
                    IF \E l \in batch : l.id = i /\ l.whole THEN reported[i] + 1 ELSE reported[i]]
  /\ tails' = tails \cup Ids({l \in batch : ~l.whole})
  /\ fd' = NoFile /\ size' = 0 /\ offset' = 0 /\ batch' = {}
  /\ UNCHANGED <<sameText, proxyVars, saved, passed, boundVars>>

\* The agent stops at any point: the lines of this read are lost.
Stop ==
  /\ pc # "idle" /\ stops < MaxStops /\ stops' = stops + 1
  /\ pc' = "idle"
  /\ passed' = passed \cup Ids(batch)
  /\ fd' = NoFile /\ size' = 0 /\ offset' = 0 /\ batch' = {}
  /\ UNCHANGED <<sameText, proxyVars, saved, reported, tails, saveFails>>

-----------------------------------------------------------------------------
\* The front proxy.

\* It writes a line, in one write.
WriteLine ==
  /\ writing = NoLine /\ written < MaxLines /\ written' = written + 1
  /\ files' = [files EXCEPT ![Current].lines = Append(@, Whole(written'))]
  /\ UNCHANGED <<sameText, pc, writing, readVars, saved, ghostVars, boundVars>>

\* Or in two, and the log can be cut between them.
WriteHalf ==
  /\ HalfLines /\ writing = NoLine /\ written < MaxLines /\ written' = written + 1
  /\ writing' = written'
  /\ files' = [files EXCEPT ![Current].half = TRUE]
  /\ UNCHANGED <<sameText, pc, readVars, saved, ghostVars, boundVars>>

WriteRest ==
  /\ writing # NoLine /\ writing' = NoLine
  /\ files' = [files EXCEPT ![Current] =
                  [inode |-> @.inode, lines |-> Append(@.lines, [id |-> writing, whole |-> @.half]),
                   half |-> FALSE]]
  /\ UNCHANGED <<sameText, pc, written, readVars, saved, ghostVars, boundVars>>

\* It starts a new log file.
NewFile ==
  /\ Current < MaxFiles /\ writing = NoLine
  /\ files' = Append(files, EmptyFile(IF InodeReused THEN 1 ELSE Current + 1))
  /\ passed' = passed \cup AllIds(files[Current])
  /\ UNCHANGED <<sameText, pc, written, writing, readVars, saved, reported, tails, boundVars>>

Read == Open \/ ReadLines \/ Cut \/ SaveOffset \/ Deliver
Proxy == WriteLine \/ WriteHalf \/ WriteRest \/ NewFile
Next == Read \/ Stop \/ Proxy
Spec == Init /\ [][Next]_vars

-----------------------------------------------------------------------------
\* read: "a stop before the sample is buffered loses those bytes, and never
\* sends them two times". No line goes into two samples, wherever the agent
\* stops, and whatever the proxy does with the file, as long as traffic.json
\* can be written.
NeverTwice == saveFails = 0 => \A i \in DOMAIN reported : reported[i] <= 1

\* No line is passed over: when the agent does not read, each line was in a
\* sample, or could not be read (see passed), or the next read has it. "The
\* head tells a new file that got the inode of the old one": it needs first
\* lines that differ.
NextLines == IF HasState
             THEN Ids(LinesBetween(files[Current], StartOffset(files[Current]), SizeOf(files[Current])))
             ELSE AllIds(files[Current])
NoneSkipped ==
  pc = "idle" /\ ~sameText => \A i \in 1..written :
    reported[i] > 0 \/ i \in passed \cup tails \cup NextLines \cup {writing}

\* read: "a line that is still being written: it waits for the next read". No
\* end of a line is taken for a line.
WholeLines == tails = {}
=============================================================================
