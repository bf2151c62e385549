------------------------- MODULE TrafficLog_proofs -------------------------
(***************************************************************************)
(* The proofs that no line of the traffic log is counted two times and that  *)
(* none is passed over, for every number of lines, log files, cuts, stops    *)
(* and failed writes of traffic.json, and every limit of the log.            *)
(***************************************************************************)
EXTENDS TrafficLog, SequenceTheorems, TLAPS

-----------------------------------------------------------------------------
(***************************************************************************)
(* The invariants.                                                          *)
(***************************************************************************)
Line == [id : Nat, whole : BOOLEAN]
LogFile == [inode : Nat, lines : Seq(Line), half : BOOLEAN]

TypeInv ==
  /\ sameText \in BOOLEAN /\ pc \in {"idle", "read", "cut", "save", "deliver"}
  /\ files \in Seq(LogFile) /\ Current >= 1
  /\ written \in 0..MaxLines /\ writing \in Nat
  /\ fd \in Nat /\ size \in Nat /\ offset \in Nat /\ batch \subseteq Line
  /\ saved.inode \in Nat /\ saved.offset \in Int
  /\ reported \in [1..MaxLines -> Nat]
  /\ stops \in Nat /\ saveFails \in Nat

Files == 1..Len(files)
Positions(f) == 1..Len(files[f].lines)
Id(f, j) == files[f].lines[j].id
InBatch(i) == \E l \in batch : l.id = i
Told(i) == i \in 1..MaxLines /\ reported[i] > 0

\* Each line has its own place, and what was read or told is not a line that is
\* still to come or being written. Only the file in use holds half a line.
LinesInv ==
  /\ writing <= written
  /\ \A f \in Files : \A j \in Positions(f) : Id(f, j) \in 1..written /\ Id(f, j) # writing
  /\ \A f, g \in Files : \A i \in Positions(f), j \in Positions(g) :
       Id(f, i) = Id(g, j) => f = g /\ i = j
  /\ \A f \in Files : files[f].half => f = Current /\ writing # NoLine
  /\ \A l \in batch : l.id \in 1..written /\ l.id # writing
  /\ \A i \in 1..MaxLines : Told(i) => i <= written /\ i # writing

\* A read stays in the file that it opened, and in what the file had then.
ReadInv ==
  /\ pc # "idle" => fd \in Files
  /\ pc \in {"idle", "read"} => batch = {}
  /\ pc \in {"read", "cut"} => size <= SizeOf(files[fd]) /\ offset <= size
  /\ pc = "save" => offset <= SizeOf(files[fd])

Inv == TypeInv /\ LinesInv /\ ReadInv

\* The next read of the file in use starts after its line j.
Behind(j) ==
  /\ saved.inode = files[Current].inode /\ 2 * j <= saved.offset
  /\ saved.offset <= SizeOf(files[Current])
  /\ HeadHash(files[Current], saved.offset) = saved.head

\* Why no line is told two times, as long as traffic.json can be written: what
\* was told is behind the saved offset or that of this read, unless its file
\* was cut or left.
Once ==
  /\ \A i \in 1..MaxLines : reported[i] <= 1
  /\ \A j \in Positions(Current) : Told(Id(Current, j)) => Behind(j)
  /\ pc = "read" => \A j \in Positions(fd) : Told(Id(fd, j)) => 2 * j <= offset
  /\ \A l \in batch : l.whole => ~Told(l.id)
  /\ pc \in {"cut", "save"} =>
       \A j \in Positions(fd) : Told(Id(fd, j)) \/ InBatch(Id(fd, j)) => 2 * j <= offset
  /\ pc = "deliver" => \A j \in Positions(Current) : InBatch(Id(Current, j)) => Behind(j)
  /\ pc # "idle" /\ fd # Current =>
       \A j \in Positions(Current) : ~Told(Id(Current, j)) /\ ~InBatch(Id(Current, j))
OnceInv == saveFails = 0 => Once

\* The first line of a file, or the one that the proxy is in the middle of.
First(f) == IF f.lines = <<>> THEN Whole(writing) ELSE f.lines[1]

\* A line that was told, or that no read can have any more.
Gone(i) == Told(i) \/ i \in passed \cup tails
\* The first line of the file that the saved offset is about.
Seen == saved.head[2]
HeadThere == saved.offset > 0 /\ SizeOf(files[Current]) > 0 /\ First(files[Current]) = Seen

\* Why no line is passed over, when lines differ: those before the offset of
\* this read, and of the next one, are gone or in this read, and so are those
\* of the files before. The saved offset is used in the file it is about only.
Skip ==
  /\ \A i \in 1..written : i = writing \/ Gone(i) \/ InBatch(i)
                             \/ \E j \in Positions(Current) : Id(Current, j) = i
  /\ pc = "read" => \A j \in Positions(fd) : 2 * j <= offset => Gone(Id(fd, j))
  /\ pc \in {"cut", "save"} =>
       \A j \in Positions(fd) : 2 * j <= offset => Gone(Id(fd, j)) \/ InBatch(Id(fd, j))
  /\ pc # "idle" /\ fd # Current => \A j \in Positions(fd) : Gone(Id(fd, j))
  /\ saved.offset > 0 => Seen.id \in 1..written /\ (Seen.id = writing => Seen.whole)
  /\ HeadThere =>
       /\ saved.offset <= SizeOf(files[Current])
       /\ \A j \in Positions(Current) : 2 * j <= saved.offset =>
            Gone(Id(Current, j)) \/ (pc = "deliver" /\ InBatch(Id(Current, j)))
SkipInv == ~sameText => Skip

-----------------------------------------------------------------------------
(***************************************************************************)
(* What the proxy writes.                                                   *)
(***************************************************************************)

\* The line that the proxy writes comes after those of the file in use, with a
\* number that no line has yet, or the one it is in the middle of.
Grown ==
  /\ UNCHANGED <<sameText, pc, readVars, saved, ghostVars, boundVars>>
  /\ files' \in Seq(LogFile) /\ Len(files') = Len(files)
  /\ \A f \in Files : f # Current => files'[f] = files[f]
  /\ files'[Current].inode = files[Current].inode
  /\ Len(files'[Current].lines) \in {Len(files[Current].lines), Len(files[Current].lines) + 1}
  /\ \A j \in Positions(Current) : files'[Current].lines[j] = files[Current].lines[j]
  /\ Len(files'[Current].lines) = Len(files[Current].lines) + 1 =>
       LET e == files'[Current].lines[Len(files[Current].lines) + 1].id
       IN  /\ writing' = NoLine
           /\ \/ e = writing /\ writing # NoLine /\ written' = written
              \/ e = written + 1 /\ writing = NoLine /\ written' = written + 1
  /\ Len(files'[Current].lines) = Len(files[Current].lines) =>
       writing' = written + 1 /\ written' = written + 1
  /\ files'[Current].half => writing' # NoLine
  /\ SizeOf(files'[Current]) >= SizeOf(files[Current])
  /\ written' \in 0..MaxLines

LEMMA FileParts ==
  ASSUME NEW f \in LogFile
  PROVE  /\ f.inode \in Nat /\ f.lines \in Seq(Line) /\ f.half \in BOOLEAN
         /\ Len(f.lines) \in Nat
BY LenProperties DEF LogFile

LEMMA FileExcept ==
  ASSUME NEW f \in LogFile, NEW s \in Seq(Line), NEW h \in BOOLEAN
  PROVE  /\ [f EXCEPT !.lines = s] = [inode |-> f.inode, lines |-> s, half |-> f.half]
         /\ [f EXCEPT !.half = h] = [inode |-> f.inode, lines |-> f.lines, half |-> h]
<1>1. f.inode \in Nat /\ f.lines \in Seq(Line) /\ f.half \in BOOLEAN
  BY DEF LogFile
<1>2. [f EXCEPT !.lines = s] = [inode |-> f.inode, lines |-> s, half |-> f.half]
  BY DEF LogFile
<1>3. [f EXCEPT !.half = h] = [inode |-> f.inode, lines |-> f.lines, half |-> h]
  BY DEF LogFile
<1>4. QED
  BY <1>2, <1>3, Zenon

LEMMA SizeFacts ==
  ASSUME NEW f \in LogFile
  PROVE  /\ SizeOf(f) \in Nat
         /\ f.half => SizeOf(f) = 2 * Len(f.lines) + 1
         /\ ~f.half => SizeOf(f) = 2 * Len(f.lines)
BY FileParts DEF SizeOf, LogFile

LEMMA FileFacts ==
  ASSUME TypeInv, NEW f \in Files
  PROVE  /\ files[f] \in LogFile /\ files[f].inode \in Nat /\ files[f].half \in BOOLEAN
         /\ files[f].lines \in Seq(Line) /\ Len(files[f].lines) \in Nat
         /\ SizeOf(files[f]) \in Nat
         /\ \A j \in Positions(f) : files[f].lines[j] \in Line /\ Id(f, j) \in Nat
<1>1. files[f] \in LogFile
  BY ElementOfSeq DEF TypeInv, Files
<1>2. /\ files[f].lines \in Seq(Line) /\ Len(files[f].lines) \in Nat
      /\ files[f].half \in BOOLEAN /\ files[f].inode \in Nat
  BY <1>1, LenProperties DEF LogFile
<1>3. \A j \in Positions(f) : files[f].lines[j] \in Line
  BY <1>2, ElementOfSeq DEF Positions
<1>4. QED
  BY <1>1, <1>2, <1>3, SizeFacts DEF Id, Line

LEMMA CurrentIsFile == TypeInv => Current \in Files /\ Len(files) \in Nat
BY LenProperties DEF TypeInv, Files, Current

\* A line of the file in use.
LEMMA AppendGrows ==
  ASSUME TypeInv, NEW e \in Line, NEW h \in BOOLEAN,
         files' = [files EXCEPT ![Current] = [inode |-> files[Current].inode,
                     lines |-> Append(files[Current].lines, e), half |-> h]]
  PROVE  /\ files' \in Seq(LogFile) /\ Len(files') = Len(files)
         /\ \A f \in Files : f # Current => files'[f] = files[f]
         /\ files'[Current].inode = files[Current].inode /\ files'[Current].half = h
         /\ Len(files'[Current].lines) = Len(files[Current].lines) + 1
         /\ \A j \in Positions(Current) : files'[Current].lines[j] = files[Current].lines[j]
         /\ files'[Current].lines[Len(files[Current].lines) + 1] = e
         /\ files'[Current] \in LogFile
<1> DEFINE new == [inode |-> files[Current].inode, lines |-> Append(files[Current].lines, e), half |-> h]
<1>1. Current \in Files /\ files[Current].lines \in Seq(Line) /\ files[Current].inode \in Nat
  BY CurrentIsFile, FileFacts
<1>2. /\ Append(files[Current].lines, e) \in Seq(Line)
      /\ Len(Append(files[Current].lines, e)) = Len(files[Current].lines) + 1
      /\ \A j \in 1..Len(files[Current].lines) : Append(files[Current].lines, e)[j] = files[Current].lines[j]
      /\ Append(files[Current].lines, e)[Len(files[Current].lines) + 1] = e
  BY <1>1, AppendProperties
<1>3. new \in LogFile
  BY <1>1, <1>2 DEF LogFile
<1> HIDE DEF new
<1>4. /\ files' = [files EXCEPT ![Current] = new]
      /\ files' \in Seq(LogFile) /\ Len(files') = Len(files)
      /\ \A f \in Files : files'[f] = IF f = Current THEN new ELSE files[f]
  <2>1. files' = [files EXCEPT ![Current] = new]
    BY DEF new
  <2>2. QED
    <3>1. files \in Seq(LogFile) /\ Current \in 1..Len(files)
      BY <1>1 DEF TypeInv, Files
    <3>2. /\ [files EXCEPT ![Current] = new] \in Seq(LogFile)
          /\ Len([files EXCEPT ![Current] = new]) = Len(files)
          /\ \A f \in 1..Len(files) :
               [files EXCEPT ![Current] = new][f] = IF f = Current THEN new ELSE files[f]
      BY <3>1, <1>3, ExceptSeq
    <3>3. QED
      BY <2>1, <3>2, Zenon DEF Files
<1>5. files'[Current] = new
  BY <1>1, <1>4
<1>6. QED
  BY <1>2, <1>3, <1>4, <1>5 DEF new, Positions

LEMMA WriteGrows == Inv /\ (WriteLine \/ WriteHalf \/ WriteRest) => Grown
<1> SUFFICES ASSUME Inv, WriteLine \/ WriteHalf \/ WriteRest PROVE Grown
  OBVIOUS
<1>1. TypeInv /\ Current \in Files /\ written \in Nat /\ MaxLines \in Nat
  BY CurrentIsFile, BoundsAssumption DEF Inv, TypeInv
<1>2. /\ files[Current] \in LogFile /\ files[Current].half \in BOOLEAN
      /\ Len(files[Current].lines) \in Nat /\ files[Current].lines \in Seq(Line)
  BY <1>1, FileFacts
<1> \A e \in Line : Append(files[Current].lines, e) \in Seq(Line)
  BY <1>2, AppendProperties
<1>3. CASE WriteLine
  <2>0. files' = [files EXCEPT ![Current].lines = Append(@, Whole(written'))]
    BY <1>3 DEF WriteLine
  <2>1. /\ writing = NoLine /\ written < MaxLines /\ written' = written + 1
        /\ UNCHANGED <<sameText, pc, writing, readVars, saved, ghostVars, boundVars>>
    BY <1>3 DEF WriteLine
  <2>2. Whole(written + 1) \in Line /\ Whole(written + 1).id = written + 1
    BY <1>1 DEF Whole, Line
  <2>3. files[Current].half = FALSE
    BY <1>1, <1>2, <2>1 DEF Inv, LinesInv
  <2>4. [files[Current] EXCEPT !.lines = Append(files[Current].lines, Whole(written + 1))]
          = [inode |-> files[Current].inode,
             lines |-> Append(files[Current].lines, Whole(written + 1)), half |-> FALSE]
    BY <1>2, <2>2, <2>3, FileExcept, Zenon
  <2>5. files' = [files EXCEPT ![Current] = [inode |-> files[Current].inode,
             lines |-> Append(files[Current].lines, Whole(written + 1)), half |-> FALSE]]
    BY <2>0, <2>1, <2>4
  <2>6. /\ files' \in Seq(LogFile) /\ Len(files') = Len(files)
        /\ \A f \in Files : f # Current => files'[f] = files[f]
        /\ files'[Current].inode = files[Current].inode /\ files'[Current].half = FALSE
        /\ Len(files'[Current].lines) = Len(files[Current].lines) + 1
        /\ \A j \in Positions(Current) : files'[Current].lines[j] = files[Current].lines[j]
        /\ files'[Current].lines[Len(files[Current].lines) + 1] = Whole(written + 1)
        /\ files'[Current] \in LogFile
    BY <1>1, <2>2, <2>5, AppendGrows
  <2>7. SizeOf(files'[Current]) >= SizeOf(files[Current])
    <3>1. ~files[Current].half /\ ~files'[Current].half
      BY <2>3, <2>6, Zenon
    <3>2. SizeOf(files'[Current]) = 2 * Len(files'[Current].lines)
      BY <2>6, <3>1, SizeFacts, Zenon
    <3>3. SizeOf(files[Current]) = 2 * Len(files[Current].lines)
      BY <1>2, <3>1, SizeFacts, Zenon
    <3>4. Len(files'[Current].lines) = Len(files[Current].lines) + 1 /\ Len(files[Current].lines) \in Nat
      BY <1>2, <2>6, Zenon
    <3>5. QED
      BY <3>2, <3>3, <3>4
  <2>8. QED
    BY <1>1, <1>2, <2>1, <2>2, <2>6, <2>7 DEF Grown, readVars, ghostVars, boundVars
<1>4. CASE WriteHalf
  <2>0. files' = [files EXCEPT ![Current].half = TRUE]
    BY <1>4 DEF WriteHalf
  <2>1. /\ writing = NoLine /\ written < MaxLines /\ written' = written + 1 /\ writing' = written'
        /\ UNCHANGED <<sameText, pc, readVars, saved, ghostVars, boundVars>>
    BY <1>4 DEF WriteHalf
  <2> DEFINE new == [files[Current] EXCEPT !.half = TRUE]
  <2>2. /\ new \in LogFile /\ new.lines = files[Current].lines
        /\ new.inode = files[Current].inode /\ new.half = TRUE
    BY <1>2 DEF LogFile
  <2> HIDE DEF new
  <2>3. /\ files' \in Seq(LogFile) /\ Len(files') = Len(files)
        /\ \A f \in Files : files'[f] = IF f = Current THEN new ELSE files[f]
    <3>1. files' = [files EXCEPT ![Current] = new]
      BY <2>0 DEF new
    <3>2. QED
      BY <1>1, <2>2, <3>1, ExceptSeq DEF TypeInv, Files
  <2>4. files'[Current] = new
    BY <1>1, <2>3
  <2>5. SizeOf(files'[Current]) >= SizeOf(files[Current])
    BY <1>2, <2>2, <2>4, SizeFacts
  <2>6. QED
    BY <1>1, <1>2, <2>1, <2>2, <2>3, <2>4, <2>5
    DEF Grown, readVars, ghostVars, boundVars, NoLine, Positions
<1>5. CASE WriteRest
  <2> DEFINE e == [id |-> writing, whole |-> files[Current].half]
  <2>1. /\ writing # NoLine /\ writing' = NoLine
        /\ UNCHANGED <<sameText, pc, written, readVars, saved, ghostVars, boundVars>>
    BY <1>5 DEF WriteRest
  <2>2. e \in Line /\ e.id = writing
    BY <1>1, <1>2 DEF Line, TypeInv
  <2>4. files' = [files EXCEPT ![Current] = [inode |-> files[Current].inode,
             lines |-> Append(files[Current].lines, e), half |-> FALSE]]
    BY <1>5, Zenon DEF WriteRest
  <2> HIDE DEF e
  <2>5. /\ files' \in Seq(LogFile) /\ Len(files') = Len(files)
        /\ \A f \in Files : f # Current => files'[f] = files[f]
        /\ files'[Current].inode = files[Current].inode /\ files'[Current].half = FALSE
        /\ Len(files'[Current].lines) = Len(files[Current].lines) + 1
        /\ \A j \in Positions(Current) : files'[Current].lines[j] = files[Current].lines[j]
        /\ files'[Current].lines[Len(files[Current].lines) + 1] = e
        /\ files'[Current] \in LogFile
    BY <1>1, <2>2, <2>4, AppendGrows
  <2>6. SizeOf(files'[Current]) >= SizeOf(files[Current])
    <3>1. ~files'[Current].half
      BY <2>5, Zenon
    <3>2. SizeOf(files'[Current]) = 2 * (Len(files[Current].lines) + 1)
      BY <1>2, <2>5, <3>1, SizeFacts
    <3>3. SizeOf(files[Current]) <= 2 * Len(files[Current].lines) + 1
      <4>1. CASE files[Current].half
        BY <1>2, <4>1, SizeFacts
      <4>2. CASE ~files[Current].half
        BY <1>2, <4>2, SizeFacts
      <4>3. QED
        BY <4>1, <4>2
    <3>4. SizeOf(files[Current]) \in Nat
      BY <1>2, SizeFacts
    <3>5. QED
      BY <1>2, <3>2, <3>3, <3>4
  <2>7. QED
    BY <1>1, <1>2, <2>1, <2>2, <2>5, <2>6 DEF Grown, TypeInv, readVars, ghostVars, boundVars
<1>6. QED
  BY <1>3, <1>4, <1>5

\* A line of the file after a write: an old one at its place, or the new one,
\* which no read and no sample has.
LEMMA GrownLines ==
  ASSUME Inv, Grown, NEW f \in Files, NEW j \in 1..Len(files'[f].lines)
  PROVE  \/ j \in Positions(f) /\ files'[f].lines[j] = files[f].lines[j]
         \/ /\ f = Current /\ j = Len(files[Current].lines) + 1
            /\ files'[f].lines[j].id \in 1..written' /\ files'[f].lines[j].id # writing'
            /\ ~Told(files'[f].lines[j].id) /\ ~InBatch(files'[f].lines[j].id)
            /\ \A g \in Files : \A i \in Positions(g) : Id(g, i) # files'[f].lines[j].id
<1>1. TypeInv /\ LinesInv /\ Current \in Files /\ Len(files[Current].lines) \in Nat
  BY CurrentIsFile, FileFacts DEF Inv
<1>2. CASE f # Current
  BY <1>2 DEF Grown, Positions
<1>3. CASE f = Current /\ j \in Positions(Current)
  BY <1>3 DEF Grown
<1>4. CASE f = Current /\ j \notin Positions(Current)
  <2> DEFINE e == files'[f].lines[j].id
  <2>1. j = Len(files[Current].lines) + 1 /\ Len(files'[Current].lines) = Len(files[Current].lines) + 1
    BY <1>1, <1>4 DEF Grown, Positions
  <2>2. /\ writing' = NoLine
        /\ \/ e = writing /\ writing # NoLine /\ written' = written
           \/ e = written + 1 /\ writing = NoLine /\ written' = written + 1
    BY <1>4, <2>1 DEF Grown
  <2> HIDE DEF e
  <2>3. written \in Nat /\ writing \in Nat /\ writing <= written
    BY <1>1, BoundsAssumption DEF TypeInv, LinesInv
  <2>4. e \in 1..written' /\ e # writing'
    BY <2>2, <2>3 DEF NoLine
  <2>5. ~Told(e) /\ ~InBatch(e)
    BY <1>1, <2>2, <2>3, BoundsAssumption DEF LinesInv, Told, InBatch
  <2>6. \A g \in Files : \A i \in Positions(g) : Id(g, i) # e
    BY <1>1, <2>2, <2>3 DEF LinesInv
  <2>7. QED
    BY <1>4, <2>1, <2>4, <2>5, <2>6 DEF e
<1>5. QED
  BY <1>2, <1>3, <1>4

LEMMA GrownKeeps == Inv /\ Grown => Inv'
<1> SUFFICES ASSUME Inv, Grown PROVE Inv'
  OBVIOUS
<1>1. TypeInv /\ LinesInv /\ ReadInv /\ Current \in Files /\ Len(files) \in Nat
  BY CurrentIsFile DEF Inv
<1>2. /\ UNCHANGED <<sameText, pc, fd, size, offset, batch, saved, reported, tails, passed, stops, saveFails>>
      /\ files' \in Seq(LogFile) /\ Current' = Current /\ Files' = Files
      /\ written' \in 0..MaxLines /\ written <= written' /\ writing' \in Nat /\ writing' <= written'
      /\ writing' = NoLine \/ writing' = written + 1
  <2>1. written \in Nat
    BY <1>1, BoundsAssumption DEF TypeInv
  <2>2. QED
    BY <1>1, <2>1 DEF Grown, Current, Files, readVars, ghostVars, boundVars, NoLine
<1>3. TypeInv'
  BY <1>1, <1>2 DEF TypeInv
<1>4. LinesInv'
  <2>1. \A f \in Files' : \A j \in Positions(f)' : Id(f, j)' \in 1..written' /\ Id(f, j)' # writing'
    <3> SUFFICES ASSUME NEW f \in Files, NEW j \in 1..Len(files'[f].lines)
                 PROVE  files'[f].lines[j].id \in 1..written' /\ files'[f].lines[j].id # writing'
      BY <1>2 DEF Positions, Id
    <3>1. CASE j \in Positions(f) /\ files'[f].lines[j] = files[f].lines[j]
      <4>1. files'[f].lines[j].id = Id(f, j) /\ Id(f, j) \in 1..written
        BY <1>1, <3>1 DEF Id, LinesInv
      <4>2. QED
        BY <1>1, <1>2, <4>1, BoundsAssumption DEF TypeInv, NoLine
    <3>2. QED
      BY <3>1, GrownLines
  <2>2. \A f, g \in Files' : \A i \in Positions(f)', j \in Positions(g)' :
          Id(f, i)' = Id(g, j)' => f = g /\ i = j
    <3> SUFFICES ASSUME NEW f \in Files, NEW g \in Files, NEW i \in 1..Len(files'[f].lines),
                        NEW j \in 1..Len(files'[g].lines),
                        files'[f].lines[i].id = files'[g].lines[j].id
                 PROVE  f = g /\ i = j
      BY <1>2 DEF Positions, Id
    <3>1. \/ i \in Positions(f) /\ files'[f].lines[i].id = Id(f, i)
          \/ /\ f = Current /\ i = Len(files[Current].lines) + 1
             /\ \A h \in Files : \A k \in Positions(h) : Id(h, k) # files'[f].lines[i].id
      BY GrownLines DEF Id
    <3>2. \/ j \in Positions(g) /\ files'[g].lines[j].id = Id(g, j)
          \/ /\ g = Current /\ j = Len(files[Current].lines) + 1
             /\ \A h \in Files : \A k \in Positions(h) : Id(h, k) # files'[g].lines[j].id
      BY GrownLines DEF Id
    <3>3. QED
      BY <1>1, <3>1, <3>2 DEF LinesInv
  <2>3. \A f \in Files' : files'[f].half => f = Current' /\ writing' # NoLine
    <3> SUFFICES ASSUME NEW f \in Files, files'[f].half PROVE f = Current /\ writing' # NoLine
      BY <1>2
    <3>1. f = Current
      BY <1>1 DEF Grown, LinesInv
    <3>2. QED
      BY <3>1 DEF Grown
  <2>4. /\ \A l \in batch' : l.id \in 1..written' /\ l.id # writing'
        /\ \A i \in 1..MaxLines : Told(i)' => i <= written' /\ i # writing'
    BY <1>1, <1>2, BoundsAssumption DEF LinesInv, Told, TypeInv, NoLine
  <2>5. QED
    BY <1>2, <2>1, <2>2, <2>3, <2>4 DEF LinesInv
<1>5. ReadInv'
  <2>1. \A f \in Files : SizeOf(files'[f]) >= SizeOf(files[f]) /\ SizeOf(files[f]) \in Nat
                           /\ SizeOf(files'[f]) \in Nat
    <3>1. TypeInv' /\ Files' = Files
      BY <1>2, <1>3
    <3>2. ASSUME NEW f \in Files
          PROVE SizeOf(files[f]) \in Nat /\ SizeOf(files'[f]) \in Nat
      <4>1. files[f] \in LogFile /\ files'[f] \in LogFile
        BY <1>1, <1>2, ElementOfSeq DEF TypeInv, Files, Grown
      <4>2. QED
        BY <4>1, SizeFacts
    <3>3. QED
      BY <3>2 DEF Grown
  <2>2. QED
    BY <1>1, <1>2, <2>1 DEF ReadInv, TypeInv
<1>6. QED
  BY <1>3, <1>4, <1>5 DEF Inv

-----------------------------------------------------------------------------
(***************************************************************************)
(* The steps of the reader, and a new log file.                             *)
(***************************************************************************)
LEMMA BetweenFacts ==
  ASSUME NEW f, NEW a, NEW b, NEW l
  PROVE  l \in LinesBetween(f, a, b) <=>
           \E j \in 1..Len(f.lines) : 2 * j > a /\ 2 * j <= b /\ l = f.lines[j]
BY DEF LinesBetween

\* What a read starts with.
LEMMA StartFacts ==
  ASSUME TypeInv, NEW f \in Files
  PROVE  /\ StartOffset(files[f]) \in Nat /\ StartOffset(files[f]) <= SizeOf(files[f])
         /\ \/ StartOffset(files[f]) = 0
            \/ /\ StartOffset(files[f]) = saved.offset /\ saved.inode = files[f].inode
               /\ saved.offset <= SizeOf(files[f])
               /\ HeadHash(files[f], saved.offset) = saved.head
         /\ /\ saved.offset >= 0 /\ saved.inode = files[f].inode
            /\ saved.offset <= SizeOf(files[f])
            /\ HeadHash(files[f], saved.offset) = saved.head
            => StartOffset(files[f]) = saved.offset
BY FileFacts DEF StartOffset, TypeInv

\* The lines of a batch are lines of the file, after the offset.
LEMMA BatchFacts ==
  ASSUME Inv, ReadLines
  PROVE  /\ batch' \subseteq Line
         /\ \A l \in batch' : \E j \in Positions(fd) :
              /\ 2 * j > offset /\ 2 * j <= size
              /\ l.id = Id(fd, j) /\ (l.whole => files[fd].lines[j].whole)
         /\ \A j \in Positions(fd) : 2 * j > offset /\ 2 * j <= size =>
              \E l \in batch' : l.id = Id(fd, j)
<1>1. TypeInv /\ fd \in Files
  BY DEF Inv, ReadInv, ReadLines
<1> DEFINE Whole2(l) == l.whole /\ (offset % 2 = 0 \/ l # files[fd].lines[(offset + 1) \div 2])
           Read2(l) == [id |-> l.id, whole |-> Whole2(l)]
<1>2. batch' = {Read2(l) : l \in LinesBetween(files[fd], offset, size)}
  BY DEF ReadLines
<1>3. ASSUME NEW l \in Line PROVE Read2(l) \in Line /\ Read2(l).id = l.id /\ (Read2(l).whole => l.whole)
  <2>1. Whole2(l) \in BOOLEAN /\ (Whole2(l) => l.whole) /\ l.id \in Nat
    BY DEF Line
  <2> HIDE DEF Whole2
  <2>2. QED
    BY <2>1 DEF Line
<1>4. \A l : l \in LinesBetween(files[fd], offset, size) <=>
        \E j \in Positions(fd) : 2 * j > offset /\ 2 * j <= size /\ l = files[fd].lines[j]
  BY BetweenFacts DEF Positions
<1>5. \A j \in Positions(fd) : files[fd].lines[j] \in Line
  BY <1>1, FileFacts
<1> HIDE DEF Read2
<1>6. batch' \subseteq Line
  BY <1>2, <1>3, <1>4, <1>5
<1>7. ASSUME NEW l \in batch'
      PROVE  \E j \in Positions(fd) : /\ 2 * j > offset /\ 2 * j <= size
               /\ l.id = Id(fd, j) /\ (l.whole => files[fd].lines[j].whole)
  <2>1. PICK k \in LinesBetween(files[fd], offset, size) : l = Read2(k)
    BY <1>2
  <2>2. PICK j \in Positions(fd) : 2 * j > offset /\ 2 * j <= size /\ k = files[fd].lines[j]
    BY <1>4
  <2>3. k \in Line
    BY <1>5, <2>2
  <2>4. QED
    BY <1>3, <2>1, <2>2, <2>3 DEF Id
<1>8. ASSUME NEW j \in Positions(fd), 2 * j > offset, 2 * j <= size
      PROVE  \E l \in batch' : l.id = Id(fd, j)
  <2>1. files[fd].lines[j] \in LinesBetween(files[fd], offset, size) /\ files[fd].lines[j] \in Line
    BY <1>4, <1>5, <1>8
  <2>2. Read2(files[fd].lines[j]) \in batch' /\ Read2(files[fd].lines[j]).id = Id(fd, j)
    BY <1>2, <1>3, <2>1 DEF Id
  <2>3. QED
    BY <2>2
<1>9. QED
  BY <1>6, <1>7, <1>8

\* Where the next read starts: after the lines of this one.
LEMMA OffsetFacts ==
  ASSUME Inv, ReadLines
  PROVE  /\ offset' \in Nat /\ offset <= offset' /\ offset' <= size
         /\ \A j \in Positions(fd) : 2 * j <= offset' => 2 * j <= offset \/ (2 * j > offset /\ 2 * j <= size)
         /\ \A j \in Positions(fd) : 2 * j > offset /\ 2 * j <= size => 2 * j <= offset'
<1>1. /\ fd \in Files /\ offset \in Nat /\ size \in Nat /\ offset <= size
      /\ Positions(fd) \subseteq Nat
  BY FileFacts DEF Inv, ReadInv, TypeInv, ReadLines, Positions
<1>2. size % 2 \in 0..1 /\ size = 2 * (size \div 2) + (size % 2) /\ size \div 2 \in Int
  BY <1>1
<1>3. \A j \in Nat : 2 * j <= size => 2 * j <= size - (size % 2)
  BY <1>1, <1>2
<1>4. CASE batch' = {}
  <2>1. \A j \in Positions(fd) : ~(2 * j > offset /\ 2 * j <= size)
    BY <1>4, BatchFacts
  <2>2. offset' = offset
    BY <1>4 DEF ReadLines
  <2>3. QED
    BY <1>1, <2>1, <2>2
<1>5. CASE batch' # {}
  <2>1. PICK j \in Positions(fd) : 2 * j > offset /\ 2 * j <= size
    BY <1>5, BatchFacts
  <2>2. offset' = size - (size % 2)
    BY <1>5 DEF ReadLines
  <2>3. 2 * j <= offset' /\ offset' \in Nat /\ offset' <= size
    BY <1>1, <1>2, <1>3, <2>1, <2>2
  <2>4. offset <= offset'
    BY <1>1, <2>1, <2>3
  <2>5. QED
    BY <1>1, <1>3, <2>2, <2>3, <2>4
<1>6. QED
  BY <1>4, <1>5

\* A file that was cut is empty.
LEMMA CutFacts ==
  ASSUME TypeInv, fd \in Files, files' = [files EXCEPT ![fd] = EmptyFile(@.inode)]
  PROVE  /\ files' \in Seq(LogFile) /\ Len(files') = Len(files)
         /\ \A f \in Files : f # fd => files'[f] = files[f]
         /\ files'[fd].lines = <<>> /\ ~files'[fd].half /\ Len(files'[fd].lines) = 0
         /\ files'[fd].inode = files[fd].inode
<1> DEFINE new == EmptyFile(files[fd].inode)
<1>1. new \in LogFile /\ new.lines = <<>> /\ ~new.half /\ new.inode = files[fd].inode
  BY FileFacts, EmptySeq DEF EmptyFile, LogFile
<1> HIDE DEF new
<1>2. files' = [files EXCEPT ![fd] = new]
  BY DEF new
<1>3. files \in Seq(LogFile) /\ fd \in 1..Len(files)
  BY DEF TypeInv, Files
<1>4. /\ [files EXCEPT ![fd] = new] \in Seq(LogFile)
      /\ Len([files EXCEPT ![fd] = new]) = Len(files)
      /\ \A f \in 1..Len(files) : [files EXCEPT ![fd] = new][f] = IF f = fd THEN new ELSE files[f]
  BY <1>1, <1>3, ExceptSeq
<1>5. /\ files' \in Seq(LogFile) /\ Len(files') = Len(files)
      /\ \A f \in Files : files'[f] = IF f = fd THEN new ELSE files[f]
  BY <1>2, <1>4, Zenon DEF Files
<1>6. QED
  BY <1>1, <1>5, EmptySeq

\* A new file is empty, and comes after the others.
LEMMA NewFileFacts ==
  ASSUME TypeInv, NewFile
  PROVE  /\ files' \in Seq(LogFile) /\ Current' = Current + 1
         /\ Files' = Files \cup {Current'} /\ Current' \notin Files
         /\ \A f \in Files : files'[f] = files[f]
         /\ files'[Current'].lines = <<>> /\ ~files'[Current'].half
         /\ Len(files'[Current'].lines) = 0
<1> DEFINE new == EmptyFile(IF InodeReused THEN 1 ELSE Current + 1)
<1>1. Current \in Nat /\ files \in Seq(LogFile)
  BY CurrentIsFile DEF Current, TypeInv
<1>2. new \in LogFile /\ new.lines = <<>> /\ ~new.half
  BY <1>1, EmptySeq DEF EmptyFile, LogFile
<1> HIDE DEF new
<1>3. files' = Append(files, new)
  BY DEF NewFile, new
<1>4. /\ Append(files, new) \in Seq(LogFile) /\ Len(Append(files, new)) = Len(files) + 1
      /\ \A f \in 1..Len(files) : Append(files, new)[f] = files[f]
      /\ Append(files, new)[Len(files) + 1] = new
  BY <1>1, <1>2, AppendProperties
<1>5. files' \in Seq(LogFile) /\ Current' = Current + 1 /\ files'[Current'] = new
  BY <1>3, <1>4 DEF Current
<1>6. \A f \in Files : files'[f] = files[f]
  BY <1>3, <1>4 DEF Files
<1>7. Files' = Files \cup {Current'} /\ Current' \notin Files
  BY <1>1, <1>3, <1>4 DEF Files, Current
<1>8. QED
  BY <1>2, <1>5, <1>6, <1>7, EmptySeq

\* Steps that leave the log and the batch alone.
LEMMA LinesStay ==
  ASSUME Inv, UNCHANGED <<files, written, writing, batch, reported>>
  PROVE  LinesInv'
BY DEF Inv, LinesInv, Files, Current, Positions, Id, Told

LEMMA Initially == Init => Inv
<1> SUFFICES ASSUME Init PROVE Inv
  OBVIOUS
<1>1. EmptyFile(1) \in LogFile /\ EmptyFile(1).lines = <<>> /\ ~EmptyFile(1).half
  BY EmptySeq DEF EmptyFile, LogFile
<1> HIDE DEF EmptyFile
<1>2. /\ files \in Seq(LogFile) /\ Len(files) = 1 /\ files[1] = EmptyFile(1)
  <2>1. files = <<EmptyFile(1)>>
    BY DEF Init
  <2>2. QED
    BY <1>1, <2>1
<1>3. TypeInv
  BY <1>2, BoundsAssumption DEF Init, TypeInv, NoState, NoFile, NoLine, Current
<1>4. Files = {1} /\ Positions(1) = {} /\ Current = 1 /\ ~files[1].half
  BY <1>1, <1>2 DEF Files, Positions, Current
<1>5. LinesInv
  BY <1>4, BoundsAssumption DEF Init, LinesInv, Told, NoLine
<1>6. ReadInv
  BY DEF Init, ReadInv
<1>7. QED
  BY <1>3, <1>5, <1>6 DEF Inv

LEMMA OpenKeeps == Inv /\ Open => Inv'
<1> SUFFICES ASSUME Inv, Open PROVE Inv'
  OBVIOUS
<1>1. TypeInv /\ Current \in Files /\ Current \in Nat
  BY CurrentIsFile DEF Inv, Current
<1>2. /\ SizeOf(files[Current]) \in Nat
      /\ StartOffset(files[Current]) \in Nat /\ StartOffset(files[Current]) <= SizeOf(files[Current])
  BY <1>1, FileFacts, StartFacts
<1>3. /\ UNCHANGED <<sameText, files, written, writing, saved, reported, stops, saveFails>>
      /\ fd' = Current /\ size' = SizeOf(files[Current]) /\ batch' = {}
      /\ \/ offset' = StartOffset(files[Current]) /\ pc' = "read"
         \/ offset' = SizeOf(files[Current]) /\ pc' = "save"
  BY DEF Open, proxyVars, boundVars
<1>4. TypeInv'
  BY <1>1, <1>2, <1>3 DEF TypeInv, Current
<1>5. LinesInv'
  BY <1>3 DEF Inv, LinesInv, Files, Current, Positions, Id, Told
<1>6. ReadInv'
  BY <1>1, <1>2, <1>3 DEF ReadInv, Files
<1>7. QED
  BY <1>4, <1>5, <1>6 DEF Inv

LEMMA ReadLinesKeeps == Inv /\ ReadLines => Inv'
<1> SUFFICES ASSUME Inv, ReadLines PROVE Inv'
  OBVIOUS
<1>1. TypeInv /\ fd \in Files /\ size <= SizeOf(files[fd])
  BY DEF Inv, ReadInv, ReadLines
<1>2. UNCHANGED <<sameText, files, written, writing, fd, size, saved, reported, stops, saveFails>> /\ pc' = "cut"
  BY DEF ReadLines, proxyVars, ghostVars, boundVars
<1>3. /\ batch' \subseteq Line /\ offset' \in Nat /\ offset' <= size
      /\ \A l \in batch' : \E j \in Positions(fd) : l.id = Id(fd, j)
  BY BatchFacts, OffsetFacts
<1>4. TypeInv'
  BY <1>1, <1>2, <1>3 DEF TypeInv, Current
<1>5. \A l \in batch' : l.id \in 1..written /\ l.id # writing
  BY <1>1, <1>3 DEF Inv, LinesInv
<1>6. LinesInv'
  BY <1>2, <1>5 DEF Inv, LinesInv, Files, Current, Positions, Id, Told
<1>7. ReadInv'
  BY <1>1, <1>2, <1>3 DEF ReadInv, Files
<1>8. QED
  BY <1>4, <1>6, <1>7 DEF Inv

LEMMA CutKeeps == Inv /\ Cut => Inv'
<1> SUFFICES ASSUME Inv, Cut PROVE Inv'
  OBVIOUS
<1>1. TypeInv /\ fd \in Files /\ size <= SizeOf(files[fd]) /\ offset <= size
  BY DEF Inv, ReadInv, Cut
<1>2. UNCHANGED <<sameText, written, writing, fd, size, batch, saved, reported, stops, saveFails>> /\ pc' = "save"
  BY DEF Cut, boundVars
<1>3. CASE UNCHANGED <<files, offset, passed>>
  <2>1. TypeInv' /\ LinesInv'
    BY <1>1, <1>2, <1>3, LinesStay DEF TypeInv, Current
  <2>2. ReadInv'
    <3>1. offset <= SizeOf(files[fd])
      BY <1>1, FileFacts DEF TypeInv
    <3>2. QED
      BY <1>1, <1>2, <1>3, <3>1 DEF ReadInv, Files
  <2>3. QED
    BY <2>1, <2>2 DEF Inv
<1>4. CASE offset' = 0 /\ files' = [files EXCEPT ![fd] = EmptyFile(@.inode)]
  <2>1. /\ files' \in Seq(LogFile) /\ Len(files') = Len(files)
        /\ \A f \in Files : f # fd => files'[f] = files[f]
        /\ files'[fd].lines = <<>> /\ ~files'[fd].half /\ Len(files'[fd].lines) = 0
    BY <1>1, <1>4, CutFacts
  <2>2. offset' = 0
    BY <1>4
  <2>3. TypeInv' /\ Files' = Files /\ Current' = Current
    BY <1>1, <1>2, <2>1, <2>2 DEF TypeInv, Current, Files
  <2>4. \A f \in Files : \A j \in 1..Len(files'[f].lines) :
          f # fd /\ j \in Positions(f) /\ files'[f].lines[j].id = Id(f, j)
    BY <2>1 DEF Positions, Id
  <2>5. LinesInv'
    <3>1. /\ writing' <= written'
          /\ \A f \in Files' : \A j \in Positions(f)' : Id(f, j)' \in 1..written' /\ Id(f, j)' # writing'
      BY <1>2, <2>3, <2>4 DEF Inv, LinesInv, Positions, Id
    <3>2. \A f, g \in Files' : \A i \in Positions(f)', j \in Positions(g)' :
            Id(f, i)' = Id(g, j)' => f = g /\ i = j
      BY <2>3, <2>4 DEF Inv, LinesInv, Positions, Id
    <3>3. \A f \in Files' : files'[f].half => f = Current' /\ writing' # NoLine
      BY <1>2, <2>1, <2>3 DEF Inv, LinesInv
    <3>4. QED
      BY <1>2, <3>1, <3>2, <3>3 DEF Inv, LinesInv, Told
  <2>6. SizeOf(files'[fd]) \in Nat
    <3>1. files'[fd] \in LogFile
      BY <1>1, <2>1, ElementOfSeq DEF Files
    <3>2. QED
      BY <3>1, SizeFacts
  <2>7. ReadInv'
    BY <1>1, <1>2, <2>2, <2>3, <2>6 DEF ReadInv
  <2>8. QED
    BY <2>3, <2>5, <2>7 DEF Inv
<1>5. QED
  BY <1>3, <1>4 DEF Cut

LEMMA SaveOffsetKeeps == Inv /\ SaveOffset => Inv'
<1> SUFFICES ASSUME Inv, SaveOffset PROVE Inv'
  OBVIOUS
<1>1. TypeInv /\ fd \in Files /\ files[fd].inode \in Nat
  BY FileFacts DEF Inv, ReadInv, SaveOffset
<1>2. /\ UNCHANGED <<sameText, files, written, writing, fd, size, offset, batch, reported, stops>> /\ pc' = "deliver"
      /\ \/ saved' = [inode |-> files[fd].inode, offset |-> offset, head |-> HeadHash(files[fd], offset)]
            /\ saveFails' = saveFails
         \/ saved' = saved /\ saveFails' = saveFails + 1
  BY DEF SaveOffset, proxyVars, readVars, ghostVars
<1>3. saved'.inode \in Nat /\ saved'.offset \in Int /\ saveFails' \in Nat
  BY <1>1, <1>2 DEF TypeInv
<1>4. TypeInv' /\ LinesInv' /\ ReadInv'
  BY <1>1, <1>2, <1>3, LinesStay DEF TypeInv, Current, ReadInv, Files
<1>5. QED
  BY <1>4 DEF Inv

LEMMA DeliverFacts ==
  ASSUME Inv, Deliver
  PROVE  /\ reported' \in [1..MaxLines -> Nat]
         /\ \A i \in 1..MaxLines : reported'[i] =
              IF \E l \in batch : l.id = i /\ l.whole THEN reported[i] + 1 ELSE reported[i]
BY BoundsAssumption DEF Inv, TypeInv, Deliver

LEMMA DeliverKeeps == Inv /\ Deliver => Inv'
<1> SUFFICES ASSUME Inv, Deliver PROVE Inv'
  OBVIOUS
<1>1. TypeInv /\ LinesInv
  BY DEF Inv
<1>2. /\ UNCHANGED <<sameText, files, written, writing, saved, stops, saveFails>> /\ pc' = "idle"
      /\ fd' = 0 /\ size' = 0 /\ offset' = 0 /\ batch' = {}
  BY DEF Deliver, proxyVars, boundVars, NoFile
<1>3. TypeInv'
  BY <1>1, <1>2, DeliverFacts DEF TypeInv, Current
<1>4. \A i \in 1..MaxLines : reported'[i] > 0 => reported[i] > 0 \/ InBatch(i)
  BY <1>1, DeliverFacts DEF TypeInv, InBatch
<1>5. \A i \in 1..MaxLines : Told(i)' => i <= written /\ i # writing
  BY <1>1, <1>4, BoundsAssumption DEF LinesInv, Told, InBatch, TypeInv
<1>6. LinesInv'
  BY <1>1, <1>2, <1>5 DEF LinesInv, Files, Current, Positions, Id
<1>7. QED
  BY <1>2, <1>3, <1>6 DEF Inv, ReadInv

LEMMA StopKeeps == Inv /\ Stop => Inv'
<1> SUFFICES ASSUME Inv, Stop PROVE Inv'
  OBVIOUS
<1>1. /\ UNCHANGED <<sameText, files, written, writing, saved, reported, saveFails>> /\ pc' = "idle"
      /\ fd' = 0 /\ size' = 0 /\ offset' = 0 /\ batch' = {} /\ stops' = stops + 1
  BY DEF Stop, proxyVars, NoFile
<1>2. TypeInv' /\ LinesInv'
  BY <1>1 DEF Inv, TypeInv, LinesInv, Files, Current, Positions, Id, Told
<1>3. QED
  BY <1>1, <1>2 DEF Inv, ReadInv

LEMMA NewFileKeeps == Inv /\ NewFile => Inv'
<1> SUFFICES ASSUME Inv, NewFile PROVE Inv'
  OBVIOUS
<1>1. TypeInv /\ LinesInv /\ ReadInv /\ Current \in Nat
  BY CurrentIsFile DEF Inv, Current
<1>2. UNCHANGED <<sameText, pc, written, writing, fd, size, offset, batch, saved, reported, tails, stops, saveFails>>
      /\ writing = NoLine
  BY DEF NewFile, readVars, boundVars
<1>3. /\ files' \in Seq(LogFile) /\ Current' = Current + 1
      /\ Files' = Files \cup {Current'} /\ Current' \notin Files
      /\ \A f \in Files : files'[f] = files[f]
      /\ ~files'[Current'].half /\ Len(files'[Current'].lines) = 0
  BY <1>1, NewFileFacts
<1>4. TypeInv'
  BY <1>1, <1>2, <1>3 DEF TypeInv
<1>5. \A f \in Files' : \A j \in Positions(f)' :
        f \in Files /\ j \in Positions(f) /\ Id(f, j)' = Id(f, j)
  BY <1>3 DEF Positions, Id
<1>6. LinesInv'
  <2>1. \A f \in Files' : \A j \in Positions(f)' : Id(f, j)' \in 1..written' /\ Id(f, j)' # writing'
    BY <1>1, <1>2, <1>5 DEF LinesInv
  <2>2. \A f, g \in Files' : \A i \in Positions(f)', j \in Positions(g)' :
          Id(f, i)' = Id(g, j)' => f = g /\ i = j
    BY <1>1, <1>5 DEF LinesInv
  <2>3. \A f \in Files' : ~files'[f].half
    BY <1>1, <1>2, <1>3 DEF LinesInv
  <2>4. QED
    BY <1>1, <1>2, <2>1, <2>2, <2>3 DEF LinesInv, Told
<1>7. ReadInv'
  BY <1>1, <1>2, <1>3 DEF ReadInv, SizeOf
<1>8. QED
  BY <1>4, <1>6, <1>7 DEF Inv

LEMMA Inductive == Inv /\ [Next]_vars => Inv'
<1>1. Inv /\ UNCHANGED vars => Inv'
  BY LinesStay DEF Inv, TypeInv, ReadInv, Files, Current, vars, proxyVars, readVars, ghostVars, boundVars
<1>2. QED
  BY <1>1, OpenKeeps, ReadLinesKeeps, CutKeeps, SaveOffsetKeeps, DeliverKeeps, StopKeeps,
    NewFileKeeps, WriteGrows, GrownKeeps DEF Next, Read, Proxy

LEMMA Invariance == Spec => []Inv
BY Initially, Inductive, PTL DEF Spec

-----------------------------------------------------------------------------
(***************************************************************************)
(* No line is told two times.                                               *)
(***************************************************************************)

LEMMA HeadIsFirst ==
  ASSUME NEW f, NEW o
  PROVE  HeadHash(f, o) = IF o <= 0 THEN <<>> ELSE <<SmallerOf(o, 2), Text(First(f))>>
BY DEF HeadHash, First

\* What the proxy writes comes after the head of the file.
LEMMA FirstStays ==
  ASSUME Inv, WriteLine \/ WriteHalf \/ WriteRest, SizeOf(files[Current]) > 0
  PROVE  First(files[Current])' = First(files[Current])
<1>1. TypeInv /\ LinesInv /\ Grown /\ Current \in Files /\ Current' = Current
  BY WriteGrows, CurrentIsFile DEF Inv, Grown, Current
<1>2. /\ files[Current] \in LogFile /\ files[Current].half \in BOOLEAN
      /\ Len(files[Current].lines) \in Nat /\ files[Current].lines \in Seq(Line)
  BY <1>1, FileFacts
<1>3. files'[Current] \in LogFile
  BY <1>1, ElementOfSeq DEF Grown, Files
<1>4. files'[Current].lines \in Seq(Line) /\ Len(files'[Current].lines) \in Nat
  BY <1>3, FileParts
<1>5. CASE files[Current].lines # <<>>
  <2>1. Len(files[Current].lines) >= 1
    BY <1>2, <1>5, EmptySeq
  <2>2. 1 \in Positions(Current) /\ Len(files'[Current].lines) >= 1
    BY <1>1, <1>2, <1>4, <2>1 DEF Positions, Grown
  <2>3. files'[Current].lines[1] = files[Current].lines[1] /\ files'[Current].lines # <<>>
    BY <1>1, <2>2, EmptySeq DEF Grown
  <2>4. QED
    BY <1>1, <1>5, <2>3 DEF First
<1>6. CASE files[Current].lines = <<>>
  <2>1. Len(files[Current].lines) = 0 /\ files[Current].half
    BY <1>2, <1>6, EmptySeq, SizeFacts
  <2>2. writing # NoLine /\ WriteRest
    BY <1>1, <2>1 DEF LinesInv, WriteLine, WriteHalf
  <2> DEFINE e == [id |-> writing, whole |-> files[Current].half]
  <2>3. e = Whole(writing) /\ e \in Line
    <3>1. files[Current].half = TRUE
      BY <1>2, <2>1
    <3>2. QED
      BY <1>1, <3>1 DEF Whole, Line, TypeInv
  <2>4. files' = [files EXCEPT ![Current] = [inode |-> files[Current].inode,
             lines |-> Append(files[Current].lines, e), half |-> FALSE]]
    BY <2>2, Zenon DEF WriteRest
  <2> HIDE DEF e
  <2>5. /\ Len(files'[Current].lines) = 1 /\ files'[Current].lines[1] = e
    <3>1. /\ Len(files'[Current].lines) = Len(files[Current].lines) + 1
          /\ files'[Current].lines[Len(files[Current].lines) + 1] = e
      BY <1>1, <2>3, <2>4, AppendGrows
    <3>2. QED
      BY <2>1, <3>1
  <2>6. files'[Current].lines # <<>>
    BY <2>5, EmptySeq
  <2>7. QED
    BY <1>1, <1>6, <2>3, <2>5, <2>6 DEF First
<1>7. QED
  BY <1>5, <1>6

LEMMA HeadStays ==
  ASSUME Inv, WriteLine \/ WriteHalf \/ WriteRest, NEW o \in Int, o <= SizeOf(files[Current])
  PROVE  HeadHash(files[Current], o)' = HeadHash(files[Current], o)
<1>1. sameText' = sameText
  BY WriteGrows DEF Grown
<1>2. CASE o <= 0
  BY <1>2, HeadIsFirst DEF HeadHash
<1>3. CASE o > 0
  <2>1. SizeOf(files[Current]) > 0
    BY <1>3, CurrentIsFile, FileFacts DEF Inv
  <2>2. First(files[Current])' = First(files[Current])
    BY <2>1, FirstStays
  <2>3. QED
    BY <1>1, <2>2 DEF HeadHash, First, Text
<1>4. QED
  BY <1>2, <1>3

\* Behind is about the file in use, what is saved, and the text of lines.
LEMMA BehindStays ==
  ASSUME UNCHANGED <<sameText, files, writing, saved>>, NEW j
  PROVE  Behind(j)' = Behind(j)
BY DEF Behind, Current, HeadHash, Text, Whole, SizeOf

LEMMA OnceFirst == Init => OnceInv
<1> SUFFICES ASSUME Init PROVE Once
  BY DEF OnceInv
<1>1. TypeInv /\ Current = 1 /\ Len(files[1].lines) = 0
  <2>1. files = <<EmptyFile(1)>>
    BY DEF Init
  <2>2. QED
    BY <2>1, Initially, EmptySeq DEF Inv, EmptyFile, Current
<1>2. Positions(Current) = {}
  BY <1>1 DEF Positions
<1>3. QED
  BY <1>2, BoundsAssumption DEF Init, Once

LEMMA OnceOpen == Inv /\ OnceInv /\ Open => OnceInv'
<1> SUFFICES ASSUME Inv, OnceInv, Open, saveFails' = 0 PROVE Once'
  BY DEF OnceInv
<1>1. /\ UNCHANGED <<sameText, files, written, writing, saved, reported, saveFails>>
      /\ fd' = Current /\ batch' = {} /\ Current' = Current
      /\ \/ HasState /\ offset' = StartOffset(files[Current]) /\ pc' = "read"
         \/ ~HasState /\ pc' = "save"
  BY DEF Open, proxyVars, boundVars, Current
<1>2. TypeInv /\ Current \in Files /\ SizeOf(files[Current]) \in Nat /\ Len(files[Current].lines) \in Nat
  BY CurrentIsFile, FileFacts DEF Inv
<1>3. Once
  BY <1>1 DEF OnceInv
<1>4. \A j \in Positions(Current) : Told(Id(Current, j)) => HasState /\ 2 * j <= StartOffset(files[Current])
  <2> SUFFICES ASSUME NEW j \in Positions(Current), Told(Id(Current, j))
               PROVE  HasState /\ 2 * j <= StartOffset(files[Current])
    OBVIOUS
  <2>1. Behind(j) /\ j \in Nat /\ j > 0
    BY <1>2, <1>3 DEF Once, Positions
  <2>2. 2 * j <= saved.offset /\ saved.offset >= 0
    BY <1>2, <2>1 DEF Behind, TypeInv
  <2>3. HasState
    BY <2>2 DEF HasState, NoState
  <2>4. QED
    BY <1>2, <2>1, <2>2, <2>3, StartFacts DEF Behind
<1>5. \A j \in Positions(Current) : Told(Id(Current, j)) => Behind(j)'
  BY <1>1, <1>3, BehindStays DEF Once
<1>6. \A j : /\ (j \in Positions(Current))' <=> j \in Positions(Current)
             /\ (j \in Positions(fd))' <=> j \in Positions(Current)
             /\ Id(Current, j)' = Id(Current, j) /\ Id(fd, j)' = Id(Current, j)
             /\ Told(Id(Current, j))' <=> Told(Id(Current, j))
             /\ ~InBatch(Id(Current, j))'
  BY <1>1 DEF Positions, Id, Told, InBatch
<1>7. QED
  BY <1>1, <1>3, <1>4, <1>5, <1>6 DEF Once

LEMMA OnceReadLines == Inv /\ OnceInv /\ ReadLines => OnceInv'
<1> SUFFICES ASSUME Inv, OnceInv, ReadLines, saveFails' = 0 PROVE Once'
  BY DEF OnceInv
<1>1. /\ UNCHANGED <<sameText, files, written, writing, fd, size, saved, reported, saveFails>>
      /\ pc = "read" /\ pc' = "cut" /\ Current' = Current
  BY DEF ReadLines, proxyVars, ghostVars, boundVars, Current
<1>2. /\ TypeInv /\ fd \in Files /\ Current \in Files
      /\ offset \in Nat /\ offset' \in Nat /\ size \in Nat /\ Positions(fd) \subseteq Nat
  BY <1>1, CurrentIsFile, OffsetFacts, FileFacts DEF Inv, ReadInv, TypeInv, Positions
<1>3. Once
  BY <1>1 DEF OnceInv
<1>4. \A l \in batch' : \E j \in Positions(fd) : l.id = Id(fd, j) /\ 2 * j > offset /\ 2 * j <= size
  BY BatchFacts
<1>5. \A l \in batch' : l.whole => ~Told(l.id)'
  <2>1. \A j \in Positions(fd) : 2 * j > offset => ~Told(Id(fd, j))
    BY <1>1, <1>2, <1>3 DEF Once
  <2>2. QED
    BY <1>1, <1>4, <2>1 DEF Told
<1>6. \A j \in Positions(fd) : Told(Id(fd, j)) \/ (\E l \in batch' : l.id = Id(fd, j)) => 2 * j <= offset'
  <2> SUFFICES ASSUME NEW j \in Positions(fd), Told(Id(fd, j)) \/ (\E l \in batch' : l.id = Id(fd, j))
               PROVE  2 * j <= offset'
    OBVIOUS
  <2>1. CASE Told(Id(fd, j))
    <3>1. 2 * j <= offset /\ offset <= offset'
      BY <1>1, <1>3, <2>1, OffsetFacts DEF Once
    <3>2. QED
      BY <1>2, <3>1
  <2>2. CASE \E l \in batch' : l.id = Id(fd, j)
    <3>1. PICK k \in Positions(fd) : Id(fd, j) = Id(fd, k) /\ 2 * k > offset /\ 2 * k <= size
      BY <1>4, <2>2
    <3>2. k = j
      BY <1>2, <3>1 DEF Inv, LinesInv
    <3>3. QED
      BY <3>1, <3>2, OffsetFacts
  <2>3. QED
    BY <2>1, <2>2
<1>7. fd # Current => \A j \in Positions(Current) : ~\E l \in batch' : l.id = Id(Current, j)
  BY <1>2, <1>4 DEF Inv, LinesInv
<1>8. \A j \in Positions(Current) : Told(Id(Current, j)) => Behind(j)'
  BY <1>1, <1>3, BehindStays DEF Once
<1>9. \A j : /\ (j \in Positions(fd))' <=> j \in Positions(fd)
             /\ (j \in Positions(Current))' <=> j \in Positions(Current)
             /\ Told(Id(fd, j))' <=> Told(Id(fd, j))
             /\ Told(Id(Current, j))' <=> Told(Id(Current, j))
             /\ InBatch(Id(fd, j))' <=> (\E l \in batch' : l.id = Id(fd, j))
             /\ InBatch(Id(Current, j))' <=> (\E l \in batch' : l.id = Id(Current, j))
  BY <1>1 DEF Positions, Id, Told, InBatch
<1>10. QED
  BY <1>1, <1>3, <1>5, <1>6, <1>7, <1>8, <1>9 DEF Once

LEMMA OnceCut == Inv /\ OnceInv /\ Cut => OnceInv'
<1> SUFFICES ASSUME Inv, OnceInv, Cut, saveFails' = 0 PROVE Once'
  BY DEF OnceInv
<1>1. /\ UNCHANGED <<sameText, written, writing, fd, size, batch, saved, reported, saveFails>>
      /\ pc = "cut" /\ pc' = "save"
  BY DEF Cut, boundVars
<1>2. TypeInv /\ fd \in Files /\ Current \in Files
  BY <1>1, CurrentIsFile DEF Inv, ReadInv
<1>3. Once
  BY <1>1 DEF OnceInv
<1>4. \A i : (Told(i)' <=> Told(i)) /\ (InBatch(i)' <=> InBatch(i))
  BY <1>1 DEF Told, InBatch
<1>5. CASE UNCHANGED <<files, offset, passed>>
  <2>1. \A j \in Positions(Current) : Told(Id(Current, j)) => Behind(j)'
    BY <1>1, <1>3, <1>5, BehindStays DEF Once
  <2>2. /\ Current' = Current /\ \A f : Positions(f)' = Positions(f)
        /\ \A f, j : Id(f, j)' = Id(f, j)
    BY <1>5 DEF Current, Positions, Id
  <2>3. QED
    BY <1>1, <1>3, <1>4, <1>5, <2>1, <2>2 DEF Once, Positions, Id, Current, Told, InBatch
<1>6. CASE offset' = 0 /\ files' = [files EXCEPT ![fd] = EmptyFile(@.inode)]
  <2>1. /\ Len(files') = Len(files) /\ Len(files'[fd].lines) = 0
        /\ \A f \in Files : f # fd => files'[f] = files[f]
    BY <1>2, <1>6, CutFacts
  <2>2. Current' = Current
    BY <2>1 DEF Current
  <2>3. Positions(fd)' = {}
    BY <1>1, <2>1 DEF Positions
  <2>4. fd # Current => \A j \in Positions(Current) : ~Told(Id(Current, j)) /\ ~InBatch(Id(Current, j))
    BY <1>1, <1>3 DEF Once
  <2>5. fd # Current => Positions(Current)' = Positions(Current) /\ \A j : Id(Current, j)' = Id(Current, j)
    BY <1>2, <2>1, <2>2 DEF Positions, Id
  <2>6. \A j \in Positions(Current)' : ~Told(Id(Current, j))' /\ ~InBatch(Id(Current, j))'
    <3>1. CASE fd = Current
      BY <1>1, <2>2, <2>3, <3>1
    <3>2. CASE fd # Current
      BY <1>1, <2>4, <2>5, <3>2 DEF Told, InBatch
    <3>3. QED
      BY <3>1, <3>2
  <2>7. (\A i \in 1..MaxLines : reported[i] <= 1)' /\ (\A l \in batch : l.whole => ~Told(l.id))'
    BY <1>1, <1>3 DEF Once, Told
  <2>8. QED
    BY <1>1, <2>3, <2>6, <2>7 DEF Once
<1>7. QED
  BY <1>5, <1>6 DEF Cut

LEMMA OnceSave == Inv /\ OnceInv /\ SaveOffset => OnceInv'
<1> SUFFICES ASSUME Inv, OnceInv, SaveOffset, saveFails' = 0 PROVE Once'
  BY DEF OnceInv
<1>1. /\ UNCHANGED <<sameText, files, written, writing, fd, size, offset, batch, reported>>
      /\ pc = "save" /\ pc' = "deliver"
  BY DEF SaveOffset, proxyVars, readVars, ghostVars
<1>2. TypeInv /\ fd \in Files /\ Current \in Files /\ offset \in Nat /\ offset <= SizeOf(files[fd])
  BY <1>1, CurrentIsFile DEF Inv, ReadInv, TypeInv
<1>3. /\ saved' = [inode |-> files[fd].inode, offset |-> offset, head |-> HeadHash(files[fd], offset)]
      /\ saveFails' = saveFails
  BY <1>2 DEF SaveOffset, TypeInv
<1>4. Once
  BY <1>3 DEF OnceInv
<1>5. \A j \in Positions(Current) : Told(Id(Current, j)) \/ InBatch(Id(Current, j)) => Behind(j)'
  <2> SUFFICES ASSUME NEW j \in Positions(Current), Told(Id(Current, j)) \/ InBatch(Id(Current, j))
               PROVE  Behind(j)'
    OBVIOUS
  <2>1. fd = Current /\ 2 * j <= offset
    BY <1>1, <1>4 DEF Once
  <2>2. /\ saved'.inode = files[Current].inode /\ saved'.offset = offset
        /\ saved'.head = HeadHash(files[Current], offset)
    BY <1>3, <2>1
  <2>3. HeadHash(files[Current], saved.offset)' = HeadHash(files[Current], offset)
    BY <1>1, <2>2 DEF HeadHash, Text, Whole, Current
  <2>4. QED
    BY <1>1, <1>2, <2>1, <2>2, <2>3 DEF Behind, Current, SizeOf
<1>6. /\ Current' = Current /\ Positions(Current)' = Positions(Current)
      /\ \A j : /\ Id(Current, j)' = Id(Current, j)
                /\ Told(Id(Current, j))' <=> Told(Id(Current, j))
                /\ InBatch(Id(Current, j))' <=> InBatch(Id(Current, j))
      /\ \A l \in batch : Told(l.id)' <=> Told(l.id)
  BY <1>1 DEF Current, Positions, Id, Told, InBatch
<1>7. QED
  BY <1>1, <1>4, <1>5, <1>6 DEF Once

LEMMA OnceDeliver == Inv /\ OnceInv /\ Deliver => OnceInv'
<1> SUFFICES ASSUME Inv, OnceInv, Deliver, saveFails' = 0 PROVE Once'
  BY DEF OnceInv
<1>1. /\ UNCHANGED <<sameText, files, written, writing, saved, saveFails>>
      /\ pc = "deliver" /\ pc' = "idle" /\ batch' = {}
  BY DEF Deliver, proxyVars, boundVars
<1>2. TypeInv /\ Once
  BY <1>1 DEF Inv, OnceInv
<1>3. \A i \in 1..MaxLines : reported'[i] <= 1
  <2> SUFFICES ASSUME NEW i \in 1..MaxLines PROVE reported'[i] <= 1
    OBVIOUS
  <2>1. reported[i] \in Nat /\ reported[i] <= 1
    BY <1>2 DEF TypeInv, Once
  <2>2. CASE \E l \in batch : l.id = i /\ l.whole
    <3>1. reported[i] = 0
      BY <1>2, <2>1, <2>2 DEF Once, Told
    <3>2. QED
      BY <2>2, <3>1, DeliverFacts
  <2>3. CASE ~\E l \in batch : l.id = i /\ l.whole
    BY <2>1, <2>3, DeliverFacts
  <2>4. QED
    BY <2>2, <2>3
<1>4. \A i : Told(i)' => Told(i) \/ InBatch(i)
  BY <1>2, DeliverFacts DEF Told, InBatch, TypeInv
<1>5. \A j \in Positions(Current) : Told(Id(Current, j))' => Behind(j)'
  <2> SUFFICES ASSUME NEW j \in Positions(Current), Told(Id(Current, j))' PROVE Behind(j)'
    OBVIOUS
  <2>1. Told(Id(Current, j)) \/ InBatch(Id(Current, j))
    BY <1>1, <1>4 DEF Id, Current, Told
  <2>2. QED
    BY <1>1, <1>2, <2>1, BehindStays DEF Once
<1>6. Positions(Current)' = Positions(Current)
  BY <1>1 DEF Positions, Current
<1>7. QED
  BY <1>1, <1>3, <1>5, <1>6 DEF Once

LEMMA OnceStop == Inv /\ OnceInv /\ Stop => OnceInv'
<1> SUFFICES ASSUME Inv, OnceInv, Stop, saveFails' = 0 PROVE Once'
  BY DEF OnceInv
<1>1. /\ UNCHANGED <<sameText, files, written, writing, saved, reported, saveFails>>
      /\ pc' = "idle" /\ batch' = {}
  BY DEF Stop, proxyVars
<1>2. Once
  BY <1>1 DEF OnceInv
<1>3. \A j \in Positions(Current) : Told(Id(Current, j)) => Behind(j)'
  BY <1>1, <1>2, BehindStays DEF Once
<1>4. /\ Positions(Current)' = Positions(Current)
      /\ \A j : Told(Id(Current, j))' <=> Told(Id(Current, j))
  BY <1>1 DEF Current, Positions, Id, Told
<1>5. QED
  BY <1>1, <1>2, <1>3, <1>4 DEF Once

\* The lines of a new log file are all to come.
LEMMA OnceNewFile == Inv /\ OnceInv /\ NewFile => OnceInv'
<1> SUFFICES ASSUME Inv, OnceInv, NewFile, saveFails' = 0 PROVE Once'
  BY DEF OnceInv
<1>1. UNCHANGED <<sameText, pc, written, writing, fd, size, offset, batch, saved, reported, saveFails>>
  BY DEF NewFile, readVars, boundVars
<1>2. TypeInv /\ ReadInv /\ Once
  BY <1>1 DEF Inv, OnceInv
<1>3. Len(files'[Current'].lines) = 0 /\ \A f \in Files : files'[f] = files[f]
  BY <1>2, NewFileFacts
<1>4. Positions(Current)' = {}
  BY <1>3 DEF Positions
<1>5. pc # "idle" => files'[fd'] = files[fd]
  BY <1>1, <1>2, <1>3 DEF ReadInv
<1>6. pc # "idle" =>
        /\ Positions(fd)' = Positions(fd)
        /\ \A j : /\ Told(Id(fd, j))' <=> Told(Id(fd, j))
                  /\ InBatch(Id(fd, j))' <=> InBatch(Id(fd, j))
  BY <1>1, <1>5 DEF Positions, Id, Told, InBatch
<1>7. (\A i \in 1..MaxLines : reported[i] <= 1)' /\ (\A l \in batch : l.whole => ~Told(l.id))'
  BY <1>1, <1>2 DEF Once, Told
<1>8. QED
  BY <1>1, <1>2, <1>4, <1>6, <1>7 DEF Once

LEMMA OnceWrite == Inv /\ OnceInv /\ (WriteLine \/ WriteHalf \/ WriteRest) => OnceInv'
<1> SUFFICES ASSUME Inv, OnceInv, WriteLine \/ WriteHalf \/ WriteRest, saveFails' = 0 PROVE Once'
  BY DEF OnceInv
<1>1. Grown /\ TypeInv /\ ReadInv /\ Current \in Files
  BY WriteGrows, CurrentIsFile DEF Inv
<1>2. /\ UNCHANGED <<sameText, pc, fd, size, offset, batch, saved, reported, saveFails>>
      /\ Current' = Current
  BY <1>1 DEF Grown, readVars, ghostVars, boundVars, Current
<1>3. Once
  BY <1>2 DEF OnceInv
<1>4. ASSUME NEW j, Behind(j) PROVE Behind(j)'
  <2>1. saved.offset \in Int /\ SizeOf(files[Current]) \in Nat /\ SizeOf(files[Current])' \in Nat
    <3>1. files'[Current] \in LogFile
      BY <1>1, ElementOfSeq DEF Grown, Files
    <3>2. SizeOf(files'[Current]) \in Nat
      BY <3>1, SizeFacts
    <3>3. QED
      BY <1>1, <1>2, <3>2, FileFacts DEF TypeInv, SizeOf
  <2>2. \A o \in Int : o <= SizeOf(files[Current]) => HeadHash(files[Current], o)' = HeadHash(files[Current], o)
    BY HeadStays
  <2>3. HeadHash(files[Current], saved.offset)' = HeadHash(files[Current], saved.offset)
    BY <1>2, <1>4, <2>1, <2>2 DEF Behind, HeadHash
  <2>4. SizeOf(files[Current])' >= SizeOf(files[Current])
    BY <1>1, <1>2 DEF Grown, SizeOf
  <2>5. QED
    BY <1>1, <1>2, <1>4, <2>1, <2>3, <2>4 DEF Behind, Grown
<1>5. ASSUME NEW f \in Files, NEW j \in 1..Len(files'[f].lines),
             Told(files'[f].lines[j].id) \/ InBatch(files'[f].lines[j].id)
      PROVE  j \in Positions(f) /\ files'[f].lines[j].id = Id(f, j)
  BY <1>1, <1>5, GrownLines DEF Id
<1>6. \A j \in Positions(Current)' : Told(Id(Current, j))' \/ InBatch(Id(Current, j))' =>
        /\ j \in Positions(Current)
        /\ Told(Id(Current, j))' => Told(Id(Current, j))
        /\ InBatch(Id(Current, j))' => InBatch(Id(Current, j))
  BY <1>1, <1>2, <1>5 DEF Told, InBatch, Positions, Id
<1>7. pc # "idle" => \A j \in Positions(fd)' : Told(Id(fd, j))' \/ InBatch(Id(fd, j))' =>
        /\ j \in Positions(fd)
        /\ Told(Id(fd, j))' => Told(Id(fd, j))
        /\ InBatch(Id(fd, j))' => InBatch(Id(fd, j))
  BY <1>1, <1>2, <1>5 DEF Told, InBatch, Positions, Id, ReadInv
<1>8. \A j \in Positions(Current)' : Told(Id(Current, j))' => Behind(j)'
  BY <1>3, <1>4, <1>6 DEF Once
<1>9. pc = "deliver" => \A j \in Positions(Current)' : InBatch(Id(Current, j))' => Behind(j)'
  BY <1>3, <1>4, <1>6 DEF Once
<1>10. (\A i \in 1..MaxLines : reported[i] <= 1)' /\ (\A l \in batch : l.whole => ~Told(l.id))'
  BY <1>2, <1>3 DEF Once, Told
<1>11. QED
  BY <1>2, <1>3, <1>6, <1>7, <1>8, <1>9, <1>10 DEF Once

\* No line goes into two samples, for every number of lines, files, cuts and
\* stops of the agent at any point of a read, whether or not a new file gets the
\* inode of the old one and whether or not all lines look alike, as long as
\* traffic.json can be written.
THEOREM LineIsToldOnce == Spec => []NeverTwice
<1>1. Inv /\ OnceInv => NeverTwice
  BY DEF Inv, TypeInv, OnceInv, Once, NeverTwice
<1>2. Inv /\ OnceInv /\ [Next]_vars => OnceInv'
  <2> SUFFICES ASSUME Inv, OnceInv, [Next]_vars PROVE OnceInv'
    OBVIOUS
  <2>1. CASE UNCHANGED vars
    <3>1. \A j : Behind(j)' <=> Behind(j)
      BY <2>1, BehindStays DEF vars, proxyVars
    <3>2. Current' = Current /\ (\A f : Positions(f)' = Positions(f)) /\ \A f, j : Id(f, j)' = Id(f, j)
      BY <2>1 DEF vars, proxyVars, Current, Positions, Id
    <3>3. QED
      BY <2>1, <3>1, <3>2
      DEF OnceInv, Once, Told, InBatch, vars, proxyVars, readVars, ghostVars, boundVars, Positions, Id, Current
  <2>2. QED
    BY <2>1, OnceOpen, OnceReadLines, OnceCut, OnceSave, OnceDeliver, OnceStop, OnceNewFile, OnceWrite
    DEF Next, Read, Proxy
<1>3. QED
  BY <1>1, <1>2, OnceFirst, Invariance, PTL DEF Spec

-----------------------------------------------------------------------------
(***************************************************************************)
(* No line is passed over.                                                  *)
(***************************************************************************)

\* A read that starts at the saved offset is in the file that was read before.
LEMMA StartIsRead ==
  ASSUME Inv, Skip, ~sameText, NEW j \in Positions(Current), 2 * j <= StartOffset(files[Current])
  PROVE  Gone(Id(Current, j)) \/ (pc = "deliver" /\ InBatch(Id(Current, j)))
<1>1. TypeInv /\ Current \in Files /\ SizeOf(files[Current]) \in Nat /\ saved.offset \in Int
  BY CurrentIsFile, FileFacts DEF Inv, TypeInv
<1>2. j \in Nat /\ j > 0
  BY <1>1, FileFacts DEF Positions
<1>3. /\ StartOffset(files[Current]) = saved.offset /\ saved.offset > 0
      /\ saved.offset <= SizeOf(files[Current])
      /\ HeadHash(files[Current], saved.offset) = saved.head
  BY <1>1, <1>2, StartFacts
<1>4. Seen = First(files[Current])
  BY <1>1, <1>3, HeadIsFirst DEF Seen, Text
<1>5. HeadThere
  BY <1>1, <1>3, <1>4 DEF HeadThere
<1>6. QED
  BY <1>3, <1>5 DEF Skip

LEMMA SkipFirst == Init => SkipInv
<1> SUFFICES ASSUME Init PROVE Skip
  BY DEF SkipInv
<1>1. TypeInv /\ Current = 1 /\ Len(files[1].lines) = 0
  <2>1. files = <<EmptyFile(1)>>
    BY DEF Init
  <2>2. QED
    BY <2>1, Initially, EmptySeq DEF Inv, EmptyFile, Current
<1>2. Positions(Current) = {} /\ saved.offset = -1 /\ written = 0
  BY <1>1 DEF Positions, Init, NoState
<1>3. QED
  BY <1>2 DEF Init, Skip, HeadThere

LEMMA SkipOpen == Inv /\ SkipInv /\ Open => SkipInv'
<1> SUFFICES ASSUME Inv, Open, Skip, ~sameText PROVE Skip'
  BY DEF SkipInv, Open
<1>1. /\ UNCHANGED <<sameText, files, written, writing, saved, reported, tails>>
      /\ pc = "idle" /\ fd' = Current /\ batch' = {} /\ Current' = Current
      /\ \/ offset' = StartOffset(files[Current]) /\ pc' = "read" /\ passed' = passed
         \/ /\ offset' = SizeOf(files[Current]) /\ pc' = "save"
            /\ passed' = passed \cup AllIds(files[Current]) \cup {writing}
  BY DEF Open, proxyVars, boundVars, Current
<1>2. TypeInv /\ Current \in Files /\ batch = {}
  BY <1>1, CurrentIsFile DEF Inv, ReadInv
<1>3. \A i : Gone(i) => Gone(i)'
  BY <1>1 DEF Gone, Told
<1>4. /\ Positions(Current)' = Positions(Current) /\ Positions(fd)' = Positions(Current)
      /\ \A j : Id(Current, j)' = Id(Current, j) /\ Id(fd, j)' = Id(Current, j)
      /\ \A i : ~InBatch(i)
      /\ HeadThere' = HeadThere /\ Seen' = Seen /\ SizeOf(files[Current])' = SizeOf(files[Current])
  BY <1>1, <1>2 DEF Positions, Id, InBatch, HeadThere, Seen, First, Whole, SizeOf, Current
<1>5. \A j \in Positions(Current) : 2 * j <= offset' => Gone(Id(Current, j))'
  <2>1. CASE offset' = StartOffset(files[Current])
    <3> SUFFICES ASSUME NEW j \in Positions(Current), 2 * j <= offset' PROVE Gone(Id(Current, j))'
      OBVIOUS
    <3>1. Gone(Id(Current, j))
      BY <1>1, <2>1, StartIsRead
    <3>2. QED
      BY <1>1, <1>4, <3>1 DEF Gone, Told
  <2>2. CASE passed' = passed \cup AllIds(files[Current]) \cup {writing} /\ offset' = SizeOf(files[Current])
    <3> SUFFICES ASSUME NEW j \in Positions(Current), 2 * j <= offset' PROVE Gone(Id(Current, j))'
      OBVIOUS
    <3>1. j \in 1..Len(files[Current].lines) /\ 2 * j > 0 /\ 2 * j <= SizeOf(files[Current])
      BY <1>2, <2>2, FileFacts DEF Positions
    <3>2. files[Current].lines[j] \in LinesBetween(files[Current], 0, SizeOf(files[Current]))
      BY <3>1, BetweenFacts
    <3>3. Id(Current, j) \in passed'
      BY <2>2, <3>2 DEF AllIds, Ids, Id
    <3>4. QED
      BY <1>4, <3>3 DEF Gone
  <2>3. QED
    BY <1>1, <2>1, <2>2
<1>6. QED
  BY <1>1, <1>3, <1>4, <1>5 DEF Skip

LEMMA SkipReadLines == Inv /\ SkipInv /\ ReadLines => SkipInv'
<1> SUFFICES ASSUME Inv, ReadLines, Skip, ~sameText PROVE Skip'
  BY DEF SkipInv, ReadLines
<1>1. /\ UNCHANGED <<sameText, files, written, writing, fd, size, saved, reported, tails, passed>>
      /\ pc = "read" /\ pc' = "cut" /\ Current' = Current
  BY DEF ReadLines, proxyVars, ghostVars, boundVars, Current
<1>2. TypeInv /\ batch = {}
  BY <1>1 DEF Inv, ReadInv
<1>3. /\ Positions(fd)' = Positions(fd) /\ Positions(Current)' = Positions(Current)
      /\ \A j : Id(Current, j)' = Id(Current, j) /\ Id(fd, j)' = Id(fd, j)
      /\ \A i : (Gone(i)' <=> Gone(i)) /\ ~InBatch(i)
      /\ HeadThere' = HeadThere /\ Seen' = Seen /\ SizeOf(files[Current])' = SizeOf(files[Current])
  BY <1>1, <1>2 DEF Positions, Id, InBatch, HeadThere, Seen, First, Whole, SizeOf, Current, Gone, Told
<1>4. \A j \in Positions(fd) : 2 * j <= offset' => Gone(Id(fd, j)) \/ InBatch(Id(fd, j))'
  <2> SUFFICES ASSUME NEW j \in Positions(fd), 2 * j <= offset'
               PROVE  Gone(Id(fd, j)) \/ InBatch(Id(fd, j))'
    OBVIOUS
  <2>1. CASE 2 * j <= offset
    BY <1>1, <2>1 DEF Skip
  <2>2. CASE 2 * j > offset /\ 2 * j <= size
    <3>1. \E l \in batch' : l.id = Id(fd, j)
      BY <2>2, BatchFacts
    <3>2. QED
      BY <1>3, <3>1 DEF InBatch
  <2>3. QED
    BY <2>1, <2>2, OffsetFacts
<1>5. QED
  BY <1>1, <1>3, <1>4 DEF Skip

LEMMA SkipCut == Inv /\ SkipInv /\ Cut => SkipInv'
<1> SUFFICES ASSUME Inv, Cut, Skip, ~sameText PROVE Skip'
  BY DEF SkipInv, Cut
<1>1. /\ UNCHANGED <<sameText, written, writing, fd, size, batch, saved, reported, tails>>
      /\ pc = "cut" /\ pc' = "save"
  BY DEF Cut
<1>2. TypeInv /\ fd \in Files /\ Current \in Files
  BY <1>1, CurrentIsFile DEF Inv, ReadInv
<1>3. CASE UNCHANGED <<files, offset, passed>>
  <2>1. /\ Positions(fd)' = Positions(fd) /\ Positions(Current)' = Positions(Current) /\ Current' = Current
        /\ \A j : Id(Current, j)' = Id(Current, j) /\ Id(fd, j)' = Id(fd, j)
        /\ \A i : (Gone(i)' <=> Gone(i)) /\ (InBatch(i)' <=> InBatch(i))
        /\ HeadThere' = HeadThere /\ Seen' = Seen /\ SizeOf(files[Current])' = SizeOf(files[Current])
    BY <1>1, <1>3 DEF Positions, Id, InBatch, HeadThere, Seen, First, Whole, SizeOf, Current, Gone, Told
  <2>2. \A j : /\ (Gone(Id(fd, j))' <=> Gone(Id(fd, j))) /\ (InBatch(Id(fd, j))' <=> InBatch(Id(fd, j)))
               /\ (Gone(Id(Current, j))' <=> Gone(Id(Current, j)))
    BY <1>1, <1>3 DEF Id, InBatch, Current, Gone, Told
  <2>3. QED
    BY <1>1, <1>3, <2>1, <2>2 DEF Skip
<1>4. CASE /\ offset = size /\ offset' = 0 /\ files' = [files EXCEPT ![fd] = EmptyFile(@.inode)]
           /\ passed' = passed \cup Ids(LinesBetween(files[fd], offset, SizeOf(files[fd])))
                               \cup (IF files[fd].half THEN {writing} ELSE {})
  <2>1. /\ Len(files') = Len(files) /\ Len(files'[fd].lines) = 0 /\ ~files'[fd].half
        /\ \A f \in Files : f # fd => files'[f] = files[f]
    BY <1>2, <1>4, CutFacts
  <2>2. Current' = Current /\ Positions(fd)' = {}
    BY <1>1, <2>1 DEF Current, Positions
  <2>3. \A i : Gone(i) => Gone(i)'
    BY <1>1, <1>4 DEF Gone, Told
  <2>4. fd # Current => /\ Positions(Current)' = Positions(Current)
                        /\ \A j : Id(Current, j)' = Id(Current, j)
                        /\ SizeOf(files[Current])' = SizeOf(files[Current])
                        /\ First(files[Current])' = First(files[Current])
    BY <1>1, <1>2, <2>1, <2>2 DEF Positions, Id, First, SizeOf, Whole
  <2>5. \A i \in 1..written : i = writing \/ Gone(i)' \/ InBatch(i)
                                \/ \E j \in Positions(Current)' : Id(Current, j)' = i
    <3> SUFFICES ASSUME NEW i \in 1..written, i # writing, ~Gone(i), ~InBatch(i)
                 PROVE  Gone(i)' \/ \E j \in Positions(Current)' : Id(Current, j)' = i
      BY <2>3
    <3>1. PICK j \in Positions(Current) : Id(Current, j) = i
      BY DEF Skip
    <3>2. CASE fd # Current
      BY <2>4, <3>1, <3>2
    <3>3. CASE fd = Current
      <4>1. j \in 1..Len(files[fd].lines) /\ 2 * j <= SizeOf(files[fd]) /\ 2 * j > offset
        <5>1. j \in 1..Len(files[fd].lines)
          BY <3>1, <3>3 DEF Positions
        <5>2. 2 * j <= SizeOf(files[fd])
          BY <1>2, <5>1, FileFacts, SizeFacts
        <5>3. ~(2 * j <= offset)
          BY <1>1, <3>1, <3>3 DEF Skip
        <5>4. QED
          BY <1>2, <5>1, <5>2, <5>3 DEF TypeInv
      <4>2. files[fd].lines[j] \in LinesBetween(files[fd], offset, SizeOf(files[fd]))
        BY <4>1, BetweenFacts
      <4>3. i \in Ids(LinesBetween(files[fd], offset, SizeOf(files[fd])))
        BY <3>1, <3>3, <4>2 DEF Ids, Id
      <4>4. QED
        BY <1>4, <4>3 DEF Gone
    <3>4. QED
      BY <3>2, <3>3
  <2>6. saved.offset > 0 => Seen.id \in 1..written /\ (Seen.id = writing => Seen.whole)
    BY DEF Skip
  <2>7. HeadThere' => /\ fd # Current /\ HeadThere /\ saved.offset <= SizeOf(files[Current])'
                      /\ \A j \in Positions(Current) : 2 * j <= saved.offset => Gone(Id(Current, j))
    <3>1. CASE fd = Current
      <4>1. SizeOf(files[Current])' = 0
        BY <1>1, <2>1, <2>2, <3>1 DEF SizeOf
      <4>2. QED
        BY <4>1 DEF HeadThere
    <3>2. CASE fd # Current
      BY <1>1, <2>4, <3>2 DEF HeadThere, Skip, Seen
    <3>3. QED
      BY <3>1, <3>2
  <2>8. \A j \in Positions(Current) : fd # Current /\ Gone(Id(Current, j)) => Gone(Id(Current, j))'
    BY <1>1, <1>4, <2>4 DEF Gone, Told
  <2>9. \A i : InBatch(i)' <=> InBatch(i)
    BY <1>1 DEF InBatch
  <2>10. Seen' = Seen
    BY <1>1 DEF Seen
  <2>11. QED
    BY <1>1, <2>2, <2>4, <2>5, <2>6, <2>7, <2>8, <2>9, <2>10 DEF Skip
<1>5. QED
  BY <1>3, <1>4 DEF Cut

\* What is saved of a file is its first line, which no other file has.
LEMMA FirstIsOwn ==
  ASSUME Inv, NEW f \in Files, SizeOf(files[f]) > 0
  PROVE  /\ First(files[f]).id \in 1..written
         /\ First(files[f]).id = writing => First(files[f]).whole
         /\ f # Current /\ SizeOf(files[Current]) > 0 => First(files[f]) # First(files[Current])
<1>1. TypeInv /\ LinesInv /\ Current \in Files
  BY CurrentIsFile DEF Inv
<1>2. ASSUME NEW g \in Files, SizeOf(files[g]) > 0
      PROVE  \/ /\ 1 \in Positions(g) /\ First(files[g]).id = Id(g, 1)
                /\ Id(g, 1) \in 1..written /\ Id(g, 1) # writing
             \/ /\ g = Current /\ First(files[g]).id = writing /\ First(files[g]).whole
                /\ writing \in 1..written
  <2>1. /\ files[g] \in LogFile /\ files[g].half \in BOOLEAN
        /\ Len(files[g].lines) \in Nat /\ files[g].lines \in Seq(Line)
    BY <1>1, FileFacts
  <2>2. CASE files[g].lines # <<>>
    <3>1. Len(files[g].lines) > 0
      BY <2>1, <2>2, EmptySeq
    <3>2. 1 \in Positions(g)
      BY <2>1, <3>1 DEF Positions
    <3>3. QED
      BY <1>1, <2>2, <3>2 DEF First, Id, LinesInv
  <2>3. CASE files[g].lines = <<>>
    <3>1. files[g].half
      BY <1>2, <2>1, <2>3, EmptySeq, SizeFacts
    <3>2. g = Current /\ writing \in 1..written
      BY <1>1, <3>1 DEF LinesInv, NoLine, TypeInv
    <3>3. First(files[g]) = [id |-> writing, whole |-> TRUE]
      BY <2>3 DEF First, Whole
    <3>4. QED
      BY <3>2, <3>3
  <2>4. QED
    BY <2>2, <2>3
<1>3. QED
  BY <1>1, <1>2 DEF LinesInv

LEMMA SkipSave == Inv /\ SkipInv /\ SaveOffset => SkipInv'
<1> SUFFICES ASSUME Inv, SaveOffset, Skip, ~sameText PROVE Skip'
  BY DEF SkipInv, SaveOffset
<1>1. /\ UNCHANGED <<sameText, files, written, writing, fd, size, offset, batch, reported, tails, passed>>
      /\ pc = "save" /\ pc' = "deliver" /\ Current' = Current
  BY DEF SaveOffset, proxyVars, readVars, ghostVars, Current
<1>2. /\ TypeInv /\ fd \in Files /\ Current \in Files
      /\ offset \in Nat /\ offset <= SizeOf(files[fd]) /\ SizeOf(files[fd]) \in Nat
  BY <1>1, CurrentIsFile, FileFacts DEF Inv, ReadInv, TypeInv
<1>3. /\ Positions(fd)' = Positions(fd) /\ Positions(Current)' = Positions(Current)
      /\ \A j : /\ Id(Current, j)' = Id(Current, j)
                /\ (Gone(Id(fd, j))' <=> Gone(Id(fd, j)))
                /\ (Gone(Id(Current, j))' <=> Gone(Id(Current, j)))
                /\ (InBatch(Id(Current, j))' <=> InBatch(Id(Current, j)))
      /\ \A i : (Gone(i)' <=> Gone(i)) /\ (InBatch(i)' <=> InBatch(i))
      /\ First(files[Current])' = First(files[Current]) /\ SizeOf(files[Current])' = SizeOf(files[Current])
  BY <1>1 DEF Positions, Id, InBatch, First, Whole, SizeOf, Current, Gone, Told
<1>4. CASE saved' = saved
  BY <1>1, <1>3, <1>4 DEF Skip, HeadThere, Seen
<1>5. CASE saved' = [inode |-> files[fd].inode, offset |-> offset, head |-> HeadHash(files[fd], offset)]
  <2>1. saved'.offset = offset /\ saved'.head = HeadHash(files[fd], offset)
    BY <1>5
  <2>2. offset > 0 => SizeOf(files[fd]) > 0 /\ Seen' = First(files[fd])
    BY <1>2, <2>1, HeadIsFirst DEF Seen, Text
  <2>3. offset > 0 => Seen'.id \in 1..written /\ (Seen'.id = writing => Seen'.whole)
    BY <1>2, <2>2, FirstIsOwn
  <2>4. HeadThere' => fd = Current /\ offset > 0
    BY <1>2, <1>3, <2>1, <2>2, FirstIsOwn DEF HeadThere
  <2>5. HeadThere' => /\ offset <= SizeOf(files[Current])
                      /\ \A j \in Positions(Current) : 2 * j <= offset =>
                           Gone(Id(Current, j)) \/ InBatch(Id(Current, j))
    BY <1>1, <1>2, <2>4 DEF Skip
  <2>6. QED
    BY <1>1, <1>3, <2>1, <2>3, <2>5 DEF Skip
<1>6. QED
  BY <1>4, <1>5 DEF SaveOffset

LEMMA SkipDeliver == Inv /\ SkipInv /\ Deliver => SkipInv'
<1> SUFFICES ASSUME Inv, Deliver, Skip, ~sameText PROVE Skip'
  BY DEF SkipInv, Deliver
<1>1. /\ UNCHANGED <<sameText, files, written, writing, saved, passed>>
      /\ pc = "deliver" /\ pc' = "idle" /\ batch' = {} /\ Current' = Current
      /\ tails' = tails \cup Ids({l \in batch : ~l.whole})
  BY DEF Deliver, proxyVars, Current
<1>2. TypeInv /\ LinesInv /\ written \in 0..MaxLines /\ MaxLines \in Nat
  BY BoundsAssumption DEF Inv, TypeInv
<1>3. ASSUME NEW i, Gone(i) \/ InBatch(i) PROVE Gone(i)'
  <2>1. CASE Told(i)
    <3>1. i \in 1..MaxLines /\ reported[i] \in Nat /\ reported[i] > 0
      BY <1>2, <2>1 DEF Told, TypeInv
    <3>2. reported'[i] = reported[i] \/ reported'[i] = reported[i] + 1
      BY <3>1, DeliverFacts
    <3>3. QED
      BY <3>1, <3>2 DEF Gone, Told
  <2>2. CASE i \in passed \cup tails
    BY <1>1, <2>2 DEF Gone
  <2>3. CASE InBatch(i)
    <3>1. PICK l \in batch : l.id = i
      BY <2>3 DEF InBatch
    <3>2. CASE l.whole
      <4>1. i \in 1..MaxLines
        BY <1>2, <3>1 DEF LinesInv
      <4>2. reported'[i] = reported[i] + 1
        BY <3>1, <3>2, <4>1, DeliverFacts
      <4>3. reported[i] \in Nat
        BY <1>2, <4>1 DEF TypeInv
      <4>4. QED
        BY <4>1, <4>2, <4>3 DEF Gone, Told
    <3>3. CASE ~l.whole
      BY <1>1, <3>1, <3>3 DEF Gone, Ids
    <3>4. QED
      BY <3>2, <3>3
  <2>4. QED
    BY <1>3, <2>1, <2>2, <2>3 DEF Gone
<1>4. /\ Positions(Current)' = Positions(Current)
      /\ \A j : /\ Id(Current, j)' = Id(Current, j)
                /\ (Gone(Id(Current, j)) \/ InBatch(Id(Current, j)) => Gone(Id(Current, j))')
      /\ HeadThere' = HeadThere /\ Seen' = Seen /\ SizeOf(files[Current])' = SizeOf(files[Current])
  <2>1. /\ Positions(Current)' = Positions(Current) /\ \A j : Id(Current, j)' = Id(Current, j)
        /\ HeadThere' = HeadThere /\ Seen' = Seen /\ SizeOf(files[Current])' = SizeOf(files[Current])
    BY <1>1 DEF Positions, Id, HeadThere, Seen, First, Whole, SizeOf
  <2>2. QED
    BY <1>3, <2>1 DEF Gone, Told
<1>5. QED
  BY <1>1, <1>3, <1>4 DEF Skip

LEMMA SkipStop == Inv /\ SkipInv /\ Stop => SkipInv'
<1> SUFFICES ASSUME Inv, Stop, Skip, ~sameText PROVE Skip'
  BY DEF SkipInv, Stop
<1>1. /\ UNCHANGED <<sameText, files, written, writing, saved, reported, tails>>
      /\ pc' = "idle" /\ batch' = {} /\ Current' = Current
      /\ passed' = passed \cup Ids(batch)
  BY DEF Stop, proxyVars, Current
<1>2. \A i : Gone(i) \/ InBatch(i) => Gone(i)'
  BY <1>1 DEF Gone, Told, InBatch, Ids
<1>3. /\ Positions(Current)' = Positions(Current) /\ \A j : Id(Current, j)' = Id(Current, j)
      /\ HeadThere' = HeadThere /\ Seen' = Seen /\ SizeOf(files[Current])' = SizeOf(files[Current])
  BY <1>1 DEF Positions, Id, HeadThere, Seen, First, Whole, SizeOf
<1>4. \A j : Gone(Id(Current, j)) \/ InBatch(Id(Current, j)) => Gone(Id(Current, j))'
  BY <1>2, <1>3 DEF Gone, Told
<1>5. QED
  BY <1>1, <1>2, <1>3, <1>4 DEF Skip

\* The lines of the file before are gone: the reader opens the new one.
LEMMA SkipNewFile == Inv /\ SkipInv /\ NewFile => SkipInv'
<1> SUFFICES ASSUME Inv, NewFile, Skip, ~sameText PROVE Skip'
  BY DEF SkipInv, NewFile
<1>1. /\ UNCHANGED <<sameText, pc, written, writing, fd, size, offset, batch, saved, reported, tails>>
      /\ passed' = passed \cup AllIds(files[Current])
  BY DEF NewFile, readVars
<1>2. TypeInv /\ ReadInv /\ Current \in Files
  BY CurrentIsFile DEF Inv
<1>3. /\ Len(files'[Current'].lines) = 0 /\ ~files'[Current'].half
      /\ \A f \in Files : files'[f] = files[f]
  BY <1>2, NewFileFacts
<1>4. \A i : Gone(i) => Gone(i)'
  BY <1>1 DEF Gone, Told
<1>5. ASSUME NEW j \in Positions(Current) PROVE Id(Current, j) \in passed'
  <2>1. j \in 1..Len(files[Current].lines) /\ 2 * j > 0 /\ 2 * j <= SizeOf(files[Current])
    BY <1>2, FileFacts, SizeFacts DEF Positions
  <2>2. files[Current].lines[j] \in LinesBetween(files[Current], 0, SizeOf(files[Current]))
    BY <2>1, BetweenFacts
  <2>3. QED
    BY <1>1, <2>2 DEF AllIds, Ids, Id
<1>6. pc # "idle" =>
        /\ Positions(fd)' = Positions(fd)
        /\ \A j : /\ (Gone(Id(fd, j)) => Gone(Id(fd, j))')
                  /\ (InBatch(Id(fd, j))' <=> InBatch(Id(fd, j)))
                  /\ (Id(fd, j) \in passed' => Gone(Id(fd, j))')
  BY <1>1, <1>2, <1>3 DEF ReadInv, Positions, Id, Gone, Told, InBatch
<1>7. \A i \in 1..written' : i = writing' \/ Gone(i)' \/ InBatch(i)'
  <2> SUFFICES ASSUME NEW i \in 1..written, i # writing, ~Gone(i), ~InBatch(i) PROVE Gone(i)'
    BY <1>1, <1>4 DEF InBatch
  <2>1. PICK j \in Positions(Current) : Id(Current, j) = i
    BY DEF Skip
  <2>2. QED
    BY <1>5, <2>1 DEF Gone
<1>8. pc # "idle" => \A j \in Positions(fd) : fd = Current \/ Gone(Id(fd, j))
  BY DEF Skip
<1>9. pc # "idle" => \A j \in Positions(fd)' : Gone(Id(fd, j))'
  BY <1>5, <1>6, <1>8
<1>10. ~HeadThere'
  <2>1. SizeOf(files[Current])' = 0
    BY <1>3 DEF SizeOf
  <2>2. QED
    BY <2>1 DEF HeadThere
<1>11. saved'.offset > 0 => Seen'.id \in 1..written' /\ (Seen'.id = writing' => Seen'.whole)
  BY <1>1 DEF Skip, Seen
<1>12. QED
  BY <1>1, <1>7, <1>9, <1>10, <1>11 DEF Skip

\* A file that was empty gets a first line that the saved offset is not about.
LEMMA FirstIsNew ==
  ASSUME Inv, Skip, WriteLine \/ WriteHalf \/ WriteRest, SizeOf(files[Current]) = 0, saved.offset > 0
  PROVE  First(files[Current])' # Seen
<1>1. /\ TypeInv /\ LinesInv /\ Grown /\ Current \in Files /\ Current' = Current
      /\ written \in Nat /\ Seen.id \in 1..written /\ (Seen.id = writing => Seen.whole)
  BY WriteGrows, CurrentIsFile, BoundsAssumption DEF Inv, Grown, Current, Skip, TypeInv
<1>2. /\ files[Current] \in LogFile /\ files[Current].half \in BOOLEAN
      /\ Len(files[Current].lines) \in Nat /\ files[Current].lines \in Seq(Line)
  BY <1>1, FileFacts
<1>3. ~files[Current].half /\ Len(files[Current].lines) = 0
  BY <1>2, SizeFacts
<1>4. CASE writing = NoLine
  <2>1. First(files[Current])'.id = written + 1
    <3>1. CASE Len(files'[Current].lines) = Len(files[Current].lines) + 1
      <4>1. files'[Current].lines # <<>> /\ files'[Current].lines[1].id = written + 1
        BY <1>1, <1>3, <1>4, <3>1, EmptySeq DEF Grown
      <4>2. QED
        BY <1>1, <4>1 DEF First
    <3>2. CASE Len(files'[Current].lines) = Len(files[Current].lines)
      <4>1. files'[Current] \in LogFile
        BY <1>1, ElementOfSeq DEF Grown, Files
      <4>2. files'[Current].lines = <<>> /\ writing' = written + 1
        BY <1>1, <1>3, <3>2, <4>1, FileParts, EmptySeq DEF Grown
      <4>3. QED
        BY <1>1, <4>2 DEF First, Whole
    <3>3. QED
      BY <1>1, <3>1, <3>2 DEF Grown
  <2>2. QED
    BY <1>1, <2>1
<1>5. CASE writing # NoLine
  <2>1. WriteRest
    BY <1>5 DEF WriteLine, WriteHalf
  <2> DEFINE e == [id |-> writing, whole |-> files[Current].half]
  <2>2. e \in Line /\ e.id = writing /\ ~e.whole
    BY <1>1, <1>2, <1>3 DEF Line, TypeInv
  <2>3. files' = [files EXCEPT ![Current] = [inode |-> files[Current].inode,
             lines |-> Append(files[Current].lines, e), half |-> FALSE]]
    BY <2>1, Zenon DEF WriteRest
  <2> HIDE DEF e
  <2>4. /\ Len(files'[Current].lines) = Len(files[Current].lines) + 1
        /\ files'[Current].lines[Len(files[Current].lines) + 1] = e
    BY <1>1, <2>2, <2>3, AppendGrows
  <2>5. files'[Current].lines # <<>> /\ files'[Current].lines[1] = e
    BY <1>3, <2>4, EmptySeq
  <2>6. First(files[Current])' = e
    BY <1>1, <2>5 DEF First
  <2>7. QED
    BY <1>1, <2>2, <2>6
<1>6. QED
  BY <1>4, <1>5

LEMMA SkipWrite == Inv /\ SkipInv /\ (WriteLine \/ WriteHalf \/ WriteRest) => SkipInv'
<1> SUFFICES ASSUME Inv, WriteLine \/ WriteHalf \/ WriteRest, Skip, ~sameText PROVE Skip'
  BY DEF SkipInv, WriteLine, WriteHalf, WriteRest
<1>1. Grown /\ TypeInv /\ LinesInv /\ ReadInv /\ Current \in Files
  BY WriteGrows, CurrentIsFile DEF Inv
<1>2. /\ UNCHANGED <<sameText, pc, fd, size, offset, batch, saved, reported, tails, passed>>
      /\ Current' = Current
  BY <1>1 DEF Grown, readVars, ghostVars, Current
<1>3. /\ written \in Nat /\ writing \in Nat /\ offset \in Nat /\ size \in Nat /\ saved.offset \in Int
      /\ SizeOf(files[Current]) \in Nat /\ Len(files[Current].lines) \in Nat
      /\ SizeOf(files[Current]) <= 2 * Len(files[Current].lines) + 1
  <2>1. /\ files[Current] \in LogFile /\ files[Current].half \in BOOLEAN
        /\ SizeOf(files[Current]) \in Nat /\ Len(files[Current].lines) \in Nat
    BY <1>1, FileFacts
  <2>2. SizeOf(files[Current]) <= 2 * Len(files[Current].lines) + 1
    <3>1. CASE files[Current].half
      BY <2>1, <3>1, SizeFacts
    <3>2. CASE ~files[Current].half
      BY <2>1, <3>2, SizeFacts
    <3>3. QED
      BY <3>1, <3>2
  <2>3. QED
    BY <1>1, <2>1, <2>2, BoundsAssumption DEF TypeInv
<1> DEFINE m == Len(files[Current].lines)
           n == Len(files'[Current].lines)
<1>4. /\ Positions(Current) = 1..m /\ m \in Nat
      /\ \A j \in 1..m : files'[Current].lines[j].id = Id(Current, j)
      /\ \/ n = m /\ writing = NoLine /\ writing' = written + 1 /\ written' = written + 1
         \/ /\ n = m + 1 /\ writing' = NoLine
            /\ \/ files'[Current].lines[m + 1].id = writing /\ written' = written
               \/ /\ files'[Current].lines[m + 1].id = written + 1
                  /\ writing = NoLine /\ written' = written + 1
  <2>1. /\ Positions(Current) = 1..m /\ m \in Nat
        /\ \A j \in 1..m : files'[Current].lines[j].id = Id(Current, j)
    BY <1>1, <1>3 DEF Grown, Id, Positions
  <2>2. CASE n = m
    <3>1. writing' = written + 1 /\ written' = written + 1
      BY <1>1, <2>2 DEF Grown
    <3>2. ASSUME WriteRest PROVE FALSE
      BY <1>3, <3>1, <3>2 DEF WriteRest
    <3>3. writing = NoLine
      BY <3>2 DEF WriteLine, WriteHalf
    <3>4. QED
      BY <2>1, <2>2, <3>1, <3>3
  <2>3. CASE n = m + 1
    <3>1. /\ writing' = NoLine
          /\ \/ files'[Current].lines[m + 1].id = writing /\ written' = written
             \/ /\ files'[Current].lines[m + 1].id = written + 1
                /\ writing = NoLine /\ written' = written + 1
      BY <1>1, <2>3 DEF Grown
    <3>2. QED
      BY <2>1, <2>3, <3>1
  <2>4. QED
    BY <1>1, <2>2, <2>3 DEF Grown
<1> HIDE DEF m, n
\* The step changes what was told, gone and read for no line.
<1>5. /\ Seen' = Seen /\ \A i : (Gone(i)' <=> Gone(i)) /\ (InBatch(i)' <=> InBatch(i))
  BY <1>2 DEF Seen, Gone, Told, InBatch
<1>6. \A j : /\ (Gone(Id(Current, j))' <=> Gone(files'[Current].lines[j].id))
             /\ (InBatch(Id(Current, j))' <=> InBatch(files'[Current].lines[j].id))
             /\ (Gone(Id(fd, j))' <=> Gone(files'[fd].lines[j].id))
             /\ (InBatch(Id(fd, j))' <=> InBatch(files'[fd].lines[j].id))
             /\ Id(Current, j)' = files'[Current].lines[j].id
             /\ ((j \in Positions(Current))' <=> j \in 1..Len(files'[Current].lines))
             /\ ((j \in Positions(fd))' <=> j \in 1..Len(files'[fd].lines))
  BY <1>2 DEF Id, Positions, Gone, Told, InBatch
\* A line of a file: an old one, or one after all that was read.
<1>7. ASSUME NEW f \in Files, NEW j \in 1..Len(files'[f].lines)
      PROVE  \/ j \in Positions(f) /\ files'[f].lines[j].id = Id(f, j)
             \/ f = Current /\ 2 * j > SizeOf(files[Current])
  BY <1>1, <1>3, GrownLines DEF Id
<1>8. \A i \in 1..written' : i = writing' \/ Gone(i) \/ InBatch(i)
                               \/ \E j \in 1..Len(files'[Current].lines) : files'[Current].lines[j].id = i
  <2> SUFFICES ASSUME NEW i \in 1..written', i # writing', ~Gone(i), ~InBatch(i)
               PROVE  \E j \in 1..Len(files'[Current].lines) : files'[Current].lines[j].id = i
    OBVIOUS
  <2>1. CASE \E j \in Positions(Current) : Id(Current, j) = i
    <3>1. PICK j \in Positions(Current) : Id(Current, j) = i
      BY <2>1
    <3>2. files'[Current].lines[j].id = i /\ j \in 1..Len(files'[Current].lines)
      BY <1>4, <3>1 DEF n
    <3>3. QED
      BY <3>2
  <2>2. CASE i = writing \/ i \notin 1..written
    <3>1. n = m + 1 /\ files'[Current].lines[m + 1].id = i
      BY <1>3, <1>4, <2>2 DEF NoLine
    <3>2. QED
      BY <1>4, <3>1 DEF n
  <2>3. QED
    BY <2>1, <2>2 DEF Skip
<1>9. pc # "idle" => fd \in Files
  BY <1>1 DEF ReadInv
<1>10. pc \in {"read", "cut", "save"} =>
        \A j \in 1..Len(files'[fd].lines) : 2 * j <= offset =>
          j \in Positions(fd) /\ files'[fd].lines[j].id = Id(fd, j)
  <2> SUFFICES ASSUME pc \in {"read", "cut", "save"}, NEW j \in 1..Len(files'[fd].lines), 2 * j <= offset
               PROVE  j \in Positions(fd) /\ files'[fd].lines[j].id = Id(fd, j)
    OBVIOUS
  <2>1. offset <= SizeOf(files[fd])
    BY <1>1, <1>3, <1>9, FileFacts DEF ReadInv
  <2>2. QED
    BY <1>3, <1>7, <1>9, <2>1
<1>11. /\ pc = "read" => \A j \in 1..Len(files'[fd].lines) : 2 * j <= offset => Gone(files'[fd].lines[j].id)
       /\ pc \in {"cut", "save"} => \A j \in 1..Len(files'[fd].lines) : 2 * j <= offset =>
            Gone(files'[fd].lines[j].id) \/ InBatch(files'[fd].lines[j].id)
  BY <1>10 DEF Skip
<1>12. pc # "idle" /\ fd # Current => \A j \in 1..Len(files'[fd].lines) : Gone(files'[fd].lines[j].id)
  BY <1>7, <1>9 DEF Skip
<1>13. saved.offset > 0 => Seen.id \in 1..written' /\ (Seen.id = writing' => Seen.whole)
  <2> SUFFICES ASSUME saved.offset > 0 PROVE Seen.id \in 1..written' /\ Seen.id # writing'
    OBVIOUS
  <2>1. Seen.id \in 1..written
    BY DEF Skip
  <2>2. /\ written' \in Nat
        /\ \/ writing' = NoLine /\ written <= written'
           \/ writing' = written + 1 /\ written' = written + 1
    BY <1>3, <1>4
  <2>3. QED
    BY <1>3, <2>1, <2>2 DEF NoLine
<1>14. ASSUME HeadThere'
       PROVE  /\ saved.offset <= SizeOf(files[Current])'
              /\ \A j \in 1..Len(files'[Current].lines) : 2 * j <= saved.offset =>
                   \/ Gone(files'[Current].lines[j].id)
                   \/ pc = "deliver" /\ InBatch(files'[Current].lines[j].id)
  <2>1. saved.offset > 0 /\ First(files[Current])' = Seen
    BY <1>2, <1>5, <1>14 DEF HeadThere
  <2>2. SizeOf(files[Current]) > 0
    BY <1>3, <2>1, FirstIsNew
  <2>3. HeadThere
    BY <2>1, <2>2, FirstStays DEF HeadThere
  <2>4. /\ saved.offset <= SizeOf(files[Current])
        /\ \A j \in Positions(Current) : 2 * j <= saved.offset =>
             Gone(Id(Current, j)) \/ (pc = "deliver" /\ InBatch(Id(Current, j)))
    BY <2>3 DEF Skip
  <2>5. SizeOf(files[Current])' >= SizeOf(files[Current]) /\ SizeOf(files[Current])' \in Nat
    <3>1. files'[Current] \in LogFile
      BY <1>1, ElementOfSeq DEF Grown, Files
    <3>2. SizeOf(files[Current])' = SizeOf(files'[Current])
      BY <1>2 DEF SizeOf
    <3>3. QED
      BY <1>1, <3>1, <3>2, SizeFacts DEF Grown
  <2>6. \A j \in 1..Len(files'[Current].lines) : 2 * j <= saved.offset =>
          j \in Positions(Current) /\ files'[Current].lines[j].id = Id(Current, j)
    BY <1>1, <1>3, <1>7, <2>4
  <2>7. QED
    BY <1>3, <2>4, <2>5, <2>6
<1>15. /\ pc' = "read" => (\A j \in Positions(fd) : 2 * j <= offset => Gone(Id(fd, j)))'
       /\ pc' \in {"cut", "save"} =>
            (\A j \in Positions(fd) : 2 * j <= offset => Gone(Id(fd, j)) \/ InBatch(Id(fd, j)))'
       /\ pc' # "idle" /\ fd' # Current' => (\A j \in Positions(fd) : Gone(Id(fd, j)))'
  BY <1>2, <1>6, <1>11, <1>12
<1>16. (\A i \in 1..written : i = writing \/ Gone(i) \/ InBatch(i)
                               \/ \E j \in Positions(Current) : Id(Current, j) = i)'
  BY <1>5, <1>6, <1>8
<1>17. HeadThere' =>
         /\ saved'.offset <= SizeOf(files[Current])'
         /\ \A j \in Positions(Current)' : 2 * j <= saved'.offset =>
              Gone(Id(Current, j))' \/ (pc' = "deliver" /\ InBatch(Id(Current, j))')
  BY <1>2, <1>6, <1>14
<1>18. QED
  BY <1>2, <1>5, <1>13, <1>15, <1>16, <1>17 DEF Skip

\* No line of the log is passed over, for every number of lines, files, cuts and
\* stops of the agent, whether or not a new file gets the inode of the old one
\* and whether or not traffic.json can be written, when the first lines of two
\* files differ.
THEOREM NoLineIsSkipped == Spec => []NoneSkipped
<1>1. Inv /\ SkipInv => NoneSkipped
  <2> SUFFICES ASSUME Inv, SkipInv, pc = "idle", ~sameText, NEW i \in 1..written
               PROVE  reported[i] > 0 \/ i \in passed \cup tails \cup NextLines \cup {writing}
    BY DEF NoneSkipped
  <2>1. Skip /\ TypeInv /\ Current \in Files /\ ~InBatch(i)
    BY CurrentIsFile DEF SkipInv, Inv, ReadInv, InBatch
  <2>2. CASE i = writing \/ Gone(i)
    BY <2>2 DEF Gone, Told
  <2>3. CASE ~Gone(i) /\ \E j \in Positions(Current) : Id(Current, j) = i
    <3>1. PICK j \in Positions(Current) : Id(Current, j) = i
      BY <2>3
    <3>2. /\ j \in 1..Len(files[Current].lines) /\ 2 * j > 0 /\ 2 * j <= SizeOf(files[Current])
          /\ StartOffset(files[Current]) \in Nat
      BY <2>1, FileFacts, SizeFacts, StartFacts DEF Positions
    <3>3. ~(2 * j <= StartOffset(files[Current]))
      BY <2>1, <2>3, <3>1, StartIsRead
    <3>4. /\ files[Current].lines[j] \in LinesBetween(files[Current], 0, SizeOf(files[Current]))
          /\ files[Current].lines[j] \in
               LinesBetween(files[Current], StartOffset(files[Current]), SizeOf(files[Current]))
      BY <3>2, <3>3, BetweenFacts
    <3>5. i \in NextLines
      BY <3>1, <3>4 DEF NextLines, AllIds, Ids, Id
    <3>6. QED
      BY <3>5
  <2>4. QED
    BY <2>1, <2>2, <2>3 DEF Skip
<1>2. Inv /\ SkipInv /\ [Next]_vars => SkipInv'
  <2> SUFFICES ASSUME Inv, SkipInv, [Next]_vars PROVE SkipInv'
    OBVIOUS
  <2>1. CASE UNCHANGED vars
    <3>1. SkipInv' <=> SkipInv
      BY <2>1 DEF SkipInv, Skip, HeadThere, Seen, First, Whole, SizeOf, Current, Positions, Id,
                  Gone, Told, InBatch, vars, proxyVars, readVars, ghostVars
    <3>2. QED
      BY <3>1
  <2>2. QED
    BY <2>1, SkipOpen, SkipReadLines, SkipCut, SkipSave, SkipDeliver, SkipStop, SkipNewFile, SkipWrite
    DEF Next, Read, Proxy
<1>3. QED
  BY <1>1, <1>2, SkipFirst, Invariance, PTL DEF Spec
=============================================================================
