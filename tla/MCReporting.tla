---------------------------- MODULE MCReporting -----------------------------
(***************************************************************************)
(* The limits of outbox.go and send.go, scaled down: they keep their order   *)
(* (more than one batch fits in each queue; a report interval can be longer  *)
(* than a wait) so that each of them is met in a few minutes. The values that *)
(* Clean is checked over lie at and around each of its limits.              *)
(***************************************************************************)
EXTENDS Reporting

\* Three is above maxReportInterval: a reply with it changes nothing.
MCIntervals == {1, 2, 3}

-----------------------------------------------------------------------------
\* Values around the limits, and the sites of two folders.
Floats(hi) == {NaN, -1, 0, hi, hi + 1}
Ints == {0, MaxInt, MaxInt + 1}
Known(S) == {<<v>> : v \in S}
Optional(S) == {NotKnown} \cup Known(S)
TextLengths == {0, MaxText, MaxText + 1}
SomeSites ==
  [directory : {0, MaxDirectory, MaxDirectory + 1}, name : {"a", "b"},
   cpu : Optional({NaN, MaxPercent + 1}), bytes : Optional({MaxInt + 1}),
   files : Optional({MaxInt, MaxInt + 1})]
FewSites == {s \in SomeSites : s.cpu = NotKnown /\ s.bytes = NotKnown /\ s.files = NotKnown}
SiteLists == UNION {[1..n -> {s \in SomeSites : s.cpu = NotKnown \/ n = 1}] : n \in 0..2}
             \cup [1..(MaxSites + 1) -> FewSites]
Traffics == Optional({<<>>, <<MaxInt>>, <<0, MaxInt + 1>>})
MCSamples ==
  [cpu : Floats(MaxPercent), load : Floats(MaxLoad), bytes : Ints,
   peak : Optional(Floats(MaxPercent)), rate : Optional(Ints), sites : Optional({<<>>}),
   traffic : {NotKnown}]
  \cup [cpu : {0}, load : {0}, bytes : {0}, peak : {NotKnown}, rate : {NotKnown},
        sites : Known(SiteLists), traffic : Traffics]
MCStatus ==
  [text : TextLengths, uptime : Ints, updates : Optional(Ints), version : Optional(TextLengths),
   cpus : Optional({0, 1, MaxCpus, MaxCpus + 1}), docker : Optional({"running", "other"})]
MCEvents ==
  [commandId : {"", "ulid", "other"}, name : TextLengths, data : Optional(TextLengths)]
=============================================================================
