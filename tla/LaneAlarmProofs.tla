--------------------------- MODULE LaneAlarmProofs ---------------------------
(***************************************************************************)
(* Proofs about what a lane sees and what it blames: no unknown field in a *)
(* response the client decoded escapes media-schema, the read-back is      *)
(* evidence that the rejected edit left no trace, and a server that keeps  *)
(* the contract, in time, is not failed.                                   *)
(*                                                                         *)
(* The last two need the scenario list to be what the committed one is     *)
(* (EditsComeLast, CanPass, and the hypotheses of LaneCaptureProofs).      *)
(***************************************************************************)
EXTENDS FiniteSetTheorems, LaneCaptureProofs

-----------------------------------------------------------------------------
(* The media-schema facet.                                                 *)

\* A reply with an unknown field is a message.
AnswerSeen ==
  call.phase = "answered" /\ call.reply.status = "OK" /\ ~call.reply.known => call.reply.some
SawUnknown(op) == <<op, "unknown field">> \in blemished
\* What a scenario received, it still has decoded when its outcome is recorded.
BlemishSeen ==
  \A op \in Operations :
    SawUnknown(op) =>
      \E i \in Index : op = Scenarios[i].op /\ (i < at \/ (i = at /\ "unknown field" \in decoded))

LEMMA SchemaCovers ==
  MediaSchemaCoversDecoded <=>
    \A op \in Operations :
      outcomes[op].result # None /\ ScenarioOf[op].negative # None
        /\ outcomes[op].facet_results["media-schema"] = "pass"
      => ~SawUnknown(op)
BY Zenon DEF MediaSchemaCoversDecoded, SawUnknown

SeenInv == AnswerSeen /\ BlemishSeen /\ MediaSchemaCoversDecoded

LEMMA SeenInit == Init => SeenInv
BY DEF Init, SeenInv, AnswerSeen, BlemishSeen, MediaSchemaCoversDecoded, SawUnknown, NoCall, None

LEMMA SeenFrame ==
  ASSUME SeenInv, UNCHANGED <<at, decoded, blemished, outcomes>>, AnswerSeen'
  PROVE  SeenInv'
BY DEF SeenInv, BlemishSeen, MediaSchemaCoversDecoded, SawUnknown

LEMMA SeenReceiveCall ==
  ASSUME TypeOK, VerdictInv, SeenInv, ReceiveCall
  PROVE  SeenInv'
<1>1. /\ UNCHANGED <<at, outcomes>> /\ at \in Index /\ Scenario.op = Scenarios[at].op
      /\ outcomes[Scenario.op].result = None /\ call' = NoCall
  BY ReceiveShape, Unsettled DEF ReceiveCall, Scenario
<1>2. decoded \subseteq decoded'
  BY DEF ReceiveCall, Decode
<1>3. \A op \in Operations :
        SawUnknown(op)' => SawUnknown(op) \/ (op = Scenario.op /\ "unknown field" \in decoded')
  <2> SUFFICES ASSUME NEW op \in Operations,
                      SawUnknown(op)', ~SawUnknown(op)
               PROVE  op = Scenario.op /\ "unknown field" \in decoded'
    OBVIOUS
  <2>1. ~Answer.known /\ op = Scenario.op /\ Answer.status = "OK"
    BY DEF ReceiveCall, SawUnknown
  <2>2. Answer.some
    BY <2>1, ReceiveShape DEF SeenInv, AnswerSeen, Answer
  <2>3. QED
    BY <2>1, <2>2 DEF ReceiveCall, Decode
<1>4. BlemishSeen'
  BY <1>1, <1>2, <1>3 DEF SeenInv, BlemishSeen
<1>5. MediaSchemaCoversDecoded'
  <2>1. \A op \in Operations :
          outcomes'[op].result # None /\ ScenarioOf[op].negative # None
            /\ outcomes'[op].facet_results["media-schema"] = "pass"
          => ~SawUnknown(op)'
    BY <1>1, <1>3, SchemaCovers DEF SeenInv
  <2>2. QED
    BY <2>1, Zenon DEF MediaSchemaCoversDecoded, SawUnknown
<1>6. AnswerSeen'
  BY <1>1 DEF AnswerSeen, NoCall
<1>7. QED
  BY <1>4, <1>5, <1>6 DEF SeenInv

LEMMA SeenRecord ==
  ASSUME TypeOK, VerdictInv, SeenInv, Record
  PROVE  SeenInv'
<1>1. /\ UNCHANGED <<call, blemished>> /\ at' = at + 1 /\ at \in Index /\ Scenario = Scenarios[at]
      /\ Scenario.op \in Operations /\ ScenarioOf[Scenario.op] = Scenario
  BY OutcomeVerdict, ScenarioFacts DEF Record, Scenario
<1>2. BlemishSeen'
  <2> SUFFICES ASSUME NEW op \in Operations, SawUnknown(op)
               PROVE  \E i \in Index : op = Scenarios[i].op /\ i < at'
    BY <1>1 DEF BlemishSeen, SawUnknown
  <2>1. PICK i \in Index : op = Scenarios[i].op /\ (i < at \/ i = at)
    BY DEF SeenInv, BlemishSeen
  <2>2. i < at'
    BY <1>1, <2>1, SequenceFacts DEF Index
  <2>3. QED
    BY <2>1, <2>2
<1>3. \A op \in Operations : outcomes'[op] = IF op = Scenario.op THEN Outcome ELSE outcomes[op]
  <2>1. outcomes \in [Operations -> OutcomeType]
    BY Zenon DEF TypeOK, RunnerTypeOK
  <2>2. outcomes' = [outcomes EXCEPT ![Scenario.op] = Outcome]
    BY DEF Record
  <2>3. QED
    BY <2>1, <2>2
<1>4. Scenario.negative # None /\ Outcome.facet_results["media-schema"] = "pass" => MediaSchema = "pass"
  <2>1. facets \in [Facets -> ResultType]
    BY Zenon DEF TypeOK, RunnerTypeOK
  <2>2. Scenario.negative # None => Outcome.facet_results = [facets EXCEPT !["media-schema"] = MediaSchema]
    BY DEF Outcome
  <2>3. QED
    BY <2>1, <2>2 DEF Facets
<1>5. MediaSchema = "pass" => ~SawUnknown(Scenario.op)
  <2> SUFFICES ASSUME MediaSchema = "pass", SawUnknown(Scenario.op) PROVE FALSE
    OBVIOUS
  <2>1. decoded = {"clean"}
    BY Zenon DEF MediaSchema
  <2>2. PICK i \in Index : Scenario.op = Scenarios[i].op /\ (i < at \/ (i = at /\ "unknown field" \in decoded))
    BY <1>1 DEF SeenInv, BlemishSeen
  <2>3. i = at
    BY <1>1, <2>2, ScenariosAssumption
  <2>4. ~(i < at)
    BY <1>1, <2>3, SequenceFacts DEF Index
  <2>5. QED
    BY <2>1, <2>2, <2>4
<1>6. MediaSchemaCoversDecoded'
  <2>1. \A op \in Operations : SawUnknown(op)' = SawUnknown(op)
    BY <1>1 DEF SawUnknown
  <2>2. \A op \in Operations :
          outcomes'[op].result # None /\ ScenarioOf[op].negative # None
            /\ outcomes'[op].facet_results["media-schema"] = "pass"
          => ~SawUnknown(op)'
    BY <1>1, <1>3, <1>4, <1>5, <2>1, SchemaCovers DEF SeenInv
  <2>3. QED
    BY <2>2, Zenon DEF MediaSchemaCoversDecoded, SawUnknown
<1>7. QED
  BY <1>1, <1>2, <1>6 DEF SeenInv, AnswerSeen

LEMMA SeenStep ==
  ASSUME TypeOK, VerdictInv, SeenInv, [Next]_vars
  PROVE  SeenInv'
<1>1. CASE Serve \/ ServeWrongly
  <2>1. UNCHANGED <<at, decoded, blemished, outcomes>>
    BY <1>1, ServedStep DEF runner
  <2>2. PICK y \in Replies, done \in BOOLEAN : Served(y, done)
    BY <1>1, ServedStep
  <2>3. AnswerSeen'
    BY <2>2 DEF Served, Reply, AnswerSeen
  <2>4. QED
    BY <2>1, <2>3, SeenFrame
<1>2. CASE SendNegative \/ SendVerify \/ SendSetup \/ SendCall
  <2>1. UNCHANGED <<at, decoded, blemished, outcomes>> /\ call'.phase = "sent"
    BY <1>2 DEF SendNegative, SendVerify, SendSetup, SendCall, Send, runner
  <2>2. QED
    BY <2>1, SeenFrame DEF AnswerSeen
<1>3. CASE ReceiveNegative \/ ReceiveVerify \/ ReceiveSetup \/ MissingCapture
  <2>1. UNCHANGED <<at, decoded, blemished, outcomes>> /\ (call' = NoCall \/ call' = call)
    BY <1>3 DEF ReceiveNegative, ReceiveVerify, ReceiveSetup, MissingCapture, Receive
  <2>2. QED
    BY <2>1, SeenFrame DEF SeenInv, AnswerSeen, NoCall
<1>4. CASE GiveUp
  <2>1. UNCHANGED <<at, decoded, blemished, outcomes>> /\ call'.reply.status = "DEADLINE_EXCEEDED"
    BY <1>4, ReplyFields DEF GiveUp, runner
  <2>2. QED
    BY <2>1, SeenFrame DEF AnswerSeen
<1>5. CASE ServeLate \/ JobEnds \/ WriteReport \/ Exit \/ PollDeadline \/ Crash \/ Finished \/ UNCHANGED vars
  <2>1. UNCHANGED <<at, decoded, blemished, outcomes, call>>
    BY <1>5 DEF ServeLate, JobEnds, WriteReport, Exit, PollDeadline, Crash, Finished, vars, runner
  <2>2. QED
    BY <2>1, SeenFrame DEF SeenInv, AnswerSeen
<1>6. QED
  BY <1>1, <1>2, <1>3, <1>4, <1>5, SeenReceiveCall, SeenRecord
     DEF Next, RunnerStep, ServerStep, ClockStep

\* A scenario with facets passes media-schema only if no positive response that was decoded in
\* it, first, polled or retried, carried an unknown field; that includes what a defective
\* server sent before a retry.
THEOREM MediaSchemaIsComplete == Spec => []MediaSchemaCoversDecoded
<1>1. Init => SeenInv
  BY SeenInit
<1>2. TypeOK /\ VerdictInv /\ SeenInv /\ [Next]_vars => SeenInv'
  BY SeenStep
<1>3. SeenInv => MediaSchemaCoversDecoded
  BY DEF SeenInv
<1>4. QED
  BY <1>1, <1>2, <1>3, TypeCorrect, VerdictInvariant, PTL DEF Spec
-----------------------------------------------------------------------------
(* The read-back.                                                          *)

\* The positive call of ApplyEdits may have been sent.
EditBegun ==
  \E i \in Index : /\ Scenarios[i].op = "ApplyEdits"
                   /\ i < at \/ (i = at /\ step \notin {"negative", "verify"})
LateEdits ==
  \A r \in late : r.kind \in {"setup", "call"} /\ (r.kind = "call" /\ r.op = "ApplyEdits" => EditBegun)
ReadBack ==
  step = "verify" =>
    /\ Scenario.verify
    /\ call.phase = "answered" /\ call.reply.good => layer = "seed"

TraceInv == LateEdits /\ ReadBack

\* Within a scenario the runner does not go back to the negative case.
LEMMA NegativeFirst ==
  ASSUME TypeOK, VerdictInv, [Next]_vars
  PROVE  \/ Record /\ at' = at + 1 /\ step' \in {"negative", "setup", "call", "report"}
         \/ /\ at' = at /\ Scenario' = Scenario
            /\ step' = "negative" => step = "negative"
            /\ step' = "verify" => step = "verify" \/ (ReceiveNegative /\ Scenario.verify)
<1>1. CASE Record
  BY <1>1, OutcomeVerdict, StepTypes, SequenceFacts DEF Record
<1>2. CASE ReceiveNegative
  BY <1>2 DEF ReceiveNegative, Receive, PositiveStep, Scenario
<1>3. CASE ReceiveVerify \/ ReceiveSetup \/ ReceiveCall \/ MissingCapture
  <2>1. at' = at /\ Scenario' = Scenario
    BY <1>3 DEF ReceiveVerify, ReceiveSetup, ReceiveCall, MissingCapture, Scenario
  <2>2. step' \in {"setup", "call", "record"} \/ step' = step
    BY <1>3 DEF ReceiveVerify, ReceiveSetup, ReceiveCall, MissingCapture, CaptureAndCompare, Conclude, Raise, PositiveStep
  <2>3. QED
    BY <2>1, <2>2
<1>4. CASE WriteReport \/ Exit \/ Crash
  BY <1>4 DEF WriteReport, Exit, Crash, Scenario
<1>5. CASE SendNegative \/ SendVerify \/ SendSetup \/ SendCall \/ GiveUp \/ PollDeadline \/ ServerStep
             \/ Finished \/ UNCHANGED vars
  <2>1. at' = at /\ step' = step
    BY <1>5 DEF SendNegative, SendVerify, SendSetup, SendCall, Send, GiveUp, PollDeadline, ServerStep, Serve,
       ServeWrongly, ServeLate, JobEnds, Finished, vars, runner
  <2>2. QED
    BY <2>1 DEF Scenario
<1>6. QED
  BY <1>1, <1>2, <1>3, <1>4, <1>5 DEF Next, RunnerStep, ClockStep

LEMMA EditBegunStays ==
  ASSUME TypeOK, VerdictInv, [Next]_vars, EditBegun
  PROVE  EditBegun'
<1>1. PICK i \in Index : /\ Scenarios[i].op = "ApplyEdits"
                         /\ i < at \/ (i = at /\ step \notin {"negative", "verify"})
  BY DEF EditBegun
<1>2. i \in Nat /\ at \in Nat
  <2>1. at \in 1 .. Len(Scenarios) + 1
    BY DEF TypeOK, RunnerTypeOK
  <2>2. QED
    BY <2>1, SequenceFacts DEF Index
<1>3. CASE at' = at + 1
  <2>1. i < at'
    BY <1>1, <1>2, <1>3
  <2>2. QED
    BY <1>1, <2>1 DEF EditBegun
<1>4. CASE at' = at /\ (step' = "negative" => step = "negative")
                   /\ (step' = "verify" => step = "verify" \/ ReceiveNegative)
  <2>1. i < at' \/ (i = at' /\ step' \notin {"negative", "verify"})
    BY <1>1, <1>4 DEF ReceiveNegative, Receive
  <2>2. QED
    BY <1>1, <2>1 DEF EditBegun
<1>5. QED
  BY <1>3, <1>4, NegativeFirst

LEMMA TraceInit == Init => TraceInv
BY StepTypes, SequenceFacts DEF Init, TraceInv, LateEdits, ReadBack

\* A call that has been given up and is served between the rejected edit and its read-back is
\* not the edit, since nothing edits the layer before.
LEMMA NoEditUnderReadBack ==
  ASSUME TypeOK, TraceInv, EditsComeLast(Scenarios), step = "verify", NEW r \in late
  PROVE  LayerAfter(r) = layer
<1>1. at \in Index /\ Scenario = Scenarios[at] /\ Scenario.verify
  BY DEF TypeOK, RunnerTypeOK, Scenario, TraceInv, ReadBack
<1>2. ~EditBegun
  <2>1. SUFFICES ASSUME NEW i \in Index, Scenarios[i].op = "ApplyEdits", i < at
                 PROVE  FALSE
    BY DEF EditBegun
  <2>2. at <= i
    BY <1>1, <2>1 DEF EditsComeLast, Index
  <2>3. QED
    BY <1>1, <2>1, <2>2, SequenceFacts DEF Index
<1>3. QED
  BY <1>2 DEF TraceInv, LateEdits, LayerAfter

LEMMA TraceFrame ==
  ASSUME TypeOK, VerdictInv, TraceInv, [Next]_vars, late' \subseteq late, ReadBack'
  PROVE  TraceInv'
BY EditBegunStays DEF TraceInv, LateEdits

LEMMA TraceStep ==
  ASSUME TypeOK, VerdictInv, TraceInv, EditsComeLast(Scenarios), [Next]_vars
  PROVE  TraceInv'
<1>1. CASE Serve \/ ServeWrongly
  <2>1. PICK y \in Replies, done \in BOOLEAN : Served(y, done)
    BY <1>1, ServedStep
  <2>2. /\ call.phase = "sent" /\ late' = late /\ step' = step /\ Scenario' = Scenario
        /\ call' = [phase |-> "answered", request |-> call.request, reply |-> y]
    BY <1>1, <2>1, ServedStep DEF runner, Scenario, Served, Reply
  <2>3. ASSUME step = "verify", y.good
        PROVE  layer' = "seed"
    <3>1. call.request.kind = "verify"
      BY <2>2, <2>3, CallShape DEF Idle
    <3>2. Conforming(call.request) = Message(layer = "seed", TRUE, TRUE, NoJob)
      BY <3>1 DEF Conforming, ReadsLayer
    <3>3. layer = "seed"
      <4> DEFINE seeded == (layer = "seed")
      <4>1. Conforming(call.request).good /\ Conforming(call.request) = Message(seeded, TRUE, TRUE, NoJob)
        BY <2>1, <2>3, <3>2 DEF Served
      <4> HIDE DEF seeded
      <4>2. seeded
        BY <4>1 DEF Message
      <4>3. QED
        BY <4>2 DEF seeded
    <3>4. LayerAfter(call.request) = layer
      BY <3>1 DEF LayerAfter
    <3>5. QED
      BY <2>1, <3>3, <3>4 DEF Served
  <2>4. ReadBack'
    BY <2>2, <2>3 DEF TraceInv, ReadBack
  <2>5. QED
    BY <2>2, <2>4, TraceFrame
<1>2. CASE ServeLate
  <2>1. PICK r \in late : layer' = LayerAfter(r) /\ late' = late \ {r}
    BY <1>2 DEF ServeLate
  <2>2. UNCHANGED <<step, call>> /\ Scenario' = Scenario
    BY <1>2 DEF ServeLate, runner, Scenario
  <2>3. ReadBack'
    BY <2>1, <2>2, NoEditUnderReadBack DEF TraceInv, ReadBack
  <2>4. QED
    BY <2>1, <2>3, TraceFrame
<1>3. CASE GiveUp
  <2>1. /\ late' = IF call.phase = "sent" /\ call.request.kind \in {"setup", "call"}
                   THEN late \cup {call.request} ELSE late
        /\ ~Idle /\ step # "crashed" /\ step' = step /\ at' = at /\ Scenario' = Scenario
        /\ call'.reply.good = FALSE
    BY <1>3, ReplyFields DEF GiveUp, runner, Scenario
  <2>2. ReadBack'
    BY <2>1 DEF TraceInv, ReadBack
  <2>3. ASSUME call.request.kind = "call", call.request.op = "ApplyEdits"
        PROVE  EditBegun'
    BY <2>1, <2>3, CallShape DEF EditBegun, Scenario
  <2>4. LateEdits'
    BY <2>1, <2>3, EditBegunStays DEF TraceInv, LateEdits
  <2>5. QED
    BY <2>2, <2>4 DEF TraceInv
<1>4. CASE ReceiveNegative \/ ReceiveVerify \/ ReceiveSetup \/ ReceiveCall \/ MissingCapture \/ Record
  <2>1. late' = late /\ (call' = NoCall \/ (Idle /\ call' = call))
    BY <1>4, OutcomeVerdict DEF ReceiveNegative, ReceiveVerify, ReceiveSetup, ReceiveCall, MissingCapture, Receive, Record, server
  <2>2. call'.phase # "answered"
    BY <2>1 DEF NoCall, Idle
  <2>3. step' = "verify" => Scenario'.verify
    BY NegativeFirst DEF TraceInv, ReadBack
  <2>4. QED
    BY <2>1, <2>2, <2>3, TraceFrame DEF ReadBack
<1>5. CASE SendNegative \/ SendVerify \/ SendSetup \/ SendCall
  <2>1. late' = late /\ call'.phase = "sent" /\ step' = step /\ Scenario' = Scenario
    BY <1>5 DEF SendNegative, SendVerify, SendSetup, SendCall, Send, server, runner, Scenario
  <2>2. QED
    BY <2>1, TraceFrame DEF TraceInv, ReadBack
<1>6. CASE JobEnds \/ WriteReport \/ Exit \/ PollDeadline \/ Crash \/ Finished \/ UNCHANGED vars
  <2>1. /\ UNCHANGED <<late, layer, call>> /\ Scenario' = Scenario
        /\ step' = step \/ step' # "verify"
    BY <1>6 DEF JobEnds, WriteReport, Exit, PollDeadline, Crash, Finished, vars, server, runner, Scenario
  <2>2. QED
    BY <2>1, TraceFrame DEF TraceInv, ReadBack
<1>7. QED
  BY <1>1, <1>2, <1>3, <1>4, <1>5, <1>6 DEF Next, RunnerStep, ServerStep, ClockStep

LEMMA TraceInvariant ==
  ASSUME EditsComeLast(Scenarios)
  PROVE  Spec => []TraceInv
<1>1. Init => TraceInv
  BY TraceInit
<1>2. TypeOK /\ VerdictInv /\ TraceInv /\ [Next]_vars => TraceInv'
  BY TraceStep
<1>3. QED
  BY <1>1, <1>2, TypeCorrect, VerdictInvariant, PTL DEF Spec

\* A negative case with a read-back is passed only in a state in which the layer holds the
\* rows it was seeded with: neither the rejected edit, applied by a server that answered it
\* rightly, nor a call given up earlier has changed them.
THEOREM ReadBackIsEvidence ==
  ASSUME EditsComeLast(Scenarios)
  PROVE  Spec => RejectedEditLeftNoTrace
<1>1. ASSUME TypeOK, VerdictInv, TraceInv, [Next]_vars,
             facets'["negative"] = "pass", facets["negative"] # "pass", Scenario.verify
      PROVE  layer = "seed"
  <2>1. facets \in [Facets -> ResultType] /\ "positive" \in Facets /\ "negative" \in Facets
    BY <1>1, Zenon DEF TypeOK, RunnerTypeOK, Facets
  <2>2. facets' # facets
    BY <1>1
  <2>3. \A v : Conclude(v) => facets'["negative"] = facets["negative"]
    BY <2>1 DEF Conclude, Settle
  <2>4. \A s : Raise(s) => facets'["negative"] = facets["negative"]
    BY <2>3 DEF Raise
  <2>5. ~ReceiveNegative
    BY <1>1, <2>1 DEF ReceiveNegative, Settle
  <2>6. ~ReceiveSetup /\ ~MissingCapture
    BY <1>1, <2>3, <2>4 DEF ReceiveSetup, MissingCapture
  <2>7. ~ReceiveCall
    BY <1>1, <2>3, <2>4 DEF ReceiveCall, CaptureAndCompare
  <2>8. ~Record
    BY <1>1 DEF Record, Facets, None
  <2>9. ReceiveVerify
    BY <1>1, <2>2, <2>5, <2>6, <2>7, <2>8 DEF Next, RunnerStep, ServerStep, ClockStep, SendNegative, SendVerify,
       SendSetup, SendCall, Send, WriteReport, Exit, Crash, Finished, Serve, ServeWrongly, ServeLate, JobEnds, GiveUp,
       PollDeadline, vars, runner
  <2>10. step = "verify" /\ call.phase = "answered" /\ Answer.good
    BY <1>1, <2>1, <2>9 DEF ReceiveVerify, Receive, Settle
  <2>11. QED
    BY <1>1, <2>10 DEF TraceInv, ReadBack, Answer
<1>2. TypeOK /\ VerdictInv /\ TraceInv /\ [Next]_vars =>
        [facets'["negative"] = "pass" /\ facets["negative"] # "pass" /\ Scenario.verify => layer = "seed"]_vars
  BY <1>1
<1>3. QED
  BY <1>2, TypeCorrect, VerdictInvariant, TraceInvariant, PTL DEF Spec, RejectedEditLeftNoTrace

-----------------------------------------------------------------------------
(* No false alarm: what there is while nothing has gone wrong.             *)

\* Nothing has gone wrong so far, and the runner is alive.
Clean == faults = 0 /\ timeouts = 0
Live == Clean /\ step # "crashed"

\* Scenario i is past, or the answer that concludes it is there.
Settled(i) ==
  Past(i) \/ (i = at /\ call.phase = "answered" /\ call.request.kind = "call" /\ call.reply.status = "OK")

\* The job this attempt is to cancel: it may or may not end first.
Pending ==
  IF step = "call" THEN captures[Scenario.setup]
  ELSE IF call.phase = "answered" THEN call.reply.job ELSE NoJob

\* The reply to the positive call is the expected one, or says what excuses it.
RightCall(y) ==
  \/ /\ y.status = "OK" /\ y.good /\ y.terminal
     /\ Scenario.key # None => y.job # NoJob
     /\ Scenario.needs # None => y.job = captures[Scenario.needs]
  \/ Scenario.op = "GetJob" /\ y.status = "OK" /\ ~y.good /\ ~y.terminal
  \/ Scenario.op = "GetJobResult" /\ y.status = Race /\ Failed("GetJob")
  \/ Scenario.op = "CancelJob" /\ y.status = Race /\ JobState(captures[Scenario.setup]) = "completed"
RightReply(kind, y) ==
  /\ y.known /\ (y.good => y.some)
  /\ kind = "negative" => y.status = Scenario.negative
  /\ kind = "verify" => y.status = "OK" /\ y.good
  /\ kind = "setup" => y.status = "OK" /\ y.job # NoJob
  /\ kind = "call" => RightCall(y)

\* The edit and the cancellation are the last of their kind: their scenario is settled.
ServerClean ==
  /\ late = {}
  /\ \A j \in DOMAIN jobs : jobs[j] # "failed"
  /\ \A j \in DOMAIN jobs :
       jobs[j] = "cancelled" => \E i \in Index : Scenarios[i].op = "CancelJob" /\ Settled(i)
  /\ layer # "seed" => \E i \in Index : Scenarios[i].op = "ApplyEdits" /\ Settled(i)
AnswerClean ==
  call.phase = "answered" =>
    /\ RightReply(call.request.kind, call.reply)
    /\ call.request.kind = "call" => last[call.request.op] = Verdict(call.reply)
FacetClean ==
  /\ decoded \subseteq {"clean"} /\ facets["negative"] # "fail"
  /\ step \in {"setup", "call", "record"} /\ Scenario.negative # None => facets["negative"] = "pass"
  /\ facets["positive"] = "pass" => decoded = {"clean"}
  /\ facets["positive"] = "fail" => Excused(Scenario.op)
CaptureClean == \A i \in Index : Scenarios[i].key # None /\ Past(i) => captures[Scenarios[i].key] # NoJob
\* One job has ended by itself for each attempt to cancel that is over.
AttemptClean ==
  /\ step \in {"negative", "verify"} => attempt = 1
  /\ step \in {"setup", "call"} /\ Scenario.op = "CancelJob" => Cardinality(Ended \ {Pending}) >= attempt - 1

CleanInv == Live => ServerClean /\ AnswerClean /\ FacetClean /\ CaptureClean /\ AttemptClean

\* The list the last theorem is about, and what is proved of every step of it before.
Committed ==
  /\ OneProvider(Scenarios) /\ JobsAreNamed(Scenarios)
  /\ EditsComeLast(Scenarios) /\ CanPass(Scenarios)
ProvedInv == TypeOK /\ VerdictInv /\ CaptureInv /\ IdsInv /\ DoneInv /\ TraceInv

LEMMA SameOperation ==
  ASSUME NEW i \in Index, NEW j \in Index, Scenarios[i].op = Scenarios[j].op
  PROVE  i = j
BY ScenariosAssumption

-----------------------------------------------------------------------------
(* Counting the jobs that ended by themselves.                             *)

LEMMA EndedFinite ==
  ASSUME NEW T, NEW store \in Seq(T), NEW submitted, NEW p
  PROVE  /\ IsFiniteSet(EndedIn(store, submitted)) /\ Cardinality(EndedIn(store, submitted)) \in Nat
         /\ IsFiniteSet(EndedIn(store, submitted) \ {p}) /\ Cardinality(EndedIn(store, submitted) \ {p}) \in Nat
<1>1. IsFiniteSet(DOMAIN store)
  <2>1. DOMAIN store = 1 .. Len(store) /\ Len(store) \in Nat
    OBVIOUS
  <2>2. QED
    BY <2>1, FS_Interval
<1>2. EndedIn(store, submitted) \in SUBSET DOMAIN store /\ EndedIn(store, submitted) \ {p} \in SUBSET DOMAIN store
  BY DEF EndedIn
<1>3. IsFiniteSet(EndedIn(store, submitted)) /\ IsFiniteSet(EndedIn(store, submitted) \ {p})
  BY <1>1, <1>2, FS_Subset
<1>4. QED
  BY <1>3, FS_CardinalityType

LEMMA OneMoreEnded ==
  ASSUME NEW T, NEW store \in Seq(T), NEW submitted, NEW p \in EndedIn(store, submitted)
  PROVE  Cardinality(EndedIn(store, submitted)) = Cardinality(EndedIn(store, submitted) \ {p}) + 1
<1>1. Cardinality(EndedIn(store, submitted) \ {p}) = Cardinality(EndedIn(store, submitted)) - 1
  BY EndedFinite, FS_RemoveElement
<1>2. Cardinality(EndedIn(store, submitted)) \in Nat
  BY EndedFinite
<1> DEFINE n == Cardinality(EndedIn(store, submitted))
           m == Cardinality(EndedIn(store, submitted) \ {p})
<1>3. n \in Nat /\ m = n - 1
  BY <1>1, <1>2
<1> HIDE DEF n, m
<1>4. n = m + 1
  BY <1>3
<1>5. QED
  BY <1>4 DEF n, m

-----------------------------------------------------------------------------
(* What stays, whatever step is taken.                                     *)

\* What went wrong has gone wrong for good.
LEMMA LiveStep ==
  ASSUME TypeOK, [Next]_vars, Clean'
  PROVE  /\ Clean /\ UNCHANGED <<faults, timeouts>> /\ ~GiveUp /\ ~ServeWrongly
         /\ Live' => Live /\ ~Crash
<1>1. faults \in Nat /\ timeouts \in Nat
  BY DEF TypeOK, ServerTypeOK
<1>2. ~GiveUp
  BY <1>1 DEF GiveUp, Clean
<1>3. ~ServeWrongly
  BY <1>1 DEF ServeWrongly, Clean
<1>4. timeouts' = timeouts
  BY <1>2, <1>3 DEF Next, RunnerStep, ServerStep, ClockStep, SendNegative, SendVerify, SendSetup, SendCall, Send,
     ReceiveNegative, ReceiveVerify, ReceiveSetup, ReceiveCall, MissingCapture, Record, WriteReport, Exit, Crash,
     Finished, Serve, ServeLate, JobEnds, PollDeadline, vars
<1>5. faults' = faults
  <2>1. CASE JobEnds
    BY <1>1, <2>1 DEF JobEnds, Clean
  <2>2. CASE ~JobEnds
    BY <1>2, <1>3, <2>2 DEF Next, RunnerStep, ServerStep, ClockStep, SendNegative, SendVerify, SendSetup, SendCall,
       Send, ReceiveNegative, ReceiveVerify, ReceiveSetup, ReceiveCall, MissingCapture, Record, WriteReport, Exit, Crash,
       Finished, Serve, ServeLate, PollDeadline, vars, server
  <2>3. QED
    BY <2>1, <2>2
<1>6. step = "crashed" => step' = "crashed"
  <2> SUFFICES ASSUME step = "crashed" PROVE step' = "crashed"
    OBVIOUS
  <2>1. ~RunnerStep
    BY DEF RunnerStep, SendNegative, SendVerify, SendSetup, SendCall, Send,
       ReceiveNegative, ReceiveVerify, ReceiveSetup, ReceiveCall, Receive, MissingCapture, Record, WriteReport, Exit
  <2>2. QED
    BY <1>2, <1>3, <2>1 DEF Next, ServerStep, ClockStep, Crash, Finished, Serve, ServeLate, JobEnds, PollDeadline,
       vars, runner
<1>7. Crash => step' = "crashed"
  BY DEF Crash
<1>8. QED
  BY <1>2, <1>3, <1>4, <1>5, <1>6, <1>7 DEF Clean, Live

\* The steps that change what the runner knows, and what the others leave alone.
Receiving == ReceiveNegative \/ ReceiveVerify \/ ReceiveSetup \/ ReceiveCall \/ MissingCapture
Sending == SendNegative \/ SendVerify \/ SendSetup \/ SendCall
LEMMA OtherSteps ==
  ASSUME TypeOK, [Next]_vars, ~Receiving, ~Record
  PROVE  UNCHANGED <<at, captures, facets, decoded, outcomes, attempt>> /\ Scenario' = Scenario
<1>1. UNCHANGED <<at, captures, facets, decoded, outcomes, attempt>>
  BY DEF Receiving, Next, RunnerStep, ServerStep, ClockStep, SendNegative, SendVerify, SendSetup, SendCall, Send,
     WriteReport, Exit, Crash, Finished, Serve, ServeWrongly, ServeLate, JobEnds, GiveUp, PollDeadline, vars, runner
<1>2. QED
  BY <1>1 DEF Scenario

LEMMA RecordSteps ==
  ASSUME TypeOK, VerdictInv, Record
  PROVE  /\ at \in Index /\ at' = at + 1 /\ Idle /\ UNCHANGED <<captures, call, jobs, layer, late>>
         /\ Scenario = Scenarios[at] /\ Scenario.op \in Operations /\ ScenarioOf[Scenario.op] = Scenario
         /\ facets["positive"] \in {"pass", "fail"} /\ facets' = [f \in Facets |-> None]
         /\ \A op \in Operations : outcomes'[op] = IF op = Scenario.op THEN Outcome ELSE outcomes[op]
         /\ outcomes[Scenario.op].result = None
<1>1. /\ at \in Index /\ at' = at + 1 /\ Idle /\ UNCHANGED <<captures, call, jobs, layer, late>>
      /\ Scenario = Scenarios[at] /\ Scenario.op \in Operations /\ ScenarioOf[Scenario.op] = Scenario
      /\ facets' = [f \in Facets |-> None]
  BY OutcomeVerdict, ScenarioFacts DEF Record, Scenario, server
<1>2. \A op \in Operations : outcomes'[op] = IF op = Scenario.op THEN Outcome ELSE outcomes[op]
  <2>1. outcomes \in [Operations -> OutcomeType]
    BY Zenon DEF TypeOK, RunnerTypeOK
  <2>2. outcomes' = [outcomes EXCEPT ![Scenario.op] = Outcome]
    BY DEF Record
  <2>3. QED
    BY <2>1, <2>2
<1>3. facets["positive"] \in {"pass", "fail"}
  <2>1. facets["positive"] # None
    BY DEF Record, VerdictInv, FacetInv
  <2>2. facets \in [Facets -> ResultType] /\ "positive" \in Facets
    BY Zenon DEF TypeOK, RunnerTypeOK, Facets
  <2>3. QED
    BY <2>1, <2>2 DEF ResultType
<1>4. outcomes[Scenario.op].result = None
  <2>1. ~(at < at)
    BY <1>1, SequenceFacts DEF Index
  <2>2. QED
    BY <1>1, <2>1 DEF VerdictInv, OutcomeInv
<1>5. QED
  BY <1>1, <1>2, <1>3, <1>4

LEMMA ReceivingSteps ==
  ASSUME TypeOK, VerdictInv, Receiving
  PROVE  /\ at \in Index /\ UNCHANGED <<at, outcomes, jobs, layer, late>> /\ Scenario' = Scenario
         /\ Scenario = Scenarios[at] /\ Scenario.op \in Operations /\ ScenarioOf[Scenario.op] = Scenario
         /\ call'.phase = "idle" /\ facets["positive"] = None
<1>1. UNCHANGED <<at, outcomes, jobs, layer, late>> /\ (call' = NoCall \/ (Idle /\ call' = call))
  BY DEF Receiving, ReceiveNegative, ReceiveVerify, ReceiveSetup, ReceiveCall, MissingCapture, Receive, server
<1>2. at \in Index /\ facets["positive"] = None
  BY ReceiveCases DEF Receiving
<1>3. QED
  BY <1>1, <1>2, ScenarioFacts DEF Scenario, NoCall, Idle

LEMMA FailedStays ==
  ASSUME TypeOK, VerdictInv, [Next]_vars, NEW op \in Operations, Failed(op)
  PROVE  Failed(op)'
<1>1. CASE Record
  BY <1>1, RecordSteps DEF Failed, None
<1>2. CASE ~Record
  <2>1. outcomes' = outcomes
    BY <1>2, OtherSteps, ReceivingSteps
  <2>2. QED
    BY <2>1 DEF Failed
<1>3. QED
  BY <1>1, <1>2

LEMMA PastStays ==
  ASSUME TypeOK, VerdictInv, [Next]_vars, NEW i \in Index, Past(i)
  PROVE  Past(i)'
<1>1. CASE Record
  <2>1. i \in Nat /\ at \in Nat /\ at' = at + 1
    BY <1>1, RecordSteps, SequenceFacts DEF Index
  <2>2. QED
    BY <2>1 DEF Past
<1>2. CASE Receiving
  BY <1>2, ReceivingSteps DEF Past
<1>3. CASE ~Record /\ ~Receiving
  BY <1>3, OtherSteps DEF Past
<1>4. QED
  BY <1>1, <1>2, <1>3

\* What a past scenario captured from its response stays captured.
LEMMA CapturedStays ==
  ASSUME TypeOK, VerdictInv, OneProvider(Scenarios), [Next]_vars,
         NEW i \in Index, Past(i), Scenarios[i].key # None
  PROVE  captures'[Scenarios[i].key] = captures[Scenarios[i].key]
<1>1. CASE Receiving
  <2>1. i # at /\ at \in Index /\ Scenario = Scenarios[at]
    BY <1>1, ReceivingSteps, SequenceFacts DEF Past, Index
  <2>2. Scenarios[i].key # Scenario.setup /\ Scenarios[i].key # Scenario.key /\ Scenarios[i].key \in Keys
    BY <2>1, Providers, ScenarioFacts
  <2>3. captures \in [Keys -> Nat]
    BY DEF TypeOK, RunnerTypeOK
  <2>4. QED
    BY <1>1, <2>2, <2>3, ReceiveCases DEF Receiving
<1>2. CASE ~Receiving
  BY <1>2, OtherSteps, RecordSteps
<1>3. QED
  BY <1>1, <1>2

\* The submitted job is captured before CancelJob is reached.
LEMMA SubmittedBefore ==
  ASSUME Committed, NEW i \in Index, Scenarios[i].op = "CancelJob"
  PROVE  /\ Scenarios[i].setup # None /\ Scenarios[i].needs = Scenarios[i].setup /\ Scenarios[i].key = None
         /\ Scenarios[i].setup # "submitted_job" /\ "submitted_job" \in Keys
         /\ \E j \in Index : j < i /\ Scenarios[j].key = "submitted_job" /\ Scenarios[j].key # None
<1>1. /\ Scenarios[i].setup # None /\ Scenarios[i].needs = Scenarios[i].setup
      /\ \E j \in 1 .. i - 1 : Scenarios[j].key = "submitted_job"
  BY DEF Committed, CanPass, Index
<1>2. PICK j \in 1 .. i - 1 : Scenarios[j].key = "submitted_job"
  BY <1>1
<1>3. j \in Index /\ j < i
  BY <1>2, SequenceFacts DEF Index
<1>4. "submitted_job" # None
  BY DEF None
<1>5. Scenarios[i].key = None
  BY DEF Committed, JobsAreNamed, Index
<1>6. QED
  BY <1>1, <1>2, <1>3, <1>4, <1>5, Providers, ScenarioFacts DEF Committed

LEMMA SubmittedStays ==
  ASSUME TypeOK, VerdictInv, Committed, [Next]_vars, NEW i \in Index, Scenarios[i].op = "CancelJob", i <= at
  PROVE  captures'["submitted_job"] = captures["submitted_job"]
<1>1. PICK j \in Index : j < i /\ Scenarios[j].key = "submitted_job" /\ Scenarios[j].key # None
  BY SubmittedBefore
<1>2. at \in Nat
  <2>1. at \in 1 .. Len(Scenarios) + 1
    BY DEF TypeOK, RunnerTypeOK
  <2>2. QED
    BY <2>1, SequenceFacts
<1>3. Past(j)
  BY <1>1, <1>2, SequenceFacts DEF Past, Index
<1>4. QED
  BY <1>1, <1>3, CapturedStays DEF Committed

LEMMA EndedStay ==
  ASSUME TypeOK, JobsMoveOn, captures'["submitted_job"] = captures["submitted_job"]
  PROVE  Ended \subseteq Ended'
BY DEF Ended, EndedIn, JobsMoveOn

\* An excuse stays one while the clock and the replies to the positive call leave it alone.
LEMMA ExcusedStays ==
  ASSUME TypeOK, TypeOK', VerdictInv, Committed, [Next]_vars, JobsMoveOn, UNCHANGED <<expired, last>>,
         NEW i \in Index, i <= at, Excused(Scenarios[i].op)
  PROVE  Excused(Scenarios[i].op)'
<1> DEFINE op == Scenarios[i].op
<1>1. CASE op = "GetJob" /\ expired /\ last[op] = "pending"
  BY <1>1 DEF Excused
<1>2. CASE op = "GetJobResult" /\ Failed("GetJob")
  <2>1. "GetJob" \in Operations
    <3>1. PICK j \in 1 .. i - 1 : Scenarios[j].op = "GetJob"
      BY <1>2 DEF Committed, CanPass, Index
    <3>2. j \in Index
      BY SequenceFacts DEF Index
    <3>3. QED
      BY <3>1, <3>2 DEF Operations
  <2>2. QED
    BY <1>2, <2>1, FailedStays DEF Excused
<1>3. CASE op = "CancelJob" /\ Cardinality(Ended) >= ScenarioOf[op].attempts
  <2>1. Ended \subseteq Ended'
    BY <1>3, SubmittedStays, EndedStay
  <2>2. Cardinality(Ended) \in Nat /\ Cardinality(Ended') \in Nat /\ IsFiniteSet(Ended')
    BY EndedFinite DEF TypeOK, ServerTypeOK, Ended
  <2>3. Cardinality(Ended) <= Cardinality(Ended')
    BY <2>1, <2>2, FS_Subset
  <2>4. ScenarioOf[op].attempts \in Nat
    BY ScenarioFacts DEF ScenarioType
  <2>5. QED
    BY <1>3, <2>2, <2>3, <2>4 DEF Excused
<1>4. QED
  BY <1>1, <1>2, <1>3 DEF Excused

-----------------------------------------------------------------------------
(* A server that keeps the contract answers rightly.                       *)

LEMMA LiveCall ==
  ASSUME ProvedInv, Live, ~Idle
  PROVE  /\ at \in Index /\ Scenario = Scenarios[at] /\ ScenarioOf[Scenario.op] = Scenario
         /\ call.request \in Requests /\ call.request.op = Scenario.op
         /\ call.request.kind = step /\ step \in Kinds /\ facets["positive"] = None
         /\ step = "verify" => Scenario.verify
         /\ step = "setup" => Scenario.setup # None
         /\ step = "call" /\ Scenario.needs # None =>
              call.request.job = captures[Scenario.needs] /\ captures[Scenario.needs] # NoJob
<1>1. /\ at \in Index /\ ScenarioOf[Scenario.op] = Scenario
      /\ call.request \in Requests /\ call.request.op = Scenario.op
      /\ call.request.kind = step /\ step \in Kinds /\ facets["positive"] = None
  BY CallShape DEF ProvedInv, Live
<1>2. /\ step = "verify" => Scenario.verify
      /\ step = "setup" => Scenario.setup # None
  BY DEF ProvedInv, TraceInv, ReadBack, CaptureInv, SetupFresh
<1>3. step = "call" /\ Scenario.needs # None =>
        call.request.job = captures[Scenario.needs] /\ captures[Scenario.needs] # NoJob
  BY <1>1 DEF ProvedInv, CaptureInv, CallFresh
<1>4. QED
  BY <1>1, <1>2, <1>3 DEF Scenario

\* While a call is at the server, nothing of its scenario is settled.
LEMMA NotSettled ==
  ASSUME ProvedInv, Live, call.phase = "sent"
  PROVE  /\ ~Settled(at)
         /\ \A i \in Index : Settled(i) => i < at
<1>1. at \in Index /\ facets["positive"] = None
  BY LiveCall DEF Idle
<1>2. QED
  BY <1>1, SequenceFacts DEF Settled, Past, Index

LEMMA LayerSeeded ==
  ASSUME ProvedInv, Committed, Live, ServerClean, call.phase = "sent",
         Scenario.verify \/ Scenario.op \in {"QueryFeatures", "ApplyEdits"}
  PROVE  layer = "seed"
<1>1. SUFFICES ASSUME NEW i \in Index, Scenarios[i].op = "ApplyEdits", Settled(i)
               PROVE  FALSE
  BY DEF ServerClean
<1>2. at \in Index /\ Scenario = Scenarios[at] /\ i < at
  BY <1>1, LiveCall, NotSettled DEF Idle
<1>3. Scenario.op # "ApplyEdits"
  BY <1>1, <1>2, SameOperation, NotSettled
<1>4. at <= i
  BY <1>1, <1>2, <1>3 DEF Committed, EditsComeLast, Index
<1>5. QED
  BY <1>2, <1>4, SequenceFacts DEF Index

LEMMA ConformingSome ==
  ASSUME NEW r, Conforming(r).good
  PROVE  Conforming(r).some
<1>1. JobReply(r).good => JobReply(r).some
  BY DEF JobReply, Message, Status, Failure
<1>2. QED
  BY <1>1 DEF Conforming, Message, Status, Failure

LEMMA SeededRead ==
  ASSUME NEW r, r.kind # "negative", ReadsLayer(r), layer = "seed"
  PROVE  Conforming(r) = Message(TRUE, TRUE, TRUE, NoJob)
<1> DEFINE seeded == (layer = "seed")
<1>1. Conforming(r) = Message(seeded, TRUE, TRUE, NoJob)
  BY Zenon DEF Conforming
<1>2. seeded = TRUE
  OBVIOUS
<1> HIDE DEF seeded
<1>3. QED
  BY <1>1, <1>2

LEMMA JobReplies ==
  ASSUME NEW r, r.op # "GetJob"
  PROVE  JobReply(r) = IF \/ r.op = "GetJobResult" /\ JobState(r.job) # "completed"
                          \/ r.op = "CancelJob" /\ JobState(r.job) # "running"
                       THEN Status(Race) ELSE Message(TRUE, TRUE, TRUE, r.job)
BY Zenon DEF JobReply

\* The job to be cancelled is running, or has ended by itself.
LEMMA JobToCancel ==
  ASSUME ProvedInv, Committed, Live, ServerClean, call.phase = "sent", step = "call", Scenario.op = "CancelJob"
  PROVE  /\ Scenario.needs = Scenario.setup /\ Scenario.setup # None /\ call.request.job = captures[Scenario.setup]
         /\ JobState(captures[Scenario.setup]) \in {"running", "completed"}
<1>1. at \in Index /\ Scenario = Scenarios[at]
  BY LiveCall DEF Idle
<1>2. Scenario.needs = Scenario.setup /\ Scenario.setup # None /\ Scenario.setup \in Keys
  BY <1>1, SubmittedBefore, ScenarioFacts
<1> DEFINE j == captures[Scenario.setup]
<1>3. call.request.job = j /\ j # NoJob
  BY <1>2, LiveCall DEF Idle
<1>4. j \in DOMAIN jobs
  BY <1>2, <1>3 DEF ProvedInv, IdsInv, Uses
<1>5. jobs[j] \in {"running", "completed", "failed", "cancelled"}
  BY <1>4 DEF ProvedInv, TypeOK, ServerTypeOK
<1>6. jobs[j] # "cancelled"
  <2>1. SUFFICES ASSUME NEW i \in Index, Scenarios[i].op = "CancelJob", Settled(i)
                 PROVE  FALSE
    BY <1>4 DEF ServerClean
  <2>2. i = at
    BY <1>1, <2>1, SameOperation
  <2>3. QED
    BY <2>1, <2>2, NotSettled
<1>7. jobs[j] # "failed"
  BY <1>4 DEF ServerClean
<1>8. QED
  BY <1>2, <1>3, <1>4, <1>5, <1>6, <1>7 DEF JobState

\* The result is fetched of a job that GetJob has seen completed, unless GetJob has failed.
LEMMA JobToFetch ==
  ASSUME ProvedInv, Committed, Live, call.phase = "sent", step = "call", Scenario.op = "GetJobResult"
  PROVE  JobState(call.request.job) = "completed" \/ Failed("GetJob")
<1>1. at \in Index /\ Scenario = Scenarios[at]
  BY LiveCall DEF Idle
<1>2. PICK i \in 1 .. at - 1 : Scenarios[i].op = "GetJob" /\ Scenarios[i].needs = Scenario.needs
  BY <1>1 DEF Committed, CanPass, Index
<1>3. i \in Index /\ i < at
  BY <1>1, <1>2, SequenceFacts DEF Index
<1>4. "GetJob" \in Operations /\ ScenarioOf["GetJob"].needs = Scenario.needs
  BY <1>2, <1>3, ScenarioFacts DEF Operations
<1>5. Scenario.needs # None /\ call.request.job = captures[Scenario.needs]
  <2>1. Scenario.needs # None
    BY <1>1 DEF Committed, JobsAreNamed, Index
  <2>2. QED
    BY <2>1, LiveCall DEF Idle
<1>6. Passed("GetJob") \/ Failed("GetJob")
  <2>1. outcomes["GetJob"].result # None
    BY <1>2, <1>3 DEF ProvedInv, VerdictInv, OutcomeInv
  <2>2. outcomes["GetJob"] \in OutcomeType
    BY <1>4 DEF ProvedInv, TypeOK, RunnerTypeOK
  <2>3. outcomes["GetJob"].result \in ResultType
    BY <2>2 DEF OutcomeType
  <2>4. QED
    BY <2>1, <2>3 DEF ResultType, Passed, Failed
<1>7. QED
  BY <1>4, <1>5, <1>6 DEF ProvedInv, DoneInv, PassedJobsAreDone

\* The job that is polled runs, or has ended by itself.
LEMMA JobToPoll ==
  ASSUME ProvedInv, Committed, Live, ServerClean, call.phase = "sent", step = "call", Scenario.op = "GetJob"
  PROVE  call.request.job = captures[Scenario.needs] /\ JobState(call.request.job) \in {"running", "completed"}
<1>1. at \in Index /\ Scenario = Scenarios[at]
  BY LiveCall DEF Idle
<1>2. Scenario.needs # None /\ Scenario.needs \in Keys
  BY <1>1, ScenarioFacts DEF Committed, JobsAreNamed, Index
<1> DEFINE j == captures[Scenario.needs]
<1>3. call.request.job = j /\ j # NoJob
  BY <1>2, LiveCall DEF Idle
<1>4. j \in DOMAIN jobs
  BY <1>2, <1>3 DEF ProvedInv, IdsInv, Uses
<1>5. jobs[j] \in {"running", "completed", "failed", "cancelled"}
  BY <1>4 DEF ProvedInv, TypeOK, ServerTypeOK
<1>6. jobs[j] # "cancelled"
  <2>1. SUFFICES ASSUME NEW i \in Index, Scenarios[i].op = "CancelJob", Scenarios[i].needs = Scenario.needs
                 PROVE  FALSE
    BY <1>2, <1>3, <1>4 DEF ProvedInv, IdsInv, Uses
  <2>2. QED
    BY <1>1, <2>1 DEF Committed, JobsAreNamed, Index
<1>7. jobs[j] # "failed"
  BY <1>4 DEF ServerClean
<1>8. QED
  BY <1>3, <1>4, <1>5, <1>6, <1>7 DEF JobState

LEMMA PollReplies ==
  ASSUME NEW r, r.op = "GetJob", JobState(r.job) \in {"running", "completed"}
  PROVE  JobReply(r) = IF JobState(r.job) = "completed" THEN Message(TRUE, TRUE, TRUE, r.job)
                       ELSE Message(FALSE, FALSE, TRUE, r.job)
<1>1. CASE JobState(r.job) = "completed"
  BY <1>1 DEF JobReply
<1>2. CASE JobState(r.job) = "running"
  BY <1>2 DEF JobReply
<1>3. QED
  BY <1>1, <1>2

LEMMA RightConforming ==
  ASSUME ProvedInv, Committed, Live, ServerClean, call.phase = "sent"
  PROVE  RightReply(call.request.kind, Conforming(call.request))
<1> DEFINE r == call.request
           y == Conforming(r)
<1>1. /\ at \in Index /\ Scenario = Scenarios[at] /\ ScenarioOf[Scenario.op] = Scenario
      /\ r.op = Scenario.op /\ r.kind = step /\ step \in Kinds
      /\ step = "verify" => Scenario.verify
      /\ step = "setup" => Scenario.setup # None
      /\ step = "call" /\ Scenario.needs # None => r.job = captures[Scenario.needs]
  BY LiveCall DEF Idle
<1>2. y.known /\ (y.good => y.some)
  BY ConformingKnown, ConformingSome
<1>3. r.kind = "negative" => y.status = Scenario.negative
  BY <1>1 DEF Conforming, Status, Failure
<1>4. r.kind = "verify" => y.status = "OK" /\ y.good
  <2>1. r.kind = "verify" => y = Message(TRUE, TRUE, TRUE, NoJob)
    BY <1>1, LayerSeeded, SeededRead DEF ReadsLayer
  <2> HIDE DEF y
  <2>2. QED
    BY <2>1 DEF Message
<1>5. Len(jobs) + 1 # NoJob
  BY JobDomain DEF ProvedInv, TypeOK, NoJob
<1>6. r.kind \in {"setup", "call"} /\ ~ReadsLayer(r) /\ KeyOf(r) # None => y = Message(TRUE, TRUE, TRUE, Len(jobs) + 1)
  BY Zenon DEF Conforming
<1>7. r.kind = "setup" => y.status = "OK" /\ y.job # NoJob
  <2>1. r.kind = "setup" => ~ReadsLayer(r) /\ KeyOf(r) # None
    BY <1>1 DEF ReadsLayer, KeyOf
  <2> HIDE DEF y
  <2>2. QED
    BY <1>5, <1>6, <2>1 DEF Message
<1>8. r.kind = "call" => RightCall(y)
  <2> SUFFICES ASSUME r.kind = "call" PROVE RightCall(y)
    OBVIOUS
  <2>0. Scenario.needs # None => r.job = captures[Scenario.needs]
    BY <1>1
  <2>1. ReadsLayer(r) <=> Scenario.op \in {"QueryFeatures", "ApplyEdits"}
    BY <1>1 DEF ReadsLayer
  <2>2. KeyOf(r) = Scenario.key
    BY <1>1 DEF KeyOf
  <2>3. CASE ReadsLayer(r)
    <3>1. y = Message(TRUE, TRUE, TRUE, NoJob)
      BY <2>1, <2>3, LayerSeeded, SeededRead
    <3>2. Scenario.needs = None /\ Scenario.key = None
      BY <1>1, <2>1, <2>3 DEF Committed, CanPass, Index
    <3> HIDE DEF y
    <3>3. QED
      BY <3>1, <3>2 DEF RightCall, Message
  <2>4. CASE ~ReadsLayer(r) /\ Scenario.key # None
    <3>1. y = Message(TRUE, TRUE, TRUE, Len(jobs) + 1)
      BY <1>6, <2>2, <2>4
    <3>2. Scenario.needs = None
      BY <1>1, <2>4 DEF Committed, CanPass, Index
    <3> HIDE DEF y
    <3>3. QED
      BY <1>5, <3>1, <3>2 DEF RightCall, Message
  <2>5. CASE ~ReadsLayer(r) /\ Scenario.key = None
    <3>1. y = JobReply(r)
      BY <2>2, <2>5, Zenon DEF Conforming
    <3>2. CASE y = Message(TRUE, TRUE, TRUE, r.job)
      <4> HIDE DEF y
      <4>1. QED
        BY <2>0, <2>5, <3>2 DEF RightCall, Message
    <3>3. CASE y # Message(TRUE, TRUE, TRUE, r.job) /\ Scenario.op = "GetJob"
      <4>1. y = Message(FALSE, FALSE, TRUE, r.job)
        BY <1>1, <3>1, <3>3, JobToPoll, PollReplies
      <4> HIDE DEF y
      <4>2. QED
        BY <3>3, <4>1 DEF RightCall, Message
    <3>4. CASE y # Message(TRUE, TRUE, TRUE, r.job) /\ Scenario.op # "GetJob"
      <4>1. /\ y = Status(Race)
            /\ \/ Scenario.op = "GetJobResult" /\ JobState(r.job) # "completed"
               \/ Scenario.op = "CancelJob" /\ JobState(r.job) # "running"
        BY <1>1, <3>1, <3>4, JobReplies
      <4>2. y.status = Race
        BY <4>1, ReplyFields
      <4>3. QED
        BY <1>1, <4>1, <4>2, JobToFetch, JobToCancel DEF RightCall
    <3>5. QED
      BY <3>2, <3>3, <3>4
  <2>6. QED
    BY <2>3, <2>4, <2>5
<1>9. QED
  BY <1>2, <1>3, <1>4, <1>7, <1>8 DEF RightReply

-----------------------------------------------------------------------------
(* What the runner makes of right answers.                                 *)

LEMMA LiveAnswer ==
  ASSUME ProvedInv, CleanInv, Live, call.phase = "answered"
  PROVE  /\ RightReply(step, call.reply) /\ Answer = call.reply
         /\ step = call.request.kind /\ step \in Kinds /\ at \in Index /\ Scenario = Scenarios[at]
         /\ step = "call" => last[Scenario.op] = Verdict(call.reply)
BY LiveCall DEF Idle, CleanInv, AnswerClean, Answer

\* The reply that concludes a scenario but GetJob's leaves nothing to poll for.
LEMMA Concluding ==
  ASSUME ProvedInv, CleanInv, Live, ReceiveCall, Answer.status = "OK", Scenario.op # "GetJob"
  PROVE  CaptureAndCompare /\ RightCall(Answer) /\ Answer.good
<1>1. RightCall(Answer) /\ step = "call"
  BY LiveAnswer DEF ReceiveCall, Receive, RightReply
<1>2. Answer.terminal /\ Answer.good
  BY <1>1 DEF RightCall, Race
<1>3. QED
  BY <1>1, <1>2 DEF ReceiveCall

LEMMA SettledStays ==
  ASSUME ProvedInv, Committed, CleanInv, Live, [Next]_vars, ~GiveUp,
         NEW i \in Index, Scenarios[i].op # "GetJob", Settled(i)
  PROVE  Settled(i)'
<1>1. CASE Past(i)
  BY <1>1, PastStays DEF ProvedInv, Settled
<1>2. CASE i = at /\ call.phase = "answered" /\ call.request.kind = "call" /\ call.reply.status = "OK"
  <2>1. step = "call" /\ Scenario.op # "GetJob" /\ ~Idle
    BY <1>2, LiveAnswer DEF Idle
  <2>2. CASE Receiving
    <3>1. ReceiveCall /\ Answer.status = "OK"
      BY <1>2, <2>1, <2>2, LiveAnswer DEF Receiving, ReceiveNegative, ReceiveVerify, ReceiveSetup, MissingCapture, Receive
    <3>2. CaptureAndCompare
      BY <2>1, <3>1, Concluding
    <3>3. step' = "record"
      BY <3>2, Zenon DEF CaptureAndCompare, Conclude
    <3>4. facets'["positive"] # None
      BY <2>1, <3>1, <3>3, ReceiveCases DEF ProvedInv, None, PositiveStep
    <3>5. QED
      BY <1>2, <2>2, <3>4, ReceivingSteps DEF ProvedInv, Settled, Past
  <2>3. CASE ~Receiving
    <3>1. ~Record
      BY <2>1, RecordSteps DEF ProvedInv
    <3>2. UNCHANGED <<at, facets>>
      BY <2>3, <3>1, OtherSteps DEF ProvedInv
    <3>3. call' = call
      BY <1>2, <2>1, <2>3, <3>1 DEF Receiving, Next, RunnerStep, ServerStep, ClockStep, SendNegative, SendVerify,
         SendSetup, SendCall, Send, WriteReport, Exit, Crash, Finished, Serve, ServeWrongly, ServeLate, JobEnds, PollDeadline, vars
    <3>4. QED
      BY <1>2, <3>2, <3>3 DEF Settled
  <2>4. QED
    BY <2>2, <2>3
<1>3. QED
  BY <1>1, <1>2 DEF Settled

\* A job that ended by itself, in the attempt to cancel it, counts for this attempt.
LEMMA PendingEnded ==
  ASSUME ProvedInv, Committed, Live, CleanInv, step = "call", Scenario.op = "CancelJob",
         JobState(captures[Scenario.setup]) = "completed"
  PROVE  Cardinality(Ended) >= attempt
<1>1. at \in Index /\ Scenario = Scenarios[at]
  BY DEF ProvedInv, TypeOK, RunnerTypeOK, Scenario
<1> DEFINE j == captures[Scenario.setup]
<1>2. j \in DOMAIN jobs /\ jobs[j] = "completed" /\ j # NoJob
  BY JobDomain DEF JobState, ProvedInv, TypeOK, NoJob
<1>3. Scenario.setup # None /\ Scenario.setup \in Keys /\ Scenario.setup # "submitted_job" /\ "submitted_job" \in Keys
  BY <1>1, SubmittedBefore, ScenarioFacts
<1>4. j # captures["submitted_job"]
  <2>1. SUFFICES ASSUME j = captures["submitted_job"] PROVE FALSE
    OBVIOUS
  <2>2. Uses(Scenario.setup, j) /\ Uses("submitted_job", j)
    BY <1>2, <2>1 DEF Uses
  <2>3. QED
    BY <1>3, <2>2 DEF ProvedInv, IdsInv
<1>5. j \in Ended
  BY <1>2, <1>4 DEF Ended, EndedIn
<1>6. Cardinality(Ended) = Cardinality(Ended \ {j}) + 1 /\ Cardinality(Ended \ {j}) \in Nat
  <2> DEFINE T == {"running", "completed", "failed", "cancelled"}
  <2>1. jobs \in Seq(T) /\ j \in EndedIn(jobs, captures["submitted_job"])
    BY <1>5 DEF ProvedInv, TypeOK, ServerTypeOK, Ended
  <2> HIDE DEF T, j
  <2>2. Cardinality(EndedIn(jobs, captures["submitted_job"])) = Cardinality(EndedIn(jobs, captures["submitted_job"]) \ {j}) + 1
    BY <2>1, OneMoreEnded
  <2>3. Cardinality(EndedIn(jobs, captures["submitted_job"]) \ {j}) \in Nat
    BY <2>1, EndedFinite
  <2>4. QED
    BY <2>2, <2>3 DEF Ended
<1>7. Cardinality(Ended \ {j}) >= attempt - 1
  BY DEF CleanInv, AttemptClean, Pending
<1>8. attempt \in Nat
  BY DEF ProvedInv, TypeOK, RunnerTypeOK
<1> HIDE DEF j
<1>9. QED
  BY <1>6, <1>7, <1>8

\* After the positive call: it is polled again, tried again, passed, or failed with an excuse.
LEMMA LiveReceiveCall ==
  ASSUME ProvedInv, Committed, CleanInv, Live, ReceiveCall
  PROVE  /\ decoded' \subseteq {"clean"} /\ facets'["negative"] = facets["negative"]
         /\ \/ /\ UNCHANGED <<facets, step, attempt, captures>> /\ Scenario.op = "GetJob"
            \/ /\ UNCHANGED <<facets, captures>> /\ step' = PositiveStep /\ attempt' = attempt + 1
               /\ Scenario.op = "CancelJob" => Cardinality(Ended) >= attempt
            \/ /\ facets'["positive"] = "pass" /\ step' = "record" /\ decoded' = {"clean"}
               /\ Scenario.key # None => captures'[Scenario.key] # NoJob
            \/ /\ facets'["positive"] = "fail" /\ step' = "record" /\ Scenario.key = None
               /\ Excused(Scenario.op) /\ UNCHANGED <<expired, last>>
<1>1. /\ RightReply("call", Answer) /\ step = "call" /\ at \in Index /\ Scenario = Scenarios[at]
      /\ RightCall(Answer) /\ Answer.known /\ (Answer.good => Answer.some)
      /\ last[Scenario.op] = Verdict(Answer)
  BY LiveAnswer DEF ReceiveCall, Receive, RightReply
<1>2. facets \in [Facets -> ResultType] /\ "positive" \in Facets /\ "negative" \in Facets
  BY Zenon DEF ProvedInv, TypeOK, RunnerTypeOK, Facets
<1>3. decoded \subseteq {"clean"} /\ facets["positive"] = None
  BY LiveCall DEF CleanInv, FacetClean, ReceiveCall, Receive, Idle
<1>4. \A v : Conclude(v) => /\ step' = "record" /\ facets'["positive"] = v
                             /\ facets'["negative"] = facets["negative"] /\ expired' = expired
  BY <1>2 DEF Conclude, Settle
<1>4a. last' = last
  BY DEF ReceiveCall, server
<1>5. Scenario.op \in JobOperations => Scenario.key = None
  BY <1>1 DEF Committed, JobsAreNamed, Index, JobOperations
<1>6. ScenarioOf[Scenario.op] = Scenario /\ Scenario.attempts \in Nat /\ attempt \in Nat
  BY <1>1, ScenarioFacts DEF ScenarioType, ProvedInv, TypeOK, RunnerTypeOK
<1>7. CASE Answer.status # "OK"
  <2>1. Raise(Answer.status) /\ UNCHANGED <<captures, decoded>>
    BY <1>7 DEF ReceiveCall
  <2>2. Scenario.op = "CancelJob" => Answer.status = Race /\ Cardinality(Ended) >= attempt
    BY <1>1, <1>7, PendingEnded DEF RightCall
  <2>3. Scenario.op \in {"GetJobResult", "CancelJob"} /\ (Scenario.op = "GetJobResult" => Failed("GetJob"))
    BY <1>1, <1>7 DEF RightCall
  <2>4. CASE Scenario.attempts > attempt /\ Answer.status = Race
    BY <1>3, <2>1, <2>2, <2>4 DEF Raise
  <2>5. CASE ~(Scenario.attempts > attempt /\ Answer.status = Race)
    <3>1. Conclude("fail")
      BY <2>1, <2>5 DEF Raise
    <3>2. Scenario.op = "CancelJob" => Cardinality(Ended) >= Scenario.attempts
      <4>1. Cardinality(Ended) \in Nat
        BY EndedFinite DEF ProvedInv, TypeOK, ServerTypeOK, Ended
      <4>2. QED
        BY <1>6, <2>2, <2>5, <4>1
    <3>3. Excused(Scenario.op)
      BY <1>6, <2>3, <3>2 DEF Excused
    <3>4. Scenario.key = None
      BY <1>5, <2>3 DEF JobOperations
    <3>5. QED
      BY <3>4, <1>3, <1>4, <1>4a, <1>5, <1>6, <2>1, <2>3, <3>1, <3>3
  <2>6. QED
    BY <2>4, <2>5
<1>8. CASE Answer.status = "OK"
  <2>1. decoded' = IF Answer.some THEN decoded \cup {"clean"} ELSE decoded
    BY <1>1, <1>8 DEF ReceiveCall, Decode
  <2>2. decoded' \subseteq {"clean"}
    BY <1>3, <2>1
  <2>3. CASE Scenario.poll /\ ~Answer.terminal /\ ~expired
    <3>1. UNCHANGED <<captures, step, attempt, expired, facets>>
      BY <1>8, <2>3 DEF ReceiveCall
    <3>2. Scenario.op = "GetJob"
      BY <1>1, <1>8, <2>3 DEF RightCall, Race
    <3>3. QED
      BY <2>2, <3>1, <3>2
  <2>4. CASE ~(Scenario.poll /\ ~Answer.terminal /\ ~expired)
    <3>1. CaptureAndCompare
      BY <1>8, <2>4 DEF ReceiveCall
    <3>2. PICK v \in {"pass", "fail"} : Conclude(v)
      BY <3>1, Zenon DEF CaptureAndCompare
    <3>3. step' = "record" /\ facets'["positive"] = v /\ facets'["negative"] = facets["negative"] /\ expired' = expired
      BY <1>4, <3>2
    <3>4. CASE v = "pass"
      <4>1. Answer.good /\ (Scenario.key # None => Answer.job # NoJob \/ ~Answer.some)
        BY <3>3, <3>4, ReceivePass DEF ProvedInv
      <4>2. decoded' = {"clean"}
        BY <1>1, <2>1, <2>2, <4>1
      <4>3. Scenario.key # None => captures' = [captures EXCEPT ![Scenario.key] = Answer.job] /\ Answer.job # NoJob
        BY <1>1, <3>1, <4>1, Zenon DEF CaptureAndCompare
      <4>4. Scenario.key # None => captures'[Scenario.key] # NoJob
        BY <1>1, <4>3, ScenarioFacts DEF ProvedInv, TypeOK, RunnerTypeOK
      <4>5. QED
        BY <2>2, <3>3, <3>4, <4>2, <4>4
    <3>5. CASE v = "fail"
      <4>1. Scenario.op = "GetJob" /\ ~Answer.good /\ ~Answer.terminal
        <5>1. SUFFICES ASSUME ~(Scenario.op = "GetJob" /\ ~Answer.good /\ ~Answer.terminal) PROVE FALSE
          OBVIOUS
        <5>2. /\ Answer.good /\ (Scenario.needs # None => Answer.job = captures[Scenario.needs])
              /\ Scenario.key # None => Answer.job # NoJob
          BY <1>1, <1>8, <5>1 DEF RightCall, Race
        <5>3. Conclude("pass")
          BY <3>1, <5>2 DEF CaptureAndCompare
        <5>4. QED
          BY <1>4, <3>3, <3>5, <5>3
      <4>2. expired
        <5>1. Scenario.poll
          BY <1>1, <4>1 DEF Committed, CanPass, Index
        <5>2. QED
          BY <2>4, <4>1, <5>1
      <4>3. last[Scenario.op] = "pending"
        BY <1>1, <1>8, <4>1 DEF Verdict
      <4>4. Excused(Scenario.op) /\ Scenario.key = None
        BY <1>5, <4>1, <4>2, <4>3 DEF Excused, JobOperations
      <4>5. QED
        BY <1>4a, <2>2, <3>3, <3>5, <4>4
    <3>6. QED
      BY <3>4, <3>5
  <2>5. QED
    BY <2>3, <2>4
<1>9. QED
  BY <1>7, <1>8

\* No capture is missing.
LEMMA NothingMissing ==
  ASSUME ProvedInv, Committed, CleanInv, Live
  PROVE  ~MissingCapture
<1>1. SUFFICES ASSUME MissingCapture PROVE FALSE
  OBVIOUS
<1>2. step = "call" /\ Scenario.needs # None /\ captures[Scenario.needs] = NoJob
  BY <1>1 DEF MissingCapture
<1>3. at \in Index /\ Scenario = Scenarios[at]
  BY <1>2 DEF ProvedInv, TypeOK, RunnerTypeOK, Scenario
<1>4. Scenario.needs = Scenario.setup \/ \E j \in 1 .. at - 1 : Scenarios[j].key = Scenario.needs
  BY <1>2, <1>3 DEF Committed, CanPass, Index
<1>5. Scenario.needs # Scenario.setup
  BY <1>2 DEF ProvedInv, CaptureInv, SetupFresh
<1>6. PICK j \in 1 .. at - 1 : Scenarios[j].key = Scenario.needs
  BY <1>4, <1>5
<1>7. j \in Index /\ Past(j)
  BY <1>3, <1>6, SequenceFacts DEF Index, Past
<1>8. QED
  BY <1>2, <1>6, <1>7 DEF CleanInv, CaptureClean

-----------------------------------------------------------------------------
(* Every step keeps it.                                                    *)

\* A step in which nothing goes wrong.
LiveNext == [Next]_vars /\ faults' = faults /\ ~GiveUp /\ ~ServeWrongly /\ ~Crash

LEMMA SettledScenarioStays ==
  ASSUME ProvedInv, Committed, CleanInv, Live, LiveNext, NEW op \in {"CancelJob", "ApplyEdits"},
         \E i \in Index : Scenarios[i].op = op /\ Settled(i)
  PROVE  \E i \in Index : Scenarios[i].op = op /\ Settled(i)'
<1>1. PICK i \in Index : Scenarios[i].op = op /\ Settled(i)
  OBVIOUS
<1>2. Settled(i)'
  BY <1>1, SettledStays DEF LiveNext
<1>3. QED
  BY <1>1, <1>2

LEMMA LiveServe ==
  ASSUME ProvedInv, Committed, CleanInv, Live, LiveNext, Serve
  PROVE  \E y \in Replies, done \in BOOLEAN :
           /\ y = Conforming(call.request) /\ RightReply(call.request.kind, y)
           /\ Served(y, done) /\ (done <=> call.request.kind # "negative")
           /\ call.phase = "sent" /\ late' = late
           /\ call' = [phase |-> "answered", request |-> call.request, reply |-> y]
           /\ UNCHANGED <<at, step, captures, facets, decoded, outcomes, attempt>> /\ Scenario' = Scenario
<1>1. PICK done \in BOOLEAN : Served(Conforming(call.request), done) /\ (done <=> call.request.kind # "negative")
  BY ServedStep DEF ProvedInv, LiveNext
<1>2. call.phase = "sent" /\ late' = late /\ UNCHANGED <<at, step, captures, facets, decoded, outcomes, attempt>>
  BY ServedStep DEF ProvedInv, runner
<1>3. RightReply(call.request.kind, Conforming(call.request))
  BY <1>2, RightConforming DEF CleanInv
<1>4. Conforming(call.request) \in Replies
  <2>1. call.request \in Requests /\ (call.request.kind = "negative" => ScenarioOf[call.request.op].negative # None)
    BY <1>2, LiveCall DEF Idle, ProvedInv, TypeOK, CallTypeOK
  <2>2. QED
    BY <2>1, AnswerTypes DEF ProvedInv, TypeOK
<1>5. call' = [phase |-> "answered", request |-> call.request, reply |-> Conforming(call.request)]
  BY <1>1 DEF Served, Reply
<1>6. Scenario' = Scenario
  BY <1>2 DEF Scenario
<1>7. QED
  BY <1>1, <1>2, <1>3, <1>4, <1>5, <1>6

LEMMA CleanServer ==
  ASSUME ProvedInv, Committed, CleanInv, Live, LiveNext
  PROVE  ServerClean'
<1>1. /\ late = {} /\ \A j \in DOMAIN jobs : jobs[j] # "failed"
      /\ (\E j \in DOMAIN jobs : jobs[j] = "cancelled") =>
           \E i \in Index : Scenarios[i].op = "CancelJob" /\ Settled(i)'
      /\ layer # "seed" => \E i \in Index : Scenarios[i].op = "ApplyEdits" /\ Settled(i)'
  BY SettledScenarioStays DEF CleanInv, ServerClean
<1>2. CASE Serve
  <2>1. PICK y \in Replies, done \in BOOLEAN :
           /\ y = Conforming(call.request) /\ RightReply(call.request.kind, y)
           /\ Served(y, done) /\ (done <=> call.request.kind # "negative")
           /\ call.phase = "sent" /\ late' = late
           /\ call' = [phase |-> "answered", request |-> call.request, reply |-> y]
           /\ at' = at
    BY <1>2, LiveServe
  <2> DEFINE r == call.request
  <2>2. /\ at \in Index /\ Scenario = Scenarios[at] /\ r \in Requests /\ r.op = Scenario.op /\ r.kind = step
        /\ jobs' = (IF done THEN JobsAfter(r) ELSE jobs) /\ layer' = (IF done THEN LayerAfter(r) ELSE layer)
    BY <2>1, LiveCall DEF Idle, Served
  <2>3. r.kind = "call" /\ y.status = "OK" => \A i \in Index : i = at => Settled(i)'
    BY <2>1, <2>2 DEF Settled
  <2>4. r.kind = "call" => RightCall(y)
    BY <2>1 DEF RightReply
  <2> HIDE DEF r
  <2>5. ASSUME NEW j \in DOMAIN jobs'
        PROVE  /\ jobs'[j] # "failed"
               /\ jobs'[j] = "cancelled" => \E i \in Index : Scenarios[i].op = "CancelJob" /\ Settled(i)'
    <3>1. CASE j \in DOMAIN jobs /\ jobs'[j] = jobs[j]
      BY <1>1, <3>1
    <3>2. CASE jobs'[j] \in {"completed", "running"}
      BY <3>2
    <3>3. CASE j \in DOMAIN jobs /\ jobs[j] = "running" /\ jobs'[j] = "cancelled" /\ Cancels(r, j)
      <4>1. r.kind = "call" /\ Scenario.op = "CancelJob" /\ JobState(r.job) = "running" /\ step = "call"
        BY <2>2, <3>3 DEF Cancels, JobState
      <4>2. JobState(captures[Scenario.setup]) # "completed"
        BY <2>1, <4>1, JobToCancel DEF CleanInv, r
      <4>3. y.status = "OK"
        BY <2>4, <4>1, <4>2 DEF RightCall
      <4>4. QED
        BY <2>2, <2>3, <3>3, <4>1, <4>3
    <3>4. QED
      <4>1. DOMAIN jobs = 1 .. Len(jobs) /\ Len(jobs) \in Nat
        BY JobDomain DEF ProvedInv, TypeOK
      <4>2. CASE jobs' = jobs
        BY <3>1, <4>2
      <4>3. CASE jobs' = JobsAfter(r) /\ KeyOf(r) # None
        <5>1. /\ DOMAIN jobs' = 1 .. Len(jobs) + 1 /\ jobs'[Len(jobs) + 1] \in {"completed", "running"}
              /\ \A k \in DOMAIN jobs : jobs'[k] = jobs[k]
          BY <2>2, <4>3, JobsAfterFacts DEF ProvedInv, TypeOK
        <5>2. j \in DOMAIN jobs \/ j = Len(jobs) + 1
          BY <4>1, <5>1
        <5>3. QED
          BY <3>1, <3>2, <5>1, <5>2
      <4>4. CASE jobs' = JobsAfter(r) /\ KeyOf(r) = None
        BY <2>2, <3>1, <3>3, <4>4, JobsAfterFacts DEF ProvedInv, TypeOK
      <4>5. QED
        BY <2>2, <4>2, <4>3, <4>4
  <2>6. layer' # "seed" => \E i \in Index : Scenarios[i].op = "ApplyEdits" /\ Settled(i)'
    <3>1. CASE layer' = layer
      BY <1>1, <3>1
    <3>2. CASE layer' # layer
      <4>1. r.kind = "call" /\ Scenario.op = "ApplyEdits"
        BY <2>1, <2>2, <3>2 DEF LayerAfter, r
      <4>2. y.status = "OK"
        BY <2>4, <4>1 DEF RightCall
      <4>3. QED
        BY <2>2, <2>3, <4>1, <4>2
    <3>3. QED
      BY <3>1, <3>2
  <2>7. QED
    BY <1>1, <2>1, <2>5, <2>6 DEF ServerClean
<1>3. CASE JobEnds
  <2>1. PICK j \in DOMAIN jobs : jobs[j] = "running" /\ jobs' = [jobs EXCEPT ![j] = "completed"]
    <3>1. faults \in Nat
      BY DEF ProvedInv, TypeOK, ServerTypeOK
    <3>2. QED
      BY <1>3, <3>1 DEF JobEnds, LiveNext
  <2>2. late' = late /\ layer' = layer
    BY <1>3 DEF JobEnds
  <2>3. DOMAIN jobs' = DOMAIN jobs /\ \A k \in DOMAIN jobs : jobs'[k] = jobs[k] \/ jobs'[k] = "completed"
    BY <2>1 DEF ProvedInv, TypeOK, ServerTypeOK
  <2>4. QED
    BY <1>1, <2>2, <2>3 DEF ServerClean
<1>4. CASE ~Serve /\ ~JobEnds
  <2>1. ~ServeLate
    BY <1>1 DEF ServeLate
  <2>2. UNCHANGED <<jobs, layer, late>>
    BY <1>4, <2>1 DEF LiveNext, Next, RunnerStep, ServerStep, ClockStep, Finished, vars, server, SendNegative,
       ReceiveNegative, SendVerify, ReceiveVerify, SendSetup, ReceiveSetup, SendCall, Send, MissingCapture,
       ReceiveCall, Record, WriteReport, Exit, PollDeadline
  <2>3. QED
    BY <1>1, <2>2 DEF ServerClean
<1>5. QED
  BY <1>2, <1>3, <1>4

LEMMA RightReplyStays ==
  ASSUME ProvedInv, CleanInv, Committed, LiveNext, UNCHANGED <<at, captures, outcomes>>, at \in Index,
         NEW kind, NEW y, RightReply(kind, y)
  PROVE  RightReply(kind, y)'
<1>1. Scenario' = Scenario /\ Failed("GetJob")' = Failed("GetJob")
  BY DEF Scenario, Failed
<1>2. JobsMoveOn
  BY JobsStep DEF ProvedInv, LiveNext
<1>3. JobState(captures[Scenario.setup]) = "completed" => JobState(captures[Scenario.setup])' = "completed"
  <2>1. ASSUME NEW j, JobState(j) = "completed"
        PROVE  JobState(j)' = "completed"
    BY <1>2, <2>1, EndedJobsStay DEF ProvedInv
  <2>2. QED
    BY <1>1, <2>1 DEF JobState
<1>4. RightCall(y) => RightCall(y)'
  BY <1>1, <1>3 DEF RightCall
<1>5. QED
  BY <1>1, <1>4 DEF RightReply

LEMMA CleanAnswer ==
  ASSUME ProvedInv, Committed, CleanInv, Live, LiveNext
  PROVE  AnswerClean'
<1>1. CASE Serve
  <2>1. PICK y \in Replies, done \in BOOLEAN :
           /\ RightReply(call.request.kind, y) /\ call.phase = "sent" /\ Served(y, done)
           /\ call' = [phase |-> "answered", request |-> call.request, reply |-> y]
           /\ UNCHANGED <<at, captures, outcomes>>
    BY <1>1, LiveServe
  <2>2. RightReply(call.request.kind, y)'
    BY <2>1, RightReplyStays, LiveCall DEF Idle
  <2>3. call.request.kind = "call" => last'[call.request.op] = Verdict(y)
    <3>1. call.request.op \in Operations /\ last \in [Operations -> {None, "good", "pending", "bad"}]
      BY <2>1, LiveCall DEF Idle, Requests, ProvedInv, TypeOK, HistoryTypeOK
    <3>2. Reply(call.request, y)
      BY <2>1 DEF Served
    <3>3. QED
      BY <3>1, <3>2 DEF Reply
  <2>4. call'.reply = y /\ call'.request = call.request
    BY <2>1
  <2>5. QED
    BY <2>2, <2>3, <2>4 DEF AnswerClean, RightReply, RightCall, Verdict
<1>2. CASE Receiving
  BY <1>2, ReceivingSteps DEF ProvedInv, AnswerClean
<1>3. CASE Record
  BY <1>3, RecordSteps DEF ProvedInv, AnswerClean, Idle
<1>4. CASE Sending
  BY <1>4 DEF Sending, SendNegative, SendVerify, SendSetup, SendCall, Send, AnswerClean
<1>5. CASE ~Serve /\ ~Receiving /\ ~Record /\ ~Sending
  <2>1. UNCHANGED <<at, captures, outcomes>>
    BY <1>5, OtherSteps DEF ProvedInv, LiveNext
  <2>2. call' = call /\ last' = last
    BY <1>5 DEF LiveNext, Receiving, Sending, Next, RunnerStep, ServerStep, ClockStep, Finished, vars, server,
       ServeLate, JobEnds, WriteReport, Exit, PollDeadline
  <2>3. SUFFICES ASSUME call.phase = "answered" PROVE RightReply(call.request.kind, call.reply)'
    BY <2>2 DEF AnswerClean, CleanInv, Verdict
  <2>4. RightReply(call.request.kind, call.reply) /\ at \in Index
    BY <2>3, LiveAnswer
  <2>5. ASSUME NEW kind, NEW y, kind = call.request.kind, y = call.reply
        PROVE  RightReply(kind, y)'
    BY <2>1, <2>4, <2>5, RightReplyStays
  <2>6. QED
    BY <2>2, <2>5 DEF RightReply, RightCall
<1>6. QED
  BY <1>1, <1>2, <1>3, <1>4, <1>5

\* An excuse found in this step or before is one after it.
LEMMA ScenarioExcusedStays ==
  ASSUME ProvedInv, TypeOK', Committed, LiveNext, at \in Index, Excused(Scenario.op), Scenario' = Scenario,
         UNCHANGED <<expired, last>>
  PROVE  Excused(Scenario.op)'
<1>1. JobsMoveOn
  BY JobsStep DEF ProvedInv, LiveNext
<1>2. \A i \in Index : i = at => Excused(Scenarios[i].op)'
  <2> SUFFICES ASSUME NEW i \in Index, i = at PROVE Excused(Scenarios[i].op)'
    OBVIOUS
  <2>1. i <= at
    BY SequenceFacts DEF Index
  <2>2. Excused(Scenarios[i].op)
    BY DEF Scenario
  <2>3. QED
    BY <1>1, <2>1, <2>2, ExcusedStays DEF ProvedInv, LiveNext
<1>3. PICK op : op = Scenario.op
  OBVIOUS
<1>4. Excused(op)'
  BY <1>2, <1>3 DEF Scenario
<1>5. QED
  BY <1>3, <1>4 DEF Excused

LEMMA CleanReceivingFacets ==
  ASSUME ProvedInv, TypeOK', Committed, CleanInv, Live, LiveNext, Receiving
  PROVE  FacetClean'
<1>1. /\ at \in Index /\ Scenario' = Scenario /\ facets["positive"] = None
      /\ decoded \subseteq {"clean"} /\ facets["negative"] # "fail"
      /\ step \in {"setup", "call", "record"} /\ Scenario.negative # None => facets["negative"] = "pass"
  BY ReceivingSteps DEF ProvedInv, CleanInv, FacetClean
<1>2. facets \in [Facets -> ResultType] /\ "positive" \in Facets /\ "negative" \in Facets
  BY Zenon DEF ProvedInv, TypeOK, RunnerTypeOK, Facets
<1>3. ASSUME facets'["positive"] = None, decoded' = decoded, facets'["negative"] # "fail",
             step' \in {"setup", "call", "record"} /\ Scenario.negative # None => facets'["negative"] = "pass"
      PROVE  FacetClean'
  BY <1>1, <1>3 DEF FacetClean, None
<1>4. CASE ReceiveNegative
  <2>1. Answer.status = Scenario.negative /\ decoded' = decoded
    BY <1>4, LiveAnswer DEF ReceiveNegative, Receive, RightReply
  <2>2. CASE Scenario.verify
    <3>1. step' = "verify" /\ facets' = facets
      BY <1>4, <2>1, <2>2 DEF ReceiveNegative
    <3>2. QED
      BY <1>1, <1>3, <2>1, <3>1
  <2>3. CASE ~Scenario.verify
    <3>1. facets' = [facets EXCEPT !["negative"] = "pass"]
      BY <1>4, <2>1, <2>3 DEF ReceiveNegative, Settle
    <3>2. QED
      BY <1>1, <1>2, <1>3, <2>1, <3>1
  <2>4. QED
    BY <2>2, <2>3
<1>5. CASE ReceiveVerify
  <2>1. Answer.status = "OK" /\ Answer.good /\ decoded' = decoded
    BY <1>5, LiveAnswer DEF ReceiveVerify, Receive, RightReply
  <2>2. facets' = [facets EXCEPT !["negative"] = "pass"]
    BY <1>5, <2>1 DEF ReceiveVerify, Settle
  <2>3. QED
    BY <1>1, <1>2, <1>3, <2>1, <2>2
<1>6. CASE ReceiveSetup
  <2>1. Answer.status = "OK" /\ Answer.job # NoJob /\ decoded' = decoded /\ step = "setup"
    BY <1>6, LiveAnswer DEF ReceiveSetup, Receive, RightReply
  <2>2. facets' = facets
    BY <1>6, <2>1 DEF ReceiveSetup
  <2>3. QED
    BY <1>1, <1>3, <2>1, <2>2
<1>7. CASE ReceiveCall
  <2>1. step = "call"
    BY <1>7 DEF ReceiveCall, Receive
  <2>2. /\ decoded' \subseteq {"clean"} /\ facets'["negative"] = facets["negative"]
        /\ \/ facets'["positive"] = None
           \/ facets'["positive"] = "pass" /\ decoded' = {"clean"}
           \/ facets'["positive"] = "fail" /\ Excused(Scenario.op) /\ UNCHANGED <<expired, last>>
    BY <1>1, <1>7, LiveReceiveCall
  <2>3. Excused(Scenario.op) /\ UNCHANGED <<expired, last>> => Excused(Scenario.op)'
    BY <1>1, ScenarioExcusedStays
  <2>4. QED
    BY <1>1, <2>1, <2>2, <2>3 DEF FacetClean, None
<1>8. QED
  BY <1>4, <1>5, <1>6, <1>7, NothingMissing DEF Receiving

LEMMA CleanFacets ==
  ASSUME ProvedInv, TypeOK', Committed, CleanInv, Live, LiveNext
  PROVE  FacetClean'
<1>1. CASE Receiving
  BY <1>1, CleanReceivingFacets
<1>2. CASE Record
  <2>1. decoded' = {} /\ facets'["positive"] = None /\ facets'["negative"] = None
    BY <1>2 DEF Record, Facets
  <2>2. step' \in {"setup", "call", "record"} => Scenario'.negative = None
    BY <1>2 DEF Record, FirstStep, Scenario
  <2>3. QED
    BY <2>1, <2>2 DEF FacetClean, None
<1>3. CASE ~Receiving /\ ~Record
  <2>1. UNCHANGED <<at, facets, decoded>> /\ Scenario' = Scenario
    BY <1>3, OtherSteps DEF ProvedInv, LiveNext
  <2>2. step' = step \/ step' \in {"exit", "exited"}
    BY <1>3 DEF LiveNext, Receiving, Next, RunnerStep, ServerStep, ClockStep, Finished, vars, runner, SendNegative,
       SendVerify, SendSetup, SendCall, Send, Serve, ServeLate, JobEnds, WriteReport, Exit, PollDeadline
  <2>3. facets["positive"] = "fail" => at \in Index /\ Excused(Scenario.op)
    BY DEF CleanInv, FacetClean, ProvedInv, VerdictInv, FacetInv, None
  <2>4. facets["positive"] = "fail" => Excused(Scenario.op)'
    <3>1. facets["positive"] = "fail" => Idle /\ step \in {"record", "crashed"}
      BY DEF ProvedInv, VerdictInv, FacetInv, None
    <3>2. facets["positive"] = "fail" => UNCHANGED <<expired, last>>
      BY <1>3, <3>1 DEF LiveNext, Receiving, Next, RunnerStep, ServerStep, ClockStep, Finished, vars, runner, server,
         SendNegative, SendVerify, SendSetup, SendCall, Send, Serve, ServeLate, JobEnds, WriteReport, Exit,
         PollDeadline, Idle
    <3>3. QED
      BY <2>1, <2>3, <3>2, ScenarioExcusedStays
  <2>5. QED
    BY <2>1, <2>2, <2>4 DEF CleanInv, FacetClean
<1>4. QED
  BY <1>1, <1>2, <1>3

LEMMA CleanCapture ==
  ASSUME ProvedInv, Committed, CleanInv, Live, LiveNext
  PROVE  CaptureClean'
<1> SUFFICES ASSUME NEW i \in Index, Scenarios[i].key # None, Past(i)'
             PROVE  captures'[Scenarios[i].key] # NoJob
  BY DEF CaptureClean
<1>1. CASE Past(i)
  <2>1. captures[Scenarios[i].key] # NoJob
    BY <1>1 DEF CleanInv, CaptureClean
  <2>2. QED
    BY <1>1, <2>1, CapturedStays DEF ProvedInv, Committed, LiveNext
<1>2. CASE ~Past(i)
  <2>1. ~Record
    <3>1. SUFFICES ASSUME Record PROVE FALSE
      OBVIOUS
    <3>2. at \in Index /\ at' = at + 1 /\ facets'["positive"] = None /\ facets["positive"] # None
      BY <3>1, RecordSteps DEF ProvedInv, Facets, None
    <3>3. i < at \/ i = at
      BY <3>2, SequenceFacts DEF Past, Index
    <3>4. QED
      BY <1>2, <3>2, <3>3 DEF Past
  <2>2. Receiving
    BY <1>2, <2>1, OtherSteps DEF ProvedInv, LiveNext, Past
  <2>3. i = at /\ facets'["positive"] # None /\ Scenario = Scenarios[at] /\ facets["positive"] = None
    BY <1>2, <2>2, ReceivingSteps DEF ProvedInv, Past
  <2>4. ReceiveCall
    <3>1. facets \in [Facets -> ResultType] /\ "positive" \in Facets /\ "negative" \in Facets
      BY Zenon DEF ProvedInv, TypeOK, RunnerTypeOK, Facets
    <3>2. ~ReceiveNegative /\ ~ReceiveVerify
      BY <2>3, <3>1 DEF ReceiveNegative, ReceiveVerify, Settle
    <3>3. ~ReceiveSetup
      <4>1. SUFFICES ASSUME ReceiveSetup PROVE FALSE
        OBVIOUS
      <4>2. Answer.status = "OK" /\ Answer.job # NoJob
        BY <4>1, LiveAnswer DEF ReceiveSetup, Receive, RightReply
      <4>3. QED
        BY <2>3, <4>1, <4>2 DEF ReceiveSetup
    <3>4. QED
      BY <2>2, <3>2, <3>3, NothingMissing DEF Receiving
  <2>5. QED
    BY <2>3, <2>4, LiveReceiveCall
<1>3. QED
  BY <1>1, <1>2

\* Nothing that has ended by itself is forgotten in an attempt.
LEMMA CountStays ==
  ASSUME ProvedInv, TypeOK', LiveNext, captures'["submitted_job"] = captures["submitted_job"],
         NEW p, NEW q, q = p \/ q \notin Ended, Cardinality(Ended \ {p}) >= attempt - 1
  PROVE  Cardinality(Ended' \ {q}) >= attempt - 1
<1>1. JobsMoveOn
  BY JobsStep DEF ProvedInv, LiveNext
<1>2. Ended \subseteq Ended'
  BY <1>1, EndedStay DEF ProvedInv
<1>3. (Ended \ {p}) \in SUBSET (Ended' \ {q})
  BY <1>2
<1>4. /\ IsFiniteSet(Ended' \ {q}) /\ Cardinality(Ended' \ {q}) \in Nat
      /\ Cardinality(Ended \ {p}) \in Nat
  BY EndedFinite DEF ProvedInv, TypeOK, ServerTypeOK, Ended
<1>5. Cardinality(Ended \ {p}) <= Cardinality(Ended' \ {q})
  BY <1>3, <1>4, FS_Subset
<1>6. attempt \in Nat
  BY DEF ProvedInv, TypeOK, RunnerTypeOK
<1>7. QED
  BY <1>4, <1>5, <1>6

LEMMA CleanAttempt ==
  ASSUME ProvedInv, TypeOK', Committed, CleanInv, Live, LiveNext
  PROVE  AttemptClean'
<1>1. \A q : Cardinality(Ended' \ {q}) \in Nat
  BY EndedFinite DEF TypeOK, ServerTypeOK, Ended
<1>2. attempt \in Nat
  BY DEF ProvedInv, TypeOK, RunnerTypeOK
<1>3. CASE Record
  <2>1. attempt' = 1
    BY <1>3 DEF Record
  <2>2. QED
    BY <1>1, <2>1 DEF AttemptClean
<1>4. CASE ReceiveNegative \/ ReceiveVerify
  <2>1. attempt' = 1
    BY <1>4 DEF ReceiveNegative, ReceiveVerify, Receive, CleanInv, AttemptClean
  <2>2. QED
    BY <1>1, <2>1 DEF AttemptClean
<1> DEFINE Unspoilt == Scenario.op = "CancelJob" => captures'["submitted_job"] = captures["submitted_job"]
<1>5. at \in Index => Unspoilt
  <2> SUFFICES ASSUME at \in Index, Scenario.op = "CancelJob"
               PROVE  captures'["submitted_job"] = captures["submitted_job"]
    OBVIOUS
  <2>1. PICK i \in Index : i = at
    OBVIOUS
  <2>2. i <= at /\ Scenarios[i].op = "CancelJob"
    BY <2>1, SequenceFacts DEF Index, Scenario
  <2>3. QED
    BY <2>2, SubmittedStays DEF ProvedInv, LiveNext
<1>6. CASE ReceiveSetup
  <2>1. /\ Answer.status = "OK" /\ Answer.job # NoJob /\ step = "setup" /\ call.phase = "answered"
        /\ Answer = call.reply /\ at \in Index /\ Scenario = Scenarios[at]
    BY <1>6, LiveAnswer DEF ReceiveSetup, Receive, RightReply
  <2>2. /\ captures' = [captures EXCEPT ![Scenario.setup] = Answer.job]
        /\ step' = "call" /\ attempt' = attempt /\ at' = at
    BY <1>6, <2>1 DEF ReceiveSetup
  <2>3. Scenario.setup \in Keys /\ Scenario' = Scenario
    BY <1>6, <2>2, ReceiveCapturesSetup DEF ProvedInv, Scenario
  <2>4. Pending' = Pending
    BY <2>1, <2>2, <2>3 DEF Pending, ProvedInv, TypeOK, RunnerTypeOK
  <2>5. Scenario.op = "CancelJob" => Cardinality(Ended \ {Pending}) >= attempt - 1
    BY <2>1 DEF CleanInv, AttemptClean
  <2>6. Scenario.op = "CancelJob" => Cardinality(Ended' \ {Pending}) >= attempt - 1
    BY <1>5, <2>1, <2>5, CountStays
  <2>7. QED
    BY <2>2, <2>3, <2>4, <2>6 DEF AttemptClean
<1>7. CASE ReceiveCall
  <2>1. step = "call" /\ at' = at /\ Scenario' = Scenario /\ at \in Index
    BY <1>7, ReceivingSteps DEF ReceiveCall, Receive, Receiving, ProvedInv
  <2>2. CASE step' = "record" \/ Scenario.op # "CancelJob"
    BY <1>7, <2>1, <2>2, LiveReceiveCall DEF AttemptClean, PositiveStep
  <2>3. CASE Scenario.op = "CancelJob" /\ captures' = captures /\ attempt' = attempt + 1 /\ step' = PositiveStep
               /\ Cardinality(Ended) >= attempt
    <3>1. step' = "setup" /\ Pending' = NoJob
      <4>1. Scenario.setup # None
        BY <2>1, <2>3, SubmittedBefore DEF Scenario
      <4>2. call'.phase = "idle"
        BY <1>7 DEF ReceiveCall, Receive, NoCall
      <4>3. QED
        BY <2>3, <4>1, <4>2 DEF Pending, PositiveStep
    <3>2. NoJob \notin Ended
      BY JobDomain DEF ProvedInv, TypeOK, Ended, EndedIn, NoJob
    <3>3. Ended \ {NoJob} = Ended /\ Ended' = Ended
      <4>1. jobs' = jobs
        BY <1>7, ReceivingSteps DEF Receiving, ProvedInv
      <4>2. QED
        BY <2>3, <3>2, <4>1 DEF Ended
    <3>4. QED
      BY <1>2, <2>1, <2>3, <3>1, <3>3 DEF AttemptClean
  <2>4. QED
    BY <1>7, <2>2, <2>3, LiveReceiveCall
<1>8. CASE ~Record /\ ~Receiving
  <2>1. UNCHANGED <<at, captures, attempt>> /\ Scenario' = Scenario
    BY <1>8, OtherSteps DEF ProvedInv, LiveNext
  <2>2. step' = step \/ step' \in {"exit", "exited"}
    BY <1>8 DEF LiveNext, Receiving, Next, RunnerStep, ServerStep, ClockStep, Finished, vars, runner, SendNegative,
       SendVerify, SendSetup, SendCall, Send, Serve, ServeLate, JobEnds, WriteReport, Exit, PollDeadline
  <2>3. CASE step' = step /\ step \in {"setup", "call"} /\ Scenario.op = "CancelJob"
    <3>1. at \in Index /\ captures'["submitted_job"] = captures["submitted_job"]
      BY <2>1, <2>3 DEF ProvedInv, TypeOK, RunnerTypeOK
    <3>2. Pending' = Pending \/ Pending' \notin Ended
      <4>1. CASE Serve /\ step = "setup"
        <5>1. PICK y \in Replies : /\ y = Conforming(call.request) /\ call.phase = "sent"
                                   /\ call' = [phase |-> "answered", request |-> call.request, reply |-> y]
          BY <4>1, LiveServe
        <5>2. Pending' = y.job
          BY <2>3, <4>1, <5>1 DEF Pending
        <5>3. call.request.kind = "setup" /\ KeyOf(call.request) # None
          BY <4>1, <5>1, LiveCall DEF Idle, KeyOf
        <5>4. y = Message(TRUE, TRUE, TRUE, Len(jobs) + 1)
          BY <5>1, <5>3 DEF Conforming, ReadsLayer
        <5>5. y.job = Len(jobs) + 1
          BY <5>4 DEF Message
        <5>6. Len(jobs) + 1 \notin Ended
          BY JobDomain DEF ProvedInv, TypeOK, Ended, EndedIn
        <5>7. QED
          BY <5>2, <5>5, <5>6
      <4>2. CASE step = "call"
        BY <2>1, <2>3, <4>2 DEF Pending
      <4>3. CASE Sending
        <5>1. call.phase = "idle" /\ call'.phase = "sent"
          BY <4>3 DEF Sending, SendNegative, SendVerify, SendSetup, SendCall, Send, Idle
        <5>2. QED
          BY <2>1, <2>3, <5>1 DEF Pending
      <4>4. CASE ~Serve /\ ~Sending
        <5>1. call' = call
          BY <1>8, <4>4 DEF LiveNext, Receiving, Sending, Next, RunnerStep, ServerStep, ClockStep, Finished, vars,
             ServeLate, JobEnds, WriteReport, Exit, PollDeadline
        <5>2. QED
          BY <2>1, <2>3, <5>1 DEF Pending
      <4>5. QED
        BY <2>3, <4>1, <4>2, <4>3, <4>4
    <3>3. Cardinality(Ended \ {Pending}) >= attempt - 1
      BY <2>3 DEF CleanInv, AttemptClean
    <3>4. PICK q : q = Pending'
      OBVIOUS
    <3>5. Cardinality(Ended' \ {q}) >= attempt - 1
      BY <3>1, <3>2, <3>3, <3>4, CountStays
    <3>6. QED
      BY <2>1, <2>3, <3>4, <3>5 DEF AttemptClean
  <2>4. CASE step' \in {"exit", "exited"} \/ step \notin {"setup", "call"} \/ Scenario.op # "CancelJob"
    BY <2>1, <2>2, <2>4 DEF CleanInv, AttemptClean
  <2>5. QED
    BY <2>2, <2>3, <2>4
<1>9. QED
  BY <1>3, <1>4, <1>6, <1>7, <1>8, NothingMissing DEF Receiving

LEMMA CleanInit == Init => CleanInv
<1> SUFFICES ASSUME Init PROVE CleanInv
  OBVIOUS
<1>1. /\ at = 1 /\ step = FirstStep(at) /\ attempt = 1 /\ decoded = {} /\ jobs = << >> /\ layer = "seed" /\ late = {}
      /\ call.phase = "idle"
  BY DEF Init, NoCall
<1>2. facets["positive"] = None /\ facets["negative"] = None
  BY DEF Init, Facets
<1>3. ServerClean /\ AnswerClean
  BY <1>1 DEF ServerClean, AnswerClean
<1>4. FacetClean
  <2>1. step \in {"setup", "call", "record"} => Scenario.negative = None
    BY <1>1 DEF FirstStep, Scenario
  <2>2. QED
    BY <1>1, <1>2, <2>1 DEF FacetClean, None
<1>5. CaptureClean
  BY <1>1, <1>2, SequenceFacts DEF CaptureClean, Past, Index
<1>6. AttemptClean
  <2>1. Cardinality(Ended \ {Pending}) \in Nat
    BY InitTypeOK, EndedFinite DEF TypeOK, ServerTypeOK, Ended
  <2>2. QED
    BY <1>1, <2>1 DEF AttemptClean
<1>7. QED
  BY <1>3, <1>4, <1>5, <1>6 DEF CleanInv

\* As long as nothing has gone wrong, only the positive call fails a scenario.
LEMMA FailedOutcome ==
  ASSUME ProvedInv, CleanInv, Live, Record, Outcome.result = "fail"
  PROVE  Excused(Scenario.op)
<1>1. /\ facets["positive"] \in {"pass", "fail"} /\ step = "record"
      /\ facets \in [Facets -> ResultType]
  BY RecordSteps DEF ProvedInv, Record, TypeOK, RunnerTypeOK
<1>2. SUFFICES facets["positive"] = "fail"
  BY DEF CleanInv, FacetClean
<1>3. SUFFICES ASSUME facets["positive"] = "pass" PROVE FALSE
  BY <1>1
<1>4. CASE Scenario.negative = None
  BY <1>3, <1>4 DEF Outcome
<1>5. CASE Scenario.negative # None
  <2> DEFINE all == [facets EXCEPT !["media-schema"] = MediaSchema]
  <2>1. facets["negative"] = "pass" /\ MediaSchema = "pass"
    BY <1>1, <1>3, <1>5 DEF CleanInv, FacetClean, MediaSchema
  <2>2. \A f \in Facets : all[f] = "pass"
    BY <1>1, <1>3, <2>1 DEF Facets
  <2>3. Outcome = [result |-> IF \A f \in Facets : all[f] = "pass" THEN "pass" ELSE "fail", facet_results |-> all]
    BY <1>5, Zenon DEF Outcome
  <2> HIDE DEF all
  <2>4. QED
    BY <2>2, <2>3
<1>6. QED
  BY <1>4, <1>5

LEMMA CleanStep ==
  ASSUME ProvedInv, Committed, CleanInv, [Next]_vars
  PROVE  CleanInv'
<1>1. TypeOK'
  BY StepTypeOK DEF ProvedInv
<1>2. ASSUME Live'
      PROVE  Live /\ LiveNext
  BY <1>2, LiveStep DEF ProvedInv, Live, LiveNext
<1>3. Live' => (ServerClean /\ AnswerClean /\ FacetClean /\ CaptureClean /\ AttemptClean)'
  BY <1>1, <1>2, CleanServer, CleanAnswer, CleanFacets, CleanCapture, CleanAttempt
<1>4. QED
  BY <1>3 DEF CleanInv

\* Whatever the list, as long as it is written as the committed one is, a server that has
\* answered every call by the contract and in time sees no result recorded as failed, but GetJob
\* when the job it polls outlasts the poll deadline, GetJobResult after it, and CancelJob when a
\* job of every attempt has ended before it could be cancelled.
THEOREM FailuresHaveCauses ==
  ASSUME OneProvider(Scenarios), JobsAreNamed(Scenarios), EditsComeLast(Scenarios), CanPass(Scenarios)
  PROVE  Spec => NoFalseAlarm
<1>1. Committed
  BY DEF Committed
<1>2. Init => CleanInv
  BY CleanInit
<1>3. ProvedInv /\ CleanInv /\ [Next]_vars => CleanInv'
  BY <1>1, CleanStep
<1>4. ASSUME ProvedInv, CleanInv, [Next]_vars, NEW op \in Operations,
             faults = 0, timeouts = 0, Failed(op)', ~Failed(op)
      PROVE  facets["negative"] # "fail" /\ Excused(op)
  <2>1. Record
    <3>1. ~Record => outcomes' = outcomes
      BY <1>4, OtherSteps, ReceivingSteps DEF ProvedInv
    <3>2. QED
      BY <1>4, <3>1 DEF Failed
  <2>2. op = Scenario.op /\ Outcome.result = "fail"
    BY <1>4, <2>1, RecordSteps DEF ProvedInv, Failed
  <2>3. Live
    BY <1>4, <2>1 DEF Live, Clean, Record
  <2>4. Excused(Scenario.op) /\ facets["negative"] # "fail"
    BY <1>4, <2>1, <2>2, <2>3, FailedOutcome DEF CleanInv, FacetClean
  <2>5. QED
    BY <2>2, <2>4
<1>5. ProvedInv /\ CleanInv /\ [Next]_vars =>
        [\A op \in Operations :
           faults = 0 /\ timeouts = 0 /\ Failed(op)' /\ ~Failed(op) =>
             facets["negative"] # "fail" /\ Excused(op)]_vars
  BY <1>4
<1>6. TypeOK /\ VerdictInv /\ CaptureInv /\ IdsInv /\ DoneInv /\ TraceInv => ProvedInv
  BY DEF ProvedInv
<1>7. /\ Spec => []TypeOK
      /\ Spec => []VerdictInv
      /\ Spec => []CaptureInv
      /\ Spec => []IdsInv
      /\ Spec => []DoneInv
      /\ Spec => []TraceInv
  BY <1>1, TypeCorrect, VerdictInvariant, CaptureInvariant, IdsInvariant, DoneInvariant, TraceInvariant
<1>8. QED
  BY <1>2, <1>3, <1>5, <1>6, <1>7, PTL DEF Spec, NoFalseAlarm
=============================================================================
