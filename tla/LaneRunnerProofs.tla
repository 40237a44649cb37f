-------------------------- MODULE LaneRunnerProofs --------------------------
(***************************************************************************)
(* Proofs about LaneRunner, for every scenario list.                       *)
(***************************************************************************)
EXTENDS LaneRunner, TLAPS

LEMMA ScenarioFacts ==
  ASSUME NEW i \in Index
  PROVE  /\ Scenarios[i] \in ScenarioType
         /\ Scenarios[i].op \in Operations
         /\ ScenarioOf[Scenarios[i].op] = Scenarios[i]
         /\ Scenarios[i].setup # None => Scenarios[i].setup \in Keys
         /\ Scenarios[i].key # None => Scenarios[i].key \in Keys
         /\ Scenarios[i].needs # None => Scenarios[i].needs \in Keys
<1>1. Scenarios[i] \in ScenarioType
  BY ScenariosAssumption DEF Index
<1>2. Scenarios[i].op \in Operations
  BY DEF Operations
<1>3. ScenarioOf[Scenarios[i].op] = Scenarios[i]
  <2>1. (CHOOSE j \in Index : Scenarios[j].op = Scenarios[i].op) = i
    BY ScenariosAssumption
  <2>2. QED
    BY <2>1, <1>2 DEF ScenarioOf
<1>4. QED
  BY <1>1, <1>2, <1>3, ScenariosAssumption DEF Keys

LEMMA OperationFacts ==
  ASSUME NEW op \in Operations
  PROVE  /\ ScenarioOf[op] \in ScenarioType
         /\ ScenarioOf[op].setup # None => ScenarioOf[op].setup \in Keys
         /\ ScenarioOf[op].key # None => ScenarioOf[op].key \in Keys
         /\ \E i \in Index : op = Scenarios[i].op
BY ScenarioFacts DEF Operations

LEMMA ReplyTypes ==
  /\ \A code \in Errors \cup {"DEADLINE_EXCEEDED"} : Status(code) \in Replies
  /\ \A good, terminal, known \in BOOLEAN, job \in Nat : Message(good, terminal, known, job) \in Replies
  /\ Undecodable \in Replies /\ EmptyStream \in Replies
BY DEF Status, Message, Failure, Undecodable, EmptyStream, Replies, NoJob, Errors, Race

LEMMA EffectTypes ==
  ASSUME ServerTypeOK, NEW r \in Requests
  PROVE  /\ KeyOf(r) # None => KeyOf(r) \in Keys
         /\ JobsAfter(r) \in Seq({"running", "completed", "failed", "cancelled"})
         /\ LayerAfter(r) \in {"seed", "edited", "other"}
<1>1. KeyOf(r) # None => KeyOf(r) \in Keys
  BY OperationFacts DEF KeyOf, Requests
<1>2. JobsAfter(r) \in Seq({"running", "completed", "failed", "cancelled"})
  BY DEF JobsAfter, JobState, ServerTypeOK
<1>3. LayerAfter(r) \in {"seed", "edited", "other"}
  BY DEF LayerAfter, ServerTypeOK
<1>4. QED
  BY <1>1, <1>2, <1>3

\* What the server may answer to a request the runner makes: a negative call has a status.
LEMMA AnswerTypes ==
  ASSUME ServerTypeOK, NEW r \in Requests,
         r.kind = "negative" => ScenarioOf[r.op].negative # None
  PROVE  Conforming(r) \in Replies
<1>1. r.op \in Operations /\ r.job \in Nat /\ ScenarioOf[r.op] \in ScenarioType
  BY OperationFacts DEF Requests
<1>2. r.kind = "negative" => ScenarioOf[r.op].negative \in Errors
  BY <1>1 DEF ScenarioType
<1>3. Len(jobs) \in Nat
  BY DEF ServerTypeOK
<1>4. Race \in Errors /\ "NOT_FOUND" \in Errors /\ NoJob \in Nat /\ Len(jobs) + 1 \in Nat
  BY <1>3 DEF Race, Errors, NoJob
<1>5. \A a, b : (a = b) \in BOOLEAN /\ (a # b) \in BOOLEAN
  OBVIOUS
<1>6. JobReply(r) \in Replies
  BY <1>1, <1>4, <1>5, ReplyTypes DEF JobReply
<1>7. Message(layer = "seed", TRUE, TRUE, NoJob) \in Replies
  BY <1>4, ReplyTypes
<1>8. Message(TRUE, TRUE, TRUE, Len(jobs) + 1) \in Replies
  BY <1>4, ReplyTypes
<1>9. r.kind = "negative" => Status(ScenarioOf[r.op].negative) \in Replies
  BY <1>2, ReplyTypes
<1>10. QED
  BY <1>6, <1>7, <1>8, <1>9 DEF Conforming

LEMMA SequenceFacts ==
  /\ Len(Scenarios) \in Nat /\ Len(Scenarios) >= 1
  /\ 1 \in Index
  /\ \A i \in Index : i + 1 \in 1 .. Len(Scenarios) + 1
  /\ \A i \in Index : i # Len(Scenarios) => i + 1 \in Index
BY ScenariosAssumption DEF Index

\* The step at which a scenario is entered, and the step its positive part starts at.
LEMMA StepTypes ==
  /\ \A i \in Index : /\ FirstStep(i) \in {"negative", "setup", "call"}
                      /\ FirstStep(i) = "negative" => Scenarios[i].negative # None
  /\ PositiveStep \in {"setup", "call"}
BY DEF FirstStep, PositiveStep

LEMMA InitTypeOK == Init => TypeOK
<1> SUFFICES ASSUME Init PROVE TypeOK
  OBVIOUS
<1>1. RunnerTypeOK
  <2>1. at \in Index /\ at \in 1 .. Len(Scenarios) + 1 /\ step = FirstStep(at)
    BY SequenceFacts DEF Init, Index
  <2>2. outcomes \in [Operations -> OutcomeType]
    BY DEF Init, OutcomeType, ResultType
  <2>3. captures \in [Keys -> Nat] /\ facets \in [Facets -> ResultType]
    BY DEF Init, NoJob, ResultType
  <2>4. report \in ReportType
    BY DEF Init, ReportType
  <2>5. /\ step \in {"negative", "setup", "call"}
        /\ step = "negative" => Scenario.negative # None
    BY <2>1, StepTypes DEF Scenario
  <2>6. attempt \in Nat \ {0} /\ decoded \in SUBSET {"clean", "unknown field"}
    BY DEF Init
  <2>7. expired \in BOOLEAN
    BY Zenon DEF Init
  <2>8. QED
    BY <2>1, <2>2, <2>3, <2>4, <2>5, <2>6, <2>7, Zenon DEF Init, RunnerTypeOK
<1>2. CallTypeOK
  BY DEF Init, CallTypeOK, NoCall, Idle
<1>3. ServerTypeOK
  BY DEF Init, ServerTypeOK
<1>4. HistoryTypeOK
  BY DEF Init, HistoryTypeOK, NoJob, None
<1>5. QED
  BY <1>1, <1>2, <1>3, <1>4 DEF TypeOK

\* Sending a request keeps the types, if the scenario is one that makes it.
LEMMA SendTypes ==
  ASSUME TypeOK, NEW kind \in Kinds, NEW job \in Nat, Send(kind, job),
         step \in Kinds
  PROVE  TypeOK'
<1>1. at \in Index /\ Scenario.op \in Operations /\ ScenarioOf[Scenario.op] = Scenario
  BY ScenarioFacts DEF TypeOK, RunnerTypeOK, Scenario, Kinds
<1>2. CallTypeOK'
  BY <1>1 DEF TypeOK, RunnerTypeOK, Send, CallTypeOK, Sent, Requests, Idle
<1>3. RunnerTypeOK'
  BY DEF TypeOK, Send, RunnerTypeOK, runner, Scenario
<1>4. ServerTypeOK' /\ HistoryTypeOK'
  BY DEF TypeOK, Send, ServerTypeOK, HistoryTypeOK, server
<1>5. QED
  BY <1>2, <1>3, <1>4 DEF TypeOK

LEMMA SendStepTypes ==
  ASSUME TypeOK, SendNegative \/ SendVerify \/ SendSetup \/ SendCall
  PROVE  TypeOK'
<1>1. CASE SendNegative
  BY <1>1, SendTypes DEF SendNegative, Send, Kinds, NoJob
<1>2. CASE SendVerify
  BY <1>2, SendTypes DEF SendVerify, Send, Kinds, NoJob
<1>3. CASE SendSetup
  BY <1>3, SendTypes DEF SendSetup, Send, Kinds, NoJob
<1>4. CASE SendCall
  <2> DEFINE job == IF Scenario.needs = None THEN NoJob ELSE captures[Scenario.needs]
  <2>1. step = "call" /\ at \in Index
    BY <1>4 DEF SendCall, TypeOK, RunnerTypeOK
  <2>2. job \in Nat
    BY <2>1, ScenarioFacts DEF TypeOK, RunnerTypeOK, Scenario, NoJob
  <2>3. Send("call", job)
    BY <1>4 DEF SendCall
  <2> HIDE DEF job
  <2>4. QED
    BY <2>1, <2>2, <2>3, SendTypes DEF Kinds
<1>5. QED
  BY <1>1, <1>2, <1>3, <1>4

\* A reply the server gives to a well-formed request keeps the types.
LEMMA ReplyStepTypes ==
  ASSUME TypeOK, call.phase = "sent", NEW y \in Replies, Reply(call.request, y)
  PROVE  CallTypeOK' /\ (UNCHANGED blemished => HistoryTypeOK')
<1> DEFINE r == call.request
<1>1. r \in Requests /\ (r.kind = "negative" => ScenarioOf[r.op].negative # None)
  BY DEF TypeOK, CallTypeOK, Sent, Answered, NoCall, Idle
<1>2. r.op \in Operations /\ (KeyOf(r) # None => KeyOf(r) \in Keys) /\ y.job \in Nat
  BY <1>1, EffectTypes DEF TypeOK, Requests, Replies
<1>3. call' \in Answered /\ call'.request = r
  BY <1>1 DEF Reply, Answered
<1>4. CallTypeOK'
  BY <1>1, <1>3 DEF CallTypeOK, Idle
<1>5. last' \in [Operations -> {None, "good", "pending", "bad"}]
  BY <1>2 DEF TypeOK, HistoryTypeOK, Reply, Verdict
<1>6. rejected' \in SUBSET Operations
  BY <1>2 DEF TypeOK, HistoryTypeOK, Reply
<1>7. assigned' \in [Keys -> Nat]
  BY <1>2 DEF TypeOK, HistoryTypeOK, Reply
<1>8. QED
  BY <1>4, <1>5, <1>6, <1>7 DEF TypeOK, HistoryTypeOK

LEMMA ServerStepTypes ==
  ASSUME TypeOK, ServerStep
  PROVE  TypeOK'
<1>1. CASE Serve
  <2>1. call.request \in Requests
        /\ (call.request.kind = "negative" => ScenarioOf[call.request.op].negative # None)
    BY <1>1 DEF Serve, TypeOK, CallTypeOK, Sent, Answered, NoCall, Idle
  <2>2. Conforming(call.request) \in Replies
    BY <2>1, AnswerTypes DEF TypeOK
  <2>3. CallTypeOK' /\ HistoryTypeOK'
    BY <1>1, <2>2, ReplyStepTypes DEF Serve
  <2>4. ServerTypeOK'
    BY <1>1, <2>1, EffectTypes DEF Serve, TypeOK, ServerTypeOK
  <2>5. RunnerTypeOK'
    BY <1>1 DEF Serve, runner, TypeOK, RunnerTypeOK, Scenario
  <2>6. QED
    BY <2>3, <2>4, <2>5 DEF TypeOK
<1>2. CASE ServeWrongly
  <2>1. call.request \in Requests
        /\ (call.request.kind = "negative" => ScenarioOf[call.request.op].negative # None)
    BY <1>2 DEF ServeWrongly, TypeOK, CallTypeOK, Sent, Answered, NoCall, Idle
  <2>2. PICK takesEffect \in BOOLEAN :
          /\ ReplyWrongly(call.request, takesEffect)
          /\ IF takesEffect
             THEN jobs' = JobsAfter(call.request) /\ layer' = LayerAfter(call.request)
             ELSE UNCHANGED <<jobs, layer>>
    BY <1>2, Zenon DEF ServeWrongly
  <2>3. \E y \in Replies : Reply(call.request, y)
    <3>1. Conforming(call.request).job \in Nat /\ NoJob \in Nat
      BY <2>1, AnswerTypes DEF TypeOK, Replies, NoJob
    <3>2. FALSE \in BOOLEAN
      OBVIOUS
    <3>3. QED
      BY <2>2, <3>1, <3>2, ReplyTypes, Zenon DEF ReplyWrongly
  <2>4. CallTypeOK' /\ HistoryTypeOK'
    BY <1>2, <2>3, ReplyStepTypes DEF ServeWrongly
  <2>5. ServerTypeOK'
    BY <1>2, <2>1, <2>2, EffectTypes DEF ServeWrongly, TypeOK, ServerTypeOK
  <2>6. RunnerTypeOK'
    BY <1>2 DEF ServeWrongly, runner, TypeOK, RunnerTypeOK, Scenario
  <2>7. QED
    BY <2>4, <2>5, <2>6 DEF TypeOK
<1>3. CASE ServeLate
  <2>1. PICK r \in late : jobs' = JobsAfter(r) /\ layer' = LayerAfter(r) /\ late' = late \ {r}
    BY <1>3 DEF ServeLate
  <2>2. ServerTypeOK'
    BY <1>3, <2>1, EffectTypes DEF ServeLate, TypeOK, ServerTypeOK
  <2>3. RunnerTypeOK'
    BY <1>3 DEF ServeLate, runner, TypeOK, RunnerTypeOK, Scenario
  <2>4. CallTypeOK' /\ HistoryTypeOK'
    BY <1>3 DEF ServeLate, TypeOK, CallTypeOK, HistoryTypeOK, Idle
  <2>5. QED
    BY <2>2, <2>3, <2>4 DEF TypeOK
<1>4. CASE JobEnds
  <2>1. ServerTypeOK'
    BY <1>4 DEF JobEnds, TypeOK, ServerTypeOK
  <2>2. RunnerTypeOK'
    BY <1>4 DEF JobEnds, runner, TypeOK, RunnerTypeOK, Scenario
  <2>3. CallTypeOK' /\ HistoryTypeOK'
    BY <1>4 DEF JobEnds, TypeOK, CallTypeOK, HistoryTypeOK, Idle
  <2>4. QED
    BY <2>1, <2>2, <2>3 DEF TypeOK
<1>5. QED
  BY <1>1, <1>2, <1>3, <1>4 DEF ServerStep

\* A step within a scenario: what has to be shown of the variables it changes.
LEMMA WithinScenario ==
  ASSUME TypeOK, at \in Index, UNCHANGED <<at, outcomes, report, exit>>,
         step' \in {"verify", "setup", "call", "record"},
         attempt' \in Nat \ {0}, captures' \in [Keys -> Nat],
         decoded' \in SUBSET {"clean", "unknown field"},
         facets' \in [Facets -> ResultType], expired' \in BOOLEAN
  PROVE  RunnerTypeOK'
<1>1. /\ at' \in 1 .. Len(Scenarios) + 1 /\ at' \in Index
      /\ step' # "negative"
      /\ step' \in {"negative", "verify", "setup", "call", "record", "report", "exit", "exited", "crashed"}
  BY DEF TypeOK, RunnerTypeOK
<1>2. /\ outcomes' \in [Operations -> OutcomeType]
      /\ report' \in ReportType
      /\ exit' \in {None, "success", "failure"}
  BY Zenon DEF TypeOK, RunnerTypeOK
<1>3. QED
  BY <1>1, <1>2, Zenon DEF RunnerTypeOK

LEMMA SettleTypes ==
  ASSUME TypeOK, NEW facet, NEW verdict \in {"pass", "fail"}, Settle(facet, verdict)
  PROVE  facets' \in [Facets -> ResultType]
BY DEF TypeOK, RunnerTypeOK, Settle, ResultType

LEMMA ConcludeTypes ==
  ASSUME TypeOK, NEW verdict \in {"pass", "fail"}, Conclude(verdict)
  PROVE  /\ step' \in {"verify", "setup", "call", "record"}
         /\ attempt' \in Nat \ {0} /\ facets' \in [Facets -> ResultType] /\ expired' \in BOOLEAN
<1>1. facets' \in [Facets -> ResultType]
  BY SettleTypes DEF Conclude
<1>2. step' = "record" /\ attempt' = attempt /\ expired' = expired
  BY DEF Conclude
<1>3. attempt \in Nat \ {0} /\ expired \in BOOLEAN
  BY Zenon DEF TypeOK, RunnerTypeOK
<1>4. QED
  BY <1>1, <1>2, <1>3

LEMMA RaiseTypes ==
  ASSUME TypeOK, NEW status, Raise(status)
  PROVE  /\ step' \in {"verify", "setup", "call", "record"}
         /\ attempt' \in Nat \ {0} /\ facets' \in [Facets -> ResultType] /\ expired' \in BOOLEAN
<1>1. CASE Scenario.attempts > attempt /\ status = Race
  <2>1. attempt' = attempt + 1 /\ step' = PositiveStep /\ facets' = facets
    BY <1>1 DEF Raise
  <2>2. expired' = FALSE
    BY <1>1, Zenon DEF Raise
  <2>3. expired' \in BOOLEAN
    BY <2>2, Zenon
  <2>4. attempt \in Nat \ {0} /\ facets \in [Facets -> ResultType]
    BY Zenon DEF TypeOK, RunnerTypeOK
  <2>5. attempt' \in Nat \ {0} /\ facets' \in [Facets -> ResultType]
    BY <2>1, <2>4
  <2>6. QED
    BY <2>1, <2>3, <2>5, StepTypes
<1>2. CASE ~(Scenario.attempts > attempt /\ status = Race)
  BY <1>2, ConcludeTypes DEF Raise
<1>3. QED
  BY <1>1, <1>2

LEMMA ReceiveTypes ==
  ASSUME TypeOK, NEW kind \in Kinds, Receive(kind)
  PROVE  /\ at \in Index /\ CallTypeOK'
         /\ Answer \in Replies /\ Answer.job \in Nat
         /\ Scenario \in ScenarioType /\ Scenario.op \in Operations
         /\ Scenario.setup # None => Scenario.setup \in Keys
         /\ Scenario.key # None => Scenario.key \in Keys
         /\ Scenario.needs # None => Scenario.needs \in Keys
<1>1. step \in Kinds
  BY DEF Receive
<1>2. at \in Index
  BY <1>1 DEF TypeOK, RunnerTypeOK, Kinds
<1>3. CallTypeOK'
  BY DEF Receive, CallTypeOK, NoCall, Idle
<1>4. Answer \in Replies
  BY DEF Receive, TypeOK, CallTypeOK, NoCall, Sent, Answered, Answer
<1>5. Answer.job \in Nat
  BY <1>4 DEF Replies
<1>6. QED
  BY <1>2, <1>3, <1>4, <1>5, ScenarioFacts DEF Scenario

LEMMA ReceiveStepTypes ==
  ASSUME TypeOK, ReceiveNegative \/ ReceiveVerify \/ ReceiveSetup \/ ReceiveCall \/ MissingCapture
  PROVE  TypeOK'
<1> USE DEF Kinds
<1>1. CASE ReceiveNegative
  <2>1. at \in Index /\ CallTypeOK'
    BY <1>1, ReceiveTypes DEF ReceiveNegative
  <2>2. facets' \in [Facets -> ResultType]
    BY <1>1, SettleTypes DEF ReceiveNegative, TypeOK, RunnerTypeOK
  <2>3. step' \in {"verify", "setup", "call", "record"}
    BY <1>1, StepTypes DEF ReceiveNegative
  <2>4. /\ attempt' \in Nat \ {0} /\ captures' \in [Keys -> Nat]
        /\ decoded' \in SUBSET {"clean", "unknown field"} /\ expired' \in BOOLEAN
    BY <1>1, Zenon DEF ReceiveNegative, TypeOK, RunnerTypeOK
  <2>5. RunnerTypeOK'
    BY <1>1, <2>1, <2>2, <2>3, <2>4, WithinScenario DEF ReceiveNegative
  <2>6. ServerTypeOK' /\ HistoryTypeOK'
    BY <1>1 DEF ReceiveNegative, TypeOK, ServerTypeOK, HistoryTypeOK, server
  <2>7. QED
    BY <2>1, <2>5, <2>6 DEF TypeOK
<1>2. CASE ReceiveVerify
  <2>1. at \in Index /\ CallTypeOK'
    BY <1>2, ReceiveTypes DEF ReceiveVerify
  <2>2. facets' \in [Facets -> ResultType]
    BY <1>2, SettleTypes DEF ReceiveVerify
  <2>3. step' \in {"verify", "setup", "call", "record"}
    BY <1>2, StepTypes DEF ReceiveVerify
  <2>4. /\ attempt' \in Nat \ {0} /\ captures' \in [Keys -> Nat]
        /\ decoded' \in SUBSET {"clean", "unknown field"} /\ expired' \in BOOLEAN
    BY <1>2, Zenon DEF ReceiveVerify, TypeOK, RunnerTypeOK
  <2>5. RunnerTypeOK'
    BY <1>2, <2>1, <2>2, <2>3, <2>4, WithinScenario DEF ReceiveVerify
  <2>6. ServerTypeOK' /\ HistoryTypeOK'
    BY <1>2 DEF ReceiveVerify, TypeOK, ServerTypeOK, HistoryTypeOK, server
  <2>7. QED
    BY <2>1, <2>5, <2>6 DEF TypeOK
<1>3. CASE ReceiveSetup
  <2>1. at \in Index /\ CallTypeOK' /\ Answer.job \in Nat
    BY <1>3, ReceiveTypes DEF ReceiveSetup
  <2>2. captures' \in [Keys -> Nat]
    BY <1>3, <2>1, ReceiveTypes DEF ReceiveSetup, TypeOK, RunnerTypeOK
  <2>3. /\ step' \in {"verify", "setup", "call", "record"}
        /\ attempt' \in Nat \ {0} /\ facets' \in [Facets -> ResultType] /\ expired' \in BOOLEAN
    <3>1. CASE Answer.status # "OK"
      BY <1>3, <3>1, RaiseTypes DEF ReceiveSetup
    <3>2. CASE Answer.status = "OK" /\ Answer.job = NoJob
      BY <1>3, <3>2, ConcludeTypes DEF ReceiveSetup
    <3>3. CASE Answer.status = "OK" /\ Answer.job # NoJob
      <4>1. step' = "call" /\ attempt' = attempt /\ facets' = facets /\ expired' = expired
        BY <1>3, <3>3 DEF ReceiveSetup
      <4>2. QED
        BY <4>1, Zenon DEF TypeOK, RunnerTypeOK
    <3>4. QED
      BY <3>1, <3>2, <3>3
  <2>4. decoded' \in SUBSET {"clean", "unknown field"}
    BY <1>3 DEF ReceiveSetup, TypeOK, RunnerTypeOK
  <2>5. RunnerTypeOK'
    BY <1>3, <2>1, <2>2, <2>3, <2>4, WithinScenario DEF ReceiveSetup
  <2>6. ServerTypeOK' /\ HistoryTypeOK'
    BY <1>3 DEF ReceiveSetup, TypeOK, ServerTypeOK, HistoryTypeOK, server
  <2>7. QED
    BY <2>1, <2>5, <2>6 DEF TypeOK
<1>4. CASE ReceiveCall
  <2>1. at \in Index /\ CallTypeOK' /\ Answer.job \in Nat /\ Scenario.op \in Operations
    BY <1>4, ReceiveTypes DEF ReceiveCall
  <2>2. captures' \in [Keys -> Nat]
    BY <1>4, <2>1, ReceiveTypes DEF ReceiveCall, CaptureAndCompare, TypeOK, RunnerTypeOK
  <2>3. decoded' \in SUBSET {"clean", "unknown field"}
    BY <1>4 DEF ReceiveCall, Decode, TypeOK, RunnerTypeOK
  <2>4. /\ step' \in {"verify", "setup", "call", "record"}
        /\ attempt' \in Nat \ {0} /\ facets' \in [Facets -> ResultType] /\ expired' \in BOOLEAN
    <3>1. CASE Answer.status # "OK"
      BY <1>4, <3>1, RaiseTypes DEF ReceiveCall
    <3>2. CASE Answer.status = "OK" /\ Scenario.poll /\ ~Answer.terminal /\ ~expired
      <4>1. step' = step /\ attempt' = attempt /\ facets' = facets /\ expired' = expired /\ step = "call"
        BY <1>4, <3>2 DEF ReceiveCall, Receive
      <4>2. attempt \in Nat \ {0} /\ facets \in [Facets -> ResultType] /\ expired \in BOOLEAN
        BY Zenon DEF TypeOK, RunnerTypeOK
      <4>3. QED
        BY <4>1, <4>2
    <3>3. CASE Answer.status = "OK" /\ ~(Scenario.poll /\ ~Answer.terminal /\ ~expired)
      <4>1. CaptureAndCompare
        BY <1>4, <3>3 DEF ReceiveCall
      <4>2. \E verdict \in {"pass", "fail"} : Conclude(verdict)
        BY <4>1 DEF CaptureAndCompare
      <4>3. QED
        BY <4>2, ConcludeTypes
    <3>4. QED
      BY <3>1, <3>2, <3>3
  <2>5. RunnerTypeOK'
    BY <1>4, <2>1, <2>2, <2>3, <2>4, WithinScenario DEF ReceiveCall
  <2>6. blemished' \in SUBSET (Operations \X {"unknown field", "undecodable"})
    <3>1. blemished \in SUBSET (Operations \X {"unknown field", "undecodable"})
      BY DEF TypeOK, HistoryTypeOK
    <3>2. \A defect \in {"unknown field", "undecodable"} :
            <<Scenario.op, defect>> \in Operations \X {"unknown field", "undecodable"}
      BY <2>1
    <3>3. blemished' = blemished \/ \E defect \in {"unknown field", "undecodable"} :
            blemished' = blemished \cup {<<Scenario.op, defect>>}
      BY <1>4, Zenon DEF ReceiveCall
    <3>4. QED
      BY <3>1, <3>2, <3>3, Zenon
  <2>7. ServerTypeOK' /\ HistoryTypeOK'
    BY <1>4, <2>6 DEF ReceiveCall, TypeOK, ServerTypeOK, HistoryTypeOK, server
  <2>8. QED
    BY <2>1, <2>5, <2>7 DEF TypeOK
<1>5. CASE MissingCapture
  <2>1. at \in Index
    BY <1>5 DEF MissingCapture, TypeOK, RunnerTypeOK
  <2>2. /\ step' \in {"verify", "setup", "call", "record"}
        /\ attempt' \in Nat \ {0} /\ facets' \in [Facets -> ResultType] /\ expired' \in BOOLEAN
    BY <1>5, ConcludeTypes DEF MissingCapture
  <2>3. captures' \in [Keys -> Nat] /\ decoded' \in SUBSET {"clean", "unknown field"}
    BY <1>5 DEF MissingCapture, TypeOK, RunnerTypeOK
  <2>4. RunnerTypeOK'
    BY <1>5, <2>1, <2>2, <2>3, WithinScenario DEF MissingCapture
  <2>5. CallTypeOK' /\ ServerTypeOK' /\ HistoryTypeOK'
    BY <1>5 DEF MissingCapture, TypeOK, CallTypeOK, ServerTypeOK, HistoryTypeOK, server, Idle
  <2>6. QED
    BY <2>4, <2>5 DEF TypeOK
<1>6. QED
  BY <1>1, <1>2, <1>3, <1>4, <1>5

LEMMA OutcomeTypes ==
  ASSUME RunnerTypeOK
  PROVE  Outcome \in OutcomeType
<1>1. facets \in [Facets -> ResultType]
  BY Zenon DEF RunnerTypeOK
<1>2. CASE Scenario.negative = None
  BY <1>1, <1>2 DEF Outcome, OutcomeType, Facets
<1>3. CASE Scenario.negative # None
  <2> DEFINE all == [facets EXCEPT !["media-schema"] = MediaSchema]
             verdict == IF \A f \in Facets : all[f] = "pass" THEN "pass" ELSE "fail"
  <2>1. all \in [Facets -> ResultType]
    BY <1>1 DEF MediaSchema, ResultType
  <2>2. verdict \in ResultType
    BY DEF ResultType
  <2>3. Outcome = [result |-> verdict, facet_results |-> all]
    BY <1>3 DEF Outcome
  <2> HIDE DEF all, verdict
  <2>4. QED
    BY <2>1, <2>2, <2>3 DEF OutcomeType
<1>4. QED
  BY <1>2, <1>3

\* The step from one scenario to the next.
LEMMA RecordTypes ==
  ASSUME TypeOK, Record
  PROVE  TypeOK'
<1>1. at \in Index /\ Scenario.op \in Operations
  BY ScenarioFacts DEF Record, TypeOK, RunnerTypeOK, Scenario
<1>2. outcomes' \in [Operations -> OutcomeType]
  <2>1. Outcome \in OutcomeType /\ outcomes \in [Operations -> OutcomeType]
    BY OutcomeTypes, Zenon DEF TypeOK, RunnerTypeOK
  <2>2. outcomes' = [outcomes EXCEPT ![Scenario.op] = Outcome]
    BY DEF Record
  <2>3. QED
    BY <1>1, <2>1, <2>2
<1>3. /\ at' \in 1 .. Len(Scenarios) + 1
      /\ step' \in {"negative", "setup", "call", "report"}
      /\ step' # "report" => at' \in Index /\ step' = FirstStep(at')
  BY <1>1, SequenceFacts, StepTypes DEF Record
<1>4. step' = "negative" => Scenario'.negative # None
  BY <1>3, StepTypes DEF Scenario
<1>5. /\ attempt' \in Nat \ {0} /\ decoded' \in SUBSET {"clean", "unknown field"}
      /\ facets' \in [Facets -> ResultType]
  BY DEF Record, ResultType
<1>6. /\ captures' \in [Keys -> Nat] /\ exit' \in {None, "success", "failure"}
      /\ report' \in ReportType
      /\ expired' \in BOOLEAN
  BY Zenon DEF Record, TypeOK, RunnerTypeOK
<1>7. step' \in {"negative", "verify", "setup", "call", "record", "report", "exit", "exited", "crashed"}
      /\ (at' \notin Index => step' \in {"report", "exit", "exited", "crashed"})
  BY <1>3
<1>8. RunnerTypeOK'
  BY <1>2, <1>3, <1>4, <1>5, <1>6, <1>7, Zenon DEF RunnerTypeOK
<1>9. CallTypeOK' /\ ServerTypeOK' /\ HistoryTypeOK'
  BY DEF Record, TypeOK, CallTypeOK, ServerTypeOK, HistoryTypeOK, server, Idle
<1>10. QED
  BY <1>8, <1>9 DEF TypeOK

LEMMA EndTypes ==
  ASSUME TypeOK, WriteReport \/ Exit \/ Crash
  PROVE  TypeOK'
<1>1. /\ at' = at /\ step' \in {"exit", "exited", "crashed"}
      /\ UNCHANGED <<attempt, captures, decoded, facets, expired, outcomes, call, server, timeouts, blemished>>
  BY DEF WriteReport, Exit, Crash
<1>2. report' \in ReportType
  <2>1. outcomes \in [Operations -> OutcomeType]
        /\ report \in ReportType
    BY Zenon DEF TypeOK, RunnerTypeOK
  <2>2. report' \in {report, TornReport} \/ report' = [written |-> TRUE, operations |-> outcomes]
    BY DEF WriteReport, Exit, Crash
  <2>3. [written |-> TRUE, operations |-> outcomes]
          \in [written : {TRUE}, operations : [Operations -> OutcomeType]]
    BY <2>1
  <2>4. QED
    BY <2>1, <2>2, <2>3, Zenon DEF ReportType
<1>3. exit' \in {None, "success", "failure"}
  BY Zenon DEF WriteReport, Exit, Crash, TypeOK, RunnerTypeOK
<1>4. step' # "negative"
      /\ step' \in {"negative", "verify", "setup", "call", "record", "report", "exit", "exited", "crashed"}
  BY <1>1
<1>5. at' \in 1 .. Len(Scenarios) + 1 /\ (at' \notin Index => step' \in {"report", "exit", "exited", "crashed"})
  BY <1>1, Zenon DEF TypeOK, RunnerTypeOK
<1>6. /\ attempt' \in Nat \ {0} /\ captures' \in [Keys -> Nat]
      /\ decoded' \in SUBSET {"clean", "unknown field"} /\ facets' \in [Facets -> ResultType]
      /\ expired' \in BOOLEAN /\ outcomes' \in [Operations -> OutcomeType]
  BY <1>1, Zenon DEF TypeOK, RunnerTypeOK
<1>7. RunnerTypeOK'
  BY <1>2, <1>3, <1>4, <1>5, <1>6, Zenon DEF RunnerTypeOK
<1>8. CallTypeOK' /\ ServerTypeOK' /\ HistoryTypeOK'
  BY <1>1 DEF TypeOK, CallTypeOK, ServerTypeOK, HistoryTypeOK, server, Idle
<1>9. QED
  BY <1>7, <1>8 DEF TypeOK

LEMMA ClockTypes ==
  ASSUME TypeOK, GiveUp \/ PollDeadline
  PROVE  TypeOK'
<1>1. CASE GiveUp
  <2>1. call.request \in Requests
        /\ (call.request.kind = "negative" => ScenarioOf[call.request.op].negative # None)
    BY <1>1 DEF GiveUp, TypeOK, CallTypeOK, Sent, Answered, NoCall, Idle
  <2>2. call' \in Answered /\ call'.request = call.request
    BY <1>1, <2>1, ReplyTypes DEF GiveUp, Answered
  <2>3. CallTypeOK'
    BY <2>1, <2>2 DEF CallTypeOK, Idle
  <2>4. RunnerTypeOK'
    BY <1>1 DEF GiveUp, runner, TypeOK, RunnerTypeOK, Scenario
  <2>5. late' \in SUBSET Requests
    <3>1. late \in SUBSET Requests /\ (late' = late \/ late' = late \cup {call.request})
      BY <1>1 DEF GiveUp, TypeOK, ServerTypeOK
    <3>2. QED
      BY <2>1, <3>1, Zenon
  <2>6. ServerTypeOK'
    BY <1>1, <2>5 DEF GiveUp, TypeOK, ServerTypeOK
  <2>7. HistoryTypeOK'
    BY <1>1 DEF GiveUp, TypeOK, HistoryTypeOK
  <2>8. QED
    BY <2>3, <2>4, <2>6, <2>7 DEF TypeOK
<1>2. CASE PollDeadline
  <2>1. UNCHANGED <<at, step, attempt, captures, decoded, facets, outcomes, report, exit, call, server, timeouts, blemished>>
    BY <1>2 DEF PollDeadline
  <2>2. expired' \in BOOLEAN
    BY <1>2, Zenon DEF PollDeadline
  <2>3. RunnerTypeOK'
    BY <2>1, <2>2 DEF TypeOK, RunnerTypeOK, Scenario
  <2>4. CallTypeOK' /\ ServerTypeOK' /\ HistoryTypeOK'
    BY <2>1 DEF TypeOK, CallTypeOK, ServerTypeOK, HistoryTypeOK, server, Idle
  <2>5. QED
    BY <2>3, <2>4 DEF TypeOK
<1>3. QED
  BY <1>1, <1>2

LEMMA StutterTypes ==
  ASSUME TypeOK, UNCHANGED vars
  PROVE  TypeOK'
<1>1. RunnerTypeOK'
  BY DEF vars, runner, TypeOK, RunnerTypeOK, Scenario
<1>2. CallTypeOK'
  BY DEF vars, TypeOK, CallTypeOK, Idle
<1>3. ServerTypeOK' /\ HistoryTypeOK'
  BY DEF vars, server, TypeOK, ServerTypeOK, HistoryTypeOK
<1>4. QED
  BY <1>1, <1>2, <1>3 DEF TypeOK

LEMMA StepTypeOK == TypeOK /\ [Next]_vars => TypeOK'
<1> SUFFICES ASSUME TypeOK, [Next]_vars PROVE TypeOK'
  OBVIOUS
<1>1. CASE RunnerStep
  BY <1>1, SendStepTypes, ReceiveStepTypes, RecordTypes, EndTypes DEF RunnerStep
<1>2. CASE ServerStep
  BY <1>2, ServerStepTypes
<1>3. CASE ClockStep
  BY <1>3, ClockTypes DEF ClockStep
<1>4. CASE Crash
  BY <1>4, EndTypes
<1>5. CASE Finished \/ UNCHANGED vars
  BY <1>5, StutterTypes DEF Finished
<1>6. QED
  BY <1>1, <1>2, <1>3, <1>4, <1>5 DEF Next

\* The state keeps its shape: in particular the runner never indexes a scenario past the
\* list, and a capture, a reply and an outcome are always what the next step expects.
THEOREM TypeCorrect == Spec => []TypeOK
<1>1. Init => TypeOK
  BY InitTypeOK
<1>2. TypeOK /\ [Next]_vars => TypeOK'
  BY StepTypeOK
<1>3. QED
  BY <1>1, <1>2, PTL DEF Spec
=============================================================================
