-------------------------- MODULE LaneVerdictProofs --------------------------
(***************************************************************************)
(* Proof, for every scenario list, that a lane's verdict is earned, and    *)
(* that the lane implements LanePromise.                                   *)
(*                                                                         *)
(* ZeroExitIsEarned is not inductive: the exit code is computed from       *)
(* outcomes recorded many RPCs earlier.  VerdictInv follows a pass from    *)
(* the reply that earned it, through the facet and the outcome, to the     *)
(* exit code, and says why nothing in between can take it back: an         *)
(* outstanding call is always one of the scenario being executed, which    *)
(* has no outcome yet.                                                     *)
(***************************************************************************)
EXTENDS LaneRunnerProofs

LEMMA InitVerdict == Init => VerdictInv
<1> SUFFICES ASSUME Init PROVE VerdictInv
  OBVIOUS
<1>1. CallInv /\ AnswerInv
  BY DEF Init, CallInv, AnswerInv, Idle, NoCall
<1>2. FacetInv /\ ExitInv
  BY StepTypes, SequenceFacts DEF Init, FacetInv, ExitInv, Facets, None
<1>3. OutcomeInv
  <2>1. \A op \in Operations : outcomes[op].result = None
    BY DEF Init
  <2>2. \A i \in Index : Scenarios[i].op \in Operations /\ ~(i < at)
    BY ScenarioFacts DEF Init, Index
  <2>3. QED
    BY <2>1, <2>2 DEF OutcomeInv, Passed, None
<1>4. QED
  BY <1>1, <1>2, <1>3 DEF VerdictInv

\* A step that changes nothing the invariant reads.
LEMMA FrameVerdict ==
  ASSUME VerdictInv, UNCHANGED <<at, step, facets, outcomes, report, exit, call, last, rejected>>
  PROVE  VerdictInv'
<1>1. CallInv' /\ AnswerInv' /\ FacetInv'
  BY DEF VerdictInv, CallInv, AnswerInv, FacetInv, Idle, Scenario
<1>2. OutcomeInv' /\ ExitInv'
  BY DEF VerdictInv, OutcomeInv, ExitInv, Passed, Earned
<1>3. QED
  BY <1>1, <1>2 DEF VerdictInv

\* The scenario being executed has no outcome yet, and no positive facet while a call is
\* outstanding.
LEMMA Unsettled ==
  ASSUME VerdictInv, ~Idle
  PROVE  /\ call.request.op = Scenario.op /\ at \in Index
         /\ outcomes[Scenario.op].result = None
         /\ facets["positive"] = None
         /\ ~Passed(Scenario.op)
<1>1. call.request.op = Scenario.op /\ at \in Index /\ facets["positive"] = None
  BY DEF VerdictInv, CallInv, FacetInv
<1>2. ~(at < at)
  BY <1>1 DEF Index
<1>3. outcomes[Scenario.op].result = None
  BY <1>1, <1>2 DEF VerdictInv, OutcomeInv, Scenario
<1>4. QED
  BY <1>1, <1>3 DEF Passed, None

LEMMA SendVerdict ==
  ASSUME TypeOK, VerdictInv, NEW kind \in Kinds, NEW job, Send(kind, job)
  PROVE  VerdictInv'
<1>1. /\ UNCHANGED <<at, step, facets, outcomes, report, exit, last, rejected>>
      /\ step \in Kinds /\ step = kind
      /\ call' = [phase |-> "sent", request |-> [op |-> Scenario.op, kind |-> kind, job |-> job]]
  BY DEF Send, runner, server
<1>2. at \in Index /\ facets["positive"] = None
  BY <1>1 DEF TypeOK, RunnerTypeOK, VerdictInv, FacetInv, Kinds
<1>3. CallInv' /\ AnswerInv'
  BY <1>1, <1>2 DEF CallInv, AnswerInv, Scenario
<1>4. FacetInv'
  BY <1>1, <1>2 DEF VerdictInv, FacetInv, Scenario, Kinds, None
<1>5. OutcomeInv' /\ ExitInv'
  BY <1>1 DEF VerdictInv, OutcomeInv, ExitInv, Passed, Earned
<1>6. QED
  BY <1>3, <1>4, <1>5 DEF VerdictInv

\* A reply settles nothing by itself, and cannot take back an earlier pass.
LEMMA ReplyVerdict ==
  ASSUME TypeOK, VerdictInv, call.phase = "sent", NEW y, Reply(call.request, y), UNCHANGED runner
  PROVE  VerdictInv'
<1> DEFINE r == call.request
<1>1. /\ UNCHANGED <<at, step, facets, outcomes, report, exit>>
      /\ call' = [phase |-> "answered", request |-> r, reply |-> y]
  BY DEF runner, Reply
<1>2. ~Idle /\ r \in Requests /\ r.op \in Operations
  BY DEF Idle, TypeOK, CallTypeOK, NoCall, Sent, Answered, Requests
<1>3. /\ r.op = Scenario.op /\ at \in Index /\ facets["positive"] = None /\ ~Passed(Scenario.op)
      /\ step \in {r.kind, "crashed"}
  BY <1>2, Unsettled DEF VerdictInv, CallInv
<1>4. CallInv'
  BY <1>1, <1>3 DEF CallInv, Scenario
<1>5. AnswerInv'
  <2>1. r.kind = "call" /\ y.good => last'[r.op] = "good"
    BY <1>2 DEF Reply, Verdict, TypeOK, HistoryTypeOK
  <2>2. r.kind = "negative" /\ y.status = ScenarioOf[r.op].negative => r.op \in rejected'
    BY DEF Reply
  <2>3. call'.request = r /\ call'.reply = y
    BY <1>1
  <2> HIDE DEF r
  <2>4. QED
    BY <2>1, <2>2, <2>3, Zenon DEF AnswerInv
<1>6. rejected \subseteq rejected' /\ \A op \in Operations : op # r.op => last'[op] = last[op]
  BY DEF Reply, TypeOK, HistoryTypeOK
<1>7. FacetInv'
  BY <1>1, <1>2, <1>3, <1>6 DEF VerdictInv, FacetInv, Scenario, Idle, None
<1>8. OutcomeInv'
  BY <1>1, <1>3, <1>6 DEF VerdictInv, OutcomeInv, Passed, Earned
<1>9. ExitInv'
  BY <1>1 DEF VerdictInv, ExitInv, Passed
<1>10. QED
  BY <1>4, <1>5, <1>7, <1>8, <1>9 DEF VerdictInv

LEMMA ServerVerdict ==
  ASSUME TypeOK, VerdictInv, ServerStep
  PROVE  VerdictInv'
<1>1. CASE Serve
  BY <1>1, ReplyVerdict DEF Serve
<1>2. CASE ServeWrongly
  <2>1. \E y : Reply(call.request, y)
    BY <1>2, Zenon DEF ServeWrongly, ReplyWrongly
  <2>2. call.phase = "sent" /\ UNCHANGED runner
    BY <1>2 DEF ServeWrongly
  <2>3. QED
    BY <2>1, <2>2, ReplyVerdict
<1>3. CASE ServeLate \/ JobEnds
  BY <1>3, FrameVerdict DEF ServeLate, JobEnds, runner
<1>4. QED
  BY <1>1, <1>2, <1>3 DEF ServerStep

\* A lost reply earns nothing.
LEMMA GiveUpVerdict ==
  ASSUME TypeOK, VerdictInv, GiveUp
  PROVE  VerdictInv'
<1>1. /\ UNCHANGED <<at, step, facets, outcomes, report, exit, last, rejected>>
      /\ call' = [phase |-> "answered", request |-> call.request, reply |-> Status("DEADLINE_EXCEEDED")]
  BY DEF GiveUp, runner
<1>2. ~Idle /\ call.request \in Requests
  BY DEF GiveUp, Idle, TypeOK, CallTypeOK, NoCall, Sent, Answered
<1>3. /\ call.request.op = Scenario.op /\ at \in Index /\ facets["positive"] = None
      /\ step \in {call.request.kind, "crashed"}
  BY <1>2, Unsettled DEF VerdictInv, CallInv
<1>4. ScenarioOf[call.request.op].negative # "DEADLINE_EXCEEDED"
  BY <1>2, OperationFacts DEF Requests, ScenarioType, Errors, Race, None
<1>5. CallInv' /\ AnswerInv'
  BY <1>1, <1>3, <1>4 DEF CallInv, AnswerInv, Scenario, Status, Failure
<1>6. FacetInv'
  BY <1>1, <1>2, <1>3 DEF VerdictInv, FacetInv, Scenario, None
<1>7. OutcomeInv' /\ ExitInv'
  BY <1>1 DEF VerdictInv, OutcomeInv, ExitInv, Passed, Earned
<1>8. QED
  BY <1>5, <1>6, <1>7 DEF VerdictInv

\* A step of the runner within a scenario: only the facets are left to be shown.
LEMMA WithinVerdict ==
  ASSUME TypeOK, VerdictInv, step \in Kinds, step' \in {"verify", "setup", "call", "record"},
         Idle', UNCHANGED <<at, outcomes, report, exit, last, rejected>>,
         FacetInv'
  PROVE  VerdictInv'
<1>1. CallInv' /\ AnswerInv'
  BY DEF CallInv, AnswerInv, Idle
<1>2. OutcomeInv'
  BY DEF VerdictInv, OutcomeInv, Passed, Earned
<1>3. ExitInv'
  <2>1. exit = None
    BY DEF VerdictInv, ExitInv, Kinds
  <2>2. QED
    BY <2>1 DEF ExitInv, None
<1>4. QED
  BY <1>1, <1>2, <1>3 DEF VerdictInv

\* A verdict that is earned keeps the facets true.
LEMMA ConcludeFacets ==
  ASSUME TypeOK, VerdictInv, step \in Kinds, Idle', UNCHANGED <<at, last, rejected>>,
         NEW verdict \in {"pass", "fail"}, Conclude(verdict),
         verdict = "pass" => last[Scenario.op] = "good"
  PROVE  FacetInv' /\ step' = "record"
<1>1. at \in Index
  BY DEF TypeOK, RunnerTypeOK, Kinds
<1>2. facets' = [facets EXCEPT !["positive"] = verdict] /\ step' = "record"
  BY DEF Conclude, Settle
<1>3. facets'["positive"] = verdict /\ facets'["negative"] = facets["negative"]
  <2>1. facets \in [Facets -> ResultType]
    BY Zenon DEF TypeOK, RunnerTypeOK
  <2>2. QED
    BY <1>2, <2>1 DEF Facets
<1>4. QED
  BY <1>1, <1>2, <1>3 DEF FacetInv, VerdictInv, Scenario, None

LEMMA ReceiveVerdict ==
  ASSUME TypeOK, VerdictInv,
         ReceiveNegative \/ ReceiveVerify \/ ReceiveSetup \/ ReceiveCall \/ MissingCapture
  PROVE  VerdictInv'
<1> USE DEF Kinds
<1>1. facets \in [Facets -> ResultType] /\ "positive" \in Facets /\ "negative" \in Facets
  BY Zenon DEF TypeOK, RunnerTypeOK, Facets
<1>2. step \in Kinds /\ at \in Index /\ facets["positive"] = None
  <2>1. step \in Kinds
    BY DEF ReceiveNegative, ReceiveVerify, ReceiveSetup, ReceiveCall, MissingCapture, Receive
  <2>2. QED
    BY <2>1 DEF TypeOK, RunnerTypeOK, VerdictInv, FacetInv
<1>3. UNCHANGED <<at, outcomes, report, exit, last, rejected>> /\ Idle'
  <2>1. UNCHANGED <<at, outcomes, report, exit, last, rejected>>
    BY DEF ReceiveNegative, ReceiveVerify, ReceiveSetup, ReceiveCall, MissingCapture, server
  <2>2. call' = NoCall \/ (Idle /\ call' = call)
    BY DEF ReceiveNegative, ReceiveVerify, ReceiveSetup, ReceiveCall, MissingCapture, Receive
  <2>3. QED
    BY <2>1, <2>2 DEF Idle, NoCall
<1>4. call.phase = "answered" =>
        /\ call.request.op = Scenario.op /\ step = call.request.kind
        /\ ScenarioOf[Scenario.op] = Scenario
  BY <1>2, ScenarioFacts DEF VerdictInv, CallInv, Idle, Scenario
<1>5. CASE ReceiveNegative
  <2>1. Answer.status = Scenario.negative => Scenario.op \in rejected
    BY <1>4, <1>5 DEF ReceiveNegative, Receive, Answer, VerdictInv, AnswerInv
  <2>2. /\ facets'["positive"] = None
        /\ facets'["negative"] = "pass" \/ step' = "verify"
             => Answer.status = Scenario.negative \/ facets["negative"] = "pass"
        /\ step' \in {"verify", "setup", "call"}
    BY <1>1, <1>2, <1>5, StepTypes DEF ReceiveNegative, Settle
  <2>3. FacetInv'
    BY <1>2, <1>3, <2>1, <2>2 DEF FacetInv, VerdictInv, Scenario, None
  <2>4. QED
    BY <1>2, <1>3, <2>2, <2>3, WithinVerdict
<1>6. CASE ReceiveVerify
  <2>1. Scenario.op \in rejected
    BY <1>6 DEF ReceiveVerify, Receive, VerdictInv, FacetInv
  <2>2. facets'["positive"] = None /\ step' \in {"setup", "call"}
    BY <1>1, <1>2, <1>6, StepTypes DEF ReceiveVerify, Settle
  <2>3. FacetInv'
    BY <1>2, <1>3, <2>1, <2>2 DEF FacetInv, Scenario, None
  <2>4. QED
    BY <1>2, <1>3, <2>2, <2>3, WithinVerdict
<1>7. ASSUME UNCHANGED facets, step' \in {"setup", "call"}
      PROVE  VerdictInv'
  <2>1. FacetInv'
    BY <1>2, <1>3, <1>7 DEF FacetInv, VerdictInv, Scenario, None
  <2>2. QED
    BY <1>2, <1>3, <1>7, <2>1, WithinVerdict
<1>8. ASSUME NEW verdict \in {"pass", "fail"}, Conclude(verdict),
             verdict = "pass" => last[Scenario.op] = "good"
      PROVE  VerdictInv'
  <2>1. FacetInv' /\ step' = "record"
    BY <1>2, <1>3, <1>8, ConcludeFacets
  <2>2. QED
    BY <1>2, <1>3, <2>1, WithinVerdict
<1>9. ASSUME NEW status, Raise(status)
      PROVE  VerdictInv'
  <2>1. (UNCHANGED facets /\ step' = PositiveStep) \/ Conclude("fail")
    BY <1>9 DEF Raise
  <2>2. QED
    BY <2>1, <1>7, <1>8, StepTypes
<1>10. CASE ReceiveSetup
  <2>1. \/ Raise(Answer.status) \/ Conclude("fail")
        \/ UNCHANGED facets /\ step' = "call"
    BY <1>10 DEF ReceiveSetup
  <2>2. QED
    BY <2>1, <1>7, <1>8, <1>9
<1>11. CASE ReceiveCall
  <2>1. \/ Raise(Answer.status) \/ CaptureAndCompare
        \/ UNCHANGED <<facets, step>>
    BY <1>11 DEF ReceiveCall
  <2>2. step = "call" /\ call.phase = "answered"
    BY <1>11 DEF ReceiveCall, Receive
  <2>3. ASSUME CaptureAndCompare
        PROVE  VerdictInv'
    <3>1. Answer.good => last[Scenario.op] = "good"
      BY <1>4, <2>2 DEF VerdictInv, AnswerInv, Answer
    <3>2. \E verdict \in {"pass", "fail"} :
            Conclude(verdict) /\ (verdict = "pass" => Answer.good)
      BY <2>3, Zenon DEF CaptureAndCompare
    <3>3. QED
      BY <3>1, <3>2, <1>8
  <2>4. QED
    BY <2>1, <2>2, <2>3, <1>7, <1>9
<1>12. CASE MissingCapture
  BY <1>12, <1>8 DEF MissingCapture
<1>13. QED
  BY <1>5, <1>6, <1>10, <1>11, <1>12

\* What is recorded for the scenario at hand.
LEMMA OutcomeVerdict ==
  ASSUME TypeOK, VerdictInv, step = "record"
  PROVE  /\ Outcome.result \in {"pass", "fail"}
         /\ Outcome.result = "pass" => Earned(Scenario.op)
         /\ at \in Index /\ Idle
<1>1. at \in Index /\ Idle /\ facets["positive"] # None
  BY DEF VerdictInv, FacetInv
<1>2. facets \in [Facets -> ResultType]
  BY Zenon DEF TypeOK, RunnerTypeOK
<1>3. ScenarioOf[Scenario.op] = Scenario
  BY <1>1, ScenarioFacts DEF Scenario
<1>4. CASE Scenario.negative = None
  BY <1>1, <1>2, <1>3, <1>4 DEF Outcome, ResultType, Facets, VerdictInv, FacetInv, Earned
<1>5. CASE Scenario.negative # None
  <2> DEFINE all == [facets EXCEPT !["media-schema"] = MediaSchema]
  <2>1. Outcome.result = IF \A f \in Facets : all[f] = "pass" THEN "pass" ELSE "fail"
    BY <1>5 DEF Outcome
  <2>2. all["positive"] = facets["positive"] /\ all["negative"] = facets["negative"]
    BY <1>2 DEF Facets
  <2> HIDE DEF all
  <2>3. QED
    BY <1>1, <1>3, <2>1, <2>2 DEF Facets, VerdictInv, FacetInv, Earned
<1>6. QED
  BY <1>1, <1>4, <1>5

LEMMA RecordVerdict ==
  ASSUME TypeOK, VerdictInv, Record
  PROVE  VerdictInv'
<1>1. /\ at \in Index /\ Idle /\ Scenario.op \in Operations
      /\ Outcome.result \in {"pass", "fail"}
      /\ Outcome.result = "pass" => Earned(Scenario.op)
  BY OutcomeVerdict, ScenarioFacts DEF Record, Scenario
<1>2. /\ UNCHANGED <<report, exit, call, last, rejected>>
      /\ at' = at + 1 /\ facets' = [f \in Facets |-> None]
      /\ step' = IF at = Len(Scenarios) THEN "report" ELSE FirstStep(at + 1)
  BY DEF Record, server
<1>3. \A op \in Operations : outcomes'[op] = IF op = Scenario.op THEN Outcome ELSE outcomes[op]
  <2>1. outcomes \in [Operations -> OutcomeType]
    BY Zenon DEF TypeOK, RunnerTypeOK
  <2>2. outcomes' = [outcomes EXCEPT ![Scenario.op] = Outcome]
    BY DEF Record
  <2>3. QED
    BY <2>1, <2>2
<1>4. CallInv' /\ AnswerInv'
  BY <1>1, <1>2 DEF CallInv, AnswerInv, Idle
<1>5. FacetInv'
  <2>1. facets'["positive"] = None /\ facets'["negative"] = None
    BY <1>2 DEF Facets
  <2>2. step' \in {"negative", "setup", "call", "report"}
    BY <1>1, <1>2, StepTypes, SequenceFacts
  <2>3. QED
    BY <2>1, <2>2 DEF FacetInv, None
<1>6. OutcomeInv'
  <2>1. ASSUME NEW i \in Index
        PROVE  outcomes'[Scenarios[i].op].result # None <=> i < at'
    <3>1. CASE i = at
      BY <1>1, <1>2, <1>3, <3>1 DEF Scenario, None, Index
    <3>2. CASE i # at
      <4>1. Scenarios[i].op # Scenario.op /\ Scenarios[i].op \in Operations
        BY <1>1, <3>2, ScenariosAssumption, ScenarioFacts DEF Scenario
      <4>2. i < at' <=> i < at
        BY <1>1, <1>2, <3>2, SequenceFacts DEF Index
      <4>3. QED
        BY <1>3, <4>1, <4>2 DEF VerdictInv, OutcomeInv
    <3>3. QED
      BY <3>1, <3>2
  <2>2. ASSUME NEW op \in Operations, Passed(op)'
        PROVE  Earned(op)'
    BY <1>1, <1>2, <1>3, <2>2 DEF Passed, Earned, VerdictInv, OutcomeInv
  <2>3. QED
    BY <2>1, <2>2 DEF OutcomeInv
<1>7. ExitInv'
  <2>1. exit = None /\ exit' = None
    BY <1>2 DEF Record, VerdictInv, ExitInv
  <2>2. step' \in {"negative", "setup", "call", "report"} /\ (step' = "report" => at = Len(Scenarios))
    BY <1>1, <1>2, StepTypes, SequenceFacts
  <2>3. QED
    BY <1>2, <2>1, <2>2 DEF ExitInv, None
<1>8. QED
  BY <1>4, <1>5, <1>6, <1>7 DEF VerdictInv

LEMMA WriteReportVerdict ==
  ASSUME TypeOK, VerdictInv, WriteReport
  PROVE  VerdictInv'
<1>1. /\ UNCHANGED <<at, facets, outcomes, exit, call, last, rejected>>
      /\ step = "report" /\ step' = "exit" /\ report' = [written |-> TRUE, operations |-> outcomes]
  BY DEF WriteReport, server
<1>2. Idle /\ at = Len(Scenarios) + 1 /\ exit = None
  <2>1. ~Idle => call.request.kind \in Kinds
    BY DEF TypeOK, CallTypeOK, NoCall, Sent, Answered, Requests, Idle
  <2>2. QED
    BY <1>1, <2>1 DEF VerdictInv, CallInv, ExitInv, Kinds
<1>3. CallInv' /\ AnswerInv'
  BY <1>1, <1>2 DEF CallInv, AnswerInv, Idle
<1>4. FacetInv' /\ OutcomeInv'
  BY <1>1 DEF VerdictInv, FacetInv, OutcomeInv, Scenario, Passed, Earned, Idle
<1>5. ExitInv'
  BY <1>1, <1>2 DEF ExitInv, None
<1>6. QED
  BY <1>3, <1>4, <1>5 DEF VerdictInv

LEMMA ExitVerdict ==
  ASSUME TypeOK, VerdictInv, Exit
  PROVE  VerdictInv'
<1>1. /\ UNCHANGED <<at, facets, outcomes, report, call, last, rejected>>
      /\ step = "exit" /\ step' = "exited"
      /\ report = [written |-> TRUE, operations |-> outcomes]
      /\ exit' = IF \E op \in Operations \ Excluded : Failed(op) THEN "failure" ELSE "success"
  BY DEF Exit, server, Failed, VerdictInv, ExitInv
<1>2. Idle /\ at = Len(Scenarios) + 1
  <2>1. ~Idle => call.request.kind \in Kinds
    BY DEF TypeOK, CallTypeOK, NoCall, Sent, Answered, Requests, Idle
  <2>2. QED
    BY <1>1, <2>1 DEF VerdictInv, CallInv, ExitInv, Kinds
<1>3. CallInv' /\ AnswerInv'
  BY <1>1, <1>2 DEF CallInv, AnswerInv, Idle
<1>4. FacetInv' /\ OutcomeInv'
  BY <1>1 DEF VerdictInv, FacetInv, OutcomeInv, Scenario, Passed, Earned, Idle
<1>5. \A op \in Operations : Passed(op) \/ Failed(op)
  <2>1. ASSUME NEW op \in Operations
        PROVE  Passed(op) \/ Failed(op)
    <3>1. PICK i \in Index : op = Scenarios[i].op
      BY OperationFacts
    <3>2. i < at
      BY <1>2, SequenceFacts DEF Index
    <3>3. outcomes[op].result # None
      BY <3>1, <3>2 DEF VerdictInv, OutcomeInv
    <3>4. outcomes[op].result \in ResultType
      <4>1. outcomes \in [Operations -> OutcomeType]
        BY Zenon DEF TypeOK, RunnerTypeOK
      <4>2. QED
        BY <4>1 DEF OutcomeType
    <3>5. QED
      BY <3>3, <3>4 DEF Passed, Failed, ResultType
  <2>2. QED
    BY <2>1
<1>6. exit' = "success" => \A op \in Operations \ Excluded : Passed(op)'
  <2>1. \A op \in Operations : Passed(op)' <=> Passed(op)
    BY <1>1 DEF Passed
  <2>2. QED
    BY <1>1, <1>5, <2>1
<1>7. ExitInv'
  BY <1>1, <1>2, <1>6 DEF ExitInv, None
<1>8. QED
  BY <1>3, <1>4, <1>7 DEF VerdictInv

LEMMA CrashVerdict ==
  ASSUME TypeOK, VerdictInv, Crash
  PROVE  VerdictInv'
<1>1. /\ UNCHANGED <<at, facets, outcomes, call, last, rejected>>
      /\ step' = "crashed" /\ exit' = "failure"
  BY DEF Crash, server
<1>2. CallInv' /\ AnswerInv'
  BY <1>1 DEF VerdictInv, CallInv, AnswerInv, Idle, Scenario
<1>3. FacetInv' /\ OutcomeInv' /\ ExitInv'
  BY <1>1 DEF VerdictInv, FacetInv, OutcomeInv, ExitInv, Scenario, Passed, Earned, Idle, None
<1>4. QED
  BY <1>2, <1>3 DEF VerdictInv

LEMMA StepVerdict == TypeOK /\ VerdictInv /\ [Next]_vars => VerdictInv'
<1> SUFFICES ASSUME TypeOK, VerdictInv, [Next]_vars PROVE VerdictInv'
  OBVIOUS
<1>1. CASE SendNegative \/ SendVerify \/ SendSetup \/ SendCall
  BY <1>1, SendVerdict DEF SendNegative, SendVerify, SendSetup, SendCall, Kinds
<1>2. CASE RunnerStep /\ ~(SendNegative \/ SendVerify \/ SendSetup \/ SendCall)
  BY <1>2, ReceiveVerdict, RecordVerdict, WriteReportVerdict, ExitVerdict DEF RunnerStep
<1>3. CASE ServerStep
  BY <1>3, ServerVerdict
<1>4. CASE GiveUp
  BY <1>4, GiveUpVerdict
<1>5. CASE PollDeadline \/ Finished \/ UNCHANGED vars
  BY <1>5, FrameVerdict DEF PollDeadline, Finished, vars, runner, server
<1>6. CASE Crash
  BY <1>6, CrashVerdict
<1>7. QED
  BY <1>1, <1>2, <1>3, <1>4, <1>5, <1>6 DEF Next, ClockStep

\* A pass is kept true from the reply that earned it to the exit code.
THEOREM VerdictInvariant == Spec => []VerdictInv
<1>1. Init => VerdictInv
  BY InitVerdict
<1>2. TypeOK /\ VerdictInv /\ [Next]_vars => VerdictInv'
  BY StepVerdict
<1>3. QED
  BY <1>1, <1>2, TypeCorrect, PTL DEF Spec

\* Exit code 0 of main() means that the report is written and that every governed
\* operation was answered and rejected by the server as the fixtures say.
THEOREM ZeroExit == Spec => []ZeroExitIsEarned
<1>1. VerdictInv => ZeroExitIsEarned
  BY DEF VerdictInv, ExitInv, OutcomeInv, ZeroExitIsEarned
<1>2. QED
  BY <1>1, VerdictInvariant, PTL

-----------------------------------------------------------------------------
(* The lane implements LanePromise.                                        *)

EarnedSet == {op \in Operations : Earned(op)}
Results == [op \in Operations |-> outcomes[op].result]

LEMMA PromiseInit == Init => Promise!Init
<1> SUFFICES ASSUME Init PROVE Promise!Init
  OBVIOUS
<1>1. EarnedSet = {}
  BY DEF Init, EarnedSet, Earned, None
<1>2. Results = [op \in Operations |-> "none"]
  BY DEF Init, Results, None
<1>3. exit = "none"
  BY DEF Init, None
<1>4. QED
  BY <1>1, <1>2, <1>3 DEF Promise!Init, EarnedSet, Results

\* Steps the promise does not see.
LEMMA PromiseStutter ==
  ASSUME UNCHANGED <<outcomes, exit, last, rejected>>
  PROVE  UNCHANGED Promise!vars
<1>1. EarnedSet' = EarnedSet
  BY DEF EarnedSet, Earned
<1>2. Results' = Results
  BY DEF Results
<1>3. QED
  BY <1>1, <1>2 DEF Promise!vars, EarnedSet, Results

\* A reply is an observation of the scenario being executed.
LEMMA ReplyIsObserved ==
  ASSUME TypeOK, VerdictInv, call.phase = "sent", NEW y, Reply(call.request, y), UNCHANGED runner
  PROVE  \E op \in Operations : Promise!Observe(op)
<1> PICK op \in Operations : op = call.request.op
  BY DEF Idle, TypeOK, CallTypeOK, NoCall, Sent, Answered, Requests
<1>1. ~Idle
  BY DEF Idle
<1>2. outcomes[op].result = "none"
  BY <1>1, Unsettled DEF None
<1>3. UNCHANGED <<outcomes, exit>>
  BY DEF runner
<1>4. \A o \in Operations : o # op => (Earned(o)' <=> Earned(o))
  BY DEF Reply, Earned, TypeOK, HistoryTypeOK
<1>5. EarnedSet' \in {EarnedSet \cup {op}, EarnedSet \ {op}}
  <2>1. CASE Earned(op)'
    <3>1. EarnedSet' = EarnedSet \cup {op}
      BY <1>4, <2>1 DEF EarnedSet
    <3>2. QED
      BY <3>1
  <2>2. CASE ~Earned(op)'
    <3>1. EarnedSet' = EarnedSet \ {op}
      BY <1>4, <2>2 DEF EarnedSet
    <3>2. QED
      BY <3>1
  <2>3. QED
    BY <2>1, <2>2
<1>6. Results' = Results /\ Results[op] = "none"
  BY <1>1, <1>2, <1>3 DEF Results
<1>7. Promise!Observe(op)
  BY <1>3, <1>5, <1>6 DEF Promise!Observe, EarnedSet, Results
<1>8. QED
  BY <1>7

LEMMA RecordSettles ==
  ASSUME TypeOK, VerdictInv, Record
  PROVE  \E op \in Operations : Promise!Settle(op)
<1> PICK op \in Operations : op = Scenario.op
  BY OutcomeVerdict, ScenarioFacts DEF Record, Scenario
<1>1. /\ at \in Index
      /\ Outcome.result \in {"pass", "fail"}
      /\ Outcome.result = "pass" => Earned(op)
  BY OutcomeVerdict DEF Record
<1>2. exit = "none" /\ UNCHANGED <<exit, last, rejected>>
  BY DEF Record, server, VerdictInv, ExitInv, None
<1>3. EarnedSet' = EarnedSet
  BY <1>2 DEF EarnedSet, Earned
<1>4. Results[op] = "none"
  <2>1. ~(at < at)
    BY <1>1 DEF Index
  <2>2. QED
    BY <1>1, <2>1 DEF Results, VerdictInv, OutcomeInv, Scenario, None
<1>5. Results' = [Results EXCEPT ![op] = Outcome.result]
  <2>1. outcomes' = [outcomes EXCEPT ![Scenario.op] = Outcome]
    BY DEF Record
  <2>2. outcomes \in [Operations -> OutcomeType]
    BY Zenon DEF TypeOK, RunnerTypeOK
  <2>3. QED
    BY <1>1, <2>1, <2>2 DEF Results
<1>6. Outcome.result = "pass" => op \in EarnedSet
  BY <1>1 DEF EarnedSet
<1>7. Promise!Settle(op)
  BY <1>1, <1>2, <1>3, <1>4, <1>5, <1>6 DEF Promise!Settle, EarnedSet, Results
<1>8. QED
  BY <1>7

LEMMA ExitCloses ==
  ASSUME TypeOK, VerdictInv, Exit
  PROVE  Promise!Close
<1>1. /\ UNCHANGED <<outcomes, last, rejected>> /\ at = Len(Scenarios) + 1
      /\ exit = "none"
      /\ exit' = IF \E op \in Operations \ Excluded : outcomes[op].result = "fail" THEN "failure" ELSE "success"
  BY DEF Exit, server, VerdictInv, ExitInv, None
<1>2. EarnedSet' = EarnedSet /\ Results' = Results
  BY <1>1 DEF EarnedSet, Earned, Results
<1>3. \A op \in Operations : Results[op] = outcomes[op].result
  BY DEF Results
<1>4. \A op \in Operations : Results[op] # "none"
  <2>1. ASSUME NEW op \in Operations
        PROVE  Results[op] # "none"
    <3>1. PICK i \in Index : op = Scenarios[i].op
      BY OperationFacts
    <3>2. i < at
      BY <1>1, SequenceFacts DEF Index
    <3>3. QED
      BY <1>3, <3>1, <3>2 DEF VerdictInv, OutcomeInv, None
  <2>2. QED
    BY <2>1
<1>5. exit' = IF \E op \in Operations \ Excluded : Results[op] = "fail" THEN "failure" ELSE "success"
  BY <1>1, <1>3
<1>6. QED
  BY <1>1, <1>2, <1>4, <1>5 DEF Promise!Close, EarnedSet, Results

LEMMA CrashDies ==
  ASSUME VerdictInv, Crash
  PROVE  Promise!Die
<1>1. exit = "none" /\ exit' = "failure" /\ UNCHANGED <<outcomes, last, rejected>>
  BY DEF Crash, server, VerdictInv, ExitInv, None
<1>2. EarnedSet' = EarnedSet /\ Results' = Results
  BY <1>1 DEF EarnedSet, Earned, Results
<1>3. QED
  BY <1>1, <1>2 DEF Promise!Die, EarnedSet, Results

LEMMA PromiseStep == TypeOK /\ VerdictInv /\ [Next]_vars => [Promise!Next]_(Promise!vars)
<1> SUFFICES ASSUME TypeOK, VerdictInv, [Next]_vars
             PROVE  Promise!Next \/ UNCHANGED Promise!vars
  OBVIOUS
<1>1. CASE Serve
  <2>1. \E y : Reply(call.request, y)
    BY <1>1, Zenon DEF Serve
  <2>2. call.phase = "sent" /\ UNCHANGED runner
    BY <1>1 DEF Serve
  <2>3. QED
    BY <2>1, <2>2, ReplyIsObserved DEF Promise!Next
<1>2. CASE ServeWrongly
  <2>1. \E y : Reply(call.request, y)
    BY <1>2, Zenon DEF ServeWrongly, ReplyWrongly
  <2>2. call.phase = "sent" /\ UNCHANGED runner
    BY <1>2 DEF ServeWrongly
  <2>3. QED
    BY <2>1, <2>2, ReplyIsObserved DEF Promise!Next
<1>3. CASE Record
  BY <1>3, RecordSettles DEF Promise!Next
<1>4. CASE Exit
  BY <1>4, ExitCloses DEF Promise!Next
<1>5. CASE Crash
  BY <1>5, CrashDies DEF Promise!Next
<1>6. CASE SendNegative \/ SendVerify \/ SendSetup \/ SendCall
  BY <1>6, PromiseStutter DEF SendNegative, SendVerify, SendSetup, SendCall, Send, runner, server
<1>7. CASE ReceiveNegative \/ ReceiveVerify \/ ReceiveSetup \/ ReceiveCall \/ MissingCapture
             \/ WriteReport
  BY <1>7, PromiseStutter
     DEF ReceiveNegative, ReceiveVerify, ReceiveSetup, ReceiveCall, MissingCapture, WriteReport, server
<1>8. CASE ServeLate \/ JobEnds \/ GiveUp \/ PollDeadline
  BY <1>8, PromiseStutter DEF ServeLate, JobEnds, GiveUp, PollDeadline, runner, server
<1>9. CASE Finished \/ UNCHANGED vars
  BY <1>9, PromiseStutter DEF Finished, vars, runner, server
<1>10. QED
  BY <1>1, <1>2, <1>3, <1>4, <1>5, <1>6, <1>7, <1>8, <1>9 DEF Next, RunnerStep, ServerStep, ClockStep

\* Every run of the lane, with its retries, polls, lost replies and crashes, is a run of
\* LanePromise.
THEOREM LaneImplementsPromise == Spec => ImplementsPromise
<1>1. Init => Promise!Init
  BY PromiseInit
<1>2. TypeOK /\ VerdictInv /\ [Next]_vars => [Promise!Next]_(Promise!vars)
  BY PromiseStep
<1>3. QED
  BY <1>1, <1>2, TypeCorrect, VerdictInvariant, PTL DEF Spec, ImplementsPromise, Promise!Spec
=============================================================================
