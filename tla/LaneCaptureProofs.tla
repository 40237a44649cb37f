------------------------- MODULE LaneCaptureProofs -------------------------
(***************************************************************************)
(* Proofs about the ids a lane carries from one scenario to another: the   *)
(* captures are the ids the server assigned last, ids of different         *)
(* captures are different, and a job operation that has passed has done to *)
(* the captured job what it says.                                          *)
(*                                                                         *)
(* They need the scenario list to be what the committed one is: one        *)
(* provider for each capture, job operations that name a captured job      *)
(* (OneProvider, JobsAreNamed).                                            *)
(***************************************************************************)
EXTENDS LaneVerdictProofs

-----------------------------------------------------------------------------
(* What the steps do, told once for all the invariants.                    *)

\* An outstanding call is one of the scenario at hand.
LEMMA CallShape ==
  ASSUME TypeOK, VerdictInv, ~Idle
  PROVE  /\ call.request \in Requests /\ call.request.kind \in Kinds
         /\ at \in Index /\ Scenario.op \in Operations /\ Scenario \in ScenarioType
         /\ call.request.op = Scenario.op /\ ScenarioOf[Scenario.op] = Scenario
         /\ step \in {call.request.kind, "crashed"}
         /\ facets["positive"] = None
         /\ KeyOf(call.request) = IF call.request.kind = "setup" THEN Scenario.setup
                                  ELSE IF call.request.kind = "call" THEN Scenario.key ELSE None
         /\ KeyOf(call.request) # None => KeyOf(call.request) \in Keys
         /\ Scenario.needs # None => Scenario.needs \in Keys
<1>1. call.request \in Requests /\ call.request.kind \in Kinds
  BY DEF TypeOK, CallTypeOK, NoCall, Sent, Answered, Idle, Requests
<1>2. /\ at \in Index /\ call.request.op = Scenario.op /\ facets["positive"] = None
      /\ step \in {call.request.kind, "crashed"}
  BY Unsettled DEF VerdictInv, CallInv
<1>3. /\ Scenario.op \in Operations /\ Scenario \in ScenarioType /\ ScenarioOf[Scenario.op] = Scenario
      /\ Scenario.setup # None => Scenario.setup \in Keys
      /\ Scenario.key # None => Scenario.key \in Keys
      /\ Scenario.needs # None => Scenario.needs \in Keys
  BY <1>2, ScenarioFacts DEF Scenario
<1>4. QED
  BY <1>1, <1>2, <1>3 DEF KeyOf

\* A reply the server gives, and what the server did: an id, or a conforming result, is
\* given only for what was done.
Served(y, done) ==
  /\ Reply(call.request, y)
  /\ jobs' = IF done THEN JobsAfter(call.request) ELSE jobs
  /\ layer' = IF done THEN LayerAfter(call.request) ELSE layer
  /\ y.good => done /\ Conforming(call.request).good /\ y.job = Conforming(call.request).job
  /\ y.job # NoJob => done /\ y.job = Conforming(call.request).job
  /\ y.status = "OK" /\ ~y.known => y.some

LEMMA ReplyFields ==
  /\ \A code : /\ Status(code).job = NoJob /\ Status(code).good = FALSE /\ Status(code).known = TRUE
               /\ Status(code).status = code
  /\ \A good, terminal, known, job :
       /\ Message(good, terminal, known, job).job = job /\ Message(good, terminal, known, job).good = good
       /\ Message(good, terminal, known, job).some = TRUE /\ Message(good, terminal, known, job).known = known
       /\ Message(good, terminal, known, job).terminal = terminal
       /\ Message(good, terminal, known, job).status = "OK"
  /\ Undecodable.job = NoJob /\ Undecodable.good = FALSE /\ Undecodable.status = "INTERNAL"
  /\ EmptyStream.job = NoJob /\ EmptyStream.good = FALSE /\ EmptyStream.known = TRUE
BY DEF Status, Message, Failure, Undecodable, EmptyStream

\* A conforming reply is decodable.
LEMMA ConformingKnown ==
  ASSUME NEW r
  PROVE  Conforming(r).known = TRUE
<1>1. JobReply(r).known = TRUE
  BY DEF JobReply, Message, Status, Failure
<1>2. QED
  BY <1>1 DEF Conforming, Message, Status, Failure

LEMMA ServedStep ==
  ASSUME TypeOK, Serve \/ ServeWrongly
  PROVE  /\ call.phase = "sent" /\ UNCHANGED <<runner, late, timeouts, blemished>>
         /\ \E y \in Replies, done \in BOOLEAN : Served(y, done)
         /\ faults' = faults => \E done \in BOOLEAN :
              /\ Served(Conforming(call.request), done)
              /\ done <=> call.request.kind # "negative"
<1> DEFINE r == call.request
<1>1. /\ call.phase = "sent" /\ r \in Requests
      /\ r.kind = "negative" => ScenarioOf[r.op].negative # None
  BY DEF Serve, ServeWrongly, TypeOK, CallTypeOK, Sent, Answered, NoCall, Idle
<1>2. Conforming(r) \in Replies
  BY <1>1, AnswerTypes DEF TypeOK
<1>3. CASE Serve
  <2> DEFINE done == (r.kind # "negative")
  <2>1. Reply(r, Conforming(r))
    BY <1>3 DEF Serve
  <2>2. jobs' = (IF done THEN JobsAfter(r) ELSE jobs) /\ layer' = (IF done THEN LayerAfter(r) ELSE layer)
    BY <1>3 DEF Serve
  <2>3. ~done => Conforming(r).good = FALSE /\ Conforming(r).job = NoJob
    BY ReplyFields DEF Conforming
  <2>4. Conforming(r).known = TRUE
    BY ConformingKnown
  <2>5. Served(Conforming(r), done)
    BY <2>1, <2>2, <2>3, <2>4 DEF Served
  <2>6. done \in BOOLEAN
    OBVIOUS
  <2>7. UNCHANGED <<runner, late, timeouts, blemished>>
    BY <1>3 DEF Serve
  <2> HIDE DEF done
  <2>8. done <=> r.kind # "negative"
    BY DEF done
  <2>9. QED
    BY <1>1, <1>2, <2>5, <2>6, <2>7, <2>8
<1>4. CASE ServeWrongly
  <2>1. PICK done \in BOOLEAN :
          /\ ReplyWrongly(r, done)
          /\ IF done THEN jobs' = JobsAfter(r) /\ layer' = LayerAfter(r) ELSE UNCHANGED <<jobs, layer>>
    BY <1>4, Zenon DEF ServeWrongly
  <2>2. jobs' = (IF done THEN JobsAfter(r) ELSE jobs) /\ layer' = (IF done THEN LayerAfter(r) ELSE layer)
    BY <2>1
  <2>3. \A y : Served(y, done) <=>
          /\ Reply(r, y)
          /\ y.good => done /\ Conforming(r).good /\ y.job = Conforming(r).job
          /\ y.job # NoJob => done /\ y.job = Conforming(r).job
          /\ y.status = "OK" /\ ~y.known => y.some
    BY <2>2, Zenon DEF Served
  <2>4. \E y \in Replies : Served(y, done)
    <3>1. ASSUME NEW y \in Replies, Reply(r, y), ~y.good, y.job = NoJob, y.known \/ y.status # "OK" \/ y.some
          PROVE  \E z \in Replies : Served(z, done)
      BY <2>3, <3>1
    <3>2. CASE \E code \in Errors : Reply(r, Status(code))
      <4>1. PICK code \in Errors : Reply(r, Status(code))
        BY <3>2
      <4>2. Status(code) \in Replies
        BY ReplyTypes
      <4>3. QED
        BY <3>1, <4>1, <4>2, ReplyFields
    <3>3. CASE Reply(r, Undecodable)
      BY <3>1, <3>3, ReplyFields, ReplyTypes
    <3>4. CASE \E terminal, known \in BOOLEAN : Reply(r, Message(FALSE, terminal, known, NoJob))
      <4>1. PICK terminal \in BOOLEAN, known \in BOOLEAN : Reply(r, Message(FALSE, terminal, known, NoJob))
        BY <3>4
      <4>2. Message(FALSE, terminal, known, NoJob) \in Replies
        BY ReplyTypes DEF NoJob
      <4>3. QED
        BY <3>1, <4>1, <4>2 DEF Message
    <3>5. CASE /\ done
               /\ \E good, terminal, known \in BOOLEAN :
                    /\ good => Conforming(r).good /\ terminal
                    /\ Reply(r, Message(good, terminal, known, Conforming(r).job))
      <4>1. PICK good \in BOOLEAN, terminal \in BOOLEAN, known \in BOOLEAN :
              /\ good => Conforming(r).good /\ terminal
              /\ Reply(r, Message(good, terminal, known, Conforming(r).job))
        BY <3>5
      <4> DEFINE z == Message(good, terminal, known, Conforming(r).job)
      <4>2. z \in Replies
        BY <1>2, ReplyTypes DEF Replies
      <4>3. z.good = good /\ z.job = Conforming(r).job /\ z.some
        BY ReplyFields
      <4> HIDE DEF z
      <4>4. Served(z, done)
        BY <2>3, <3>5, <4>1, <4>3 DEF z
      <4>5. QED
        BY <4>2, <4>4
    <3>6. CASE Reply(r, EmptyStream)
      BY <3>1, <3>6, ReplyFields, ReplyTypes
    <3>7. QED
      BY <2>1, <3>2, <3>3, <3>4, <3>5, <3>6 DEF ReplyWrongly
  <2>10. faults' # faults /\ UNCHANGED <<runner, late, timeouts, blemished>>
    BY <1>4 DEF ServeWrongly, TypeOK, ServerTypeOK
  <2>11. QED
    BY <1>1, <2>4, <2>10
<1>5. QED
  BY <1>3, <1>4

\* The receiving steps, and what they leave alone.
LEMMA ReceiveShape ==
  ASSUME TypeOK, VerdictInv, ReceiveNegative \/ ReceiveVerify \/ ReceiveSetup \/ ReceiveCall
  PROVE  /\ call.phase = "answered" /\ ~Idle /\ call' = NoCall
         /\ step = call.request.kind /\ Answer \in Replies
         /\ UNCHANGED <<at, outcomes, report, exit, server, timeouts>>
         /\ UNCHANGED <<jobs, layer, late, faults, last, rejected, assigned>>
         /\ Scenario' = Scenario
<1>1. \E kind \in Kinds : Receive(kind)
  BY DEF ReceiveNegative, ReceiveVerify, ReceiveSetup, ReceiveCall, Kinds
<1>2. call.phase = "answered" /\ ~Idle /\ call' = NoCall /\ Answer \in Replies /\ step \in Kinds
  BY <1>1, ReceiveTypes DEF Receive, Idle
<1>3. UNCHANGED <<at, outcomes, report, exit, server, timeouts>>
  BY DEF ReceiveNegative, ReceiveVerify, ReceiveSetup, ReceiveCall
<1>4. step = call.request.kind
  BY <1>2, CallShape DEF Kinds
<1>5. QED
  BY <1>2, <1>3, <1>4 DEF server, Scenario

\* How the receiving steps go on: settle a negative case, try again, capture and go on,
\* poll again, or conclude.
LEMMA ReceiveCases ==
  ASSUME TypeOK, VerdictInv, ReceiveNegative \/ ReceiveVerify \/ ReceiveSetup \/ ReceiveCall \/ MissingCapture
  PROVE  /\ facets["positive"] = None /\ step \in Kinds /\ at \in Index
         /\ \/ facets'["positive"] = None /\ step' \in {"verify", PositiveStep} /\ captures' = captures
            \/ ReceiveSetup /\ step' = "call" /\ facets' = facets /\ Answer.status = "OK" /\ Answer.job # NoJob
                 /\ captures' = [captures EXCEPT ![Scenario.setup] = Answer.job]
            \/ ReceiveCall /\ step' = step /\ facets' = facets /\ captures' = captures
            \/ step' = "record" /\ facets'["positive"] \in {"pass", "fail"} /\ captures' = captures
            \/ ReceiveCall /\ step' = "record" /\ facets'["positive"] \in {"pass", "fail"}
                 /\ Answer.status = "OK" /\ Answer.job # NoJob /\ Scenario.key # None
                 /\ captures' = [captures EXCEPT ![Scenario.key] = Answer.job]
<1>1. step \in Kinds /\ facets["positive"] = None /\ at \in Index
  <2>1. step \in Kinds
    BY DEF ReceiveNegative, ReceiveVerify, ReceiveSetup, ReceiveCall, MissingCapture, Receive, Kinds
  <2>2. QED
    BY <2>1 DEF TypeOK, RunnerTypeOK, VerdictInv, FacetInv, Kinds
<1>2. facets \in [Facets -> ResultType] /\ "positive" \in Facets /\ "negative" \in Facets
  BY Zenon DEF TypeOK, RunnerTypeOK, Facets
<1>3. \A v : Conclude(v) => step' = "record" /\ facets'["positive"] = v
  BY <1>2 DEF Conclude, Settle
<1>4. \A s : Raise(s) => \/ step' = PositiveStep /\ facets' = facets
                         \/ step' = "record" /\ facets'["positive"] = "fail"
  BY <1>3 DEF Raise
<1>5. CASE ReceiveNegative
  <2>1. facets'["positive"] = None /\ step' \in {"verify", PositiveStep}
    BY <1>1, <1>2, <1>5 DEF ReceiveNegative, Settle
  <2>2. QED
    BY <1>1, <1>5, <2>1 DEF ReceiveNegative
<1>6. CASE ReceiveVerify
  BY <1>1, <1>2, <1>6 DEF ReceiveVerify, Settle
<1>7. CASE ReceiveSetup
  <2>1. CASE Answer.status # "OK"
    BY <1>1, <1>4, <1>7, <2>1 DEF ReceiveSetup
  <2>2. CASE Answer.status = "OK" /\ Answer.job = NoJob
    BY <1>1, <1>3, <1>7, <2>2 DEF ReceiveSetup
  <2>3. CASE Answer.status = "OK" /\ Answer.job # NoJob
    BY <1>1, <1>7, <2>3 DEF ReceiveSetup
  <2>4. QED
    BY <2>1, <2>2, <2>3
<1>8. CASE ReceiveCall
  <2>1. CASE Answer.status # "OK"
    BY <1>1, <1>4, <1>8, <2>1 DEF ReceiveCall
  <2>2. CASE Answer.status = "OK" /\ Scenario.poll /\ ~Answer.terminal /\ ~expired
    BY <1>1, <1>8, <2>2 DEF ReceiveCall
  <2>3. CASE Answer.status = "OK" /\ ~(Scenario.poll /\ ~Answer.terminal /\ ~expired)
    <3>1. CaptureAndCompare
      BY <1>8, <2>3 DEF ReceiveCall
    <3>2. \E v \in {"pass", "fail"} : Conclude(v)
      BY <3>1, Zenon DEF CaptureAndCompare
    <3>3. step' = "record" /\ facets'["positive"] \in {"pass", "fail"}
      BY <3>2, <1>3
    <3>4. captures' = IF Scenario.key # None /\ Answer.job # NoJob
                      THEN [captures EXCEPT ![Scenario.key] = Answer.job] ELSE captures
      BY <3>1, Zenon DEF CaptureAndCompare
    <3>5. QED
      BY <1>1, <1>8, <2>3, <3>3, <3>4
  <2>4. QED
    BY <2>1, <2>2, <2>3
<1>9. CASE MissingCapture
  BY <1>1, <1>3, <1>9 DEF MissingCapture
<1>10. QED
  BY <1>5, <1>6, <1>7, <1>8, <1>9

-----------------------------------------------------------------------------
(* Captures are fresh.                                                     *)

\* Scenario i has been concluded.
Past(i) == i < at \/ (i = at /\ facets["positive"] # None)

\* What a positive response was captured under is kept until the end.
KeyFresh ==
  \A i \in Index :
    Scenarios[i].key # None /\ captures[Scenarios[i].key] # NoJob =>
      Past(i) /\ captures[Scenarios[i].key] = assigned[Scenarios[i].key]
\* The positive call is reached with what its setup, if there is one, captured last.
SetupFresh ==
  /\ step = "setup" => Scenario.setup # None
  /\ step = "call" /\ Scenario.setup # None =>
       captures[Scenario.setup] # NoJob /\ captures[Scenario.setup] = assigned[Scenario.setup]
AnswerFresh ==
  call.phase = "answered" /\ KeyOf(call.request) # None /\ call.reply.job # NoJob =>
    call.reply.job = assigned[KeyOf(call.request)]
\* No capture changes while a call that substitutes it is outstanding.
CallFresh ==
  ~Idle /\ call.request.kind = "call" /\ Scenario.needs # None =>
    call.request.job = captures[Scenario.needs] /\ captures[Scenario.needs] # NoJob

CaptureInv == KeyFresh /\ SetupFresh /\ AnswerFresh /\ CallFresh /\ CallsCarryFreshIds

LEMMA Providers ==
  ASSUME OneProvider(Scenarios), NEW i \in Index, NEW j \in Index
  PROVE  /\ Scenarios[i].key # None => /\ Scenarios[i].key # Scenarios[j].setup
                                       /\ Scenarios[i].key = Scenarios[j].key => i = j
         /\ Scenarios[i].setup # None => /\ Scenarios[i].setup = Scenarios[j].setup => i = j
                                         /\ Scenarios[i].setup = Scenarios[j].needs => i = j
BY DEF OneProvider, Index

\* What the positive call at hand substitutes is the id assigned last.
LEMMA NeededFresh ==
  ASSUME TypeOK, CaptureInv, OneProvider(Scenarios), step = "call", Scenario.needs # None,
         captures[Scenario.needs] # NoJob
  PROVE  captures[Scenario.needs] = assigned[Scenario.needs]
<1>1. at \in Index /\ Scenario = Scenarios[at]
  BY DEF TypeOK, RunnerTypeOK, Scenario
<1>2. PICK i \in Index : Scenario.needs = Scenarios[i].key \/ Scenario.needs = Scenarios[i].setup
  BY <1>1, ScenarioFacts DEF Keys
<1>3. CASE Scenario.needs = Scenarios[i].key
  BY <1>3 DEF CaptureInv, KeyFresh
<1>4. CASE Scenario.needs = Scenarios[i].setup
  <2>1. i = at
    BY <1>1, <1>4, Providers
  <2>2. QED
    BY <1>1, <1>4, <2>1 DEF CaptureInv, SetupFresh
<1>5. QED
  BY <1>2, <1>3, <1>4

LEMMA CaptureInit == Init => CaptureInv
<1> SUFFICES ASSUME Init PROVE CaptureInv
  OBVIOUS
<1>1. Idle /\ call.phase = "idle" /\ at = 1 /\ step = FirstStep(1) /\ 1 \in Index
  BY SequenceFacts DEF Init, Idle, NoCall
<1>2. KeyFresh
  BY ScenarioFacts DEF Init, KeyFresh
<1>3. SetupFresh
  BY <1>1 DEF SetupFresh, FirstStep, Scenario
<1>4. AnswerFresh /\ CallFresh /\ CallsCarryFreshIds
  BY <1>1 DEF AnswerFresh, CallFresh, CallsCarryFreshIds
<1>5. QED
  BY <1>2, <1>3, <1>4 DEF CaptureInv

LEMMA CaptureFrame ==
  ASSUME CaptureInv, UNCHANGED <<at, captures, assigned, call>>,
         facets'["positive"] = facets["positive"], step' = step \/ step' \notin {"setup", "call"}
  PROVE  CaptureInv'
<1>1. KeyFresh' /\ SetupFresh'
  BY DEF CaptureInv, KeyFresh, SetupFresh, Past, Scenario
<1>2. AnswerFresh' /\ CallFresh' /\ CallsCarryFreshIds'
  BY DEF CaptureInv, AnswerFresh, CallFresh, CallsCarryFreshIds, Idle, Scenario, KeyOf
<1>3. QED
  BY <1>1, <1>2 DEF CaptureInv

LEMMA CaptureSend ==
  ASSUME TypeOK, CaptureInv, OneProvider(Scenarios), SendNegative \/ SendVerify \/ SendSetup \/ SendCall
  PROVE  CaptureInv'
<1>1. /\ UNCHANGED <<at, step, captures, assigned, facets>>
      /\ call'.phase = "sent" /\ call'.request.kind = step
  BY DEF SendNegative, SendVerify, SendSetup, SendCall, Send, runner, server
<1>2. KeyFresh' /\ SetupFresh'
  BY <1>1 DEF CaptureInv, KeyFresh, SetupFresh, Past, Scenario
<1>3. AnswerFresh'
  BY <1>1 DEF AnswerFresh
<1>4. step = "call" /\ Scenario.needs # None =>
        call'.request.job = captures[Scenario.needs] /\ captures[Scenario.needs] # NoJob
  BY DEF SendNegative, SendVerify, SendSetup, SendCall, Send
<1>5. CallFresh' /\ CallsCarryFreshIds'
  BY <1>1, <1>4, NeededFresh DEF CallFresh, CallsCarryFreshIds, Scenario
<1>6. QED
  BY <1>2, <1>3, <1>5 DEF CaptureInv

\* A new id is assigned under a name that nothing was captured under in this attempt.
LEMMA CaptureServed ==
  ASSUME TypeOK, VerdictInv, CaptureInv, OneProvider(Scenarios), call.phase = "sent", UNCHANGED runner,
         NEW y \in Replies, Reply(call.request, y)
  PROVE  CaptureInv'
<1> DEFINE r == call.request
           k == KeyOf(r)
<1>1. /\ UNCHANGED <<at, step, captures, facets>> /\ Scenario' = Scenario
      /\ call' = [phase |-> "answered", request |-> r, reply |-> y]
  BY DEF runner, Reply, Scenario
<1>2. /\ at \in Index /\ facets["positive"] = None /\ step \in {r.kind, "crashed"}
      /\ k = IF r.kind = "setup" THEN Scenario.setup ELSE IF r.kind = "call" THEN Scenario.key ELSE None
      /\ k # None => k \in Keys
  BY CallShape DEF Idle
<1>3. assigned' = IF k # None /\ y.job # NoJob THEN [assigned EXCEPT ![k] = y.job] ELSE assigned
  BY DEF Reply
<1>4. assigned \in [Keys -> Nat]
  BY DEF TypeOK, HistoryTypeOK
<1>5. \A l \in Keys : l # k => assigned'[l] = assigned[l]
  BY <1>3, <1>4
<1>6. k # None /\ y.job # NoJob => assigned'[k] = y.job
  BY <1>2, <1>3, <1>4
<1>7. call'.request = r /\ call'.reply = y /\ call'.phase = "answered" /\ KeyOf(r)' = k
  BY <1>1 DEF KeyOf
<1> HIDE DEF k
<1>8. KeyFresh'
  <2>1. ASSUME NEW i \in Index, Scenarios[i].key # None, captures[Scenarios[i].key] # NoJob
        PROVE  Past(i) /\ assigned'[Scenarios[i].key] = assigned[Scenarios[i].key]
    <3>1. Past(i)
      BY <2>1 DEF CaptureInv, KeyFresh
    <3>2. i # at
      BY <1>2, <3>1 DEF Past, Index
    <3>3. Scenarios[i].key # k
      BY <1>2, <2>1, <3>2, Providers DEF Scenario
    <3>4. QED
      BY <1>5, <2>1, <3>1, <3>3, ScenarioFacts
  <2>2. QED
    BY <1>1, <2>1 DEF CaptureInv, KeyFresh, Past
<1>9. SetupFresh'
  <2>1. ASSUME step = "call", Scenario.setup # None
        PROVE  assigned'[Scenario.setup] = assigned[Scenario.setup]
    <3>1. k = Scenario.key \/ k = None
      BY <1>2, <2>1
    <3>2. Scenario.setup # k
      BY <1>2, <2>1, <3>1, Providers DEF Scenario
    <3>3. QED
      BY <1>2, <1>5, <2>1, <3>2, ScenarioFacts DEF Scenario
  <2>2. QED
    BY <1>1, <2>1 DEF CaptureInv, SetupFresh
<1>10. AnswerFresh'
  BY <1>6, <1>7 DEF AnswerFresh
<1>11. CallFresh' /\ CallsCarryFreshIds'
  BY <1>1, <1>7 DEF CaptureInv, CallFresh, CallsCarryFreshIds, Idle
<1>12. QED
  BY <1>8, <1>9, <1>10, <1>11 DEF CaptureInv

\* A lost reply captures nothing.
LEMMA CaptureGiveUp ==
  ASSUME TypeOK, VerdictInv, CaptureInv, GiveUp
  PROVE  CaptureInv'
<1>1. /\ UNCHANGED <<at, step, captures, facets, assigned>> /\ ~Idle
      /\ call'.phase = "answered" /\ call'.request = call.request /\ call'.reply.job = NoJob
  BY ReplyFields DEF GiveUp, runner
<1>2. KeyFresh' /\ SetupFresh'
  BY <1>1 DEF CaptureInv, KeyFresh, SetupFresh, Past, Scenario
<1>3. AnswerFresh' /\ CallFresh' /\ CallsCarryFreshIds'
  BY <1>1 DEF CaptureInv, AnswerFresh, CallFresh, CallsCarryFreshIds, Scenario
<1>4. QED
  BY <1>2, <1>3 DEF CaptureInv

\* What is captured is what the server assigned to the request that is answered.
LEMMA ReceiveCapturesSetup ==
  ASSUME TypeOK, VerdictInv, CaptureInv, ReceiveSetup
  PROVE  /\ step = "setup" /\ Scenario.setup \in Keys /\ Scenario.setup # None
         /\ Answer.job # NoJob => Answer.job = assigned[Scenario.setup]
<1>1. call.phase = "answered" /\ step = "setup" /\ ~Idle
  BY DEF ReceiveSetup, Receive, Idle
<1>2. call.request.kind = "setup" /\ KeyOf(call.request) = Scenario.setup
  BY <1>1, CallShape DEF Kinds
<1>3. QED
  BY <1>1, <1>2, CallShape DEF Answer, CaptureInv, AnswerFresh, SetupFresh

LEMMA ReceiveCapturesKey ==
  ASSUME TypeOK, VerdictInv, CaptureInv, ReceiveCall
  PROVE  /\ step = "call" /\ (Scenario.key # None => Scenario.key \in Keys)
         /\ Scenario.key # None /\ Answer.job # NoJob => Answer.job = assigned[Scenario.key]
<1>1. call.phase = "answered" /\ step = "call" /\ ~Idle
  BY DEF ReceiveCall, Receive, Idle
<1>2. call.request.kind = "call" /\ KeyOf(call.request) = Scenario.key
  BY <1>1, CallShape DEF Kinds
<1>3. QED
  BY <1>1, <1>2, CallShape DEF Answer, CaptureInv, AnswerFresh

LEMMA CaptureReceive ==
  ASSUME TypeOK, VerdictInv, CaptureInv, OneProvider(Scenarios),
         ReceiveNegative \/ ReceiveVerify \/ ReceiveSetup \/ ReceiveCall \/ MissingCapture
  PROVE  CaptureInv'
<1>1. /\ UNCHANGED <<at, assigned>> /\ Scenario' = Scenario /\ call'.phase = "idle"
  <2>1. UNCHANGED <<at, assigned>> /\ (call' = NoCall \/ (Idle /\ call' = call))
    BY DEF ReceiveNegative, ReceiveVerify, ReceiveSetup, ReceiveCall, MissingCapture, Receive, server
  <2>2. QED
    BY <2>1 DEF Scenario, NoCall, Idle
<1>2. AnswerFresh' /\ CallFresh' /\ CallsCarryFreshIds'
  BY <1>1 DEF AnswerFresh, CallFresh, CallsCarryFreshIds, Idle
<1>3. /\ facets["positive"] = None /\ step \in Kinds /\ at \in Index
      /\ captures \in [Keys -> Nat] /\ Scenario = Scenarios[at]
  BY ReceiveCases DEF TypeOK, RunnerTypeOK, Scenario
<1>4. SetupFresh' /\ KeyFresh'
  <2>1. CASE captures' = captures /\ step' \in {step, PositiveStep, "verify", "record"}
    <3>1. KeyFresh'
      BY <1>1, <1>3, <2>1 DEF CaptureInv, KeyFresh, Past
    <3>2. /\ step' = "call" => Scenario.setup = None \/ step = "call"
          /\ step' = "setup" => Scenario.setup # None \/ step = "setup"
      BY <2>1 DEF PositiveStep
    <3>3. QED
      BY <1>1, <2>1, <3>1, <3>2 DEF CaptureInv, SetupFresh
  <2>2. CASE ReceiveSetup /\ step' = "call" /\ facets' = facets /\ Answer.job # NoJob
               /\ captures' = [captures EXCEPT ![Scenario.setup] = Answer.job]
    <3>1. Scenario.setup # None /\ Scenario.setup \in Keys /\ Answer.job = assigned[Scenario.setup]
      BY <2>2, ReceiveCapturesSetup
    <3>2. SetupFresh'
      BY <1>1, <1>3, <2>2, <3>1 DEF SetupFresh
    <3>3. \A i \in Index : Scenarios[i].key # None => captures'[Scenarios[i].key] = captures[Scenarios[i].key]
      BY <1>3, <2>2, <3>1, Providers, ScenarioFacts
    <3>4. KeyFresh'
      BY <1>1, <2>2, <3>3 DEF CaptureInv, KeyFresh, Past
    <3>5. QED
      BY <3>2, <3>4
  <2>3. CASE ReceiveCall /\ step' = "record" /\ facets'["positive"] \in {"pass", "fail"}
               /\ Answer.job # NoJob /\ Scenario.key # None
               /\ captures' = [captures EXCEPT ![Scenario.key] = Answer.job]
    <3>1. Scenario.key \in Keys /\ Answer.job = assigned[Scenario.key]
      BY <2>3, ReceiveCapturesKey
    <3>2. SetupFresh'
      BY <2>3 DEF SetupFresh
    <3>3. ASSUME NEW i \in Index, Scenarios[i].key # None, captures'[Scenarios[i].key] # NoJob
          PROVE  Past(i)' /\ captures'[Scenarios[i].key] = assigned'[Scenarios[i].key]
      <4>1. CASE i = at
        BY <1>1, <1>3, <2>3, <3>1, <4>1 DEF Past, None
      <4>2. CASE i # at
        <5>1. Scenarios[i].key # Scenario.key /\ Scenarios[i].key \in Keys
          BY <1>3, <3>3, <4>2, Providers, ScenarioFacts
        <5>2. captures'[Scenarios[i].key] = captures[Scenarios[i].key]
          BY <1>3, <2>3, <5>1
        <5>3. QED
          BY <1>1, <3>3, <4>2, <5>2 DEF CaptureInv, KeyFresh, Past
      <4>3. QED
        BY <4>1, <4>2
    <3>4. KeyFresh'
      BY <3>3 DEF KeyFresh
    <3>5. QED
      BY <3>2, <3>4
  <2>4. QED
    BY <2>1, <2>2, <2>3, ReceiveCases
<1>5. QED
  BY <1>2, <1>4 DEF CaptureInv

LEMMA CaptureRecord ==
  ASSUME TypeOK, VerdictInv, CaptureInv, Record
  PROVE  CaptureInv'
<1>1. /\ UNCHANGED <<captures, assigned, call>> /\ at' = at + 1 /\ at \in Index /\ Idle
      /\ step' = IF at = Len(Scenarios) THEN "report" ELSE FirstStep(at + 1)
  BY OutcomeVerdict DEF Record, server
<1>2. KeyFresh'
  <2>1. \A i \in Index : Past(i) => i < at'
    BY <1>1 DEF Past, Index
  <2>2. QED
    BY <1>1, <2>1 DEF CaptureInv, KeyFresh, Past
<1>3. SetupFresh'
  <2>1. step' \in {"setup", "call"} => Scenario' = Scenarios[at + 1] /\ step' = FirstStep(at + 1)
    BY <1>1 DEF Scenario
  <2>2. QED
    BY <2>1 DEF SetupFresh, FirstStep
<1>4. AnswerFresh' /\ CallFresh' /\ CallsCarryFreshIds'
  BY <1>1 DEF AnswerFresh, CallFresh, CallsCarryFreshIds, Idle
<1>5. QED
  BY <1>2, <1>3, <1>4 DEF CaptureInv

LEMMA CaptureStep ==
  ASSUME TypeOK, VerdictInv, CaptureInv, OneProvider(Scenarios), [Next]_vars
  PROVE  CaptureInv'
<1>1. CASE Serve \/ ServeWrongly
  BY <1>1, ServedStep, CaptureServed DEF Served
<1>2. CASE ServeLate \/ JobEnds \/ PollDeadline \/ Finished \/ UNCHANGED vars
  BY <1>2, CaptureFrame DEF ServeLate, JobEnds, PollDeadline, Finished, vars, runner, server
<1>3. CASE WriteReport \/ Exit \/ Crash
  BY <1>3, CaptureFrame DEF WriteReport, Exit, Crash, server
<1>4. CASE RunnerStep /\ ~WriteReport /\ ~Exit
  BY <1>4, CaptureSend, CaptureReceive, CaptureRecord DEF RunnerStep
<1>5. CASE GiveUp
  BY <1>5, CaptureGiveUp
<1>6. QED
  BY <1>1, <1>2, <1>3, <1>4, <1>5 DEF Next, RunnerStep, ServerStep, ClockStep

LEMMA CaptureInvariant ==
  ASSUME OneProvider(Scenarios)
  PROVE  Spec => []CaptureInv
<1>1. Init => CaptureInv
  BY CaptureInit
<1>2. TypeOK /\ VerdictInv /\ CaptureInv /\ [Next]_vars => CaptureInv'
  BY CaptureStep
<1>3. QED
  BY <1>1, <1>2, TypeCorrect, VerdictInvariant, PTL DEF Spec

\* read_fixture substitutes the id the server assigned last, whatever was retried, given up
\* or answered wrongly before: a lost reply of a setup ends the scenario, not only the attempt.
THEOREM FreshIds ==
  ASSUME OneProvider(Scenarios)
  PROVE  Spec => []CallsCarryFreshIds
<1>1. CaptureInv => CallsCarryFreshIds
  BY DEF CaptureInv
<1>2. QED
  BY <1>1, CaptureInvariant, PTL

-----------------------------------------------------------------------------
(* The job store.                                                          *)

JobOperations == {"GetJob", "GetJobResult", "CancelJob"}

\* A call that cancels, if its job is still running.
Cancels(r, j) == r.kind = "call" /\ r.op = "CancelJob" /\ r.job = j
Requested == late \cup (IF Idle THEN {} ELSE {call.request})

LEMMA JobDomain ==
  ASSUME ServerTypeOK
  PROVE  DOMAIN jobs = 1 .. Len(jobs) /\ Len(jobs) \in Nat
BY DEF ServerTypeOK

LEMMA JobsAfterFacts ==
  ASSUME ServerTypeOK, NEW r \in Requests
  PROVE  /\ KeyOf(r) # None =>
              /\ DOMAIN JobsAfter(r) = 1 .. Len(jobs) + 1
              /\ JobsAfter(r)[Len(jobs) + 1] \in {"completed", "running"}
              /\ \A j \in DOMAIN jobs : JobsAfter(r)[j] = jobs[j]
         /\ KeyOf(r) = None =>
              /\ DOMAIN JobsAfter(r) = DOMAIN jobs
              /\ \A j \in DOMAIN jobs :
                   \/ JobsAfter(r)[j] = jobs[j]
                   \/ jobs[j] = "running" /\ JobsAfter(r)[j] = "cancelled" /\ Cancels(r, j)
<1>1. DOMAIN jobs = 1 .. Len(jobs) /\ Len(jobs) \in Nat
  BY JobDomain
<1>2. CASE KeyOf(r) # None
  <2>1. PICK s \in {"completed", "running"} : JobsAfter(r) = Append(jobs, s)
    BY <1>2, Zenon DEF JobsAfter
  <2> DEFINE T == {"running", "completed", "failed", "cancelled"}
  <2>2. jobs \in Seq(T) /\ s \in T
    BY DEF ServerTypeOK
  <2> HIDE DEF T
  <2>3. /\ DOMAIN Append(jobs, s) = 1 .. Len(jobs) + 1
        /\ Append(jobs, s)[Len(jobs) + 1] = s
        /\ \A j \in 1 .. Len(jobs) : Append(jobs, s)[j] = jobs[j]
    BY <2>2
  <2>4. QED
    BY <1>1, <1>2, <2>1, <2>3
<1>3. CASE KeyOf(r) = None
  <2>1. CASE r.op = "CancelJob" /\ r.kind = "call" /\ JobState(r.job) = "running"
    <3>1. JobsAfter(r) = [jobs EXCEPT ![r.job] = "cancelled"] /\ r.job \in DOMAIN jobs
      BY <1>3, <2>1 DEF JobsAfter, JobState
    <3>2. jobs[r.job] = "running"
      BY <2>1, <3>1 DEF JobState
    <3>3. QED
      BY <1>1, <1>3, <2>1, <3>1, <3>2 DEF ServerTypeOK, Cancels
  <2>2. CASE ~(r.op = "CancelJob" /\ r.kind = "call" /\ JobState(r.job) = "running")
    BY <1>3, <2>2 DEF JobsAfter
  <2>3. QED
    BY <2>1, <2>2
<1>4. QED
  BY <1>2, <1>3

\* Jobs are never forgotten; only a running one changes, and only a call that names it, waited
\* for or given up, cancels it.
JobsMoveOn ==
  /\ DOMAIN jobs \subseteq DOMAIN jobs'
  /\ \A j \in DOMAIN jobs :
       \/ jobs'[j] = jobs[j]
       \/ /\ jobs[j] = "running"
          /\ jobs'[j] = "cancelled" => \E r \in Requested : Cancels(r, j)

LEMMA JobsAfterMoveOn ==
  ASSUME ServerTypeOK, NEW r \in Requests, r \in Requested, jobs' = JobsAfter(r) \/ jobs' = jobs
  PROVE  JobsMoveOn
<1>1. DOMAIN jobs = 1 .. Len(jobs) /\ Len(jobs) \in Nat
  BY JobDomain
<1>2. CASE jobs' = jobs
  BY <1>2 DEF JobsMoveOn
<1>3. CASE jobs' = JobsAfter(r)
  <2>1. DOMAIN jobs \subseteq DOMAIN jobs'
    BY <1>1, <1>3, JobsAfterFacts
  <2>2. \A j \in DOMAIN jobs : jobs'[j] = jobs[j] \/ (jobs[j] = "running" /\ Cancels(r, j))
    BY <1>3, JobsAfterFacts
  <2>3. QED
    BY <2>1, <2>2 DEF JobsMoveOn
<1>4. QED
  BY <1>2, <1>3

LEMMA JobsStep ==
  ASSUME TypeOK, [Next]_vars
  PROVE  JobsMoveOn
<1>1. CASE Serve \/ ServeWrongly
  <2>1. call.phase = "sent" /\ (jobs' = JobsAfter(call.request) \/ jobs' = jobs)
    BY <1>1, ServedStep DEF Served
  <2>2. call.request \in Requests /\ call.request \in Requested
    BY <2>1 DEF TypeOK, CallTypeOK, Sent, Answered, NoCall, Idle, Requested
  <2>3. QED
    BY <2>1, <2>2, JobsAfterMoveOn DEF TypeOK
<1>2. CASE ServeLate
  <2>1. PICK r \in late : jobs' = JobsAfter(r)
    BY <1>2 DEF ServeLate
  <2>2. r \in Requests /\ r \in Requested
    BY DEF TypeOK, ServerTypeOK, Requested
  <2>3. QED
    BY <2>1, <2>2, JobsAfterMoveOn DEF TypeOK
<1>3. CASE JobEnds
  <2>1. PICK j \in DOMAIN jobs, s \in {"completed", "failed"} :
          jobs[j] = "running" /\ jobs' = [jobs EXCEPT ![j] = s]
    BY <1>3, Zenon DEF JobEnds
  <2>2. QED
    BY <2>1 DEF JobsMoveOn, TypeOK, ServerTypeOK
<1>4. CASE RunnerStep \/ ClockStep \/ Crash \/ Finished \/ UNCHANGED vars
  <2>1. jobs' = jobs
    BY <1>4 DEF RunnerStep, ClockStep, Crash, Finished, vars, server, SendNegative, ReceiveNegative,
       SendVerify, ReceiveVerify, SendSetup, ReceiveSetup, SendCall, Send, MissingCapture, ReceiveCall,
       Record, WriteReport, Exit, GiveUp, PollDeadline
  <2>2. QED
    BY <2>1 DEF JobsMoveOn
<1>5. QED
  BY <1>1, <1>2, <1>3, <1>4 DEF Next, ServerStep

\* A job that has ended stays as it is.
LEMMA EndedJobsStay ==
  ASSUME TypeOK, JobsMoveOn, NEW j, JobState(j) \notin {"running", "absent"}
  PROVE  JobState(j)' = JobState(j)
<1>1. j \in DOMAIN jobs /\ jobs[j] = JobState(j)
  BY DEF JobState
<1>2. j \in DOMAIN jobs' /\ jobs'[j] = jobs[j]
  BY <1>1 DEF JobsMoveOn
<1>3. QED
  BY <1>1, <1>2 DEF JobState

-----------------------------------------------------------------------------
(* Ids of different captures are different.                                *)

\* Whether request r substitutes capture k.
Names(r, k) == r.kind = "call" /\ ScenarioOf[r.op].needs = k
\* The ids in use for capture k: captured, assigned, or on the way to the server.
Uses(k, j) ==
  /\ j # NoJob
  /\ j = captures[k] \/ j = assigned[k] \/ \E r \in Requested : Names(r, k) /\ r.job = j

IdsInv ==
  \A k \in Keys : \A j :
    Uses(k, j) =>
      /\ j \in DOMAIN jobs
      /\ \A l \in Keys : Uses(l, j) => l = k
      /\ jobs[j] = "cancelled" => \E i \in Index : Scenarios[i].op = "CancelJob" /\ Scenarios[i].needs = k

\* Who names a job to be cancelled, names it by the capture CancelJob needs.
LEMMA CancelsUses ==
  ASSUME JobsAreNamed(Scenarios), NEW r \in Requests, r \in Requested, NEW j \in DOMAIN jobs, Cancels(r, j),
         ServerTypeOK
  PROVE  \E i \in Index : /\ Scenarios[i].op = "CancelJob" /\ Scenarios[i].needs \in Keys
                          /\ Uses(Scenarios[i].needs, j)
<1>1. PICK i \in Index : r.op = Scenarios[i].op
  BY DEF Requests, Operations
<1>2. Scenarios[i].op = "CancelJob" /\ Scenarios[i].needs # None
  BY <1>1 DEF Cancels, JobsAreNamed, Index
<1>3. Scenarios[i].needs \in Keys /\ ScenarioOf[r.op] = Scenarios[i]
  BY <1>1, <1>2, ScenarioFacts
<1>4. j # NoJob
  BY JobDomain DEF NoJob
<1>5. Uses(Scenarios[i].needs, j)
  BY <1>3, <1>4 DEF Cancels, Uses, Names
<1>6. QED
  BY <1>2, <1>3, <1>5

LEMMA RequestedTypes ==
  ASSUME TypeOK
  PROVE  Requested \subseteq Requests
BY DEF TypeOK, ServerTypeOK, CallTypeOK, Sent, Answered, NoCall, Idle, Requested

\* A step may put ids out of use, and bring a new one into use for one capture.
LEMMA IdsKept ==
  ASSUME TypeOK, IdsInv, JobsMoveOn, JobsAreNamed(Scenarios), NEW k0,
         \A k \in Keys : \A j :
           Uses(k, j)' => \/ Uses(k, j)
                          \/ k = k0 /\ j \notin DOMAIN jobs /\ j \in DOMAIN jobs' /\ jobs'[j] # "cancelled"
  PROVE  IdsInv'
<1> SUFFICES ASSUME NEW k \in Keys, NEW j, Uses(k, j)'
             PROVE  /\ j \in DOMAIN jobs'
                    /\ \A l \in Keys : Uses(l, j)' => l = k
                    /\ jobs'[j] = "cancelled" =>
                         \E i \in Index : Scenarios[i].op = "CancelJob" /\ Scenarios[i].needs = k
  BY Zenon DEF IdsInv
<1>1. CASE j \in DOMAIN jobs
  <2>1. Uses(k, j)
    BY <1>1
  <2>2. j \in DOMAIN jobs'
    BY <1>1 DEF JobsMoveOn
  <2>3. \A l \in Keys : Uses(l, j)' => l = k
    BY <1>1, <2>1 DEF IdsInv
  <2>4. ASSUME jobs'[j] = "cancelled"
        PROVE  \E i \in Index : Scenarios[i].op = "CancelJob" /\ Scenarios[i].needs = k
    <3>1. CASE jobs[j] = "cancelled"
      BY <2>1, <3>1 DEF IdsInv
    <3>2. CASE jobs[j] # "cancelled"
      <4>1. PICK r \in Requested : Cancels(r, j)
        BY <1>1, <2>4, <3>2 DEF JobsMoveOn
      <4>2. PICK i \in Index : /\ Scenarios[i].op = "CancelJob" /\ Scenarios[i].needs \in Keys
                                /\ Uses(Scenarios[i].needs, j)
        BY <1>1, <4>1, CancelsUses, RequestedTypes DEF TypeOK
      <4>3. Scenarios[i].needs = k
        BY <2>1, <4>2 DEF IdsInv
      <4>4. QED
        BY <4>2, <4>3
    <3>3. QED
      BY <3>1, <3>2
  <2>5. QED
    BY <2>2, <2>3, <2>4
<1>2. CASE j \notin DOMAIN jobs
  <2>1. \A l \in Keys : ~Uses(l, j)
    BY <1>2 DEF IdsInv
  <2>2. QED
    BY <2>1
<1>3. QED
  BY <1>1, <1>2

LEMMA IdsInit == Init => IdsInv
<1>1. Init => \A k \in Keys : \A j : ~Uses(k, j)
  BY DEF Init, Uses, Requested, Idle, NoCall
<1>2. QED
  BY <1>1 DEF IdsInv

\* A reply brings the id of the job just created into use, for the capture it is meant for.
LEMMA IdsServed ==
  ASSUME TypeOK, VerdictInv, IdsInv, JobsMoveOn, JobsAreNamed(Scenarios), call.phase = "sent",
         UNCHANGED <<runner, late>>, NEW y \in Replies, NEW done \in BOOLEAN, Served(y, done)
  PROVE  IdsInv'
<1> DEFINE r == call.request
           k0 == KeyOf(r)
<1>1. /\ captures' = captures /\ Requested' = Requested /\ r \in Requests
      /\ k0 # None => k0 \in Keys
  <2>1. captures' = captures /\ call' = [phase |-> "answered", request |-> r, reply |-> y] /\ late' = late
    BY DEF runner, Served, Reply
  <2>2. Requested' = Requested
    BY <2>1 DEF Requested, Idle
  <2>3. QED
    BY <2>1, <2>2, CallShape DEF Idle
<1>2. assigned' = IF k0 # None /\ y.job # NoJob THEN [assigned EXCEPT ![k0] = y.job] ELSE assigned
  BY DEF Served, Reply
<1>3. assigned \in [Keys -> Nat]
  BY DEF TypeOK, HistoryTypeOK
<1>4. \A k \in Keys : assigned'[k] = assigned[k] \/ (k = k0 /\ k0 # None /\ y.job # NoJob /\ assigned'[k] = y.job)
  BY <1>2, <1>3
<1> HIDE DEF k0
<1>5. ASSUME k0 # None, y.job # NoJob
      PROVE  y.job \notin DOMAIN jobs /\ y.job \in DOMAIN jobs' /\ jobs'[y.job] # "cancelled"
  <2>1. done /\ y.job = Conforming(r).job
    BY <1>5 DEF Served
  <2>2. y.job = Len(jobs) + 1
    <3>1. KeyOf(r) # None /\ r.kind # "negative" /\ ~ReadsLayer(r)
      BY <1>5, <2>1 DEF k0, KeyOf, ReadsLayer, Conforming, Message, Status, Failure
    <3>2. QED
      BY <2>1, <3>1 DEF Conforming, Message
  <2>3. jobs' = JobsAfter(r)
    BY <2>1 DEF Served
  <2>4. /\ DOMAIN jobs' = 1 .. Len(jobs) + 1
        /\ jobs'[Len(jobs) + 1] \in {"completed", "running"}
    BY <1>1, <1>5, <2>3, JobsAfterFacts DEF TypeOK, k0
  <2>5. DOMAIN jobs = 1 .. Len(jobs) /\ Len(jobs) \in Nat
    BY JobDomain DEF TypeOK
  <2>6. QED
    BY <2>2, <2>4, <2>5
<1>6. ASSUME NEW k \in Keys, NEW j, Uses(k, j)'
      PROVE  \/ Uses(k, j)
             \/ k = k0 /\ j \notin DOMAIN jobs /\ j \in DOMAIN jobs' /\ jobs'[j] # "cancelled"
  BY <1>1, <1>4, <1>5, <1>6 DEF Uses
<1>7. QED
  BY <1>6, IdsKept

LEMMA IdsSend ==
  ASSUME TypeOK, IdsInv, JobsMoveOn, JobsAreNamed(Scenarios), SendNegative \/ SendVerify \/ SendSetup \/ SendCall
  PROVE  IdsInv'
<1>1. /\ UNCHANGED <<captures, assigned, late>> /\ Idle /\ call'.phase = "sent"
      /\ call'.request.op = Scenario.op
      /\ call'.request.kind = "call" => call'.request.job = IF Scenario.needs = None THEN NoJob ELSE captures[Scenario.needs]
      /\ step = call'.request.kind
  BY DEF SendNegative, SendVerify, SendSetup, SendCall, Send, runner, server
<1>2. Requested' = Requested \cup {call'.request}
  BY <1>1 DEF Requested, Idle
<1>3. at \in Index \/ call'.request.kind # "call"
  BY <1>1 DEF TypeOK, RunnerTypeOK
<1>4. at \in Index => ScenarioOf[Scenario.op] = Scenario
  BY ScenarioFacts DEF Scenario
<1>5. ASSUME NEW k \in Keys, NEW j, Uses(k, j)'
      PROVE  Uses(k, j)
  <2>1. CASE Names(call'.request, k) /\ call'.request.job = j
    <3>1. j = captures[k] /\ j # NoJob
      BY <1>1, <1>3, <1>4, <1>5, <2>1 DEF Names, Uses, Keys
    <3>2. QED
      BY <3>1 DEF Uses
  <2>2. CASE ~(Names(call'.request, k) /\ call'.request.job = j)
    BY <1>1, <1>2, <1>5, <2>2 DEF Uses, Names
  <2>3. QED
    BY <2>1, <2>2
<1>6. QED
  BY <1>5, IdsKept

LEMMA IdsReceive ==
  ASSUME TypeOK, VerdictInv, CaptureInv, IdsInv, JobsMoveOn, JobsAreNamed(Scenarios),
         ReceiveNegative \/ ReceiveVerify \/ ReceiveSetup \/ ReceiveCall \/ MissingCapture
  PROVE  IdsInv'
<1>1. UNCHANGED <<assigned, late>> /\ Requested' \subseteq Requested
  <2>1. UNCHANGED <<assigned, late>> /\ (call' = NoCall \/ call' = call)
    BY DEF ReceiveNegative, ReceiveVerify, ReceiveSetup, ReceiveCall, MissingCapture, Receive, server
  <2>2. QED
    BY <2>1 DEF Requested, Idle, NoCall
<1>2. captures \in [Keys -> Nat]
  BY DEF TypeOK, RunnerTypeOK
<1>3. \A k \in Keys : captures'[k] \in {captures[k], assigned[k]}
  <2>1. CASE captures' = captures
    BY <2>1
  <2>2. CASE ReceiveSetup /\ Answer.job # NoJob /\ captures' = [captures EXCEPT ![Scenario.setup] = Answer.job]
    BY <1>2, <2>2, ReceiveCapturesSetup
  <2>3. CASE ReceiveCall /\ Answer.job # NoJob /\ Scenario.key # None
               /\ captures' = [captures EXCEPT ![Scenario.key] = Answer.job]
    BY <1>2, <2>3, ReceiveCapturesKey
  <2>4. QED
    BY <2>1, <2>2, <2>3, ReceiveCases
<1>4. ASSUME NEW k \in Keys, NEW j, Uses(k, j)'
      PROVE  Uses(k, j)
  BY <1>1, <1>3, <1>4 DEF Uses, Names
<1>5. QED
  BY <1>4, IdsKept

LEMMA IdsStep ==
  ASSUME TypeOK, VerdictInv, CaptureInv, IdsInv, JobsAreNamed(Scenarios), [Next]_vars
  PROVE  IdsInv'
<1>1. JobsMoveOn
  BY JobsStep
<1>2. CASE Serve \/ ServeWrongly
  BY <1>1, <1>2, ServedStep, IdsServed
<1>3. CASE SendNegative \/ SendVerify \/ SendSetup \/ SendCall
  BY <1>1, <1>3, IdsSend
<1>4. CASE ReceiveNegative \/ ReceiveVerify \/ ReceiveSetup \/ ReceiveCall \/ MissingCapture
  BY <1>1, <1>4, IdsReceive
<1>5. ASSUME UNCHANGED <<captures, assigned>>, Requested' \subseteq Requested
      PROVE  IdsInv'
  <2>1. \A k \in Keys : \A j : Uses(k, j)' => Uses(k, j)
    BY <1>5 DEF Uses, Names
  <2>2. QED
    BY <1>1, <2>1, IdsKept
<1>6. CASE GiveUp
  BY <1>5, <1>6 DEF GiveUp, Requested, Idle, runner
<1>7. CASE \/ ServeLate \/ JobEnds \/ Record \/ WriteReport \/ Exit \/ PollDeadline \/ Crash \/ Finished
           \/ UNCHANGED vars
  <2>1. UNCHANGED <<captures, assigned, call>> /\ late' \subseteq late
    BY <1>7 DEF ServeLate, JobEnds, Record, WriteReport, Exit, PollDeadline, Crash, Finished, vars, runner, server
  <2>2. QED
    BY <1>5, <2>1 DEF Requested, Idle
<1>8. QED
  BY <1>2, <1>3, <1>4, <1>6, <1>7 DEF Next, RunnerStep, ServerStep, ClockStep

LEMMA IdsInvariant ==
  ASSUME OneProvider(Scenarios), JobsAreNamed(Scenarios)
  PROVE  Spec => []IdsInv
<1>1. Init => IdsInv
  BY IdsInit
<1>2. TypeOK /\ VerdictInv /\ CaptureInv /\ IdsInv /\ [Next]_vars => IdsInv'
  BY IdsStep
<1>3. QED
  BY <1>1, <1>2, TypeCorrect, VerdictInvariant, CaptureInvariant, PTL DEF Spec

\* CancelJob, also one that was given up and is served late, never reaches the job GetJob polls.
THEOREM PolledJobSurvives ==
  ASSUME OneProvider(Scenarios), JobsAreNamed(Scenarios)
  PROVE  Spec => []SubmittedJobSurvives
<1>1. TypeOK /\ IdsInv => SubmittedJobSurvives
  <2> SUFFICES ASSUME TypeOK, IdsInv, "GetJob" \in Operations,
                      JobState(captures[ScenarioOf["GetJob"].needs]) = "cancelled"
               PROVE  FALSE
    BY DEF SubmittedJobSurvives
  <2>1. PICK i \in Index : Scenarios[i].op = "GetJob"
    BY DEF Operations
  <2> DEFINE k == Scenarios[i].needs
             j == captures[k]
  <2>2. k \in Keys /\ ScenarioOf["GetJob"] = Scenarios[i]
    BY <2>1, ScenarioFacts DEF JobsAreNamed, Index
  <2>3. j \in DOMAIN jobs /\ jobs[j] = "cancelled"
    BY <2>2 DEF JobState
  <2>4. Uses(k, j)
    BY <2>3, JobDomain DEF Uses, TypeOK, NoJob
  <2>5. PICK n \in Index : Scenarios[n].op = "CancelJob" /\ Scenarios[n].needs = k
    BY <2>2, <2>3, <2>4 DEF IdsInv
  <2>6. QED
    BY <2>1, <2>5 DEF JobsAreNamed, Index
<1>2. QED
  BY <1>1, IdsInvariant, TypeCorrect, PTL

-----------------------------------------------------------------------------
(* Jobs of passed operations are done.                                     *)

EndState(op) == IF op = "CancelJob" THEN "cancelled" ELSE "completed"
Done(op) == JobState(captures[ScenarioOf[op].needs]) = EndState(op)

AnswerDone ==
  /\ call.phase = "answered" /\ call.request.kind = "call" /\ call.request.op \in JobOperations
  /\ call.reply.good
  => JobState(call.reply.job) = EndState(call.request.op)
FacetDone == facets["positive"] = "pass" /\ Scenario.op \in JobOperations => Done(Scenario.op)

DoneInv == AnswerDone /\ FacetDone /\ PassedJobsAreDone

LEMMA PassedDone == PassedJobsAreDone <=> \A op \in Operations \cap JobOperations : Passed(op) => Done(op)
BY DEF PassedJobsAreDone, JobOperations, Done, EndState

LEMMA EndStates == \A op : EndState(op) \notin {"running", "absent"}
BY DEF EndState

\* A conforming good reply about a job tells its state after the call.
LEMMA GoodJobReply ==
  ASSUME TypeOK, JobsAreNamed(Scenarios), NEW r \in Requests, r.kind = "call", r.op \in JobOperations,
         Conforming(r).good, jobs' = JobsAfter(r), NEW j, j = Conforming(r).job
  PROVE  JobState(j)' = EndState(r.op)
<1>1. PICK i \in Index : r.op = Scenarios[i].op
  BY DEF Requests, Operations
<1>2. KeyOf(r) = None
  <2>1. ScenarioOf[r.op] = Scenarios[i]
    BY <1>1, ScenarioFacts
  <2>2. QED
    BY <1>1, <2>1 DEF KeyOf, JobsAreNamed, Index, JobOperations
<1>3. Conforming(r) = JobReply(r)
  BY <1>2 DEF Conforming, ReadsLayer, JobOperations
<1>4. JobReply(r).job = r.job /\ JobState(r.job) = (IF r.op = "CancelJob" THEN "running" ELSE "completed")
  <2>1. CASE r.op = "GetJob"
    <3>1. JobState(r.job) # "absent"
      <4>1. SUFFICES ASSUME JobState(r.job) = "absent" PROVE FALSE
        OBVIOUS
      <4>2. JobReply(r) = Status("NOT_FOUND")
        BY <2>1, <4>1, Zenon DEF JobReply
      <4>3. QED
        BY <1>3, <4>2, ReplyFields
    <3>2. JobReply(r) = Message(JobState(r.job) = "completed", JobState(r.job) # "running", TRUE, r.job)
      BY <2>1, <3>1, Zenon DEF JobReply
    <3>3. JobReply(r).job = r.job /\ JobReply(r).good = (JobState(r.job) = "completed")
      <4> DEFINE b == (JobState(r.job) = "completed")
                 t == (JobState(r.job) # "running")
      <4>1. JobReply(r) = Message(b, t, TRUE, r.job)
        BY <3>2
      <4> HIDE DEF b, t
      <4>2. JobReply(r).job = r.job /\ JobReply(r).good = b
        BY <4>1 DEF Message
      <4>3. QED
        BY <4>2 DEF b
    <3>4. QED
      BY <1>3, <2>1, <3>3, Zenon
  <2>2. CASE r.op # "GetJob"
    BY <1>3, <2>2 DEF JobReply, JobOperations, Status, Message, Failure
  <2>3. QED
    BY <2>1, <2>2
<1>5. r.job \in DOMAIN jobs /\ jobs[r.job] = JobState(r.job)
  BY <1>4 DEF JobState
<1>6. jobs' = IF r.op = "CancelJob" THEN [jobs EXCEPT ![r.job] = "cancelled"] ELSE jobs
  BY <1>2, <1>4 DEF JobsAfter, JobOperations
<1>7. r.job \in DOMAIN jobs' /\ jobs'[r.job] = EndState(r.op)
  BY <1>4, <1>5, <1>6 DEF EndState, TypeOK, ServerTypeOK
<1>8. QED
  BY <1>3, <1>4, <1>7 DEF JobState

LEMMA DoneInit == Init => DoneInv
BY DEF Init, DoneInv, AnswerDone, FacetDone, PassedJobsAreDone, Passed, NoCall, Facets, None

\* What was captured stays captured, so that a job done stays done.
LEMMA DoneKept ==
  ASSUME TypeOK, JobsMoveOn, captures' = captures, NEW op, Done(op)
  PROVE  Done(op)'
BY EndStates, EndedJobsStay DEF Done, EndState

LEMMA DoneFrame ==
  ASSUME TypeOK, DoneInv, JobsMoveOn, UNCHANGED <<at, captures, facets, outcomes>>
  PROVE  FacetDone' /\ PassedJobsAreDone'
<1>1. FacetDone'
  BY DoneKept DEF DoneInv, FacetDone, Scenario
<1>2. PassedJobsAreDone'
  <2>1. \A op \in Operations \cap JobOperations : Passed(op)' => Done(op)'
    BY DoneKept, PassedDone DEF DoneInv, Passed
  <2>2. QED
    BY <2>1 DEF PassedJobsAreDone, JobOperations, Done, EndState, Passed
<1>3. QED
  BY <1>1, <1>2

LEMMA DoneServed ==
  ASSUME TypeOK, VerdictInv, DoneInv, JobsMoveOn, JobsAreNamed(Scenarios), call.phase = "sent",
         UNCHANGED runner, NEW y \in Replies, NEW done \in BOOLEAN, Served(y, done)
  PROVE  DoneInv'
<1> DEFINE r == call.request
<1>1. call' = [phase |-> "answered", request |-> r, reply |-> y] /\ r \in Requests
  BY CallShape DEF Served, Reply, Idle
<1>2. ASSUME r.kind = "call", r.op \in JobOperations, y.good
      PROVE  JobState(y.job)' = EndState(r.op)
  <2>1. Conforming(r).good /\ y.job = Conforming(r).job /\ jobs' = JobsAfter(r)
    BY <1>2 DEF Served
  <2>2. QED
    BY <1>1, <1>2, <2>1, GoodJobReply DEF JobState
<1>3. AnswerDone'
  BY <1>1, <1>2 DEF AnswerDone, JobState
<1>4. FacetDone' /\ PassedJobsAreDone'
  BY DoneFrame DEF runner
<1>5. QED
  BY <1>3, <1>4 DEF DoneInv

\* A pass comes of the comparison alone.
LEMMA ReceivePass ==
  ASSUME TypeOK, VerdictInv, facets'["positive"] = "pass",
         ReceiveNegative \/ ReceiveVerify \/ ReceiveSetup \/ ReceiveCall \/ MissingCapture
  PROVE  /\ ReceiveCall /\ CaptureAndCompare /\ Answer.status = "OK" /\ Answer.good
         /\ Scenario.needs # None => Answer.job = captures[Scenario.needs]
         /\ Scenario.key # None => Answer.job # NoJob \/ ~Answer.some
<1>1. facets \in [Facets -> ResultType] /\ "positive" \in Facets /\ "negative" \in Facets
  BY Zenon DEF TypeOK, RunnerTypeOK, Facets
<1>2. facets["positive"] = None
  BY ReceiveCases
<1>3. \A v : Conclude(v) => v = "pass"
  BY <1>1 DEF Conclude, Settle
<1>4. \A s : ~Raise(s)
  BY <1>2, <1>3 DEF Raise, None
<1>5. ~ReceiveNegative /\ ~ReceiveVerify
  BY <1>1, <1>2 DEF ReceiveNegative, ReceiveVerify, Settle, None
<1>6. ~ReceiveSetup /\ ~MissingCapture
  BY <1>2, <1>3, <1>4 DEF ReceiveSetup, MissingCapture, None
<1>7. ReceiveCall
  BY <1>5, <1>6
<1>8. Answer.status = "OK" /\ CaptureAndCompare
  BY <1>2, <1>4, <1>7 DEF ReceiveCall, None
<1>9. QED
  BY <1>3, <1>7, <1>8 DEF CaptureAndCompare

LEMMA DoneReceive ==
  ASSUME TypeOK, VerdictInv, CaptureInv, DoneInv, JobsAreNamed(Scenarios), OneProvider(Scenarios),
         ReceiveNegative \/ ReceiveVerify \/ ReceiveSetup \/ ReceiveCall \/ MissingCapture
  PROVE  DoneInv'
<1>1. /\ UNCHANGED <<at, outcomes, jobs>> /\ Scenario' = Scenario /\ call'.phase = "idle"
  <2>1. UNCHANGED <<at, outcomes, jobs>> /\ (call' = NoCall \/ (Idle /\ call' = call))
    BY DEF ReceiveNegative, ReceiveVerify, ReceiveSetup, ReceiveCall, MissingCapture, Receive, server
  <2>2. QED
    BY <2>1 DEF Scenario, NoCall, Idle
<1>2. AnswerDone'
  BY <1>1 DEF AnswerDone
<1>3. /\ facets["positive"] = None /\ step \in Kinds /\ at \in Index
      /\ captures \in [Keys -> Nat] /\ Scenario = Scenarios[at]
      /\ ScenarioOf[Scenario.op] = Scenario
  BY ReceiveCases, ScenarioFacts DEF TypeOK, RunnerTypeOK, Scenario
<1>4. ASSUME NEW op \in Operations \cap JobOperations, Passed(op)
      PROVE  captures'[ScenarioOf[op].needs] = captures[ScenarioOf[op].needs]
  <2>1. PICK i \in Index : op = Scenarios[i].op
    BY DEF Operations
  <2> DEFINE k == Scenarios[i].needs
  <2>2. ScenarioOf[op] = Scenarios[i] /\ k # None /\ k \in Keys
    BY <1>4, <2>1, ScenarioFacts DEF JobsAreNamed, JobOperations, Index
  <2>3. Done(op)
    BY <1>4, PassedDone DEF DoneInv
  <2>4. captures[k] # NoJob
    BY <2>2, <2>3, EndStates, JobDomain DEF Done, JobState, TypeOK, NoJob
  <2>5. i # at
    <3>1. outcomes[Scenarios[at].op].result = None
      BY <1>3 DEF VerdictInv, OutcomeInv, Index
    <3>2. QED
      BY <1>4, <2>1, <3>1 DEF Passed, None
  <2>6. Scenario.setup # k
    BY <1>3, <2>2, <2>5, Providers
  <2>7. Scenario.key # k
    <3>1. ~Past(at)
      BY <1>3 DEF Past, Index
    <3>2. QED
      BY <1>3, <2>2, <2>4, <3>1 DEF CaptureInv, KeyFresh
  <2>8. QED
    BY <1>3, <2>2, <2>6, <2>7, ReceiveCases
<1>5. PassedJobsAreDone'
  <2>1. \A op \in Operations \cap JobOperations : Passed(op)' => Done(op)'
    BY <1>1, <1>4, PassedDone DEF DoneInv, Passed, Done, JobState
  <2>2. QED
    BY <2>1 DEF PassedJobsAreDone, JobOperations, Done, EndState, Passed
<1>6. FacetDone'
  <2> SUFFICES ASSUME facets'["positive"] = "pass", Scenario.op \in JobOperations
               PROVE  JobState(captures'[Scenario.needs]) = EndState(Scenario.op)
    BY <1>1, <1>3 DEF FacetDone, Done, JobState
  <2>1. ReceiveCall /\ CaptureAndCompare
    BY <1>3, ReceivePass
  <2>2. captures' = captures /\ Answer.good /\ (Scenario.needs # None => Answer.job = captures[Scenario.needs])
    <3>1. Scenario.key = None
      BY <1>3 DEF JobsAreNamed, Index, JobOperations
    <3>2. QED
      BY <1>3, <2>1, <3>1, ReceivePass DEF CaptureAndCompare
  <2>3. Scenario.needs # None
    BY <1>3 DEF JobsAreNamed, Index, JobOperations
  <2>4. call.phase = "answered" /\ call.request.kind = "call" /\ call.request.op = Scenario.op
    BY <1>3, <2>1, ReceiveShape, CallShape DEF ReceiveCall, Receive
  <2>5. QED
    BY <2>2, <2>3, <2>4 DEF DoneInv, AnswerDone, Answer
<1>7. QED
  BY <1>2, <1>5, <1>6 DEF DoneInv

LEMMA DoneRecord ==
  ASSUME TypeOK, VerdictInv, DoneInv, JobsMoveOn, Record
  PROVE  DoneInv'
<1>1. /\ UNCHANGED <<captures, call, jobs>> /\ Idle /\ facets' = [f \in Facets |-> None]
      /\ outcomes' = [outcomes EXCEPT ![Scenario.op] = Outcome]
  BY OutcomeVerdict DEF Record, server
<1>2. AnswerDone' /\ FacetDone'
  BY <1>1 DEF AnswerDone, FacetDone, Idle, Facets, None
<1>3. outcomes \in [Operations -> OutcomeType] /\ facets \in [Facets -> ResultType]
  BY Zenon DEF TypeOK, RunnerTypeOK
<1>4. Outcome.result = "pass" => facets["positive"] = "pass"
  <2>1. CASE Scenario.negative = None
    BY <2>1 DEF Outcome
  <2>2. CASE Scenario.negative # None
    <3> DEFINE all == [facets EXCEPT !["media-schema"] = MediaSchema]
    <3>1. Outcome.result = IF \A f \in Facets : all[f] = "pass" THEN "pass" ELSE "fail"
      BY <2>2 DEF Outcome
    <3>2. all["positive"] = facets["positive"]
      BY <1>3 DEF Facets
    <3> HIDE DEF all
    <3>3. QED
      BY <3>1, <3>2 DEF Facets
  <2>3. QED
    BY <2>1, <2>2
<1>5. ASSUME NEW op \in Operations \cap JobOperations, Passed(op)'
      PROVE  Done(op)
  BY <1>1, <1>3, <1>4, <1>5, PassedDone DEF DoneInv, FacetDone, Passed
<1>6. PassedJobsAreDone'
  <2>1. \A op \in Operations \cap JobOperations : Passed(op)' => Done(op)'
    BY <1>1, <1>5, DoneKept
  <2>2. QED
    BY <2>1 DEF PassedJobsAreDone, JobOperations, Done, EndState, Passed
<1>7. QED
  BY <1>2, <1>6 DEF DoneInv

LEMMA DoneStep ==
  ASSUME TypeOK, VerdictInv, CaptureInv, DoneInv, OneProvider(Scenarios), JobsAreNamed(Scenarios), [Next]_vars
  PROVE  DoneInv'
<1>1. JobsMoveOn
  BY JobsStep
<1>2. CASE Serve \/ ServeWrongly
  BY <1>1, <1>2, ServedStep, DoneServed
<1>3. CASE ReceiveNegative \/ ReceiveVerify \/ ReceiveSetup \/ ReceiveCall \/ MissingCapture
  BY <1>3, DoneReceive
<1>4. CASE Record
  BY <1>1, <1>4, DoneRecord
<1>5. CASE SendNegative \/ SendVerify \/ SendSetup \/ SendCall
  <2>1. UNCHANGED <<at, captures, facets, outcomes>> /\ call'.phase = "sent"
    BY <1>5 DEF SendNegative, SendVerify, SendSetup, SendCall, Send, runner
  <2>2. QED
    BY <1>1, <2>1, DoneFrame DEF DoneInv, AnswerDone
<1>6. CASE GiveUp
  <2>1. UNCHANGED <<at, captures, facets, outcomes>> /\ call'.reply.good = FALSE
    BY <1>6, ReplyFields DEF GiveUp, runner
  <2>2. QED
    BY <1>1, <2>1, DoneFrame DEF DoneInv, AnswerDone
<1>7. CASE ServeLate \/ JobEnds \/ WriteReport \/ Exit \/ PollDeadline \/ Crash \/ Finished \/ UNCHANGED vars
  <2>1. UNCHANGED <<at, captures, facets, outcomes, call>>
    BY <1>7 DEF ServeLate, JobEnds, WriteReport, Exit, PollDeadline, Crash, Finished, vars, runner
  <2>2. AnswerDone'
    BY <1>1, <2>1, EndStates, EndedJobsStay DEF DoneInv, AnswerDone
  <2>3. QED
    BY <1>1, <2>1, <2>2, DoneFrame DEF DoneInv
<1>8. QED
  BY <1>2, <1>3, <1>4, <1>5, <1>6, <1>7 DEF Next, RunnerStep, ServerStep, ClockStep

LEMMA DoneInvariant ==
  ASSUME OneProvider(Scenarios), JobsAreNamed(Scenarios)
  PROVE  Spec => []DoneInv
<1>1. Init => DoneInv
  BY DoneInit
<1>2. TypeOK /\ VerdictInv /\ CaptureInv /\ DoneInv /\ [Next]_vars => DoneInv'
  BY DoneStep
<1>3. QED
  BY <1>1, <1>2, TypeCorrect, VerdictInvariant, CaptureInvariant, PTL DEF Spec

\* A pass of GetJob or GetJobResult means that the captured job has completed, a pass of
\* CancelJob that the one its last setup submitted is cancelled, and both stay true.
THEOREM JobsOfPassesAreDone ==
  ASSUME OneProvider(Scenarios), JobsAreNamed(Scenarios)
  PROVE  Spec => []PassedJobsAreDone
<1>1. DoneInv => PassedJobsAreDone
  BY DEF DoneInv
<1>2. QED
  BY <1>1, DoneInvariant, PTL
=============================================================================
