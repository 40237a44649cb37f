----------------------------- MODULE LaneRunner -----------------------------
(***************************************************************************)
(* One certification lane: the runner of certification/python/runner.py    *)
(* (its .NET and TypeScript siblings have the same control flow) executes  *)
(* the scenario list, one RPC at a time, against a live server.            *)
(*                                                                         *)
(* The runner is modelled step by step: the negative call and its          *)
(* read-back, the setup call, the positive call, the polling loop, the     *)
(* setup-race retry, the captures that carry server-assigned ids from one  *)
(* scenario to the next, the facets and the report.  The server is         *)
(* external.  It runs jobs in the background, holds one feature layer, may *)
(* answer any call wrongly up to MaxFaults times, and may serve a request  *)
(* after the client has given it up.                                       *)
(*                                                                         *)
(* A reply is abstracted to what the runner tells apart: its status;       *)
(* "good", equal to the expected fixture outside the masked fields and the *)
(* captured id; the id it carries; "terminal", whether the polled value is *)
(* one the poll waits for; "known", free of fields unknown to the          *)
(* installed schema; "some", at least one message.                         *)
(***************************************************************************)
EXTENDS Naturals, Sequences, FiniteSets

CONSTANTS
  Scenarios,    \* the scenario list, in execution order
  Excluded,     \* the operations outside the governed cells
  MaxFaults,    \* bound: replies in which the server departs from the contract
  MaxTimeouts   \* bound: calls the client gives up at its deadline

None == "none"
Race == "FAILED_PRECONDITION"          \* setup_race_retry.status_code
Errors == {Race, "INVALID_ARGUMENT", "NOT_FOUND", "INTERNAL"}
NoJob == 0

Index == 1 .. Len(Scenarios)
Keys == ({Scenarios[i].key : i \in Index} \cup {Scenarios[i].setup : i \in Index}) \ {None}
Operations == {Scenarios[i].op : i \in Index}
Facets == {"negative", "positive", "media-schema"}

ScenarioType ==
  [op : STRING, stream : BOOLEAN, negative : Errors \cup {None}, verify : BOOLEAN,
   setup : STRING, needs : STRING, key : STRING, poll : BOOLEAN, attempts : Nat \ {0}]

ASSUME ScenariosAssumption ==
  /\ Scenarios \in Seq(ScenarioType) /\ Scenarios # << >>
  /\ \A i, j \in Index : Scenarios[i].op = Scenarios[j].op => i = j
  /\ \A i \in Index : Scenarios[i].needs \in Keys \cup {None}
ASSUME BoundsAssumption == MaxFaults \in Nat /\ MaxTimeouts \in Nat

VARIABLES
  at,        \* index of the scenario being executed
  step,      \* what the runner does next within it
  attempt,   \* setup_race_retry attempt, from 1
  captures,  \* ids captured so far, by name
  decoded,   \* what the positive responses decoded so far were like
  facets,    \* facets of this scenario settled so far
  expired,   \* the poll deadline has passed
  outcomes,  \* results recorded so far, by operation
  report,    \* the report file: the workflow's default, a torn file, or the outcomes
  exit,      \* exit code of the process
  call,      \* the outstanding RPC
  jobs,      \* server: state of every job it has created
  layer,     \* server: the feature rows ApplyEdits changes
  late,      \* server: requests the client no longer waits for
  faults,    \* departures from the contract so far
  timeouts,  \* calls given up so far
  last,      \* history: what the last positive reply served was like, by operation
  rejected,  \* history: operations whose negative call the server rejected as recorded
  assigned,  \* history: the id the server assigned last for each capture
  blemished  \* history: <<operation, defect>> of the positive replies received

runner  == <<at, step, attempt, captures, decoded, facets, expired, outcomes, report, exit>>
server  == <<jobs, layer, late, faults, last, rejected, assigned>>
vars    == <<runner, call, server, timeouts, blemished>>

-----------------------------------------------------------------------------
(* The requests and replies.                                               *)

Kinds == {"negative", "verify", "setup", "call"}
Requests == [op : Operations, kind : Kinds, job : Nat]
Replies == [status : Errors \cup {"OK", "DEADLINE_EXCEEDED"}, good : BOOLEAN, terminal : BOOLEAN,
            known : BOOLEAN, some : BOOLEAN, job : Nat]
NoCall == [phase |-> "idle"]
DefaultReport == [written |-> FALSE]
TornReport == [written |-> FALSE, torn |-> TRUE]
Sent == [phase : {"sent"}, request : Requests]
Answered == [phase : {"answered"}, request : Requests, reply : Replies]

Idle == call.phase = "idle"
Scenario == Scenarios[at]

Message(good, terminal, known, job) ==
  [status |-> "OK", good |-> good, terminal |-> terminal, known |-> known, some |-> TRUE, job |-> job]
Failure(code, known) ==
  [status |-> code, good |-> FALSE, terminal |-> FALSE, known |-> known, some |-> FALSE, job |-> NoJob]
Status(code) == Failure(code, TRUE)
Undecodable == Failure("INTERNAL", FALSE)
EmptyStream == Failure("OK", TRUE)

-----------------------------------------------------------------------------
(* The server under test (external): what the contract makes of a request. *)

ScenarioOf == [op \in Operations |-> Scenarios[CHOOSE i \in Index : Scenarios[i].op = op]]
JobState(j) == IF j \in DOMAIN jobs THEN jobs[j] ELSE "absent"

\* The name under which the runner captures the id of the job this request creates.
KeyOf(r) == IF r.kind = "setup" THEN ScenarioOf[r.op].setup
            ELSE IF r.kind = "call" THEN ScenarioOf[r.op].key ELSE None

JobsAfter(r) ==
  IF KeyOf(r) # None
  THEN Append(jobs, IF r.op = "ApplySpec" THEN "completed" ELSE "running")
  ELSE IF r.op = "CancelJob" /\ r.kind = "call" /\ JobState(r.job) = "running"
       THEN [jobs EXCEPT ![r.job] = "cancelled"]
       ELSE jobs

LayerAfter(r) ==
  IF r.op = "ApplyEdits" /\ r.kind \in {"call", "negative"}
  THEN IF r.kind = "call" /\ layer = "seed" THEN "edited" ELSE "other"
  ELSE layer

ReadsLayer(r) == r.kind = "verify" \/ (r.kind = "call" /\ r.op \in {"QueryFeatures", "ApplyEdits"})

\* A job that cannot give its result, or cannot be cancelled any more, is a Race.
JobReply(r) ==
  LET state == JobState(r.job)
  IN  IF r.op = "GetJob"
      THEN IF state = "absent" THEN Status("NOT_FOUND")
           ELSE Message(state = "completed", state # "running", TRUE, r.job)
      ELSE IF \/ r.op = "GetJobResult" /\ state # "completed"
              \/ r.op = "CancelJob" /\ state # "running"
           THEN Status(Race)
           ELSE Message(TRUE, TRUE, TRUE, r.job)

\* The reply the contract prescribes.
Conforming(r) ==
  IF r.kind = "negative" THEN Status(ScenarioOf[r.op].negative)
  ELSE IF ReadsLayer(r) THEN Message(layer = "seed", TRUE, TRUE, NoJob)
  ELSE IF KeyOf(r) # None THEN Message(TRUE, TRUE, TRUE, Len(jobs) + 1)
  ELSE JobReply(r)

\* What a reply tells of the call: the expected result, one still to wait for, or neither.
Verdict(y) == IF y.good THEN "good" ELSE IF y.status = "OK" /\ ~y.terminal THEN "pending" ELSE "bad"

Reply(r, y) ==
  /\ call' = [phase |-> "answered", request |-> r, reply |-> y]
  /\ last' = IF r.kind = "call" THEN [last EXCEPT ![r.op] = Verdict(y)] ELSE last
  /\ rejected' = IF r.kind = "negative" /\ y.status = ScenarioOf[r.op].negative
                 THEN rejected \cup {r.op} ELSE rejected
  /\ assigned' = IF KeyOf(r) # None /\ y.job # NoJob
                 THEN [assigned EXCEPT ![KeyOf(r)] = y.job] ELSE assigned

Serve ==
  /\ call.phase = "sent"
  /\ Reply(call.request, Conforming(call.request))
  /\ IF call.request.kind = "negative" THEN UNCHANGED <<jobs, layer>>
     ELSE jobs' = JobsAfter(call.request) /\ layer' = LayerAfter(call.request)
  /\ UNCHANGED <<runner, late, faults, timeouts, blemished>>

\* A defective server may say anything, except claim a conforming result for what it did
\* not do: no client could tell such a lie from the truth.
ReplyWrongly(r, takesEffect) ==
  LET right == Conforming(r)
  IN  \/ \E code \in Errors : Reply(r, Status(code))
      \/ Reply(r, Undecodable)
      \/ \E terminal, known \in BOOLEAN : Reply(r, Message(FALSE, terminal, known, NoJob))
      \/ /\ takesEffect
         /\ \E good, terminal, known \in BOOLEAN :
              /\ good => right.good /\ terminal
              /\ Reply(r, Message(good, terminal, known, right.job))
      \/ /\ r.kind = "call" /\ ScenarioOf[r.op].stream
         /\ Reply(r, EmptyStream)

ServeWrongly ==
  /\ call.phase = "sent" /\ faults < MaxFaults
  /\ \E takesEffect \in BOOLEAN :
       /\ ReplyWrongly(call.request, takesEffect)
       /\ IF takesEffect
          THEN jobs' = JobsAfter(call.request) /\ layer' = LayerAfter(call.request)
          ELSE UNCHANGED <<jobs, layer>>
  /\ faults' = faults + 1
  /\ UNCHANGED <<runner, late, timeouts, blemished>>

\* A request the client has given up is served all the same; nobody hears of it.
ServeLate ==
  /\ \E r \in late :
       /\ jobs' = JobsAfter(r) /\ layer' = LayerAfter(r)
       /\ late' = late \ {r}
  /\ UNCHANGED <<runner, call, faults, last, rejected, assigned, timeouts, blemished>>

JobEnds ==
  /\ \E j \in DOMAIN jobs :
       /\ jobs[j] = "running"
       /\ \/ jobs' = [jobs EXCEPT ![j] = "completed"] /\ UNCHANGED faults
          \/ /\ faults < MaxFaults /\ faults' = faults + 1
             /\ jobs' = [jobs EXCEPT ![j] = "failed"]
  /\ UNCHANGED <<runner, call, layer, late, last, rejected, assigned, timeouts, blemished>>

-----------------------------------------------------------------------------
(* The runner.                                                             *)

\* Seeded fault: run_negative is entered for a scenario that has no negative case.
FirstStepUnguarded(i) == "negative"

FirstStep(i) == IF Scenarios[i].negative # None THEN "negative"
                ELSE IF Scenarios[i].setup # None THEN "setup" ELSE "call"
PositiveStep == IF Scenario.setup # None THEN "setup" ELSE "call"

Send(kind, job) ==
  /\ Idle /\ step = kind
  /\ call' = [phase |-> "sent", request |-> [op |-> Scenario.op, kind |-> kind, job |-> job]]
  /\ UNCHANGED <<runner, server, timeouts, blemished>>

SendNegative == Send("negative", NoJob)
SendVerify == Send("verify", NoJob)
SendSetup == Send("setup", NoJob)
\* Seeded fault: every placeholder is substituted with the submitted job's id.
SendCallSubmitted ==
  /\ step = "call"
  /\ Send("call", IF Scenario.needs = None THEN NoJob ELSE captures["submitted_job"])

\* read_fixture substitutes the capture the request needs.
SendCall ==
  LET needed == Scenario.needs
  IN  /\ step = "call"
      /\ needed # None => captures[needed] # NoJob
      /\ Send("call", IF needed = None THEN NoJob ELSE captures[needed])

\* The runner takes the answer to a call of this kind.
Receive(kind) == call.phase = "answered" /\ step = kind /\ call' = NoCall
Answer == call.reply
Settle(facet, verdict) == facets' = [facets EXCEPT ![facet] = verdict]

ReceiveNegative ==
  /\ Receive("negative")
  /\ IF Answer.status # Scenario.negative
     THEN Settle("negative", "fail") /\ step' = PositiveStep
     ELSE IF Scenario.verify THEN step' = "verify" /\ UNCHANGED facets
     ELSE Settle("negative", "pass") /\ step' = PositiveStep
  /\ UNCHANGED <<at, attempt, captures, decoded, expired, outcomes, report, exit, server, timeouts, blemished>>

\* Seeded fault: the read-back is made, but not compared.
ReceiveVerifyUncompared ==
  /\ Receive("verify")
  /\ Settle("negative", IF Answer.status = "OK" THEN "pass" ELSE "fail")
  /\ step' = PositiveStep
  /\ UNCHANGED <<at, attempt, captures, decoded, expired, outcomes, report, exit, server, timeouts, blemished>>

ReceiveVerify ==
  /\ Receive("verify")
  /\ Settle("negative", IF Answer.status = "OK" /\ Answer.good THEN "pass" ELSE "fail")
  /\ step' = PositiveStep
  /\ UNCHANGED <<at, attempt, captures, decoded, expired, outcomes, report, exit, server, timeouts, blemished>>

Conclude(verdict) == Settle("positive", verdict) /\ step' = "record" /\ UNCHANGED <<attempt, expired>>

\* An RPC error out of the setup or the positive call: the race is tried again.
Raise(status) ==
  IF Scenario.attempts > attempt /\ status = Race
  THEN attempt' = attempt + 1 /\ step' = PositiveStep /\ expired' = FALSE /\ UNCHANGED facets
  ELSE Conclude("fail")

\* Seeded fault: a capture that is already there is kept, as by dict.setdefault.
ReceiveSetupKeepsCapture ==
  /\ Receive("setup")
  /\ IF Answer.status # "OK" THEN Raise(Answer.status) /\ UNCHANGED captures
     ELSE IF Answer.job = NoJob THEN Conclude("fail") /\ UNCHANGED captures
     ELSE /\ captures' = IF captures[Scenario.setup] = NoJob
                         THEN [captures EXCEPT ![Scenario.setup] = Answer.job] ELSE captures
          /\ step' = "call" /\ UNCHANGED <<attempt, expired, facets>>
  /\ UNCHANGED <<at, decoded, outcomes, report, exit, server, timeouts, blemished>>

ReceiveSetup ==
  /\ Receive("setup")
  /\ IF Answer.status # "OK" THEN Raise(Answer.status) /\ UNCHANGED captures
     ELSE IF Answer.job = NoJob THEN Conclude("fail") /\ UNCHANGED captures
     ELSE /\ captures' = [captures EXCEPT ![Scenario.setup] = Answer.job]
          /\ step' = "call" /\ UNCHANGED <<attempt, expired, facets>>
  /\ UNCHANGED <<at, decoded, outcomes, report, exit, server, timeouts, blemished>>

MissingCapture ==
  /\ Idle /\ step = "call" /\ Scenario.needs # None /\ captures[Scenario.needs] = NoJob
  /\ Conclude("fail")
  /\ UNCHANGED <<at, captures, decoded, outcomes, report, exit, call, server, timeouts, blemished>>

\* Seeded fault: only the echoed id is compared.
CompareIdOnly ==
  /\ captures' = IF Scenario.key # None /\ Answer.job # NoJob
                 THEN [captures EXCEPT ![Scenario.key] = Answer.job] ELSE captures
  /\ Conclude(IF Scenario.needs # None => Answer.job = captures[Scenario.needs] THEN "pass" ELSE "fail")

\* Capture from the response (the first message of a stream), then compare.
CaptureAndCompare ==
  LET lacksId == Scenario.key # None /\ Answer.job = NoJob /\ Answer.some
      matches == Answer.good /\ (Scenario.needs # None => Answer.job = captures[Scenario.needs])
  IN  /\ captures' = IF Scenario.key # None /\ Answer.job # NoJob
                     THEN [captures EXCEPT ![Scenario.key] = Answer.job] ELSE captures
      /\ Conclude(IF matches /\ ~lacksId THEN "pass" ELSE "fail")

\* Seeded fault: polled responses replace the ones decoded before them.
DecodeLast == decoded' = IF Answer.some
                         THEN {IF Answer.known THEN "clean" ELSE "unknown field"} ELSE decoded

Decode == decoded' = IF Answer.some
                     THEN decoded \cup {IF Answer.known THEN "clean" ELSE "unknown field"}
                     ELSE decoded

\* Seeded fault: the first response is compared, without polling.
ReceiveCallUnpolled ==
  /\ Receive("call")
  /\ IF Answer.status # "OK" THEN Raise(Answer.status) /\ UNCHANGED <<captures, decoded>>
     ELSE Decode /\ CaptureAndCompare
  /\ blemished' = IF Answer.known THEN blemished
                  ELSE blemished \cup {<<Scenario.op, IF Answer.status = "OK" THEN "unknown field"
                                                      ELSE "undecodable">>}
  /\ UNCHANGED <<at, outcomes, report, exit, server, timeouts>>

ReceiveCall ==
  /\ Receive("call")
  /\ IF Answer.status # "OK" THEN Raise(Answer.status) /\ UNCHANGED <<captures, decoded>>
     ELSE /\ Decode
          /\ IF Scenario.poll /\ ~Answer.terminal /\ ~expired
             THEN UNCHANGED <<captures, step, attempt, expired, facets>>  \* sleep, call again
             ELSE CaptureAndCompare
  /\ blemished' = IF Answer.known THEN blemished
                  ELSE blemished \cup {<<Scenario.op, IF Answer.status = "OK" THEN "unknown field"
                                                      ELSE "undecodable">>}
  /\ UNCHANGED <<at, outcomes, report, exit, server, timeouts>>

MediaSchema == IF decoded = {"clean"} THEN "pass" ELSE "fail"

\* Seeded fault: the positive facet alone makes the result.
OutcomeOfPositive ==
  IF Scenario.negative = None THEN [result |-> facets["positive"]]
  ELSE [result |-> facets["positive"], facet_results |-> [facets EXCEPT !["media-schema"] = MediaSchema]]

Outcome ==
  IF Scenario.negative = None THEN [result |-> facets["positive"]]
  ELSE LET all == [facets EXCEPT !["media-schema"] = MediaSchema]
       IN  [result |-> IF \A f \in Facets : all[f] = "pass" THEN "pass" ELSE "fail",
            facet_results |-> all]

Record ==
  /\ step = "record"
  /\ outcomes' = [outcomes EXCEPT ![Scenario.op] = Outcome]
  /\ at' = at + 1
  /\ step' = IF at = Len(Scenarios) THEN "report" ELSE FirstStep(at + 1)
  /\ attempt' = 1 /\ expired' = FALSE
  /\ decoded' = {}
  /\ facets' = [f \in Facets |-> None]
  /\ UNCHANGED <<captures, report, exit, call, server, timeouts, blemished>>

\* Written once, after every scenario.
WriteReport ==
  /\ step = "report"
  /\ report' = [written |-> TRUE, operations |-> outcomes]
  /\ step' = "exit"
  /\ UNCHANGED <<at, attempt, captures, decoded, facets, expired, outcomes, exit, call, server, timeouts, blemished>>

\* Seeded fault: the exit code counts the excluded failures instead of the governed ones.
ExitMiscounted ==
  /\ step = "exit"
  /\ exit' = IF \E op \in Operations \cap Excluded : outcomes[op].result = "fail" THEN "failure" ELSE "success"
  /\ step' = "exited"
  /\ UNCHANGED <<at, attempt, captures, decoded, facets, expired, outcomes, report, call, server, timeouts, blemished>>

\* The report is on disk: only the governed failures make the exit code.
Exit ==
  /\ step = "exit"
  /\ exit' = IF \E op \in Operations \ Excluded : outcomes[op].result = "fail" THEN "failure" ELSE "success"
  /\ step' = "exited"
  /\ UNCHANGED <<at, attempt, captures, decoded, facets, expired, outcomes, report, call, server, timeouts, blemished>>

\* An exception outside a scenario (a measured package that is not the loaded one, an
\* excluded list that cannot be read), or the end of the process at any moment: the report is
\* not written, written in part, or written although the lane fails.
Crash ==
  /\ step \notin {"exited", "crashed"}
  /\ step' = "crashed" /\ exit' = "failure"
  /\ report' \in {report} \cup (IF step = "report" THEN {TornReport} ELSE {})
  /\ UNCHANGED <<at, attempt, captures, decoded, facets, expired, outcomes, call, server, timeouts, blemished>>

-----------------------------------------------------------------------------
(* Time.                                                                   *)

\* Seeded fault: the positive call is made without a deadline.
GiveUpUnlessCall ==
  /\ ~Idle /\ timeouts < MaxTimeouts /\ step \notin {"exited", "crashed"}
  /\ call.phase = "answered" => call.reply.status # "DEADLINE_EXCEEDED"
  /\ call.request.kind # "call"
  /\ call' = [phase |-> "answered", request |-> call.request, reply |-> Status("DEADLINE_EXCEEDED")]
  /\ late' = IF call.phase = "sent" /\ call.request.kind = "setup" THEN late \cup {call.request} ELSE late
  /\ timeouts' = timeouts + 1
  /\ UNCHANGED <<runner, jobs, layer, faults, last, rejected, assigned, blemished>>

\* The deadline of the call passes: the reply, if there is one, is not received.
GiveUp ==
  /\ ~Idle /\ timeouts < MaxTimeouts /\ step \notin {"exited", "crashed"}
  /\ call.phase = "answered" => call.reply.status # "DEADLINE_EXCEEDED"
  /\ call' = [phase |-> "answered", request |-> call.request, reply |-> Status("DEADLINE_EXCEEDED")]
  /\ late' = IF call.phase = "sent" /\ call.request.kind \in {"setup", "call"}
             THEN late \cup {call.request} ELSE late
  /\ timeouts' = timeouts + 1
  /\ UNCHANGED <<runner, jobs, layer, faults, last, rejected, assigned, blemished>>

PollDeadline ==
  /\ step = "call" /\ Scenario.poll /\ decoded # {} /\ ~expired
  /\ expired' = TRUE
  /\ UNCHANGED <<at, step, attempt, captures, decoded, facets, outcomes, report, exit, call, server, timeouts, blemished>>

-----------------------------------------------------------------------------
Init ==
  /\ at = 1 /\ step = FirstStep(1) /\ attempt = 1 /\ expired = FALSE
  /\ captures = [k \in Keys |-> NoJob]
  /\ decoded = {}
  /\ facets = [f \in Facets |-> None]
  /\ outcomes = [op \in Operations |-> [result |-> None]]
  /\ report = DefaultReport /\ exit = None
  /\ call = NoCall
  /\ jobs = << >> /\ layer = "seed" /\ late = {} /\ faults = 0 /\ timeouts = 0
  /\ last = [op \in Operations |-> None]
  /\ rejected = {} /\ assigned = [k \in Keys |-> NoJob] /\ blemished = {}

RunnerStep ==
  \/ SendNegative \/ ReceiveNegative \/ SendVerify \/ ReceiveVerify
  \/ SendSetup \/ ReceiveSetup \/ SendCall \/ MissingCapture \/ ReceiveCall
  \/ Record \/ WriteReport \/ Exit
ServerStep == Serve \/ ServeWrongly \/ ServeLate \/ JobEnds
ClockStep == GiveUp \/ PollDeadline

\* The process is gone; anything else that stops is a deadlock.
Finished == step \in {"exited", "crashed"} /\ UNCHANGED vars

Next == RunnerStep \/ ServerStep \/ ClockStep \/ Crash \/ Finished

Spec == Init /\ [][Next]_vars
\* The runner is one process that is never blocked for good: every call it waits
\* for has a deadline, and the clock runs.  Nothing is assumed of the server.
FairSpec == Spec /\ WF_vars(RunnerStep) /\ WF_vars(GiveUp) /\ WF_vars(PollDeadline)

-----------------------------------------------------------------------------
(* Properties.                                                             *)

ResultType == {None, "pass", "fail"}
OutcomeType ==
  [result : ResultType] \cup [result : ResultType, facet_results : [Facets -> ResultType]]
ReportType ==
  {DefaultReport, TornReport} \cup [written : {TRUE}, operations : [Operations -> OutcomeType]]

RunnerTypeOK ==
  /\ at \in 1 .. Len(Scenarios) + 1
  /\ step \in {"negative", "verify", "setup", "call", "record", "report", "exit", "exited", "crashed"}
  /\ at \notin Index => step \in {"report", "exit", "exited", "crashed"}
  /\ step = "negative" => Scenario.negative # None
  /\ attempt \in Nat \ {0}
  /\ captures \in [Keys -> Nat]
  /\ decoded \in SUBSET {"clean", "unknown field"}
  /\ facets \in [Facets -> ResultType]
  /\ expired \in BOOLEAN
  /\ outcomes \in [Operations -> OutcomeType]
  /\ report \in ReportType
  /\ exit \in {None, "success", "failure"}
CallTypeOK ==
  /\ call \in {NoCall} \cup Sent \cup Answered
  /\ ~Idle /\ call.request.kind = "negative" => ScenarioOf[call.request.op].negative # None
ServerTypeOK ==
  /\ jobs \in Seq({"running", "completed", "failed", "cancelled"})
  /\ layer \in {"seed", "edited", "other"}
  /\ late \in SUBSET Requests
  /\ faults \in Nat /\ timeouts \in Nat
HistoryTypeOK ==
  /\ last \in [Operations -> {None, "good", "pending", "bad"}]
  /\ rejected \in SUBSET Operations
  /\ assigned \in [Keys -> Nat]
  /\ blemished \in SUBSET (Operations \X {"unknown field", "undecodable"})

\* The shape of the state.
TypeOK == RunnerTypeOK /\ CallTypeOK /\ ServerTypeOK /\ HistoryTypeOK

\* What the committed list keeps beyond ScenariosAssumption, and the runner never checks; the
\* theorems that depend on the order of the list and on its captures take it as hypotheses.

\* A capture has one provider, and what a setup captures is for its own scenario.
OneProvider(list) ==
  \A i, j \in 1 .. Len(list) :
    /\ list[i].key # None => list[i].key # list[j].setup /\ (list[i].key = list[j].key => i = j)
    /\ list[i].setup # None /\ list[i].setup \in {list[j].setup, list[j].needs} => i = j

\* The operations on a job name a captured one and create none; the job that is cancelled is
\* not the one that is polled.
JobsAreNamed(list) ==
  /\ \A i \in 1 .. Len(list) :
       list[i].op \in {"GetJob", "GetJobResult", "CancelJob"} => list[i].needs # None /\ list[i].key = None
  /\ \A i, j \in 1 .. Len(list) :
       list[i].op = "GetJob" /\ list[j].op = "CancelJob" => list[i].needs # list[j].needs

\* Whatever reads the feature layer comes before the edit, or is the edit.
EditsComeLast(list) ==
  \A i, j \in 1 .. Len(list) :
    list[i].op = "ApplyEdits" /\ (list[j].verify \/ list[j].op = "QueryFeatures") => j <= i

\* A capture is provided by then; a response to be captured from has an id of its own; GetJob
\* is polled, and the result is fetched of the job polled before; the job to cancel is
\* submitted by the setup.
CanPass(list) ==
  /\ \A i \in 1 .. Len(list) :
       list[i].needs # None =>
         list[i].needs = list[i].setup \/ \E j \in 1 .. i - 1 : list[j].key = list[i].needs
  /\ \A i \in 1 .. Len(list) : list[i].key # None => list[i].needs = None
  /\ \A i \in 1 .. Len(list) : list[i].op = "GetJob" => list[i].poll
  /\ \A i \in 1 .. Len(list) :
       list[i].op \in {"QueryFeatures", "ApplyEdits"} => list[i].needs = None /\ list[i].key = None
  /\ \A i \in 1 .. Len(list) :
       list[i].op = "GetJobResult" =>
         \E j \in 1 .. i - 1 : list[j].op = "GetJob" /\ list[j].needs = list[i].needs
  /\ \A i \in 1 .. Len(list) :
       list[i].op = "CancelJob" =>
         /\ list[i].setup # None /\ list[i].needs = list[i].setup
         /\ \E j \in 1 .. i - 1 : list[j].key = "submitted_job"

Passed(op) == outcomes[op].result = "pass"
Failed(op) == outcomes[op].result = "fail"
Earned(op) == last[op] = "good" /\ (ScenarioOf[op].negative # None => op \in rejected)

\* The lane step is green only for what the server did: exit code 0 means a report is
\* on disk and, for every governed operation, the last positive reply the server gave in
\* this run conformed and it rejected the negative call as recorded (the retry, the polls
\* and the lost replies in between make no pass of their own).
ZeroExitIsEarned ==
  exit = "success" => report.written /\ \A op \in Operations \ Excluded : Earned(op)

\* An outstanding call belongs to the scenario being executed.
CallInv ==
  ~Idle => /\ at \in Index
           /\ call.request.op = Scenario.op
           /\ step \in {call.request.kind, "crashed"}

\* A reply waiting to be received tells what the server really did.
AnswerInv ==
  call.phase = "answered" =>
    /\ call.request.kind = "call" /\ call.reply.good => last[call.request.op] = "good"
    /\ call.request.kind = "negative" /\ call.reply.status = ScenarioOf[call.request.op].negative
         => call.request.op \in rejected

\* So does a facet that has passed, and a read-back about to be made.
FacetInv ==
  /\ facets["positive"] # None => at \in Index /\ Idle /\ step \in {"record", "crashed"}
  /\ step = "record" => facets["positive"] # None
  /\ facets["positive"] = "pass" => last[Scenario.op] = "good"
  /\ facets["negative"] = "pass" \/ step = "verify" => at \in Index /\ Scenario.op \in rejected

\* Exactly the scenarios gone through have an outcome, and a pass among them is earned.
OutcomeInv ==
  /\ \A i \in Index : outcomes[Scenarios[i].op].result # None <=> i < at
  /\ \A op \in Operations : Passed(op) => Earned(op)

ExitInv ==
  /\ step \in {"report", "exit", "exited"} => at = Len(Scenarios) + 1
  /\ step \in {"exit", "exited"} => report = [written |-> TRUE, operations |-> outcomes]
  /\ exit = None <=> step \notin {"exited", "crashed"}
  /\ exit = "success" => report.written /\ \A op \in Operations \ Excluded : Passed(op)

\* The way of a pass from the reply that earned it, through the facet and the outcome, to
\* the exit code, with what keeps each of them true until the next: the inductive
\* invariant behind ZeroExitIsEarned.
VerdictInv == CallInv /\ AnswerInv /\ FacetInv /\ OutcomeInv /\ ExitInv

\* The ids echoed through the captures tie a pass to a job of this run: GetJob and
\* GetJobResult pass only if the captured job has completed, CancelJob only if the job its
\* last setup submitted is cancelled.
PassedJobsAreDone ==
  /\ \A op \in Operations \cap {"GetJob", "GetJobResult"} :
       Passed(op) => JobState(captures[ScenarioOf[op].needs]) = "completed"
  /\ \A op \in Operations \cap {"CancelJob"} :
       Passed(op) => JobState(captures[ScenarioOf[op].needs]) = "cancelled"

\* A call that substitutes a capture carries the id the server assigned last under that
\* name: a retried setup never leaves the id of the job it replaces behind.
CallsCarryFreshIds ==
  call.phase = "sent" /\ call.request.kind = "call" /\ Scenario.needs # None
    => call.request.job = assigned[Scenario.needs]

\* The job GetJob polls is not one the runner cancels.
SubmittedJobSurvives ==
  \A op \in Operations \cap {"GetJob"} :
    JobState(captures[ScenarioOf[op].needs]) # "cancelled"

\* The read-back is evidence: when a negative case with a 'verify' is passed, the layer
\* still holds the rows it held before the rejected call, even if the server applied a
\* call it rejected.
RejectedEditLeftNoTrace ==
  [][facets'["negative"] = "pass" /\ facets["negative"] # "pass" /\ Scenario.verify
       => layer = "seed"]_vars

\* media-schema passes only if no positive response the client decoded in this scenario,
\* first, polled or retried, carried a field unknown to the installed schema.
MediaSchemaCoversDecoded ==
  \A op \in Operations :
    outcomes[op].result # None /\ ScenarioOf[op].negative # None
      /\ outcomes[op].facet_results["media-schema"] = "pass"
    => <<op, "unknown field">> \notin blemished

\* The jobs that ended by themselves, but for the submitted one.
EndedIn(store, submitted) == {j \in DOMAIN store : store[j] = "completed" /\ j # submitted}
Ended == EndedIn(jobs, captures["submitted_job"])

\* What the failure of a positive call may be put down to when the server is not to blame.
Excused(op) ==
  \/ op = "GetJob" /\ expired /\ last[op] = "pending"
  \/ op = "GetJobResult" /\ Failed("GetJob")
  \/ op = "CancelJob" /\ Cardinality(Ended) >= ScenarioOf[op].attempts

\* As long as the server has kept the contract, in time, no negative case is failed, and a
\* result is recorded as failed for one of three causes only: GetJob when its poll deadline has
\* passed and the last reply to it still said that the job runs, GetJobResult after such a
\* GetJob, and CancelJob when the jobs of all its attempts have ended before they could be
\* cancelled.
NoFalseAlarm ==
  [][\A op \in Operations :
       faults = 0 /\ timeouts = 0 /\ Failed(op)' /\ ~Failed(op) =>
         facets["negative"] # "fail" /\ Excused(op)]_vars

\* The runner implements LanePromise: results are recorded once, in any number of RPCs,
\* and a pass, in the report or in the exit code, is earned before it is recorded.
Promise == INSTANCE LanePromise WITH
  Ops <- Operations, Governed <- Operations \ Excluded,
  earned <- {op \in Operations : Earned(op)},
  result <- [op \in Operations |-> outcomes[op].result],
  verdict <- exit
ImplementsPromise == Promise!Spec

\* Every lane ends, whatever the server does: with a report that has a result for every
\* scenario, or by a crash.
Terminates ==
  <>(\/ step = "crashed"
     \/ step = "exited" /\ \A op \in Operations : report.operations[op].result \in {"pass", "fail"})

\* scenarios.v1.json: setup and call are repeated "only when the call fails with
\* 'status_code'".
RetryOnlyWhenCallFails == [][attempt' > attempt => call.request.kind = "call"]_vars

\* scenarios.v1.json: media-schema says that "every positive response message decodes as
\* the installed generated type".
MediaSchemaMeansAllDecode ==
  \A op \in Operations :
    outcomes[op].result # None /\ ScenarioOf[op].negative # None
      /\ outcomes[op].facet_results["media-schema"] = "pass"
    => <<op, "undecodable">> \notin blemished
=============================================================================
