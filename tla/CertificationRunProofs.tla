----------------------- MODULE CertificationRunProofs -----------------------
(***************************************************************************)
(* Proofs about the certify job: its type invariant and the three safety   *)
(* invariants of cert_run, for every catalog, any number of lanes and      *)
(* operations, and any failure or cancellation.                            *)
(***************************************************************************)
EXTENDS CertificationRun, TLAPS

-----------------------------------------------------------------------------
(* The inductive invariant.                                                *)

InputType ==
  [request : Requests, installed : [Lanes -> Installs], fixtures : {"this run", "other"}]

Typed == TypeOK /\ inputs \in InputType

Before == {"prepare", "server"}
During == {"reset", "execute"}
After == {"fragment", "upload", "done"}

\* The lanes gone through are those before the turn; only a cancellation skips any once the
\* first has begun.
Schedule ==
  /\ step \in Before => turn = 1 /\ \A l \in Lanes : ran[l] = "no"
  /\ step \in During => \A i \in DOMAIN LaneOrder : ran[LaneOrder[i]] = "no" <=> i >= turn
  /\ step = "exit" =>
       /\ ran[Current] = "reported"
       /\ \A i \in DOMAIN LaneOrder : ran[LaneOrder[i]] = "no" <=> i # turn /\ i >= turn
  /\ LanesAreIndependent

\* While a lane executes, what it has passed it has earned; when it exits, its report says the
\* same as it does.
LaneFits ==
  /\ step = "execute" =>
       verdict = "none" /\ \A op \in Operations : result[op] = "pass" => op \in earned
  /\ step = "exit" => \A op \in Governed : reports[Current].operations[op].result = result[op]

\* The report of a lane that reported is of its installed client, and tells what was earned;
\* that of any other claims nothing.
Faithful(l) ==
  /\ reports[l].version = inputs.installed[l].version
  /\ reports[l].package = inputs.installed[l].package
  /\ DOMAIN reports[l].operations = Operations
  /\ \A op \in Operations : reports[l].operations[op].result \in {"pass", "fail"}
  /\ \A op \in Operations : reports[l].operations[op].result = "pass" => op \in truth[l]
  /\ \A op \in Governed :
       /\ HasFacets(reports[l].operations[op])
       /\ AllPass(reports[l].operations[op].facet_results) <=> reports[l].operations[op].result = "pass"

ReportFits(l) ==
  IF HasReported(l) THEN Faithful(l) ELSE DOMAIN reports[l].operations = {}

\* As long as the job is green, no lane has died and none has exited with a failure.
Green ==
  conclusion = "success" =>
    /\ step \in After => \A l \in Lanes : ran[l] # "no"
    /\ \A l \in Lanes : ran[l] \in {"no", "exited"} \/ (step = "exit" /\ l = Current)
    /\ \A l \in Lanes : ran[l] = "exited" =>
         \A op \in Governed : reports[l].operations[op].result = "pass"

Cells == [cell \in Lanes \X Governed |-> Cell(reports[cell[1]], cell[2])]

EmittedFits ==
  /\ step \notin {"upload", "done"} => ~emitted.built
  /\ emitted.built =>
       /\ emitted.content.observations = Cells
       /\ \A l \in Lanes : PackageAdmitted(l, reports[l])
  /\ step \in {"upload", "done"} /\ conclusion = "success" =>
       emitted.built /\ emitted.content.rollup = "pass"
  /\ step = "done" /\ conclusion = "success" => artifact = Evidence

IInv == Typed /\ Schedule /\ LaneFits /\ (\A l \in Lanes : ReportFits(l)) /\ Green /\ EmittedFits

-----------------------------------------------------------------------------
(* The parts of a step.                                                    *)

LEMMA CurrentIsALane ==
  ASSUME TypeOK
  PROVE  /\ Current \in Lanes /\ turn \in 1..Len(LaneOrder)
         /\ Len(LaneOrder) \in Nat /\ DOMAIN LaneOrder = 1..Len(LaneOrder)
  <1>1. LaneOrder \in Seq(Lanes) BY JobAssumption
  <1>2. turn \in DOMAIN LaneOrder BY DEF TypeOK
  <1> QED BY <1>1, <1>2 DEF Current

LEMMA NextLaneAdvances ==
  ASSUME TypeOK, NextLane
  PROVE  \/ step' = "reset" /\ turn' = turn + 1 /\ turn' \in DOMAIN LaneOrder
         \/ step' = "fragment" /\ turn' = turn /\ turn = Len(LaneOrder)
  <1>1. /\ turn \in 1..Len(LaneOrder) /\ Len(LaneOrder) \in Nat
        /\ DOMAIN LaneOrder = 1..Len(LaneOrder)
    BY CurrentIsALane
  <1> DEFINE n == Len(LaneOrder)
  <1>0. turn \in 1..n /\ n \in Nat BY <1>1
  <1> HIDE DEF n
  <1>a. \/ turn < n /\ turn + 1 \in 1..n
        \/ ~(turn < n) /\ turn = n
    BY <1>0
  <1> USE DEF n
  <1>2. CASE turn < Len(LaneOrder)
    <2>1. step' = "reset" /\ turn' = turn + 1 BY <1>2 DEF NextLane
    <2> QED BY <1>1, <1>a, <1>2, <2>1
  <1>3. CASE ~(turn < Len(LaneOrder))
    <2>1. step' = "fragment" /\ turn' = turn BY <1>3 DEF NextLane
    <2>2. turn = Len(LaneOrder) BY <1>a, <1>3
    <2> QED BY <2>1, <2>2
  <1> QED BY <1>2, <1>3

LEMMA FailIsFailure ==
  ASSUME TypeOK, Fail
  PROVE  conclusion' \in {"failure", "cancelled"} /\ (conclusion' = "cancelled" <=> conclusion = "cancelled")
  BY DEF TypeOK, Fail

LEMMA DefaultsClaimNothing ==
  /\ Missing \in ReportType /\ HonestDefault \in ReportType /\ Truncated \in ReportType
  /\ DOMAIN Missing.operations = {} /\ DOMAIN HonestDefault.operations = {}
  /\ DOMAIN Truncated.operations = {}
  BY DEF Missing, HonestDefault, Truncated, ReportType, None, NoOperations

LEMMA ClosedLane ==
  ASSUME TypeOK, Lane!Close
  PROVE  /\ \A op \in Operations : result[op] \in {"pass", "fail"}
         /\ verdict' \in {"success", "failure"} /\ earned' = earned /\ result' = result
         /\ verdict' = "success" => \A op \in Governed : result[op] = "pass"
  BY DEF TypeOK, Lane!Close, Operations

LEMMA ReportIsTyped ==
  ASSUME Typed, NEW failed \in Facets, \A op \in Operations : result[op] \in {"pass", "fail"}
  PROVE  ReportOf(failed) \in ReportType
  <1>1. Current \in Lanes BY CurrentIsALane DEF Typed
  <1>2. inputs.installed[Current] \in Installs /\ inputs.fixtures \in {"this run", "other"}
    BY <1>1 DEF Typed, InputType
  <1>3. /\ inputs.installed[Current].version \in {None, "governed", "other"}
        /\ inputs.installed[Current].package \in BOOLEAN
    BY <1>2, JobAssumption
  <1>4. begun \in Nat /\ clock \in Nat BY DEF Typed, TypeOK
  <1>5. ASSUME NEW op \in Operations
        PROVE  FacetsOf(result[op], failed) \in [Facets -> Results] /\ result[op] \in Results
    BY <1>5 DEF FacetsOf, Results
  <1>6. ReportOf(failed).operations \in
          [Operations -> [result : Results] \cup [result : Results, facet_results : [Facets -> Results]]]
    BY <1>5 DEF ReportOf
  <1> QED BY <1>2, <1>3, <1>4, <1>6 DEF ReportOf, ReportType

LEMMA ReportIsFaithful ==
  ASSUME Typed, LaneFits, step = "execute", NEW failed \in Facets,
         NEW l \in Lanes, l = Current,
         \A op \in Operations : result[op] \in {"pass", "fail"},
         inputs' = inputs,
         reports' = [reports EXCEPT ![Current] = ReportOf(failed)],
         truth' = [truth EXCEPT ![Current] = earned]
  PROVE  /\ Faithful(l)'
         /\ \A op \in Governed : reports'[l].operations[op].result = result[op]
  <1>2. reports'[l] = ReportOf(failed) /\ truth'[l] = earned BY DEF Typed, TypeOK
  <1>3. /\ reports'[l].version = inputs.installed[l].version
        /\ reports'[l].package = inputs.installed[l].package
        /\ DOMAIN reports'[l].operations = Operations
    BY <1>2 DEF ReportOf
  <1>4. ASSUME NEW op \in Operations
        PROVE  reports'[l].operations[op].result = result[op]
    BY <1>2 DEF ReportOf
  <1>5. ASSUME NEW op \in Governed
        PROVE  /\ HasFacets(reports'[l].operations[op])
               /\ AllPass(reports'[l].operations[op].facet_results) <=> result[op] = "pass"
    <2>1. op \in Operations BY DEF Operations
    <2>2. reports'[l].operations[op] = [result |-> result[op], facet_results |-> FacetsOf(result[op], failed)]
      BY <1>2, <2>1 DEF ReportOf
    <2>3. AllPass(FacetsOf(result[op], failed)) <=> result[op] = "pass"
      BY <2>1 DEF AllPass, FacetsOf
    <2> QED BY <2>2, <2>3 DEF HasFacets
  <1>6. \A op \in Operations : result[op] = "pass" => op \in earned BY DEF LaneFits
  <1>7. Governed \subseteq Operations BY DEF Operations
  <1>8. Faithful(l)' BY <1>2, <1>3, <1>4, <1>5, <1>6, <1>7 DEF Faithful
  <1> QED BY <1>4, <1>7, <1>8

-----------------------------------------------------------------------------
(* Typed and the schedule.                                                 *)

LEMMA InitHolds == Init => IInv
  <1> SUFFICES ASSUME Init PROVE IInv OBVIOUS
  <1>1. /\ reports = [l \in Lanes |-> Missing] /\ ran = [l \in Lanes |-> "no"]
        /\ truth = [l \in Lanes |-> {}] /\ step = "prepare" /\ turn = 1 /\ emitted = NoFragment
    BY DEF Init
  <1>2. Typed
    <2>1. LaneOrder \in Seq(Lanes) /\ LaneOrder # << >> BY JobAssumption
    <2>2. 1 \in DOMAIN LaneOrder BY <2>1
    <2>3. inputs \in InputType BY DEF Init, InputType
    <2>4. reports \in [Lanes -> ReportType] BY <1>1, DefaultsClaimNothing
    <2>5. /\ earned = {} /\ result = [op \in Operations |-> "none"] /\ verdict = "none"
          /\ started = 0 /\ clock = 2 /\ begun = 0 /\ conclusion = "success"
      BY DEF Init, Lane!Init, NoTime
    <2>6. emitted.built \in BOOLEAN BY <1>1 DEF NoFragment
    <2>7. artifact = NoArtifact BY DEF Init
    <2>8. artifact.uploaded \in BOOLEAN BY <2>7 DEF NoArtifact
    <2> QED BY <1>1, <2>2, <2>3, <2>4, <2>5, <2>6, <2>8 DEF Typed, TypeOK
  <1>3. Schedule
    <2>1. \A i \in DOMAIN LaneOrder : LaneOrder[i] \in Lanes BY JobAssumption
    <2> QED BY <1>1, <2>1 DEF Schedule, Before, During, LanesAreIndependent
  <1>4. LaneFits BY <1>1 DEF LaneFits
  <1>5. \A l \in Lanes : ReportFits(l) BY <1>1, DefaultsClaimNothing DEF ReportFits, HasReported
  <1>6. Green BY <1>1 DEF Green, After
  <1>7. EmittedFits BY <1>1 DEF EmittedFits, NoFragment
  <1> QED BY <1>2, <1>3, <1>4, <1>5, <1>6, <1>7 DEF IInv

LEMMA ClockAdvances ==
  ASSUME clock \in Nat, clock' = clock + 1 PROVE clock' \in Nat
  OBVIOUS

LEMMA StopsShortTyped ==
  ASSUME Typed, StopsShort
  PROVE  started' \in Nat /\ reports' \in [Lanes -> ReportType]
  BY DefaultsClaimNothing DEF Typed, TypeOK, StopsShort

LEMMA LeavesTyped ==
  ASSUME Typed, Leaves PROVE reports' \in [Lanes -> ReportType]
  BY DefaultsClaimNothing DEF Typed, TypeOK, Leaves

LEMMA TypedStep == Typed /\ LaneFits /\ [Next]_vars => Typed'
  <1> SUFFICES ASSUME Typed, LaneFits, [Next]_vars PROVE Typed'
    OBVIOUS
  <1> USE DEF Typed, TypeOK
  <1>1. CASE Prepare
    <2>1. reports' \in [Lanes -> ReportType] BY <1>1, DefaultsClaimNothing DEF Prepare
    <2> QED BY <1>1, <2>1 DEF Prepare, lane
  <1>2. CASE PrepareFails
    <2>1. started' \in Nat /\ reports' \in [Lanes -> ReportType]
      BY <1>2, StopsShortTyped DEF PrepareFails
    <2>2. conclusion' \in {"failure", "cancelled"} BY <1>2, FailIsFailure DEF PrepareFails
    <2> QED BY <1>2, <2>1, <2>2 DEF PrepareFails, lane
  <1>3. CASE StartAndSeed BY <1>3 DEF StartAndSeed, lane
  <1>4. CASE StartOrSeedFails
    <2>1. conclusion' \in {"failure", "cancelled"} BY <1>4, FailIsFailure DEF StartOrSeedFails
    <2> QED BY <1>4, <2>1 DEF StartOrSeedFails, lane
  <1>5. CASE Reset
    <2>1. clock' = clock + 1 /\ begun' = clock' BY <1>5 DEF Reset
    <2>2. clock' \in Nat /\ begun' \in Nat BY <2>1, ClockAdvances
    <2> QED BY <1>5, <2>2 DEF Reset
  <1>6. CASE ResetFails
    <2>1. conclusion' \in {"failure", "cancelled"} BY <1>6, FailIsFailure DEF ResetFails
    <2>2. turn' \in DOMAIN LaneOrder /\ step' \in {"reset", "fragment"}
      BY <1>6, NextLaneAdvances DEF ResetFails
    <2>3. ran' \in [Lanes -> {"no", "not reset", "died", "reported", "exited"}] BY <1>6 DEF ResetFails
    <2> QED BY <1>6, <2>1, <2>2, <2>3 DEF ResetFails, lane
  <1>7. CASE Execute
    <2>1. PICK op \in Operations : Lane!Observe(op) \/ Lane!Settle(op) BY <1>7 DEF Execute
    <2>2. earned' \subseteq Operations BY <2>1 DEF Lane!Observe, Lane!Settle
    <2>3. result' \in [Operations -> {"none", "pass", "fail"}] /\ verdict' = verdict
      BY <2>1 DEF Lane!Observe, Lane!Settle
    <2> QED BY <1>7, <2>2, <2>3 DEF Execute, job
  <1>8. CASE Report
    <2>1. \A op \in Operations : result[op] \in {"pass", "fail"} BY <1>8 DEF Report, AllSettled
    <2>2. PICK failed \in Facets : reports' = [reports EXCEPT ![Current] = ReportOf(failed)]
      BY <1>8 DEF Report
    <2>3. reports' \in [Lanes -> ReportType] BY <2>1, <2>2, ReportIsTyped
    <2>6. ran' \in [Lanes -> {"no", "not reset", "died", "reported", "exited"}]
      BY <1>8 DEF Report
    <2>7. truth' \in [Lanes -> SUBSET Operations] BY <1>8 DEF Report
    <2>8. clock' = clock + 1 BY <1>8 DEF Report
    <2>9. clock' \in Nat BY <2>8, ClockAdvances
    <2> QED BY <1>8, <2>3, <2>6, <2>7, <2>9 DEF Report, lane
  <1>14. CASE LaneExits
    <2>1. verdict' \in {"success", "failure"} /\ earned' = earned /\ result' = result
      BY <1>14, ClosedLane DEF LaneExits
    <2>2. conclusion' \in {"success", "failure", "cancelled"}
      BY <1>14, FailIsFailure DEF LaneExits
    <2>3. turn' \in DOMAIN LaneOrder /\ step' \in {"reset", "fragment"}
      BY <1>14, NextLaneAdvances DEF LaneExits
    <2>4. ran' \in [Lanes -> {"no", "not reset", "died", "reported", "exited"}]
      BY <1>14 DEF LaneExits
    <2> QED BY <1>14, <2>1, <2>2, <2>3, <2>4 DEF LaneExits
  <1>9. CASE LaneDies
    <2>1. conclusion' \in {"failure", "cancelled"} BY <1>9, FailIsFailure DEF LaneDies
    <2>2. turn' \in DOMAIN LaneOrder /\ step' \in {"reset", "fragment"}
      BY <1>9, NextLaneAdvances DEF LaneDies
    <2>3. ran' \in [Lanes -> {"no", "not reset", "died", "reported", "exited"}] BY <1>9 DEF LaneDies
    <2>4. verdict' = "failure" /\ earned' = earned /\ result' = result BY <1>9 DEF LaneDies, Lane!Die
    <2>5. reports' \in [Lanes -> ReportType] BY <1>9, LeavesTyped DEF LaneDies
    <2> QED BY <1>9, <2>1, <2>2, <2>3, <2>4, <2>5 DEF LaneDies
  <1>10. CASE EmitFragment
    <2>1. emitted' = Build(reports, Arguments).file BY <1>10 DEF EmitFragment
    <2>2. emitted'.built \in BOOLEAN BY <2>1 DEF Build, NoFragment
    <2>3. conclusion' \in {"success", "failure", "cancelled"} BY <1>10, FailIsFailure DEF EmitFragment
    <2> QED BY <1>10, <2>2, <2>3 DEF EmitFragment, lane
  <1>11. CASE Upload
    <2>1. conclusion' \in {"success", "failure", "cancelled"} BY <1>11, FailIsFailure DEF Upload
    <2>2. CASE artifact' = Evidence
      <3>1. Evidence.uploaded = TRUE BY DEF Evidence
      <3>2. artifact'.uploaded \in BOOLEAN BY <2>2, <3>1
      <3> QED BY <1>11, <2>1, <3>2 DEF Upload, lane
    <2>3. CASE artifact' = artifact BY <1>11, <2>1, <2>3 DEF Upload, lane
    <2> QED BY <1>11, <2>2, <2>3 DEF Upload
  <1>12. CASE Cancel
    <2>1. started' \in Nat /\ reports' \in [Lanes -> ReportType]
      BY <1>12, StopsShortTyped, LeavesTyped DEF Cancel
    <2> QED BY <1>12, <2>1 DEF Cancel, lane
  <1>13. CASE UNCHANGED vars BY <1>13 DEF vars, job, lane
  <1> QED
    BY <1>1, <1>2, <1>3, <1>4, <1>5, <1>6, <1>7, <1>8, <1>9, <1>10, <1>11, <1>12, <1>13, <1>14
    DEF Next, JobStep, Finished

\* The current lane is marked, and no other.
LEMMA LaneOver ==
  ASSUME Typed, Schedule, step \in During \cup {"exit"},
         NEW v, v # "no", ran' = [ran EXCEPT ![Current] = v]
  PROVE  /\ ran'[Current] = v
         /\ \A i \in DOMAIN LaneOrder : ran'[LaneOrder[i]] = "no" <=> i # turn /\ i >= turn
  <1>1. Current \in Lanes /\ turn \in DOMAIN LaneOrder BY CurrentIsALane DEF Typed, TypeOK
  <1>2. ASSUME NEW l \in Lanes PROVE ran'[l] = IF l = Current THEN v ELSE ran[l]
    BY DEF Typed, TypeOK
  <1>3. \A i, j \in DOMAIN LaneOrder : LaneOrder[i] = LaneOrder[j] => i = j BY JobAssumption
  <1>4. \A i \in DOMAIN LaneOrder : LaneOrder[i] \in Lanes BY JobAssumption
  <1>5. \A i \in DOMAIN LaneOrder : i # turn => (ran[LaneOrder[i]] = "no" <=> i >= turn)
    BY DEF Schedule
  <1>6. ASSUME NEW i \in DOMAIN LaneOrder
        PROVE  ran'[LaneOrder[i]] = "no" <=> i # turn /\ i >= turn
    <2>1. LaneOrder[i] = Current <=> i = turn BY <1>1, <1>3 DEF Current
    <2> QED BY <1>2, <1>4, <1>5, <2>1
  <1> QED BY <1>1, <1>2, <1>6

\* A lane that has been gone through is one more before the turn, or the last.
LEMMA MoveOn ==
  ASSUME Typed, NextLane,
         \A i \in DOMAIN LaneOrder : ran'[LaneOrder[i]] = "no" <=> i # turn /\ i >= turn
  PROVE  Schedule'
  <1>1. turn \in DOMAIN LaneOrder BY DEF Typed, TypeOK
  <1>7. DOMAIN LaneOrder = 1..Len(LaneOrder) /\ Len(LaneOrder) \in Nat BY CurrentIsALane DEF Typed
  <1>8. CASE step' = "reset" /\ turn' = turn + 1
    <2>1. ASSUME NEW i \in DOMAIN LaneOrder PROVE i # turn /\ i >= turn <=> i >= turn'
      <3>1. i \in Nat /\ turn \in Nat BY <1>1, <1>7
      <3> QED BY <1>8, <3>1
    <2> QED BY <1>8, <2>1 DEF Schedule, Before, During, LanesAreIndependent
  <1>9. CASE step' = "fragment" /\ turn = Len(LaneOrder)
    <2>1. ASSUME NEW i \in DOMAIN LaneOrder PROVE ~(i # turn /\ i >= turn)
      <3>1. i \in Nat /\ i <= turn BY <1>1, <1>7, <1>9
      <3> QED BY <3>1, <1>1, <1>7
    <2>2. \A l \in Lanes : ran'[l] # "no" BY <2>1, JobAssumption
    <2> QED BY <1>9, <2>2 DEF Schedule, Before, During, LanesAreIndependent
  <1>10. TypeOK BY DEF Typed
  <1> QED BY <1>8, <1>9, <1>10, NextLaneAdvances

LEMMA ScheduleStep == Typed /\ Schedule /\ [Next]_vars => Schedule'
  <1> SUFFICES ASSUME Typed, Schedule, [Next]_vars PROVE Schedule'
    OBVIOUS
  <1> USE DEF Before, During, LanesAreIndependent
  <1>1. CASE Prepare BY <1>1 DEF Prepare, Schedule
  <1>2. CASE PrepareFails BY <1>2 DEF PrepareFails, Schedule
  <1>3. CASE StartAndSeed
    <2>1. turn = 1 /\ turn' = 1 /\ ran' = ran /\ step' = "reset" /\ \A l \in Lanes : ran[l] = "no"
      BY <1>3 DEF StartAndSeed, Schedule
    <2>2. \A i \in DOMAIN LaneOrder : LaneOrder[i] \in Lanes /\ i >= 1 BY JobAssumption
    <2> QED BY <2>1, <2>2 DEF Schedule
  <1>4. CASE StartOrSeedFails BY <1>4 DEF StartOrSeedFails, Schedule
  <1>5. CASE Reset BY <1>5 DEF Reset, Schedule
  <1>6. CASE ResetFails
    <2>1. \A i \in DOMAIN LaneOrder : ran'[LaneOrder[i]] = "no" <=> i # turn /\ i >= turn
      BY <1>6, LaneOver DEF ResetFails
    <2> QED BY <1>6, <2>1, MoveOn DEF ResetFails
  <1>7. CASE Execute BY <1>7 DEF Execute, job, Schedule
  <1>8. CASE Report
    <2>1. step = "execute" /\ step' = "exit" /\ turn' = turn BY <1>8 DEF Report
    <2>2. /\ ran'[Current] = "reported"
          /\ \A i \in DOMAIN LaneOrder : ran'[LaneOrder[i]] = "no" <=> i # turn /\ i >= turn
      BY <1>8, <2>1, LaneOver DEF Report
    <2>3. ran'[Current'] = "reported" BY <2>1, <2>2 DEF Current
    <2> QED BY <2>1, <2>2, <2>3 DEF Schedule
  <1>14. CASE LaneExits
    <2>1. \A i \in DOMAIN LaneOrder : ran'[LaneOrder[i]] = "no" <=> i # turn /\ i >= turn
      BY <1>14, LaneOver DEF LaneExits
    <2> QED BY <1>14, <2>1, MoveOn DEF LaneExits
  <1>9. CASE LaneDies
    <2>1. step \in {"execute", "exit"} /\ NextLane BY <1>9 DEF LaneDies
    <2>2. CASE step = "exit"
      <3>1. ran' = ran BY <1>9, <2>2 DEF LaneDies
      <3> QED BY <2>1, <2>2, <3>1, MoveOn DEF Schedule
    <2>3. CASE step # "exit"
      <3>1. step = "execute" /\ ran' = [ran EXCEPT ![Current] = "died"] BY <1>9, <2>1, <2>3 DEF LaneDies
      <3>2. \A i \in DOMAIN LaneOrder : ran'[LaneOrder[i]] = "no" <=> i # turn /\ i >= turn
        BY <3>1, LaneOver
      <3> QED BY <2>1, <3>2, MoveOn
    <2> QED BY <2>2, <2>3
  <1>10. CASE EmitFragment
    <2>1. conclusion' # "cancelled" => conclusion # "cancelled"
      BY <1>10, FailIsFailure DEF EmitFragment, Typed
    <2> QED BY <1>10, <2>1 DEF EmitFragment, Schedule
  <1>11. CASE Upload
    <2>1. conclusion' # "cancelled" => conclusion # "cancelled"
      BY <1>11, FailIsFailure DEF Upload, Typed
    <2> QED BY <1>11, <2>1 DEF Upload, Schedule
  <1>12. CASE Cancel BY <1>12 DEF Cancel, Schedule
  <1>13. CASE UNCHANGED vars BY <1>13 DEF vars, job, Schedule, Current
  <1> QED
    BY <1>1, <1>2, <1>3, <1>4, <1>5, <1>6, <1>7, <1>8, <1>9, <1>10, <1>11, <1>12, <1>13, <1>14
    DEF Next, JobStep, Finished

-----------------------------------------------------------------------------
(* The lanes and their reports.                                            *)

\* The report names the results of the lane.
LEMMA ReportTellsResults ==
  ASSUME Typed, Report
  PROVE  \A op \in Operations : reports'[Current].operations[op].result = result[op]
  <1>1. PICK failed \in Facets : reports' = [reports EXCEPT ![Current] = ReportOf(failed)]
    BY DEF Report
  <1>2. Current \in Lanes /\ reports \in [Lanes -> ReportType] BY CurrentIsALane DEF Typed, TypeOK
  <1>3. reports'[Current] = ReportOf(failed) BY <1>1, <1>2
  <1> QED BY <1>3 DEF ReportOf

LEMMA LaneStep == Typed /\ LaneFits /\ [Next]_vars => LaneFits'
  <1> SUFFICES ASSUME Typed, LaneFits, [Next]_vars PROVE LaneFits'
    OBVIOUS
  <1>1. CASE step' \notin {"execute", "exit"} BY <1>1 DEF LaneFits
  <1>2. CASE Reset BY <1>2 DEF Reset, LaneFits
  <1>3. CASE Execute
    <2>1. PICK op \in Operations : Lane!Observe(op) \/ Lane!Settle(op) BY <1>3 DEF Execute
    <2>0. step' = "execute" BY <1>3 DEF Execute, job
    <2>2. step = "execute" /\ result \in [Operations -> {"none", "pass", "fail"}]
      BY <1>3 DEF Execute, Typed, TypeOK
    <2>3. CASE Lane!Observe(op) BY <2>0, <2>2, <2>3 DEF Lane!Observe, LaneFits
    <2>4. CASE Lane!Settle(op) BY <2>0, <2>2, <2>4 DEF Lane!Settle, LaneFits
    <2> QED BY <2>1, <2>3, <2>4
  <1>4. CASE UNCHANGED vars BY <1>4 DEF vars, job, lane, LaneFits, Current
  <1>5. ASSUME ResetFails \/ LaneExits \/ LaneDies PROVE step' \notin {"execute", "exit"}
    BY <1>5, NextLaneAdvances DEF ResetFails, LaneExits, LaneDies, Typed
  <1>6. CASE Report
    <2>1. step' = "exit" /\ result' = result /\ turn' = turn BY <1>6 DEF Report, lane
    <2>2. Current' = Current BY <2>1 DEF Current
    <2>3. \A op \in Governed : reports'[Current].operations[op].result = result[op]
      BY <1>6, ReportTellsResults DEF Operations
    <2> QED BY <2>1, <2>2, <2>3 DEF LaneFits
  <1> QED
    BY <1>1, <1>2, <1>3, <1>4, <1>5, <1>6
    DEF Next, JobStep, Finished, Prepare, PrepareFails, StartAndSeed, StartOrSeedFails,
        EmitFragment, Upload, Cancel

LEMMA ReportKept ==
  ASSUME NEW l \in Lanes, ReportFits(l), inputs' = inputs,
         HasReported(l)' <=> HasReported(l), reports'[l] = reports[l], truth'[l] = truth[l]
  PROVE  ReportFits(l)'
  BY DEF ReportFits, Faithful

LEMMA ReportStep ==
  ASSUME Typed, Schedule, LaneFits, [Next]_vars, NEW l \in Lanes, ReportFits(l)
  PROVE  ReportFits(l)'
  <1>0. step \in During => Current \in Lanes /\ ran[Current] = "no"
    <2>1. turn \in DOMAIN LaneOrder /\ turn >= turn BY CurrentIsALane DEF Typed
    <2> QED BY <2>1, CurrentIsALane DEF Schedule, Current, Typed
  <1> USE DEF Typed, TypeOK
  <1>a. inputs' = inputs
    BY DEF Next, JobStep, Finished, Prepare, PrepareFails, StartAndSeed, StartOrSeedFails, Reset,
           ResetFails, Execute, Report, LaneExits, LaneDies, EmitFragment, Upload, Cancel, vars, job
  <1>b. ASSUME StopsShort, step = "prepare", ran' = ran PROVE ReportFits(l)'
    <2>1. ran[l] = "no" BY <1>b DEF Schedule, Before
    <2>2. reports'[l] = reports[l] \/ reports'[l] = HonestDefault BY <1>b DEF StopsShort
    <2> QED BY <1>b, <2>1, <2>2, DefaultsClaimNothing DEF ReportFits, HasReported
  <1>c. ASSUME Leaves, reports' # reports, step # "exit" => ~HasReported(l)' \/ l # Current,
               l # Current => ran'[l] = ran[l] /\ truth'[l] = truth[l]
        PROVE  ReportFits(l)'
    <2>1. step = "execute" /\ reports' = [reports EXCEPT ![Current] = Truncated] BY <1>c DEF Leaves
    <2>2. CASE l = Current
      <3>1. reports'[l] = Truncated /\ ~HasReported(l)' BY <1>c, <2>1, <2>2
      <3> QED BY <3>1, DefaultsClaimNothing DEF ReportFits
    <2>3. CASE l # Current
      <3>1. reports'[l] = reports[l] BY <2>1, <2>3
      <3> QED BY <1>a, <1>c, <2>3, <3>1, ReportKept DEF HasReported
    <2> QED BY <2>2, <2>3
  <1>1. CASE Prepare
    <2>1. ran'[l] = "no" BY <1>1 DEF Prepare, Schedule, Before
    <2>2. reports'[l] = HonestDefault BY <1>1 DEF Prepare
    <2> QED BY <2>1, <2>2, DefaultsClaimNothing DEF ReportFits, HasReported
  <1>2. CASE PrepareFails BY <1>2, <1>b DEF PrepareFails
  <1>3. CASE UNCHANGED <<ran, reports, truth>> BY <1>3, <1>a, ReportKept DEF HasReported
  <1>6. ASSUME step \in During, truth' = truth,
               NEW v \in {"not reset", "died"}, ran' = [ran EXCEPT ![Current] = v],
               reports' = reports \/ Leaves
        PROVE  ReportFits(l)'
    <2>1. l = Current => ran'[l] = v BY <1>6
    <2>2. l # Current => ran'[l] = ran[l] BY <1>6
    <2>3. l = Current => ~HasReported(l)' BY <2>1 DEF HasReported
    <2>4. CASE reports' # reports BY <1>c, <1>6, <2>2, <2>3, <2>4
    <2>5. CASE reports' = reports /\ l = Current
      <3>1. DOMAIN reports[l].operations = {} BY <1>0, <1>6, <2>5 DEF ReportFits, HasReported
      <3> QED BY <2>3, <2>5, <3>1 DEF ReportFits
    <2>6. CASE reports' = reports /\ l # Current
      BY <1>a, <1>6, <2>2, <2>6, ReportKept DEF HasReported
    <2> QED BY <2>4, <2>5, <2>6
  <1>7. CASE ResetFails
    BY <1>7, <1>6 DEF ResetFails, During
  <1>9. CASE LaneDies
    <2>1. /\ step \in {"execute", "exit"} /\ Leaves /\ truth' = truth
          /\ ran' = IF step = "exit" THEN ran ELSE [ran EXCEPT ![Current] = "died"]
      BY <1>9 DEF LaneDies
    <2>2. CASE step = "exit"
      <3>1. reports' = reports /\ ran' = ran BY <2>1, <2>2 DEF Leaves
      <3> QED BY <1>3, <2>1, <3>1
    <2>3. CASE step = "execute" BY <1>6, <2>1, <2>3 DEF During
    <2> QED BY <2>1, <2>2, <2>3
  <1>10. CASE LaneExits
    <2>1. /\ step = "exit" /\ ran' = [ran EXCEPT ![Current] = "exited"]
          /\ UNCHANGED <<reports, truth>>
      BY <1>10 DEF LaneExits
    <2>2. l # Current => ran'[l] = ran[l] BY <2>1
    <2>3. l = Current => ran'[l] = "exited" BY <2>1
    <2>4. l = Current => ran[l] = "reported" BY <2>1 DEF Schedule
    <2>5. HasReported(l)' <=> HasReported(l) BY <2>2, <2>3, <2>4 DEF HasReported
    <2> QED BY <1>a, <2>1, <2>5, ReportKept
  <1>8. CASE Report
    <2>1. \A op \in Operations : result[op] \in {"pass", "fail"} BY <1>8 DEF Report, AllSettled
    <2>2. PICK failed \in Facets : reports' = [reports EXCEPT ![Current] = ReportOf(failed)]
      BY <1>8 DEF Report
    <2>3. /\ step = "execute" /\ ran' = [ran EXCEPT ![Current] = "reported"]
          /\ truth' = [truth EXCEPT ![Current] = earned]
      BY <1>8 DEF Report
    <2>4. CASE l = Current
      <3>1. Faithful(l)' BY <1>a, <2>1, <2>2, <2>3, <2>4, ReportIsFaithful
      <3>2. ran'[l] = "reported" BY <2>3, <2>4
      <3> QED BY <3>1, <3>2 DEF ReportFits, HasReported
    <2>5. CASE l # Current
      <3>1. ran'[l] = ran[l] BY <2>3, <2>5
      <3>2. reports'[l] = reports[l] BY <2>2, <2>5
      <3>3. truth'[l] = truth[l] BY <2>3, <2>5
      <3> QED BY <1>a, <3>1, <3>2, <3>3, ReportKept DEF HasReported
    <2> QED BY <2>4, <2>5
  <1>12. CASE Cancel
    <2>1. ran' = ran /\ truth' = truth BY <1>12 DEF Cancel
    <2>2. CASE step = "prepare" /\ StopsShort BY <1>b, <2>1, <2>2
    <2>3. CASE reports' = reports BY <1>3, <2>1, <2>3
    <2>4. CASE Leaves /\ reports' # reports
      <3>1. step = "execute" BY <2>4 DEF Leaves
      <3>2. l = Current => ran'[l] = "no" BY <1>0, <2>1, <3>1 DEF During
      <3>3. l = Current => ~HasReported(l)' BY <3>2 DEF HasReported
      <3> QED BY <1>c, <2>1, <2>4, <3>3
    <2> QED BY <1>12, <2>2, <2>3, <2>4 DEF Cancel
  <1> QED
    BY <1>1, <1>2, <1>3, <1>7, <1>8, <1>9, <1>10, <1>12
    DEF Next, JobStep, Finished, StartAndSeed, StartOrSeedFails, Reset, Execute,
        EmitFragment, Upload, vars, job

-----------------------------------------------------------------------------
(* Green, and what is emitted.                                             *)

LEMMA GreenStep ==
  Typed /\ LaneFits /\ Schedule /\ (\A l \in Lanes : ReportFits(l)) /\ Green /\ [Next]_vars => Green'
  <1> SUFFICES ASSUME Typed, LaneFits, Schedule, \A l \in Lanes : ReportFits(l), Green, [Next]_vars,
                      conclusion' = "success"
               PROVE  /\ step' \in After => \A l \in Lanes : ran'[l] # "no"
                      /\ \A l \in Lanes : ran'[l] \in {"no", "exited"} \/ (step' = "exit" /\ l = Current')
                      /\ \A l \in Lanes : ran'[l] = "exited" =>
                           \A op \in Governed : reports'[l].operations[op].result = "pass"
    BY DEF Green
  <1> USE DEF Typed, TypeOK
  <1>0. ~Fail /\ ~Cancel BY FailIsFailure DEF Cancel
  <1>1. CASE Prepare
    <2>1. step' = "server" /\ ran' = ran /\ \A l \in Lanes : ran[l] = "no"
      BY <1>1 DEF Prepare, Schedule, Before
    <2> QED BY <2>1 DEF After
  <1>2. CASE StartAndSeed \/ Reset \/ Execute
    <2>1. /\ step' \notin After /\ step # "exit" /\ UNCHANGED <<ran, reports, conclusion>>
      BY <1>2 DEF StartAndSeed, Reset, Execute, job, After
    <2> QED BY <2>1 DEF Green
  <1>3. CASE EmitFragment \/ Upload
    <2>1. step \in After /\ step # "exit" /\ UNCHANGED <<ran, reports, conclusion>>
      BY <1>0, <1>3 DEF EmitFragment, Upload, After
    <2> QED BY <2>1 DEF Green
  <1>6. CASE Report
    <2>1. /\ step = "execute" /\ step' = "exit" /\ conclusion' = conclusion /\ turn' = turn
          /\ ran' = [ran EXCEPT ![Current] = "reported"]
      BY <1>6 DEF Report
    <2>2. PICK failed \in Facets : reports' = [reports EXCEPT ![Current] = ReportOf(failed)]
      BY <1>6 DEF Report
    <2>3. Current' = Current BY <2>1 DEF Current
    <2>4. ASSUME NEW l \in Lanes, l # Current PROVE reports'[l] = reports[l] /\ ran'[l] = ran[l]
      BY <2>1, <2>2, <2>4
    <2>5. ASSUME NEW l \in Lanes, l = Current PROVE ran'[l] = "reported"
      BY <2>1, <2>5
    <2>6. \A l \in Lanes : l # Current => ran[l] \in {"no", "exited"} BY <2>1 DEF Green
    <2>7. ASSUME NEW l \in Lanes, ran'[l] = "exited"
          PROVE  \A op \in Governed : reports'[l].operations[op].result = "pass"
      <3>1. l # Current BY <2>5, <2>7
      <3>2. reports'[l] = reports[l] /\ ran[l] = "exited" BY <2>4, <2>7, <3>1
      <3>3. \A op \in Governed : reports[l].operations[op].result = "pass" BY <2>1, <3>2 DEF Green
      <3> QED BY <3>2, <3>3
    <2> QED BY <2>1, <2>3, <2>4, <2>6, <2>7 DEF After
  <1>4. CASE LaneExits
    <2>1. /\ step = "exit" /\ Lane!Close /\ NextLane /\ conclusion' = conclusion
          /\ verdict' # "failure" /\ ran' = [ran EXCEPT ![Current] = "exited"]
          /\ reports' = reports
      BY <1>0, <1>4 DEF LaneExits
    <2>3. \A op \in Governed : result[op] = "pass"
      BY <2>1, ClosedLane
    <2>4. ASSUME NEW l \in Lanes, l = Current
          PROVE  \A op \in Governed : reports'[l].operations[op].result = "pass"
      BY <2>1, <2>3, <2>4 DEF LaneFits
    <2>5. ASSUME NEW l \in Lanes, l # Current PROVE reports'[l] = reports[l] /\ ran'[l] = ran[l]
      BY <2>1, <2>5
    <2>6. ASSUME NEW l \in Lanes, l = Current PROVE ran'[l] = "exited"
      BY <2>1, <2>6
    <2>7. step' \in After => \A l \in Lanes : ran'[l] # "no"
      <3>0. \A i \in DOMAIN LaneOrder : ran'[LaneOrder[i]] = "no" <=> i # turn /\ i >= turn
        BY <2>1, LaneOver
      <3>1. Schedule' BY <2>1, <3>0, MoveOn
      <3>2. step' \in {"reset", "fragment"} BY <2>1, NextLaneAdvances
      <3>3. CASE step' = "fragment"
        <4>1. \/ \A l \in Lanes : ran'[l] = "no"
              \/ \A l \in Lanes : ran'[l] # "no"
          BY <3>1, <3>3, <2>1 DEF Schedule, LanesAreIndependent
        <4>2. Current \in Lanes BY CurrentIsALane
        <4> QED BY <4>1, <4>2, <2>6
      <3> QED BY <3>2, <3>3 DEF After
    <2>8. \A l \in Lanes : ran'[l] \in {"no", "exited"} BY <2>1, <2>5, <2>6 DEF Green
    <2>9. ASSUME NEW l \in Lanes, ran'[l] = "exited"
          PROVE  \A op \in Governed : reports'[l].operations[op].result = "pass"
      <3>1. CASE l = Current BY <2>4, <3>1
      <3>2. CASE l # Current
        <4>1. reports'[l] = reports[l] /\ ran[l] = "exited" BY <2>5, <2>9, <3>2
        <4>2. conclusion = "success" BY <2>1
        <4>3. \A op \in Governed : reports[l].operations[op].result = "pass" BY <4>1, <4>2 DEF Green
        <4> QED BY <4>1, <4>3
      <3> QED BY <3>1, <3>2
    <2> QED BY <2>7, <2>8, <2>9
  <1>5. CASE UNCHANGED vars BY <1>5 DEF vars, job, Green, Current
  <1> QED
    BY <1>0, <1>1, <1>2, <1>3, <1>4, <1>5, <1>6
    DEF Next, JobStep, Finished, PrepareFails, StartOrSeedFails, ResetFails, LaneDies

\* What a strict or lenient builder does when nothing went wrong: every cell passes.
LEMMA GreenFragmentPasses ==
  ASSUME Packaged = Lanes, Governed # {}, NEW args,
         \A l \in Lanes : Faithful(l),
         \A l \in Lanes, op \in Governed : reports[l].operations[op].result = "pass",
         Admitted(reports, args)
  PROVE  Fragment(reports, args).rollup = "pass"
  <1> DEFINE cells == Cells
  <1>1. ASSUME NEW l \in Lanes, NEW op \in Governed
        PROVE  /\ l \in Published
               /\ cells[<<l, op>>].result = "pass" /\ HasReceipt(cells[<<l, op>>])
    <2> DEFINE outcome == reports[l].operations[op]
    <2>1. /\ op \in DOMAIN reports[l].operations /\ outcome.result = "pass" /\ HasFacets(outcome)
          /\ AllPass(outcome.facet_results)
      BY DEF Faithful, Operations
    <2>2. GovernedVersion(reports[l])
      BY <2>1 DEF Admitted, PackageAdmitted, Executed
    <2>3. FacetsAdmitted(l, outcome)
      BY <2>1, <2>2 DEF Admitted, OutcomesAdmitted
    <2>4. l \in Published /\ DOMAIN outcome.facet_results = Facets BY <2>1, <2>3 DEF FacetsAdmitted
    <2>7. <<l, op>> \in Lanes \X Governed /\ <<l, op>>[1] = l /\ <<l, op>>[2] = op OBVIOUS
    <2>8. cells[<<l, op>>] = Cell(reports[l], op) BY <2>7 DEF Cells
    <2>5. cells[<<l, op>>] = [result |-> "pass", receipt |-> outcome.facet_results]
      BY <2>1, <2>2, <2>8 DEF Cell
    <2>6. Facets # {} BY DEF Facets
    <2> QED BY <2>4, <2>5, <2>6 DEF HasReceipt
  <1>2. \A l \in Lanes : LaneState(l, cells) = "executed" BY <1>1 DEF LaneState
  <1>3. \A cell \in Lanes \X Governed : cells[cell].result = "pass" BY <1>1
  <1>4. Rollup(cells) = "pass" BY <1>2, <1>3 DEF Rollup
  <1> QED BY <1>4 DEF Fragment, Cells

LEMMA EmittedStep ==
  ASSUME Packaged = Lanes, Governed # {}
  PROVE  Typed /\ (\A l \in Lanes : ReportFits(l)) /\ Green /\ EmittedFits /\ [Next]_vars
           => EmittedFits'
  <1> SUFFICES ASSUME Typed, \A l \in Lanes : ReportFits(l), Green, EmittedFits, [Next]_vars
               PROVE  EmittedFits'
    OBVIOUS
  <1>1. CASE step \notin {"fragment", "upload", "done"}
    <2>1. ~emitted.built /\ emitted' = emitted /\ step' \notin {"upload", "done"}
      BY <1>1, NextLaneAdvances
      DEF EmittedFits, Next, JobStep, Finished, Prepare, PrepareFails, StartAndSeed, StartOrSeedFails,
          Reset, ResetFails, Execute, Report, LaneExits, LaneDies, EmitFragment, Upload, Cancel, vars, job, Typed
    <2> QED BY <2>1 DEF EmittedFits
  <1>2. CASE EmitFragment
    <2> DEFINE built == Build(reports, Arguments)
    <2>1. /\ step = "fragment" /\ step' = "upload" /\ emitted' = built.file /\ reports' = reports
          /\ IF built.status = "failure" THEN Fail ELSE UNCHANGED conclusion
      BY <1>2 DEF EmitFragment
    <2>2. CASE Admitted(reports, Arguments)
      <3>1. emitted' = [built |-> TRUE, content |-> Fragment(reports, Arguments)]
        BY <2>1, <2>2 DEF Build
      <3>2. emitted'.content.observations = Cells' BY <2>1, <3>1 DEF Fragment, Cells
      <3>3. \A l \in Lanes : PackageAdmitted(l, reports[l]) BY <2>2 DEF Admitted
      <3>4. ASSUME conclusion' = "success" PROVE emitted'.content.rollup = "pass"
        <4>1. ~Fail BY <3>4, FailIsFailure DEF Typed
        <4>2. conclusion = "success" BY <2>1, <3>4, <4>1
        <4>3. ASSUME NEW l \in Lanes PROVE ran[l] = "exited"
          BY <2>1, <4>2 DEF Green, After
        <4>4. /\ \A l \in Lanes : Faithful(l)
              /\ \A l \in Lanes, op \in Governed : reports[l].operations[op].result = "pass"
          BY <4>2, <4>3 DEF Green, ReportFits, HasReported
        <4>5. Fragment(reports, Arguments).rollup = "pass" BY <2>2, <4>4, GreenFragmentPasses
        <4> QED BY <3>1, <4>5
      <3> QED BY <2>1, <3>1, <3>2, <3>3, <3>4 DEF EmittedFits
    <2>3. CASE ~Admitted(reports, Arguments)
      <3>1. built = [file |-> NoFragment, status |-> "failure"] BY <2>3 DEF Build
      <3>2. ~emitted'.built BY <2>1, <3>1 DEF NoFragment
      <3>3. conclusion' # "success" BY <2>1, <3>1, FailIsFailure DEF Typed
      <3> QED BY <2>1, <3>2, <3>3 DEF EmittedFits
    <2> QED BY <2>2, <2>3
  <1>3. CASE step \in {"fragment", "upload", "done"} /\ ~EmitFragment
    <2>1. /\ emitted' = emitted /\ reports' = reports
          /\ step' \in {"upload", "done"} <=> step \in {"upload", "done"}
      BY <1>3
      DEF Next, JobStep, Finished, Prepare, PrepareFails, StartAndSeed, StartOrSeedFails, Reset,
          ResetFails, Execute, Report, LaneExits, LaneDies, Leaves, Upload, Cancel, vars, job
    <2>2. conclusion' = "success" => conclusion = "success"
      BY <1>3, FailIsFailure
      DEF Next, JobStep, Finished, Prepare, PrepareFails, StartAndSeed, StartOrSeedFails,
          Reset, ResetFails, Execute, Report, LaneExits, LaneDies, Upload, Cancel, vars, job, Typed
    <2>3. Cells' = Cells BY <2>1 DEF Cells
    <2>4. Evidence' = Evidence BY <2>1 DEF Evidence
    <2>5. ASSUME step' = "done", conclusion' = "success" PROVE artifact' = Evidence
      <3>1. Upload \/ (step = "done" /\ artifact' = artifact)
        BY <1>3, <2>5
        DEF Next, JobStep, Finished, Prepare, PrepareFails, StartAndSeed, StartOrSeedFails, Reset,
            ResetFails, Execute, Report, LaneExits, LaneDies, Upload, Cancel, vars, job
      <3>2. CASE Upload BY <2>5, <3>2, FailIsFailure DEF Upload, Typed
      <3>3. CASE step = "done" /\ artifact' = artifact BY <2>2, <2>5, <3>3 DEF EmittedFits
      <3> QED BY <3>1, <3>2, <3>3
    <2> QED BY <2>1, <2>2, <2>3, <2>4, <2>5 DEF EmittedFits
  <1> QED BY <1>1, <1>2, <1>3

-----------------------------------------------------------------------------
(* The theorems.                                                           *)

\* The state of the job has its shape.
THEOREM TypeCorrect == Spec => []TypeOK
  <1>1. Init => Typed /\ LaneFits BY InitHolds DEF IInv
  <1>2. Typed /\ LaneFits /\ [Next]_vars => (Typed /\ LaneFits)' BY TypedStep, LaneStep
  <1>3. Typed /\ LaneFits => TypeOK BY DEF Typed
  <1> QED BY <1>1, <1>2, <1>3, PTL DEF Spec

\* A failing lane does not stop the ones after it, however many lanes there are.
THEOREM IndependentLanes == Spec => []LanesAreIndependent
  <1>1. Init => Typed /\ LaneFits /\ Schedule BY InitHolds DEF IInv
  <1>2. Typed /\ LaneFits /\ Schedule /\ [Next]_vars => (Typed /\ LaneFits /\ Schedule)'
    BY TypedStep, LaneStep, ScheduleStep
  <1>3. Schedule => LanesAreIndependent BY DEF Schedule
  <1> QED BY <1>1, <1>2, <1>3, PTL DEF Spec

\* The inductive invariant holds of every catalog that names a package for each lane and
\* governs some operation.
THEOREM Invariant ==
  ASSUME Packaged = Lanes, Governed # {}
  PROVE  Spec => []IInv
  <1>1. Init => IInv BY InitHolds
  <1>2. IInv /\ [Next]_vars => IInv'
    BY TypedStep, ScheduleStep, LaneStep, ReportStep, GreenStep, EmittedStep DEF IInv
  <1> QED BY <1>1, <1>2, PTL DEF Spec

\* A green job certifies: every lane reported and exited, with every governed cell earned, the fragment
\* says so, and the artifact holds it.
THEOREM GreenEarned ==
  ASSUME Packaged = Lanes, Governed # {}
  PROVE  Spec => []GreenIsEarned
  <1>1. ASSUME IInv PROVE GreenIsEarned
    <2> SUFFICES ASSUME step = "done", conclusion = "success"
                 PROVE  /\ \A l \in Lanes : ran[l] = "exited" /\ Governed \subseteq truth[l]
                        /\ emitted.built /\ emitted.content.rollup = "pass"
                        /\ artifact = Evidence
      BY DEF GreenIsEarned
    <2>1. emitted.built /\ emitted.content.rollup = "pass" /\ artifact = Evidence
      BY <1>1 DEF IInv, EmittedFits
    <2>2. \A l \in Lanes : ran[l] = "exited" BY <1>1 DEF IInv, Green, After
    <2>3. ASSUME NEW l \in Lanes PROVE Governed \subseteq truth[l]
      <3>1. /\ Faithful(l)
            /\ \A op \in Governed : reports[l].operations[op].result = "pass"
        BY <1>1, <2>2 DEF IInv, ReportFits, Green, HasReported
      <3> QED BY <3>1 DEF Faithful, Operations
    <2> QED BY <2>1, <2>2, <2>3
  <1> QED BY <1>1, Invariant, PTL

\* The fragment claims nothing that did not happen in this run.
THEOREM EvidenceEarned ==
  ASSUME Packaged = Lanes, Governed # {}
  PROVE  Spec => []EvidenceIsEarned
  <1>1. ASSUME IInv PROVE EvidenceIsEarned
    <2> SUFFICES ASSUME emitted.built, NEW l \in Lanes, NEW op \in Governed
                 PROVE  /\ HasReceipt(Result(l, op)) => HasReported(l) /\ ~Drifted(l)
                        /\ Result(l, op).result = "pass" => op \in truth[l]
      BY DEF EvidenceIsEarned
    <2>0. /\ ReportFits(l) /\ PackageAdmitted(l, reports[l])
          /\ emitted.content.observations = Cells
      BY <1>1 DEF IInv, EmittedFits
    <2>a. <<l, op>> \in Lanes \X Governed /\ <<l, op>>[1] = l /\ <<l, op>>[2] = op OBVIOUS
    <2>1. ReportFits(l) /\ PackageAdmitted(l, reports[l]) /\ Result(l, op) = Cell(reports[l], op)
      BY <2>0, <2>a DEF Result, Cells
    <2>2. CASE op \notin DOMAIN reports[l].operations \/ ~GovernedVersion(reports[l])
      <3>1. Result(l, op) = Skipped BY <2>1, <2>2 DEF Cell
      <3> QED BY <3>1 DEF Skipped, HasReceipt, NoReceipt
    <2>3. CASE op \in DOMAIN reports[l].operations /\ GovernedVersion(reports[l])
      <3>1. HasReported(l) /\ Faithful(l) BY <2>1, <2>3 DEF ReportFits
      <3>2. reports[l].package BY <2>1, <2>3 DEF PackageAdmitted, Executed
      <3>3. inputs.installed[l] \in Installs BY <1>1 DEF IInv, Typed, InputType
      <3>4. inputs.installed[l] \in [version : {None, "governed", "other"}, package : BOOLEAN]
        BY <3>3, JobAssumption
      <3>5. inputs.installed[l].version = "governed" /\ inputs.installed[l].package = TRUE
        BY <2>3, <3>1, <3>2, <3>4 DEF Faithful, GovernedVersion
      <3>6. ~Drifted(l) BY <3>4, <3>5 DEF Drifted
      <3>7. ASSUME Result(l, op).result = "pass" PROVE op \in truth[l]
        <4>1. AllPass(reports[l].operations[op].facet_results)
          BY <2>1, <3>7 DEF Cell, Skipped
        <4> QED BY <3>1, <4>1 DEF Faithful, Operations
      <3> QED BY <3>1, <3>6, <3>7
    <2> QED BY <2>2, <2>3
  <1> QED BY <1>1, Invariant, PTL

-----------------------------------------------------------------------------
(* Why evidence is refused: a second invariant, of the times in a report.  *)

ClockFits ==
  /\ started <= clock /\ 2 <= clock
  /\ step \in Before => clock = 2
  /\ step = "reset" => clock <= 2 * turn
  /\ step = "execute" => started <= begun /\ begun <= clock /\ clock <= 2 * turn + 1
  /\ step = "exit" => clock <= 2 * turn + 2
  /\ step \in After => clock <= 2 * Len(LaneOrder) + 2

Timed(l) ==
  HasReported(l) =>
    /\ started <= reports[l].started /\ reports[l].started <= reports[l].completed
    /\ reports[l].completed <= clock /\ 2 <= reports[l].completed
    /\ reports[l].identity = inputs.fixtures
    /\ \A op \in Governed :
         reports[l].operations[op].facet_results \in [Facets -> {"pass", "fail"}]

LEMMA ClockGoesOn ==
  ASSUME clock \in Nat, clock' = clock + 1, NEW t \in Nat
  PROVE  clock <= clock' /\ (t <= clock => t <= clock')
  OBVIOUS

LEMMA ClockStep == Typed /\ ClockFits /\ [Next]_vars => ClockFits'
  <1> SUFFICES ASSUME Typed, ClockFits, [Next]_vars PROVE ClockFits'
    OBVIOUS
  <1> DEFINE n == Len(LaneOrder)
  <1>a. turn \in 1..n /\ n \in Nat BY CurrentIsALane DEF Typed
  <1> HIDE DEF n
  <1>b. turn \in Nat /\ turn <= n /\ 1 <= turn BY <1>a
  <1>c. clock \in Nat /\ started \in Nat BY DEF Typed, TypeOK
  <1>0. turn \in Nat /\ n \in Nat /\ turn <= n /\ 1 <= turn /\ clock \in Nat /\ started \in Nat
    BY <1>a, <1>b, <1>c
  <1> USE DEF n
  <1>t. TypeOK BY DEF Typed
  <1> USE DEF Before, After
  <1>1. CASE Prepare
    <2>1. step = "prepare" /\ step' = "server" /\ started' = clock /\ clock' = clock
      BY <1>1 DEF Prepare
    <2> QED BY <1>0, <2>1 DEF ClockFits
  <1>2. CASE step = "prepare" /\ step' = "fragment" /\ StopsShort /\ clock' = clock
    <2>1. started' = started \/ started' = clock BY <1>2 DEF StopsShort
    <2>2. started' <= clock' BY <1>0, <1>2, <2>1 DEF ClockFits
    <2>3. clock' = 2 BY <1>2 DEF ClockFits
    <2>4. clock' <= 2 * n + 2 BY <1>0, <2>3
    <2> QED BY <1>2, <2>2, <2>3, <2>4 DEF ClockFits
  <1>3. CASE StartAndSeed
    <2>1. step = "server" /\ step' = "reset" /\ UNCHANGED <<started, clock, turn>>
      BY <1>3 DEF StartAndSeed
    <2> QED BY <1>0, <2>1 DEF ClockFits
  <1>4. CASE step' \in After /\ UNCHANGED <<started, clock>> /\ (step' # step => step # "done")
    <2>1. step \in {"prepare", "server", "reset", "execute", "exit", "fragment", "upload", "done"} BY <1>t DEF TypeOK
    <2>2. clock <= 2 * n + 2 BY <1>0, <2>1 DEF ClockFits
    <2> QED BY <1>4, <2>2 DEF ClockFits
  <1>5. CASE Reset
    <2>1. step = "reset" /\ step' = "execute" /\ clock' = clock + 1 /\ begun' = clock'
          /\ UNCHANGED <<started, turn>>
      BY <1>5 DEF Reset
    <2> QED BY <1>0, <2>1 DEF ClockFits
  <1>6. CASE ResetFails \/ LaneExits \/ LaneDies
    <2>1. /\ step \in {"reset", "execute", "exit"} /\ UNCHANGED <<started, clock>>
          /\ \/ step' = "reset" /\ turn' = turn + 1
             \/ step' = "fragment" /\ turn = n
      BY <1>6, <1>t, NextLaneAdvances DEF ResetFails, LaneExits, LaneDies
    <2> QED BY <1>0, <2>1 DEF ClockFits
  <1>7. CASE Execute BY <1>7 DEF Execute, job, ClockFits
  <1>8. CASE Report
    <2>1. /\ step = "execute" /\ step' = "exit" /\ clock' = clock + 1 /\ UNCHANGED <<started, turn>>
      BY <1>8 DEF Report
    <2> QED BY <1>0, <2>1 DEF ClockFits
  <1>9. CASE UNCHANGED vars BY <1>9 DEF vars, job, ClockFits
  <1> QED
    BY <1>1, <1>2, <1>3, <1>4, <1>5, <1>6, <1>7, <1>8, <1>9
    DEF Next, JobStep, Finished, PrepareFails, StartOrSeedFails, EmitFragment, Upload, Cancel

LEMMA TimedStep ==
  ASSUME Typed, Schedule, ClockFits, [Next]_vars, NEW l \in Lanes, Timed(l)
  PROVE  Timed(l)'
  <1>0. /\ clock \in Nat /\ begun \in Nat /\ ran \in [Lanes -> {"no", "not reset", "died", "reported", "exited"}]
        /\ reports \in [Lanes -> ReportType]
    BY DEF Typed, TypeOK
  <1>a. inputs' = inputs
    BY DEF Next, JobStep, Finished, Prepare, PrepareFails, StartAndSeed, StartOrSeedFails, Reset,
           ResetFails, Execute, Report, LaneExits, LaneDies, EmitFragment, Upload, Cancel, vars, job
  <1>b. reports[l].completed \in Nat BY <1>0 DEF ReportType
  <1>1. CASE UNCHANGED <<ran, reports, clock, started>> BY <1>1, <1>a DEF Timed, HasReported
  <1>2. CASE step \in Before /\ ran' = ran BY <1>2 DEF Timed, Schedule, HasReported
  <1>3. CASE Reset
    <2>1. UNCHANGED <<ran, reports, started>> /\ clock' = clock + 1 BY <1>3 DEF Reset
    <2>2. reports[l].completed <= clock => reports[l].completed <= clock'
      BY <1>0, <1>b, <2>1, ClockGoesOn
    <2> QED BY <1>a, <2>1, <2>2 DEF Timed, HasReported
  <1>4. ASSUME UNCHANGED <<started, clock>>, HasReported(l)' => HasReported(l),
               reports' = reports \/ (Leaves /\ (HasReported(l) => l # Current))
        PROVE  Timed(l)'
    <2>1. HasReported(l)' => reports'[l] = reports[l] BY <1>0, <1>4 DEF Leaves
    <2> QED BY <1>a, <1>4, <2>1 DEF Timed
  <1>7. CASE ResetFails
    <2>1. UNCHANGED <<reports, started, clock>> /\ ran' = [ran EXCEPT ![Current] = "not reset"]
      BY <1>7 DEF ResetFails
    <2>2. HasReported(l)' => HasReported(l) BY <1>0, <2>1 DEF HasReported
    <2> QED BY <1>4, <2>1, <2>2
  <1>8. CASE LaneExits
    <2>1. /\ UNCHANGED <<reports, started, clock>> /\ ran' = [ran EXCEPT ![Current] = "exited"]
          /\ step = "exit"
      BY <1>8 DEF LaneExits
    <2>2. ran[Current] = "reported" BY <2>1 DEF Schedule
    <2>3. HasReported(l)' => HasReported(l) BY <1>0, <2>1, <2>2 DEF HasReported
    <2> QED BY <1>4, <2>1, <2>3
  <1>d. step = "execute" /\ l = Current => ~HasReported(l)
    <2>1. turn \in DOMAIN LaneOrder /\ turn >= turn BY CurrentIsALane DEF Typed
    <2> QED BY <2>1 DEF Schedule, During, Current, HasReported
  <1>9. CASE LaneDies
    <2>1. /\ UNCHANGED <<started, clock>> /\ Leaves
          /\ ran' = IF step = "exit" THEN ran ELSE [ran EXCEPT ![Current] = "died"]
      BY <1>9 DEF LaneDies
    <2>2. HasReported(l)' => HasReported(l) BY <1>0, <2>1 DEF HasReported
    <2>3. reports' # reports => step = "execute" BY <2>1 DEF Leaves
    <2> QED BY <1>4, <1>d, <2>1, <2>2, <2>3
  <1>5. CASE Report
    <2>1. /\ step = "execute" /\ ran' = [ran EXCEPT ![Current] = "reported"]
          /\ clock' = clock + 1 /\ started' = started
      BY <1>5 DEF Report
    <2>2. PICK failed \in Facets : reports' = [reports EXCEPT ![Current] = ReportOf(failed)]
      BY <1>5 DEF Report
    <2>3. CASE l = Current
      <3>1. reports'[l] = ReportOf(failed) BY <1>0, <2>2, <2>3
      <3>2. /\ reports'[l].started = begun /\ reports'[l].completed = clock
            /\ reports'[l].identity = inputs.fixtures
        BY <3>1 DEF ReportOf
      <3>3. started <= begun /\ begun <= clock /\ 2 <= clock BY <2>1 DEF ClockFits
      <3>4. clock <= clock' BY <1>0, <2>1, ClockGoesOn
      <3>5. ASSUME NEW op \in Governed
            PROVE  reports'[l].operations[op].facet_results \in [Facets -> {"pass", "fail"}]
        <4>1. reports'[l].operations[op].facet_results = FacetsOf(result[op], failed)
          BY <3>1 DEF ReportOf, Operations
        <4> QED BY <4>1 DEF FacetsOf
      <3> QED BY <1>a, <2>1, <3>2, <3>3, <3>4, <3>5 DEF Timed
    <2>4. CASE l # Current
      <3>1. ran'[l] = ran[l] /\ reports'[l] = reports[l] BY <1>0, <2>1, <2>2, <2>4
      <3>2. reports[l].completed <= clock => reports[l].completed <= clock'
      BY <1>0, <1>b, <2>1, ClockGoesOn
      <3> QED BY <1>a, <2>1, <3>1, <3>2 DEF Timed, HasReported
    <2> QED BY <2>3, <2>4
  <1>6. CASE Cancel /\ step \notin Before
    <2>1. UNCHANGED <<ran, clock, started>> /\ Leaves BY <1>6 DEF Cancel, Before
    <2>2. HasReported(l)' => HasReported(l) BY <2>1 DEF HasReported
    <2>3. reports' # reports => step = "execute" BY <2>1 DEF Leaves
    <2> QED BY <1>4, <1>d, <2>1, <2>2, <2>3
  <1> QED
    BY <1>1, <1>2, <1>3, <1>5, <1>6, <1>7, <1>8, <1>9
    DEF Next, JobStep, Finished, Prepare, PrepareFails, StartAndSeed, StartOrSeedFails, Execute,
        EmitFragment, Upload, Cancel, vars, job, Before

LEMMA TimesAdd ==
  ASSUME NEW cut \in Nat, NEW s \in Nat, NEW b \in Nat, NEW e \in Nat, NEW c \in Nat,
         NEW skew \in Nat, NEW age \in Nat, NEW n \in Nat, s # 0,
         cut <= s, s <= b, b <= e, e <= c, 2 <= e, c <= 2 * n + 2, age >= 2 * n
  PROVE  b >= cut /\ b >= s /\ e >= b /\ e <= c + skew /\ c - e <= age /\ b # 0 /\ e # 0
  OBVIOUS

NoCause ==
  /\ started # NoTime /\ inputs.request.dispatch # "refused"
  /\ inputs.request.cut # NoTime /\ inputs.request.cut <= started
  /\ \A l \in Lanes : reports[l].readable
  /\ \A l \in Lanes : HasReported(l) => ~Drifted(l) /\ inputs.fixtures = "this run"

\* Every client is published, and the job ends within the age the builder allows.
Allowed == Published = Lanes /\ MaxAge >= 2 * Len(LaneOrder)

LEMMA RequestTyped ==
  ASSUME Typed
  PROVE  /\ inputs.request.cut \in Nat
         /\ inputs.request.dispatch \in {None, "canonical", "refused"}
  <1>1. inputs.request \in Requests BY DEF Typed, InputType
  <1>2. inputs.request \in [tier : {"pr", "nightly", "release"}, cut : Nat,
                            dispatch : {None, "canonical", "refused"}]
    BY <1>1, JobAssumption
  <1> QED BY <1>2

\* The builder admits what a run that got as far as the defaults leaves behind, when nothing
\* was cut short and clients and fixtures are the catalog's.
LEMMA NothingToRefuse ==
  ASSUME Allowed, Typed, ClockFits, step = "fragment", NoCause,
         \A l \in Lanes : ReportFits(l) /\ Timed(l)
  PROVE  Admitted(reports, Arguments)
  <1> DEFINE args == Arguments
  <1> DEFINE n == Len(LaneOrder)
  <1> DEFINE cut == inputs.request.cut
  <1>1. /\ args.identity = "this run" /\ args.started = started
        /\ args.completed = clock /\ args.cut = cut /\ args.clock = clock
        /\ args.dispatch = inputs.request.dispatch
    BY DEF Arguments, NoCause
  <1>2. clock \in Nat /\ started \in Nat BY DEF Typed, TypeOK
  <1>3. cut \in Nat /\ inputs.request.dispatch \in {None, "canonical", "refused"}
    BY RequestTyped
  <1>a. started # 0 /\ cut # 0 /\ inputs.request.dispatch # "refused" BY DEF NoCause, NoTime
  <1>4. Skew \in Nat /\ MaxAge \in Nat BY CatalogAssumption
  <1>5. clock <= 2 * n + 2 /\ started <= clock /\ cut <= started BY DEF ClockFits, After, NoCause
  <1>6. n \in Nat /\ MaxAge >= 2 * n BY CurrentIsALane DEF Typed, Allowed
  <1> HIDE DEF args, n, cut
  <1>7. ASSUME NEW b \in Nat, NEW e \in Nat, started <= b, b <= e, e <= clock, 2 <= e
        PROVE  /\ TimesValid(b, e, args) /\ b >= args.started /\ e <= args.completed
    <2>1. /\ b >= cut /\ b >= started /\ e >= b /\ e <= clock + Skew
          /\ clock - e <= MaxAge /\ b # 0 /\ e # 0
      BY <1>2, <1>3, <1>4, <1>5, <1>6, <1>7, <1>a, TimesAdd
    <2> QED BY <1>1, <1>7, <1>a, <2>1 DEF TimesValid, NoTime
  <1>8. TimesValid(started, clock, args)
    <2>1. 2 <= clock BY DEF ClockFits
    <2>2. started <= started /\ clock <= clock BY <1>2
    <2> QED BY <1>2, <1>5, <1>7, <2>1, <2>2
  <1>9. ASSUME NEW l \in Lanes, ~HasReported(l)
        PROVE  /\ ReportAdmitted(reports[l], args) /\ PackageAdmitted(l, reports[l])
               /\ OutcomesAdmitted(l, reports[l])
    <2>1. DOMAIN reports[l].operations = {} /\ reports[l].readable BY <1>9 DEF ReportFits, NoCause
    <2> QED BY <2>1 DEF ReportAdmitted, PackageAdmitted, OutcomesAdmitted, Executed
  <1>10. ASSUME NEW l \in Lanes, HasReported(l)
         PROVE  /\ ReportAdmitted(reports[l], args) /\ PackageAdmitted(l, reports[l])
                /\ OutcomesAdmitted(l, reports[l])
    <2>1. Faithful(l) /\ Timed(l) /\ reports[l].readable /\ inputs.fixtures = "this run" /\ ~Drifted(l)
      BY <1>10 DEF ReportFits, NoCause
    <2>a. inputs.installed[l] = [version |-> "governed", package |-> TRUE] BY <2>1 DEF Drifted
    <2>b. inputs.installed[l].version = "governed" /\ inputs.installed[l].package = TRUE BY <2>a
    <2>c. /\ reports[l].version = inputs.installed[l].version
          /\ reports[l].package = inputs.installed[l].package
      BY <2>1 DEF Faithful
    <2>2. reports[l].version = "governed" /\ reports[l].package = TRUE BY <2>b, <2>c
    <2>3. reports[l].started \in Nat /\ reports[l].completed \in Nat
      BY DEF Typed, TypeOK, ReportType
    <2>4. /\ started <= reports[l].started /\ reports[l].started <= reports[l].completed
          /\ reports[l].completed <= clock /\ 2 <= reports[l].completed
          /\ reports[l].identity = inputs.fixtures
          /\ \A op \in Governed :
               reports[l].operations[op].facet_results \in [Facets -> {"pass", "fail"}]
      BY <1>10, <2>1 DEF Timed
    <2>5. /\ TimesValid(reports[l].started, reports[l].completed, args)
          /\ reports[l].started >= args.started /\ reports[l].completed <= args.completed
      BY <1>7, <2>3, <2>4
    <2>6. DOMAIN reports[l].operations = Governed \cup Excluded BY <2>1 DEF Faithful, Operations
    <2>7. ReportAdmitted(reports[l], args)
      BY <1>1, <2>1, <2>2, <2>4, <2>5, <2>6 DEF ReportAdmitted, None
    <2>8. PackageAdmitted(l, reports[l]) BY <2>2 DEF PackageAdmitted, GovernedVersion
    <2>9. ASSUME NEW op \in Governed PROVE FacetsAdmitted(l, reports[l].operations[op])
      <3>1. /\ reports[l].operations[op].result \in {"pass", "fail"}
            /\ AllPass(reports[l].operations[op].facet_results)
                  <=> reports[l].operations[op].result = "pass"
        BY <2>1 DEF Faithful, Operations
      <3> QED BY <2>4, <3>1 DEF FacetsAdmitted, Allowed
    <2>10. \A op \in DOMAIN reports[l].operations : reports[l].operations[op].result \in Results
      BY <2>1 DEF Faithful, Results
    <2>11. OutcomesAdmitted(l, reports[l]) BY <2>9, <2>10 DEF OutcomesAdmitted
    <2> QED BY <2>7, <2>8, <2>11
  <1>11. /\ args.identity # None /\ NightlyProducerRun(args)
         /\ TimesValid(args.started, args.completed, args)
    BY <1>1, <1>3, <1>8, <1>a DEF None, NightlyProducerRun
  <1>12. Admitted(reports, args) BY <1>9, <1>10, <1>11 DEF Admitted
  <1> QED BY <1>12 DEF args

LEMMA RefusalStep ==
  ASSUME Allowed, Typed, ClockFits, \A l \in Lanes : ReportFits(l) /\ Timed(l), RefusalHasACause, [Next]_vars
  PROVE  RefusalHasACause'
  <1> DEFINE Cause ==
        \/ started = NoTime \/ inputs.request.dispatch = "refused"
        \/ inputs.request.cut = NoTime \/ started < inputs.request.cut
        \/ \E l \in Lanes : ~reports[l].readable
        \/ \E l \in Lanes : HasReported(l) /\ (Drifted(l) \/ inputs.fixtures # "this run")
  <1>1. CASE EmitFragment
    <2>1. /\ step = "fragment" /\ emitted' = Build(reports, Arguments).file
          /\ UNCHANGED <<started, inputs, reports, ran>>
      BY <1>1 DEF EmitFragment
    <2>2. Cause' <=> Cause BY <2>1 DEF Drifted, HasReported
    <2>3. CASE Admitted(reports, Arguments)
      <3>1. emitted'.built BY <2>1, <2>3 DEF Build
      <3> QED BY <3>1 DEF RefusalHasACause
    <2>4. CASE ~Admitted(reports, Arguments)
      <3>1. started \in Nat /\ inputs.request.cut \in Nat
        BY RequestTyped DEF Typed, TypeOK
      <3>2. ~(started < inputs.request.cut) => inputs.request.cut <= started BY <3>1
      <3>3. Cause BY <2>1, <2>4, <3>2, NothingToRefuse DEF NoCause
      <3> QED BY <2>2, <3>3 DEF RefusalHasACause
    <2> QED BY <2>3, <2>4
  <1>2. CASE step' \notin {"upload", "done"} BY <1>2 DEF RefusalHasACause
  <1>3. CASE step \in {"upload", "done"} /\ UNCHANGED <<started, inputs, reports, ran, emitted>>
    BY <1>3 DEF RefusalHasACause, Drifted, HasReported
  <1>4. ASSUME ResetFails \/ LaneExits \/ LaneDies PROVE step' \notin {"upload", "done"}
    BY <1>4, NextLaneAdvances DEF ResetFails, LaneExits, LaneDies, Typed
  <1> QED
    BY <1>1, <1>2, <1>3, <1>4
    DEF Next, JobStep, Finished, Prepare, PrepareFails, StartAndSeed, StartOrSeedFails, Reset,
        Execute, Report, Upload, Cancel, Leaves, vars, job

\* Where every client is published and the job ends within the age the builder allows, the
\* evidence is refused only for a reason it refuses by design.
THEOREM RefusalByDesign ==
  ASSUME Allowed
  PROVE  Spec => []RefusalHasACause
  <1> DEFINE TInv == /\ Typed /\ LaneFits /\ Schedule /\ ClockFits /\ RefusalHasACause
                     /\ \A l \in Lanes : ReportFits(l) /\ Timed(l)
  <1>1. Init => TInv
    <2> SUFFICES ASSUME Init PROVE TInv OBVIOUS
    <2>1. IInv BY InitHolds
    <2>2. /\ started = 0 /\ clock = 2 /\ step = "prepare" /\ ran = [l \in Lanes |-> "no"]
      BY DEF Init, NoTime
    <2>3. ClockFits BY <2>2 DEF ClockFits, Before, After
    <2>4. \A l \in Lanes : Timed(l) BY <2>2 DEF Timed, HasReported
    <2>5. RefusalHasACause BY <2>2 DEF RefusalHasACause
    <2> QED BY <2>1, <2>3, <2>4, <2>5 DEF IInv
  <1>2. TInv /\ [Next]_vars => TInv'
    BY TypedStep, LaneStep, ScheduleStep, ReportStep, ClockStep, TimedStep, RefusalStep
  <1>3. TInv => RefusalHasACause OBVIOUS
  <1> QED BY <1>1, <1>2, <1>3, PTL DEF Spec
=============================================================================
