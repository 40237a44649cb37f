-------------------------- MODULE CertificationRun --------------------------
(***************************************************************************)
(* The certify job of .github/workflows/protocol-certification.yml: it     *)
(* resolves the candidate, writes honest defaults, starts and seeds the    *)
(* server, executes the client lanes one after the other, builds the       *)
(* fragment from whatever reports there are, and uploads it.  A lane is    *)
(* LanePromise, which LaneRunner implements; the builder is                *)
(* CertificationFragment.  Steps fail, runners die, and the job may be     *)
(* cancelled, by hand or by its timeout, at any moment: the steps under    *)
(* always() still run.                                                     *)
(***************************************************************************)
EXTENDS CertificationFragment, Sequences

CONSTANTS
  LaneOrder,  \* the lanes, in the order of the workflow's steps
  Installs,   \* bound: the [version, package] a lane's installed client may have
  Requests    \* bound: the [tier, cut, dispatch] the job is started with; it starts at time 2

ASSUME JobAssumption ==
  /\ LaneOrder \in Seq(Lanes) /\ LaneOrder # << >>
  /\ \A lane \in Lanes : \E i \in DOMAIN LaneOrder : LaneOrder[i] = lane
  /\ \A i, j \in DOMAIN LaneOrder : LaneOrder[i] = LaneOrder[j] => i = j
  /\ Installs \subseteq [version : {None, "governed", "other"}, package : BOOLEAN]
  /\ Requests \subseteq [tier : {"pr", "nightly", "release"}, cut : Nat,
                        dispatch : {None, "canonical", "refused"}]

VARIABLES
  step,        \* the step the job is at
  turn,        \* index in LaneOrder of the lane being executed
  conclusion,  \* conclusion of the job so far
  reports,     \* artifacts/<lane>.json
  emitted,     \* what the fragment builder wrote
  artifact,    \* what the upload stored
  inputs,      \* the request, the clients installed, the fixtures the workflow names
  started,     \* started_at of the identity step, NoTime when it failed
  clock,
  begun,       \* when the current lane's runner started
  earned, result, verdict,  \* the lane being executed
  ran,         \* history: how far each lane got
  truth        \* history: the operations each lane had earned when it reported

job  == <<step, turn, conclusion, reports, emitted, artifact, inputs, started, clock, begun, ran, truth>>
lane == <<earned, result, verdict>>
vars == <<job, lane>>

Operations == Governed \cup Excluded
Lane == INSTANCE LanePromise WITH Ops <- Operations, Governed <- Governed
Current == LaneOrder[turn]

-----------------------------------------------------------------------------
(* The reports.                                                            *)

Missing == [readable |-> FALSE, version |-> None, package |-> FALSE, identity |-> None,
            started |-> 0, completed |-> 0, operations |-> NoOperations]
\* Written for every lane before anything is executed: it claims nothing.
HonestDefault == [Missing EXCEPT !.readable = TRUE]
\* A runner that ends while it writes leaves a truncated file.
Truncated == Missing
NoArtifact == [uploaded |-> FALSE]
Evidence == [uploaded |-> TRUE, reports |-> reports, fragment |-> emitted]

\* The facets of a passed, and of a failed, scenario.
FacetsOf(outcome, failed) == [f \in Facets |-> IF outcome = "fail" /\ f = failed THEN "fail" ELSE "pass"]

\* Governed scenarios have a negative case, hence facets; excluded ones need not have.
ReportOf(failed) ==
  [readable |-> TRUE, version |-> inputs.installed[Current].version,
   package |-> inputs.installed[Current].package, identity |-> inputs.fixtures,
   started |-> begun, completed |-> clock,
   operations |-> [op \in Operations |->
     IF op \in Governed THEN [result |-> result[op], facet_results |-> FacetsOf(result[op], failed)]
     ELSE [result |-> result[op]]]]

-----------------------------------------------------------------------------
(* The steps before the lanes.                                             *)

Fail == conclusion' = IF conclusion = "success" THEN "failure" ELSE conclusion

\* Clients, candidate, defaults and fixtures: until the defaults are there, every step
\* needs the ones before it to succeed.
Prepare ==
  /\ step = "prepare"
  /\ started' = clock /\ reports' = [l \in Lanes |-> HonestDefault]
  /\ step' = "server"
  /\ UNCHANGED <<turn, conclusion, emitted, artifact, inputs, clock, begun, ran, truth, lane>>

\* It stops before the candidate is resolved, before the defaults, or after them.
StopsShort ==
  \/ UNCHANGED <<started, reports>>
  \/ started' = clock /\ UNCHANGED reports
  \/ started' = clock /\ reports' = [l \in Lanes |-> HonestDefault]

PrepareFails ==
  /\ step = "prepare" /\ Fail /\ step' = "fragment"
  /\ StopsShort
  /\ UNCHANGED <<turn, emitted, artifact, inputs, clock, begun, ran, truth, lane>>

StartAndSeed ==
  /\ step = "server" /\ step' = "reset"
  /\ UNCHANGED <<turn, conclusion, reports, emitted, artifact, inputs, started, clock, begun, ran, truth, lane>>

StartOrSeedFails ==
  /\ step = "server" /\ Fail /\ step' = "fragment"
  /\ UNCHANGED <<turn, reports, emitted, artifact, inputs, started, clock, begun, ran, truth, lane>>

-----------------------------------------------------------------------------
(* The lanes: !cancelled() && steps.seed.outcome == 'success'.             *)

\* Seeded fault: one lane too many.
NextLaneUnbounded == turn' = turn + 1 /\ step' = "reset"

NextLane ==
  IF turn < Len(LaneOrder) THEN turn' = turn + 1 /\ step' = "reset"
  ELSE step' = "fragment" /\ UNCHANGED turn

Reset ==
  /\ step = "reset" /\ step' = "execute"
  /\ earned' = {} /\ result' = [op \in Operations |-> "none"] /\ verdict' = "none"
  /\ clock' = clock + 1 /\ begun' = clock'
  /\ UNCHANGED <<turn, conclusion, reports, emitted, artifact, inputs, started, ran, truth>>

\* Seeded fault: the lanes need success(), not !cancelled(): the first failure stops them.
ResetFailsStops ==
  /\ step = "reset" /\ Fail /\ step' = "fragment"
  /\ ran' = [ran EXCEPT ![Current] = "not reset"]
  /\ UNCHANGED <<turn, reports, emitted, artifact, inputs, started, clock, begun, truth, lane>>

ResetFails ==
  /\ step = "reset" /\ Fail /\ NextLane
  /\ ran' = [ran EXCEPT ![Current] = "not reset"]
  /\ UNCHANGED <<reports, emitted, artifact, inputs, started, clock, begun, truth, lane>>

Execute ==
  /\ step = "execute"
  /\ \E op \in Operations : Lane!Observe(op) \/ Lane!Settle(op)
  /\ UNCHANGED job

AllSettled == \A op \in Operations : result[op] # "none"

\* The runner writes its report when every scenario has its result, and exits afterwards.
Report ==
  /\ step = "execute" /\ step' = "exit" /\ AllSettled
  /\ \E failed \in Facets : reports' = [reports EXCEPT ![Current] = ReportOf(failed)]
  /\ clock' = clock + 1
  /\ ran' = [ran EXCEPT ![Current] = "reported"]
  /\ truth' = [truth EXCEPT ![Current] = earned]
  /\ UNCHANGED <<turn, conclusion, emitted, artifact, inputs, started, begun, lane>>

LaneExits ==
  /\ step = "exit" /\ Lane!Close
  /\ IF verdict' = "failure" THEN Fail ELSE UNCHANGED conclusion
  /\ NextLane
  /\ ran' = [ran EXCEPT ![Current] = "exited"]
  /\ UNCHANGED <<reports, emitted, artifact, inputs, started, clock, begun, truth>>

\* A runner that ends early leaves the default, part of a report, or all of it.
Leaves ==
  \/ UNCHANGED reports
  \/ step = "execute" /\ AllSettled /\ reports' = [reports EXCEPT ![Current] = Truncated]

\* Seeded fault: the status of a lane that dies is lost.
LaneDiesUnnoticed ==
  /\ step \in {"execute", "exit"} /\ Lane!Die
  /\ Leaves /\ NextLane
  /\ ran' = IF step = "exit" THEN ran ELSE [ran EXCEPT ![Current] = "died"]
  /\ UNCHANGED <<conclusion, emitted, artifact, inputs, started, clock, begun, truth>>

LaneDies ==
  /\ step \in {"execute", "exit"} /\ Lane!Die
  /\ Leaves /\ Fail /\ NextLane
  /\ ran' = IF step = "exit" THEN ran ELSE [ran EXCEPT ![Current] = "died"]
  /\ UNCHANGED <<emitted, artifact, inputs, started, clock, begun, truth>>

-----------------------------------------------------------------------------
(* The steps under always().                                               *)

Arguments ==
  [tier |-> inputs.request.tier, identity |-> IF started = NoTime THEN None ELSE "this run",
   dispatch |-> inputs.request.dispatch, started |-> started, completed |-> clock,
   cut |-> inputs.request.cut, clock |-> clock]

EmitFragment ==
  /\ step = "fragment" /\ step' = "upload"
  /\ LET built == Build(reports, Arguments)
     IN  /\ emitted' = built.file
         /\ IF built.status = "failure" THEN Fail ELSE UNCHANGED conclusion
  /\ UNCHANGED <<turn, reports, artifact, inputs, started, clock, begun, ran, truth, lane>>

\* Seeded fault: continue-on-error, the failure of the upload is lost.
UploadUnnoticed ==
  /\ step = "upload" /\ step' = "done" /\ UNCHANGED conclusion
  /\ artifact' = Evidence \/ UNCHANGED artifact
  /\ UNCHANGED <<turn, reports, emitted, inputs, started, clock, begun, ran, truth, lane>>

Upload ==
  /\ step = "upload" /\ step' = "done"
  /\ \/ artifact' = Evidence /\ UNCHANGED conclusion
     \/ Fail /\ UNCHANGED artifact
  /\ UNCHANGED <<turn, reports, emitted, inputs, started, clock, begun, ran, truth, lane>>

\* Seeded fault: no timeout-minutes and no cancellation reaches an executing lane.
CancelUnlessExecuting ==
  /\ step \notin {"execute", "done"} /\ conclusion # "cancelled"
  /\ conclusion' = "cancelled"
  /\ step' = IF step = "upload" THEN "upload" ELSE "fragment"
  /\ \/ step = "prepare" /\ StopsShort
     \/ step # "prepare" /\ UNCHANGED <<started, reports>>
  /\ UNCHANGED <<turn, emitted, artifact, inputs, clock, begun, ran, truth, lane>>

\* Cancelled by hand or at timeout-minutes: the running step is killed, a runner possibly
\* in the middle of writing its report or just after it.
Cancel ==
  /\ step # "done" /\ conclusion # "cancelled"
  /\ conclusion' = "cancelled"
  /\ step' = IF step = "upload" THEN "upload" ELSE "fragment"
  /\ \/ step = "prepare" /\ StopsShort
     \/ step # "prepare" /\ Leaves /\ UNCHANGED started
  /\ UNCHANGED <<turn, emitted, artifact, inputs, clock, begun, ran, truth, lane>>

-----------------------------------------------------------------------------
Init ==
  /\ step = "prepare" /\ turn = 1 /\ conclusion = "success"
  /\ reports = [l \in Lanes |-> Missing] /\ emitted = NoFragment /\ artifact = NoArtifact
  /\ inputs \in [request : Requests, installed : [Lanes -> Installs],
                 fixtures : {"this run", "other"}]
  /\ started = NoTime /\ clock = 2 /\ begun = 0
  /\ Lane!Init
  /\ ran = [l \in Lanes |-> "no"] /\ truth = [l \in Lanes |-> {}]

JobStep ==
  \/ Prepare \/ PrepareFails \/ StartAndSeed \/ StartOrSeedFails
  \/ Reset \/ ResetFails \/ Execute \/ Report \/ LaneExits \/ LaneDies
  \/ EmitFragment \/ Upload
Finished == step = "done" /\ UNCHANGED vars
Next == JobStep \/ Cancel \/ Finished

Spec == Init /\ [][Next]_vars
\* Outside a lane every step takes bounded time; a lane that does not end is cut off by
\* timeout-minutes.
FairSpec == Spec /\ WF_vars(Prepare \/ PrepareFails \/ StartAndSeed \/ StartOrSeedFails
                            \/ Reset \/ ResetFails \/ LaneExits \/ EmitFragment \/ Upload)
                 /\ WF_vars(step = "execute" /\ Cancel)

-----------------------------------------------------------------------------
(* Properties.                                                             *)

Result(l, op) == emitted.content.observations[<<l, op>>]
\* The complete report of the lane is on disk; its runner may have died after that.
HasReported(l) == ran[l] \in {"reported", "exited"}
Drifted(l) == inputs.installed[l] # [version |-> "governed", package |-> TRUE]

ReportType ==
  [readable : BOOLEAN, version : {None, "governed", "other"}, package : BOOLEAN,
   identity : {None, "this run", "other"}, started : Nat, completed : Nat,
   operations : {NoOperations} \cup
     [Operations -> [result : Results] \cup [result : Results, facet_results : [Facets -> Results]]]]

\* The shape of the state.
TypeOK ==
  /\ step \in {"prepare", "server", "reset", "execute", "exit", "fragment", "upload", "done"}
  /\ turn \in DOMAIN LaneOrder
  /\ conclusion \in {"success", "failure", "cancelled"}
  /\ reports \in [Lanes -> ReportType]
  /\ emitted.built \in BOOLEAN /\ artifact.uploaded \in BOOLEAN
  /\ started \in Nat /\ clock \in Nat /\ begun \in Nat
  /\ earned \subseteq Operations
  /\ result \in [Operations -> {"none", "pass", "fail"}]
  /\ verdict \in {"none", "success", "failure"}
  /\ ran \in [Lanes -> {"no", "not reset", "died", "reported", "exited"}]
  /\ truth \in [Lanes -> SUBSET Operations]

\* A green job certifies: every lane reported and exited, the server had earned every governed cell
\* of every lane, the fragment says so, and the artifact holds it with the reports.
GreenIsEarned ==
  step = "done" /\ conclusion = "success" =>
    /\ \A l \in Lanes : ran[l] = "exited" /\ Governed \subseteq truth[l]
    /\ emitted.built /\ emitted.content.rollup = "pass"
    /\ artifact = Evidence

\* Whatever becomes of the job, the fragment claims nothing that did not happen: a receipt
\* stands for a lane that reported in this run from the catalog's package, a pass for a
\* cell the server had earned then.
EvidenceIsEarned ==
  emitted.built =>
    \A l \in Lanes, op \in Governed :
      /\ HasReceipt(Result(l, op)) => HasReported(l) /\ ~Drifted(l)
      /\ Result(l, op).result = "pass" => op \in truth[l]

\* A failing lane does not stop the ones after it.
LanesAreIndependent ==
  step \in {"fragment", "upload", "done"} /\ conclusion # "cancelled" =>
    \/ \A l \in Lanes : ran[l] = "no"
    \/ \A l \in Lanes : ran[l] # "no"

\* The evidence is missing only for a reason the builder refuses by design: the job did not
\* get to the defaults, the nightly dispatch id is not canonical, the cut is malformed or
\* later than the run, a report was cut short, or the workflow's clients or fixtures are not
\* the catalog's.
RefusalHasACause ==
  step \in {"upload", "done"} /\ ~emitted.built =>
    \/ started = NoTime \/ inputs.request.dispatch = "refused"
    \/ inputs.request.cut = NoTime \/ started < inputs.request.cut
    \/ \E l \in Lanes : ~reports[l].readable
    \/ \E l \in Lanes : HasReported(l) /\ (Drifted(l) \/ inputs.fixtures # "this run")

\* The job ends, however long a lane takes: with every report and the fragment, as they are
\* on disk, uploaded; or, when the upload failed, not green.
Ends ==
  <>(step = "done" /\ (artifact = Evidence \/ (artifact = NoArtifact /\ conclusion # "success")))

\* certification/README.md: "The fragment builder emits a receipt only when every facet
\* passes against the governed client version."
ReceiptMeansEveryFacetPasses ==
  emitted.built =>
    \A l \in Lanes, op \in Governed :
      HasReceipt(Result(l, op)) => AllPass(Result(l, op).receipt)

\* Comment of build_fragment: "Only an execution of the governed client_version can be
\* bound to this run.  Any other package version stays in the fragment as a skip."
OtherVersionStaysAsSkip ==
  /\ step \in {"upload", "done"} /\ conclusion # "cancelled" /\ inputs.request.dispatch # "refused"
  /\ NoTime \notin {started, inputs.request.cut} /\ inputs.request.cut <= started
  /\ \A l \in Lanes : reports[l].readable
  => \A l \in Lanes :
      /\ HasReported(l) /\ inputs.installed[l].version = "other"
      /\ \A m \in Lanes \ {l} : ~Drifted(m)
      /\ inputs.fixtures = "this run"
      => emitted.built /\ \A op \in Governed : Result(l, op) = Skipped
=============================================================================
