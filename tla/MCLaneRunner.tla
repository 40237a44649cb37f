--------------------------- MODULE MCLaneRunner ---------------------------
(* Instances of LaneRunner for TLC. *)
EXTENDS LaneRunner, ScenarioTable

\* The hypotheses of the theorems about captures, jobs and the layer hold of the whole list.
ASSUME CommittedList ==
  OneProvider(AllScenarios) /\ JobsAreNamed(AllScenarios) /\ EditsComeLast(AllScenarios) /\ CanPass(AllScenarios)

\* One scenario of every shape the list has, those with hidden state first.
MCShapes == <<ApplyEdits, SubmitJob, GetJob, GetJobResult, CancelJob, ApplySpec, Plain("ExecutePlan")>>
MCJobs == <<SubmitJob, GetJob, CancelJob>>
=============================================================================
