--------------------------- MODULE ScenarioTable ---------------------------
(***************************************************************************)
(* The scenario list the certification runners execute, as data:           *)
(* certification/scenarios.v1.json, with the statuses of the negative      *)
(* cases (conformance/fixtures/*_invalid_status.json and                   *)
(* feature_apply_edits_missing_target_status.json) and the captures that   *)
(* the request fixtures substitute.                                        *)
(***************************************************************************)
EXTENDS Naturals, Sequences

Plain(op) ==
  [op |-> op, stream |-> FALSE, negative |-> "none", verify |-> FALSE, setup |-> "none",
   needs |-> "none", key |-> "none", poll |-> FALSE, attempts |-> 1]
Rejecting(op, status) == [Plain(op) EXCEPT !.negative = status]
Streaming(op, status) == [Rejecting(op, status) EXCEPT !.stream = TRUE]

ApplyEdits == [Rejecting("ApplyEdits", "NOT_FOUND") EXCEPT !.verify = TRUE]
SubmitJob == [Rejecting("SubmitJob", "INVALID_ARGUMENT") EXCEPT !.key = "submitted_job"]
GetJob == [Rejecting("GetJob", "NOT_FOUND") EXCEPT !.needs = "submitted_job", !.poll = TRUE]
GetJobResult == [Rejecting("GetJobResult", "NOT_FOUND") EXCEPT !.needs = "submitted_job"]
CancelJob == [Rejecting("CancelJob", "NOT_FOUND") EXCEPT
                !.setup = "job_to_cancel", !.needs = "job_to_cancel", !.attempts = 3]
ApplySpec == [Streaming("ApplySpec", "INVALID_ARGUMENT") EXCEPT !.key = "applied_spec"]
CancelApply == [Rejecting("CancelApply", "INVALID_ARGUMENT") EXCEPT !.needs = "applied_spec"]

\* The list, in execution order.
AllScenarios == <<
  Rejecting("QueryFeatures", "NOT_FOUND"),
  Streaming("QueryFeaturesStream", "NOT_FOUND"),
  ApplyEdits,
  Plain("GetFormDefinition"),
  Plain("SubmitFormData"),
  Rejecting("ValidatePlan", "INVALID_ARGUMENT"),
  Rejecting("DryRunPlan", "INVALID_ARGUMENT"),
  Plain("ExecutePlan"),
  SubmitJob, GetJob, GetJobResult, CancelJob,
  Plain("CreateWorkspace"),
  Rejecting("PlanSpec", "INVALID_ARGUMENT"),
  ApplySpec, CancelApply,
  Rejecting("GetElevation", "INVALID_ARGUMENT"),
  Rejecting("GetElevationProfile", "INVALID_ARGUMENT") >>

\* load_excluded_operations: reported, but outside the governed cells.
ExcludedOperations == {"GetFormDefinition", "SubmitFormData", "ExecutePlan", "CreateWorkspace"}
=============================================================================
