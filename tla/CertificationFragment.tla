----------------------- MODULE CertificationFragment -----------------------
(***************************************************************************)
(* scripts/build_protocol_certification_fragment.py: from the three lane   *)
(* reports to the certification fragment, or to a refusal (a ValueError or *)
(* an unreadable file: no fragment is written).                            *)
(*                                                                         *)
(* A report is a record                                                    *)
(*   readable   FALSE for a missing or truncated file                      *)
(*   version    package_version: "governed", "other" or "none"             *)
(*   package    is the package identity (name, source, digest) the         *)
(*              catalog's                                                  *)
(*   identity   execution_identity: target, image, source, fixtures        *)
(*   started, completed, operations                                        *)
(* and an outcome of an operation is what the runner recorded: a result,   *)
(* with the three facets when the scenario has a negative case.  The       *)
(* arguments are tier, identity (what validate_identity makes of target,   *)
(* image and sources; None when they are malformed), dispatch (the nightly *)
(* dispatch id in its environment), started, completed, cut, and the       *)
(* clock.  A time is a number; NoTime is a string that timestamp refuses.  *)
(***************************************************************************)
EXTENDS Integers

CONSTANTS
  Lanes,      \* the client lanes of the catalog
  Governed,   \* catalog["operations"]: the governed cells of every lane
  Excluded,   \* catalog["excluded_operations"]
  Published,  \* lanes whose publication_state is "published"
  Packaged,   \* lanes whose catalog entry names a package
  MaxAge,     \* 24 hours
  Skew        \* 5 minutes

ASSUME CatalogAssumption ==
  /\ Governed \cap Excluded = {}
  /\ Published \subseteq Lanes /\ Packaged \subseteq Lanes
  /\ MaxAge \in Nat /\ Skew \in Nat

None == "none"
NoTime == 0
Facets == {"negative", "positive", "media-schema"}
Results == {"pass", "fail", "skip"}
NoOperations == [op \in {} |-> None]

Strict(args) == args.tier \in {"nightly", "release"}
Executed(report) == DOMAIN report.operations # {}
GovernedVersion(report) == report.version = "governed"
HasFacets(outcome) == "facet_results" \in DOMAIN outcome
AllPass(facets) == \A f \in DOMAIN facets : facets[f] = "pass"

-----------------------------------------------------------------------------
(* What is refused.                                                        *)

\* No nightly dispatch id, or one in the form and from the event its producer uses.
NightlyProducerRun(args) == args.dispatch \in {None, "canonical"}

TimesValid(started, completed, args) ==
  /\ NoTime \notin {started, completed, args.cut}
  /\ started >= args.cut
  /\ completed >= started
  /\ completed <= args.clock + Skew
  /\ Strict(args) => args.clock - completed <= MaxAge

\* The report falls inside this run and names its target, image, source and fixtures.
BoundToRun(report, args) ==
  /\ report.identity = args.identity
  /\ args.started <= report.started /\ report.started <= report.completed
  /\ report.completed <= args.completed

\* Seeded fault: a default, which executed nothing, is held to the identity of the run.
ReportAdmittedBound(report, args) ==
  /\ report.readable
  /\ DOMAIN report.operations \subseteq Governed \cup Excluded
  /\ Strict(args) => BoundToRun(report, args)

\* Only an execution of the governed version is bound to the run, in the strict tiers.
ReportAdmitted(report, args) ==
  /\ report.readable
  /\ DOMAIN report.operations \subseteq Governed \cup Excluded
  /\ Executed(report) => report.version # None
  /\ Executed(report) /\ GovernedVersion(report) /\ Strict(args) =>
       /\ report.identity = args.identity
       /\ TimesValid(report.started, report.completed, args)
       /\ report.started >= args.started /\ report.completed <= args.completed

\* Seeded fault: the version is compared, the package digest is not.
PackageVersionOnly(lane, report) ==
  Executed(report) /\ lane \in Packaged => GovernedVersion(report)

PackageAdmitted(lane, report) ==
  Executed(report) /\ lane \in Packaged => report.package /\ GovernedVersion(report)

\* The facets must cover the scenario's and agree with the result; an unpublished client
\* cannot pass.
FacetsAdmitted(lane, outcome) ==
  LET facets == outcome.facet_results
  IN  /\ DOMAIN facets = Facets /\ \A f \in Facets : facets[f] \in {"pass", "fail"}
      /\ outcome.result = (IF AllPass(facets) THEN "pass" ELSE "fail")
      /\ AllPass(facets) => lane \in Published

OutcomesAdmitted(lane, report) ==
  \A op \in DOMAIN report.operations :
    LET outcome == report.operations[op]
    IN  /\ outcome.result \in Results
        /\ op \in Governed /\ GovernedVersion(report) /\ outcome.result # "skip" /\ HasFacets(outcome)
             => FacetsAdmitted(lane, outcome)

Admitted(reports, args) ==
  /\ args.identity # None /\ NightlyProducerRun(args)
  /\ TimesValid(args.started, args.completed, args)
  /\ \A lane \in Lanes :
       /\ ReportAdmitted(reports[lane], args)
       /\ PackageAdmitted(lane, reports[lane])
       /\ OutcomesAdmitted(lane, reports[lane])

-----------------------------------------------------------------------------
(* What is built.                                                          *)

NoReceipt == [f \in {} |-> None]
Skipped == [result |-> "skip", receipt |-> NoReceipt]
HasReceipt(cell) == DOMAIN cell.receipt # {}

\* The observation of a governed cell; its receipt is the evidence, with the facets as
\* reported; a skip has none.
Cell(report, op) ==
  IF /\ op \in DOMAIN report.operations /\ GovernedVersion(report)
     /\ report.operations[op].result # "skip" /\ HasFacets(report.operations[op])
  THEN LET facets == report.operations[op].facet_results
       IN  [result |-> IF AllPass(facets) THEN "pass" ELSE "fail", receipt |-> facets]
  ELSE Skipped

ExecutionFailures(reports) ==
  {cell \in Lanes \X Governed :
     /\ cell[2] \in DOMAIN reports[cell[1]].operations
     /\ reports[cell[1]].operations[cell[2]].result = "fail"}

LaneState(lane, cells) ==
  IF lane \notin Published THEN "unpublished"
  ELSE IF \A op \in Governed : HasReceipt(cells[<<lane, op>>]) THEN "executed"
  ELSE "incomplete"

Rollup(cells) ==
  IF /\ \A lane \in Lanes : LaneState(lane, cells) = "executed"
     /\ \A cell \in Lanes \X Governed : cells[cell].result = "pass"
  THEN "pass" ELSE "red"

ExcludedResult(report, op, args) ==
  IF op \in DOMAIN report.operations
  THEN [result |-> report.operations[op].result, identity_verified |-> BoundToRun(report, args)]
  ELSE [result |-> "not-executed"]

Fragment(reports, args) ==
  LET cells == [cell \in Lanes \X Governed |-> Cell(reports[cell[1]], cell[2])]
  IN  [observations |-> cells,
       execution_failures |-> ExecutionFailures(reports),
       rollup |-> Rollup(cells),
       excluded |-> [cell \in Lanes \X Excluded |-> ExcludedResult(reports[cell[1]], cell[2], args)]]

\* certification_errors: whether the builder exits with an error.
Erroneous(fragment, args) ==
  \/ fragment.execution_failures # {}
  \/ Strict(args) /\ fragment.rollup # "pass"

NoFragment == [built |-> FALSE]

\* main: the file it writes, if any, and its exit status.
Build(reports, args) ==
  IF Admitted(reports, args)
  THEN LET fragment == Fragment(reports, args)
       IN  [file |-> [built |-> TRUE, content |-> fragment],
            status |-> IF Erroneous(fragment, args) THEN "failure" ELSE "success"]
  ELSE [file |-> NoFragment, status |-> "failure"]
=============================================================================
