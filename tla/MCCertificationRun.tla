------------------------- MODULE MCCertificationRun -------------------------
(* Instances of CertificationRun for TLC. *)
EXTENDS CertificationRun

MCLanes == {"grpc-dotnet", "grpc-python"}
MCLaneOrder == <<"grpc-dotnet", "grpc-python">>
MCGoverned == {"ApplyEdits"}
MCExcluded == {"ExecutePlan"}
\* The catalog's package; the same version from other bytes; another version.
Genuine == [version |-> "governed", package |-> TRUE]
Rebuilt == [version |-> "governed", package |-> FALSE]
Newer == [version |-> "other", package |-> FALSE]
MCInstalls == {Genuine, Rebuilt, Newer}
Request(tier, cut, dispatch) == [tier |-> tier, cut |-> cut, dispatch |-> dispatch]
\* The candidate is cut in the second the job starts, or before.
MCRequests == {Request("pr", 2, "none"), Request("release", 1, "canonical")}
\* The same, and every way a request can be wrong: a malformed cut, one in the future, a
\* nightly id that is not canonical.
MCAllRequests ==
  MCRequests \cup {Request("nightly", 2, "canonical"), Request("release", 0, "none"),
                   Request("pr", 50, "none"), Request("release", 2, "refused")}
=============================================================================
