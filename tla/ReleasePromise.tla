--------------------------- MODULE ReleasePromise ---------------------------
(***************************************************************************)
(* What a stable release promises to those who consume it, per tag: a      *)
(* public coordinate is filled once, with what the tag says, and never     *)
(* changes; the GitHub release appears after both coordinates hold what    *)
(* the tag says, unless one was made by hand before, and stays.            *)
(***************************************************************************)
CONSTANT Tags

VARIABLES
  bsr, nuget,  \* standing of each coordinate: "empty", "tagged" (what the tag says) or "other"
  released     \* whether there is a GitHub release of the tag

vars == <<bsr, nuget, released>>
Standings == {"empty", "tagged", "other"}

Init ==
  /\ bsr \in [Tags -> Standings]
  /\ nuget \in [Tags -> Standings]
  /\ released \in [Tags -> BOOLEAN]

PublishBsr(t) ==
  /\ bsr[t] = "empty"
  /\ bsr' = [bsr EXCEPT ![t] = "tagged"]
  /\ UNCHANGED <<nuget, released>>

PublishNuget(t) ==
  /\ nuget[t] = "empty"
  /\ nuget' = [nuget EXCEPT ![t] = "tagged"]
  /\ UNCHANGED <<bsr, released>>

Release(t) ==
  /\ ~released[t]
  /\ bsr[t] = "tagged" /\ nuget[t] = "tagged"
  /\ released' = [released EXCEPT ![t] = TRUE]
  /\ UNCHANGED <<bsr, nuget>>

Next == \E t \in Tags : PublishBsr(t) \/ PublishNuget(t) \/ Release(t)
Spec == Init /\ [][Next]_vars
=============================================================================
