----------------------- MODULE MCFixtureDistribution -----------------------
(***************************************************************************)
(* Two versions.  The release of the first may be any of the downloads     *)
(* that verification has to refuse, and one it lets through although       *)
(* package.sh did not build it: the bundle without VERSION.                *)
(***************************************************************************)
EXTENDS FixtureDistribution, TLC

CONSTANTS v1, v2

Both(b) == [a \in Assets |-> b]

\* In turn: as packaged; without VERSION; of another version; without SHA256SUMS; not agreeing with it;
\* under another root directory; beside the digest of another bundle.
MCOffered ==
  LET good == Package(v1) IN
  (v1 :> {Both(good), Both([good EXCEPT !.version = None]), Both([good EXCEPT !.version = v2]),
          Both([good EXCEPT !.listed = FALSE]), Both([good EXCEPT !.sound = FALSE]),
          Both(Package(v2)), [Both(good) EXCEPT !["sidecar"] = Package(v2)]})
  @@ (v2 :> {Both(Package(v2))})
=============================================================================
