------------------------- MODULE MCReleaseProtocol -------------------------
(* Instances of ReleaseProtocol for TLC. *)
EXTENDS ReleaseProtocol, TLC

Stable(major) == [canonical |-> TRUE, prerelease |-> FALSE, build |-> FALSE, major |-> major]
\* v1.0.0, v1.0.1.
MCVersions == {"1.0.0", "1.0.1"}
MCForm == "1.0.0" :> Stable(1) @@ "1.0.1" :> Stable(1)

Files(text) == License :> <<"license">> @@ Readme :> <<"readme">> @@ <<"v1", "feature", ".proto">> :> <<text>>
Tree(v, text) ==
  [version |-> [m \in Manifests |-> v], named |-> {"python", "typescript"}, majors |-> {1},
   changelog |-> {v}, files |-> Files(text)]

First100 == Tree("1.0.0", "schema")
Second101 == Tree("1.0.1", "schema")
\* A right tree, trees with another version or another schema under the same version, and
\* one for each part of the contract a stable tag can fail, protos of another major and of
\* two majors included; what form a tag has, --require-stable, is for the proofs.
MCSources == {
  First100, Second101,
  [First100 EXCEPT !.files = Files("other schema")],
  [First100 EXCEPT !.majors = {2}],
  [First100 EXCEPT !.majors = {1, 2}],
  [First100 EXCEPT !.version["fixtures"] = "1.0.1"],
  [First100 EXCEPT !.version["project"] = None],
  [First100 EXCEPT !.named = {"python"}],
  [First100 EXCEPT !.changelog = {}],
  [First100 EXCEPT !.files = Restrict(@, {Readme, <<"v1", "feature", ".proto">>})]}
MCTags == {"1.0.0"}
MCLost == {{}, {License}, {Runtime}, {Symbols}, {Manifest}}
MCAssets == {"packages", "receipt"}
\* Two packs that differ in the core properties only, and one of other code.
MCBuilds == {[code |-> "c1", stamp |-> "s1"], [code |-> "c1", stamp |-> "s2"], [code |-> "c2", stamp |-> "s1"]}
=============================================================================
