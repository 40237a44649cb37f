------------------------ MODULE MCClientPublication ------------------------
(* Instances of ClientPublication for TLC. *)
EXTENDS ClientPublication

MCClients == {"python", "typescript", "dotnet"}
MCPython == {"python"}
MCStable == [canonical |-> TRUE, zero |-> FALSE, prerelease |-> FALSE, metadata |-> FALSE]
MCForms == {MCStable} \cup {[MCStable EXCEPT ![way] = TRUE] : way \in {"zero", "prerelease", "metadata"}}
MCOneForm == {MCStable}
MCContents == {"a", "b"}
=============================================================================
