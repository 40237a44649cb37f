-------------------------- MODULE ReleaseArtifacts --------------------------
(***************************************************************************)
(* What the stable release moves around and how the scripts under scripts/ *)
(* check it: the tagged source tree and its version contract               *)
(* (release_contract.py), NuGet packages (verify_nuget_package.py), BSR    *)
(* archives (verify_bsr_archive.py) and the release receipt                *)
(* (create_release_receipt.py).                                            *)
(*                                                                         *)
(* An archive is the function from path to content it unpacks to, or       *)
(* Unreadable when the scripts refuse to unpack it: a damaged file, an     *)
(* unsafe path, a path met twice.  A path is <<directory, stem,            *)
(* extension>>; the fixed prefixes proto/geospatial/ of a package and      *)
(* geospatial/ of the tree are left out.  A content is a tuple of strings; *)
(* a digest over sorted, length-prefixed entries is injective, so it is    *)
(* the function itself.                                                    *)
(***************************************************************************)
EXTENDS Naturals, FiniteSets, Functions

CONSTANTS
  Versions,    \* versions a manifest may name; a tag vX is the version X it spells
  Form,        \* Form[v]: [canonical, prerelease, build : BOOLEAN, major : Nat]
  None,        \* nothing there
  Unreadable   \* an archive that cannot be unpacked

ASSUME ArtifactAssumption ==
  /\ Form \in [Versions -> [canonical : BOOLEAN, prerelease : BOOLEAN, build : BOOLEAN, major : Nat]]
  /\ None \notin Versions

License  == <<"", "LICENSE", "">>
Readme   == <<"", "README", ".md">>
BufDoc   == <<"", "buf", ".md">>
Runtime  == <<"lib", "Geospatial.Grpc", ".dll">>
Symbols  == <<"lib", "Geospatial.Grpc", ".pdb">>
Manifest == <<"", "Geospatial.Grpc", ".nuspec">>
Psmdcp   == <<"package/services/metadata", "core", ".psmdcp">>
Signature == <<"", ".signature", ".p7s">>
Docs == {License, Readme}
ProtoDirs == {"v1", "v2"}
Protos(s, dirs) == {n \in DOMAIN s.files : n[1] \in dirs /\ n[3] = ".proto"}

-----------------------------------------------------------------------------
(* release_contract.py.  A source is a tagged tree:                        *)
(*   version    what each manifest declares, None when it does not         *)
(*   named      the client manifests that carry their package's name       *)
(*   majors     the majors its protos declare, 0 for a proto without one   *)
(*   changelog  the versions CHANGELOG.md has an entry for                 *)
(*   files      path to content                                            *)

Manifests == {"project", "fixtures", "python", "typescript"}

ReadContract(s) ==
  /\ s.version["project"] # None
  /\ s.named = {"python", "typescript"}
  /\ \A m \in Manifests : s.version[m] = s.version["project"]
  /\ LET form == Form[s.version["project"]]
     IN  /\ form.canonical
         /\ \E major \in s.majors \ {0} :
              /\ s.majors = {major}
              /\ (form.major = 0 /\ form.prerelease) \/ form.major = major
  /\ s.version["project"] \in s.changelog

ValidateTag(s, tag) == tag = s.version["project"]
ValidateStable(v) == Form[v].major # 0 /\ ~Form[v].prerelease /\ ~Form[v].build

\* release_contract.py --require-stable --tag <tag>
Contract(s, tag) == ReadContract(s) /\ ValidateTag(s, tag) /\ ValidateStable(tag)

-----------------------------------------------------------------------------
(* verify_nuget_package.py.                                                *)

PackageId == "Geospatial.Grpc"
SigningEntries == {Signature, <<"", "[Content_Types]", ".xml">>, <<"_rels", "", ".rels">>}

SemanticFiles(f) ==
  Restrict(f, {n \in DOMAIN f : n \notin SigningEntries /\ n[1] # "package/services/metadata"})
CanonicalDigest(f) == SemanticFiles(f)

Nuspecs(f) == {n \in DOMAIN f : n[3] = ".nuspec"}
\* Exactly one manifest, and it names this package and version.  A nuspec's content is
\* <<id, version, package type, what the build recorded>>.
PackageIdentity(f, v) ==
  /\ Cardinality(Nuspecs(f)) = 1
  /\ \A n \in Nuspecs(f) : f[n][1] = PackageId /\ f[n][2] = v

Validate(p, v) ==
  /\ p # Unreadable
  /\ PackageIdentity(p, v)
  /\ {License, Readme, Runtime} \subseteq DOMAIN p
  /\ \E n \in DOMAIN p : n[1] = "v1" /\ n[3] = ".proto"

ValidateSymbols(p, v) ==
  /\ p # Unreadable
  /\ PackageIdentity(p, v)
  /\ Symbols \in DOMAIN p /\ p[Symbols][1] = "BSJB"
  /\ \A n \in DOMAIN p : n[3] \notin {".dll", ".exe"}
  /\ \A n \in Nuspecs(p) : p[n][3] = "SymbolsPackage"

\* The part of a package that must be the tagged source, and what it must be.
SourcePayload(p) == Restrict(p, {n \in DOMAIN p : n \in Docs \/ n[1] = "v1"})
ExpectedPayload(s) == Restrict(s.files, (Docs \cap DOMAIN s.files) \cup Protos(s, {"v1"}))
VerifySourcePayload(p, s) ==
  /\ p # Unreadable
  /\ Docs \subseteq DOMAIN s.files
  /\ SourcePayload(p) = ExpectedPayload(s)

ComparePackages(expected, actual) ==
  /\ expected # Unreadable /\ actual # Unreadable
  /\ SemanticFiles(expected) = SemanticFiles(actual)

-----------------------------------------------------------------------------
(* verify_bsr_archive.py.                                                  *)

LocalModuleFiles(s) ==
  Restrict(s.files, ((Docs \cup {BufDoc}) \cap DOMAIN s.files) \cup Protos(s, ProtoDirs))

VerifyBsr(s, archive) ==
  /\ archive # Unreadable
  /\ Docs \subseteq DOMAIN s.files
  /\ archive = LocalModuleFiles(s)

-----------------------------------------------------------------------------
(* create_release_receipt.py.                                              *)

Receipt(s, v, bsr, local, public, symbols) ==
  [version |-> v, bsr |-> bsr, local |-> CanonicalDigest(local), public |-> CanonicalDigest(public),
   symbols |-> symbols, source |-> SourcePayload(local)]

\* Everything is verified once more before the receipt is written; consumption is what
\* the clean client reports: [version, commit].
ReceiptHolds(s, v, commit, bsr, local, public, symbols, consumption) ==
  /\ ReadContract(s) /\ s.version["project"] = v
  /\ VerifyBsr(s, bsr)
  /\ Validate(local, v) /\ Validate(public, v)
  /\ ComparePackages(local, public)
  /\ VerifySourcePayload(local, s) /\ VerifySourcePayload(public, s)
  /\ ValidateSymbols(symbols, v)
  /\ consumption = [version |-> v, commit |-> commit]

-----------------------------------------------------------------------------
(* Outside src/: dotnet pack (as Geospatial.Grpc.csproj asks for it), the  *)
(* repository signature of nuget.org, and the content buf push uploads.    *)

\* Independent builds of one tree differ: build.code in what was compiled and recorded (the
\* SDK floats, a pack by hand names no commit), build.stamp in the core properties, which
\* are new in every pack.  A broken project file leaves entries out.
PackRuntime(s, build, lost) ==
  LET sources == (Docs \cap DOMAIN s.files) \cup Protos(s, {"v1"})
      names   == (sources \cup {Manifest, Runtime, Psmdcp} \cup (SigningEntries \ {Signature})) \ lost
  IN  [n \in names |-> CASE n \in sources -> s.files[n]
                         [] n = Manifest  -> <<PackageId, s.version["project"], "Dependency", build.code>>
                         [] n = Runtime   -> <<build.code>>
                         [] n = Psmdcp    -> <<build.stamp>>
                         [] OTHER         -> <<"packed">>]

PackSymbols(s, build, lost) ==
  [n \in {Manifest, Symbols} \ lost |->
     IF n = Manifest THEN <<PackageId, s.version["project"], "SymbolsPackage", build.code>>
     ELSE <<"BSJB", build.code>>]

Sign(p) == [n \in DOMAIN p \cup SigningEntries |-> IF n \in SigningEntries THEN <<"signed">> ELSE p[n]]

BsrModule(s) ==
  Restrict(s.files, ((Docs \cup {BufDoc}) \cap DOMAIN s.files) \cup Protos(s, ProtoDirs))
=============================================================================
