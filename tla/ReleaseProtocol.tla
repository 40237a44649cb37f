-------------------------- MODULE ReleaseProtocol --------------------------
(***************************************************************************)
(* .github/workflows/publish-dotnet-protocol.yml: one run per pushed tag,  *)
(* four jobs one after the other (build once, publish to BSR and           *)
(* nuget.org, prove public consumption, create the GitHub release), over   *)
(* registries that index what they accept some time later.  A job may die  *)
(* before any of its steps; the operator re-runs the failed jobs, which    *)
(* find the artifacts of the jobs before them.  scripts/                   *)
(* check_public_registry.py is the download and probe steps.               *)
(***************************************************************************)
EXTENDS ReleaseArtifacts

CONSTANTS
  Tags,       \* the tags pushed, each the version it spells
  Sources,    \* bound: the trees a tag may point to
  Builds,     \* bound: what may differ between two packs of one tree, [code, stamp]
  Lost,       \* bound: sets of entries a broken project file leaves out
  Attempts,   \* download attempts of the proving job (the publishing job has one)
  Assets,     \* the files attached to a GitHub release
  MaxFaults   \* bound: failures of the environment

\* What packing a tree once gives.
Packs(s) ==
  {[nupkg |-> PackRuntime(s, b, lost), snupkg |-> PackSymbols(s, b, lost)] : b \in Builds, lost \in Lost}

\* A GitHub release of a tag: its files, whether it is published, and the commit it targets.
Targets == {"tagged", "other"}
GitHubRelease == [assets : SUBSET Assets, draft : BOOLEAN, target : Targets]

\* Absence and damage are told apart from everything the protocol keeps.
ASSUME ReleaseAssumption ==
  /\ Tags \subseteq Versions
  /\ Attempts \in Nat \ {0} /\ MaxFaults \in Nat
  /\ None # Unreadable /\ None \notin GitHubRelease
  /\ \A s \in Sources :
       /\ BsrModule(s) \notin {None, Unreadable}
       /\ \A p \in Packs(s) : p # None /\ p.snupkg # None /\ Sign(p.nupkg) \notin {None, Unreadable}

Registries == {"bsr", "nuget"}
Jobs == {"build", "publish", "prove", "release"}
Steps == {"build", "begin", "bsr", "nuget", "probe", "push bsr", "push nuget", "push symbols", "resolve",
          "consume", "view", "create", "attach", "check", "failed", "done"}

VARIABLES
  tree,         \* the tree each tag points to; tags are never moved
  job, pc,      \* where the run of each tag is
  inputs,       \* artifact of the build job: the packages
  coordinates,  \* artifact of the publishing job: the BSR commit, which is its content
  verified,     \* artifact of the proving job: the receipt
  got, tries,   \* downloads of the job, and the current attempt
  label, nuget, symbols,  \* per tag: BSR label, nuget.org package, symbol package
  main, latest,           \* tag last pushed to BSR label main; tag last released as the latest
  indexed,      \* what the registries serve of what they hold
  release,      \* GitHub releases
  faults

run        == <<job, pc>>
artifacts  == <<inputs, coordinates, verified>>
downloads  == <<got, tries>>
registries == <<label, nuget, symbols, main, indexed>>
github     == <<release, latest>>
vars == <<tree, run, artifacts, downloads, registries, github, faults>>

NoDownloads == [r \in Registries |-> None]

\* A coordinate may be occupied before the tag is pushed, by hand, from some tree of its version.
Trees(t) == {s \in Sources : s.version["project"] = t}
Occupants(t, r) ==
  {None} \cup IF r = "bsr" THEN {BsrModule(s) : s \in Trees(t)}
               ELSE {Sign(PackRuntime(s, b, {})) : s \in Trees(t), b \in Builds}
Occupied(r) ==
  {f \in [Tags -> UNION {Occupants(t, r) : t \in Tags}] : \A t \in Tags : f[t] \in Occupants(t, r)}

\* A GitHub release may be there too, by hand: of any commit, and without the verified files.
ReleasesByHand == {None} \cup [assets : {{}}, draft : BOOLEAN, target : Targets]

\* What a registry holds, served or not.
Held(t, r) == IF r = "bsr" THEN label[t] ELSE nuget[t]

Init ==
  /\ tree \in [Tags -> Sources]
  /\ job = [t \in Tags |-> "build"] /\ pc = [t \in Tags |-> "build"]
  /\ inputs = [t \in Tags |-> None] /\ coordinates = [t \in Tags |-> None]
  /\ verified = [t \in Tags |-> None]
  /\ got = [t \in Tags |-> NoDownloads] /\ tries = [t \in Tags |-> 1]
  /\ label \in Occupied("bsr") /\ nuget \in Occupied("nuget")
  /\ symbols = [t \in Tags |-> None]
  /\ main = None /\ latest = None
  /\ indexed = {c \in Tags \X Registries : Held(c[1], c[2]) # None}
  /\ release \in [Tags -> ReleasesByHand]
  /\ faults = 0

-----------------------------------------------------------------------------
(* Moving through a run.                                                   *)

Goto(t, step) == pc' = [pc EXCEPT ![t] = step] /\ UNCHANGED job
Enter(t, j, step) == job' = [job EXCEPT ![t] = j] /\ pc' = [pc EXCEPT ![t] = step]
GotoIf(t, passes, step) == Goto(t, IF passes THEN step ELSE "failed")

First(j) == CASE j = "build" -> "build" [] j = "release" -> "view" [] OTHER -> "begin"
Running(t) == pc[t] \notin {"failed", "done"}

\* Re-run failed jobs: the failed job starts again on a fresh runner.
RerunFailed(t) ==
  /\ pc[t] = "failed"
  /\ Goto(t, First(job[t]))
  /\ UNCHANGED <<tree, artifacts, downloads, registries, github, faults>>

\* Re-run all jobs, which the release checklist advises against.
RerunAll(t) ==
  /\ pc[t] \in {"failed", "done"} /\ job[t] # "build"
  /\ Enter(t, "build", "build")
  /\ UNCHANGED <<tree, artifacts, downloads, registries, github, faults>>

\* A runner, a credential or a service fails before the next step.
Breaks(t) ==
  /\ Running(t) /\ faults < MaxFaults
  /\ faults' = faults + 1
  /\ Goto(t, "failed")
  /\ UNCHANGED <<tree, artifacts, downloads, registries, github>>

-----------------------------------------------------------------------------
(* build-and-smoke.                                                        *)

\* Seeded fault: the packages are validated, the version contract is not.
AdmissiblePackages(s, t, p) ==
  /\ Validate(p.nupkg, t) /\ VerifySourcePayload(p.nupkg, s)
  /\ ValidateSymbols(p.snupkg, t)

\* The contract, one pack, the verification of both packages, and the upload, which
\* refuses to overwrite an artifact of the run.
Admissible(s, t, p) ==
  /\ Contract(s, t)
  /\ Validate(p.nupkg, t) /\ VerifySourcePayload(p.nupkg, s)
  /\ ValidateSymbols(p.snupkg, t)

\* Seeded fault: the upload overwrites the artifact of an earlier attempt.
BuildOverwrites(t) ==
  /\ pc[t] = "build"
  /\ \E p \in Packs(tree[t]) :
       IF Admissible(tree[t], t, p)
       THEN inputs' = [inputs EXCEPT ![t] = p] /\ Enter(t, "publish", "begin")
       ELSE Goto(t, "failed") /\ UNCHANGED inputs
  /\ UNCHANGED <<tree, coordinates, verified, downloads, registries, github, faults>>

Build(t) ==
  /\ pc[t] = "build"
  /\ \E p \in Packs(tree[t]) :
       IF Admissible(tree[t], t, p) /\ inputs[t] = None
       THEN inputs' = [inputs EXCEPT ![t] = p] /\ Enter(t, "publish", "begin")
       ELSE Goto(t, "failed") /\ UNCHANGED inputs
  /\ UNCHANGED <<tree, coordinates, verified, downloads, registries, github, faults>>

-----------------------------------------------------------------------------
(* check_public_registry.py, in the publishing and in the proving job.     *)

\* Publishing revalidates tag and artifacts; proving validates the coordinates, which
\* name this tag and this commit by construction.
Begin(t) ==
  /\ pc[t] = "begin"
  /\ GotoIf(t, job[t] = "prove" \/ Admissible(tree[t], t, inputs[t]), "bsr")
  /\ got' = [got EXCEPT ![t] = NoDownloads] /\ tries' = [tries EXCEPT ![t] = 1]
  /\ UNCHANGED <<tree, artifacts, registries, github, faults>>

\* The label is asked for when publishing, the recorded commit when proving.
Served(t, r) == IF r = "nuget" THEN nuget[t] ELSE IF job[t] = "publish" THEN label[t] ELSE coordinates[t]
\* Seeded fault: one attempt more.
LastTryLate(t) == tries[t] > IF job[t] = "publish" THEN 1 ELSE Attempts

LastTry(t) == tries[t] = IF job[t] = "publish" THEN 1 ELSE Attempts
Fetched(t, r, file) ==
  /\ got' = [got EXCEPT ![t][r] = file] /\ tries' = [tries EXCEPT ![t] = 1]
  /\ Goto(t, IF r = "bsr" THEN "nuget" ELSE "probe")
TryAgain(t) == tries' = [tries EXCEPT ![t] = @ + 1] /\ UNCHANGED <<run, got>>

\* HTTP 200, or 404: the last 404 means missing.
Download(t, r) ==
  /\ pc[t] = r
  /\ IF <<t, r>> \in indexed THEN Fetched(t, r, Served(t, r))
     ELSE IF LastTry(t) THEN Fetched(t, r, None)
     ELSE TryAgain(t)
  /\ UNCHANGED <<tree, artifacts, registries, github, faults>>

\* Seeded fault: whatever the last answer is, it means missing.
DownloadBreaksMissing(t, r) ==
  /\ pc[t] = r /\ faults < MaxFaults
  /\ faults' = faults + 1
  /\ IF LastTry(t) THEN Fetched(t, r, None) ELSE TryAgain(t)
  /\ UNCHANGED <<tree, artifacts, registries, github>>

\* Any other answer is tried again, and fails the last time; a body may be cut short.
DownloadBreaks(t, r) ==
  /\ pc[t] = r /\ faults < MaxFaults
  /\ faults' = faults + 1
  /\ \/ IF LastTry(t) THEN Goto(t, "failed") /\ UNCHANGED downloads ELSE TryAgain(t)
     \/ <<t, r>> \in indexed /\ Fetched(t, r, Unreadable)
  /\ UNCHANGED <<tree, artifacts, registries, github>>


\* What is public must be what the tag and the build say; proving requires both.
ProbePasses(t) ==
  /\ VerifySourcePayload(inputs[t].nupkg, tree[t])
  /\ job[t] = "prove" => \A r \in Registries : got[t][r] # None
  /\ got[t]["bsr"] # None => VerifyBsr(tree[t], got[t]["bsr"])
  /\ got[t]["nuget"] # None =>
       /\ Validate(got[t]["nuget"], t)
       /\ ComparePackages(inputs[t].nupkg, got[t]["nuget"])
       /\ VerifySourcePayload(got[t]["nuget"], tree[t])

Probe(t) ==
  /\ pc[t] = "probe"
  /\ GotoIf(t, ProbePasses(t), IF job[t] = "publish" THEN "push bsr" ELSE "consume")
  /\ UNCHANGED <<tree, artifacts, downloads, registries, github, faults>>

-----------------------------------------------------------------------------
(* publish-public-registries.                                              *)

\* buf push --label v<Version> --label main moves both labels to the pushed content.
PushBsr(t) ==
  /\ pc[t] = "push bsr"
  /\ IF got[t]["bsr"] = None
     THEN label' = [label EXCEPT ![t] = BsrModule(tree[t])] /\ main' = t
     ELSE UNCHANGED <<label, main>>
  /\ Goto(t, "push nuget")
  /\ UNCHANGED <<tree, artifacts, downloads, nuget, symbols, indexed, github, faults>>

\* nuget.org refuses an occupied coordinate, indexed or not.
PushNuget(t) ==
  /\ pc[t] = "push nuget"
  /\ IF got[t]["nuget"] = None /\ nuget[t] = None
     THEN nuget' = [nuget EXCEPT ![t] = Sign(inputs[t].nupkg)]
     ELSE UNCHANGED nuget
  /\ GotoIf(t, got[t]["nuget"] # None \/ nuget[t] = None, "push symbols")
  /\ UNCHANGED <<tree, artifacts, downloads, label, symbols, main, indexed, github, faults>>

\* Seeded fault: the symbols go with the runtime package only.
PushSymbolsWithRuntime(t) ==
  /\ pc[t] = "push symbols"
  /\ symbols' = [symbols EXCEPT ![t] = IF got[t]["nuget"] = None THEN inputs[t].snupkg ELSE @]
  /\ Goto(t, "resolve")
  /\ UNCHANGED <<tree, artifacts, downloads, label, nuget, main, indexed, github, faults>>

\* With the runtime package, or on their own with --skip-duplicate.
PushSymbols(t) ==
  /\ pc[t] = "push symbols"
  /\ symbols' = [symbols EXCEPT ![t] = IF @ = None THEN inputs[t].snupkg ELSE @]
  /\ Goto(t, "resolve")
  /\ UNCHANGED <<tree, artifacts, downloads, label, nuget, main, indexed, github, faults>>

\* The archives of the label and of the commit it resolves to, verified and recorded.
Resolve(t) ==
  /\ pc[t] = "resolve"
  /\ IF <<t, "bsr">> \in indexed /\ VerifyBsr(tree[t], label[t])
     THEN coordinates' = [coordinates EXCEPT ![t] = label[t]] /\ Enter(t, "prove", "begin")
     ELSE Goto(t, "failed") /\ UNCHANGED coordinates
  /\ UNCHANGED <<tree, inputs, verified, downloads, registries, github, faults>>

\* A registry starts to serve what it holds.
Index(t, r) ==
  /\ <<t, r>> \notin indexed /\ Held(t, r) # None
  /\ indexed' = indexed \cup {<<t, r>>}
  /\ UNCHANGED <<tree, run, artifacts, downloads, label, nuget, symbols, main, github, faults>>

-----------------------------------------------------------------------------
(* prove-public-consumption and create-github-release.                     *)

\* The clean client restores the package by the content hash of the build.
Consumption(t) == [version |-> t, commit |-> coordinates[t]]
Consumable(t) == VerifyBsr(tree[t], coordinates[t]) /\ ComparePackages(inputs[t].nupkg, nuget[t])

Consume(t) ==
  /\ pc[t] = "consume"
  /\ IF /\ Consumable(t)
        /\ ReceiptHolds(tree[t], t, coordinates[t], got[t]["bsr"], inputs[t].nupkg, got[t]["nuget"],
                        inputs[t].snupkg, Consumption(t))
     THEN /\ verified' = [verified EXCEPT ![t] =
               Receipt(tree[t], t, got[t]["bsr"], inputs[t].nupkg, got[t]["nuget"], inputs[t].snupkg)]
          /\ Enter(t, "release", "view")
     ELSE Goto(t, "failed") /\ UNCHANGED verified
  /\ UNCHANGED <<tree, inputs, coordinates, downloads, registries, github, faults>>

\* A release that exists must target the tagged commit.
View(t) ==
  /\ pc[t] = "view"
  /\ Goto(t, IF release[t] = None THEN "create"
             ELSE IF release[t].target = "tagged" THEN "check" ELSE "failed")
  /\ UNCHANGED <<tree, artifacts, downloads, registries, github, faults>>

\* Any failure of gh release view counts as no release: its errors go to /dev/null.
ViewFails(t) ==
  /\ pc[t] = "view" /\ faults < MaxFaults
  /\ faults' = faults + 1
  /\ Goto(t, "create")
  /\ UNCHANGED <<tree, artifacts, downloads, registries, github>>

\* gh release create: a draft, the assets one by one in some order, then the publication.
\* GitHub takes another draft of a tag, but not another published release.
Create(t) ==
  /\ pc[t] = "create"
  /\ IF release[t] # None /\ ~release[t].draft
     THEN Goto(t, "failed") /\ UNCHANGED release
     ELSE /\ release' = [release EXCEPT ![t] = [assets |-> {}, draft |-> TRUE, target |-> "tagged"]]
          /\ Goto(t, "attach")
  /\ UNCHANGED <<tree, artifacts, downloads, registries, latest, faults>>

Attach(t) ==
  /\ pc[t] = "attach"
  /\ IF release[t].assets = Assets
     THEN release' = [release EXCEPT ![t].draft = FALSE] /\ latest' = t /\ Goto(t, "check")
     ELSE /\ \E a \in Assets \ release[t].assets :
               release' = [release EXCEPT ![t].assets = @ \cup {a}]
          /\ UNCHANGED <<latest, run>>
  /\ UNCHANGED <<tree, artifacts, downloads, registries, faults>>

\* Seeded fault: a release that exists is taken as it is.
CheckReleaseExists(t) ==
  /\ pc[t] = "check"
  /\ GotoIf(t, release[t] # None, "done")
  /\ UNCHANGED <<tree, artifacts, downloads, registries, github, faults>>

\* gh release download and diff -r against the verified assets.
CheckRelease(t) ==
  /\ pc[t] = "check"
  /\ GotoIf(t, release[t].assets = Assets, "done")
  /\ UNCHANGED <<tree, artifacts, downloads, registries, github, faults>>

-----------------------------------------------------------------------------
Step(t) ==
  \/ Build(t) \/ Begin(t) \/ Probe(t)
  \/ \E r \in Registries : Download(t, r)
  \/ PushBsr(t) \/ PushNuget(t) \/ PushSymbols(t) \/ Resolve(t)
  \/ Consume(t) \/ View(t) \/ Create(t) \/ Attach(t) \/ CheckRelease(t)

Environment(t) ==
  \/ RerunAll(t) \/ Breaks(t) \/ ViewFails(t)
  \/ \E r \in Registries : DownloadBreaks(t, r)

Next == \E t \in Tags :
  \/ Step(t) \/ Environment(t) \/ RerunFailed(t)
  \/ \E r \in Registries : Index(t, r)

Spec == Init /\ [][Next]_vars

\* Runners make progress, registries index what they accepted, and the operator re-runs
\* the failed jobs, as docs/release-checklist.md asks.
Fairness == \A t \in Tags :
  /\ WF_vars(Step(t)) /\ WF_vars(RerunFailed(t))
  /\ \A r \in Registries : WF_vars(Index(t, r))

FairSpec == Spec /\ Fairness

-----------------------------------------------------------------------------
(* Properties.                                                             *)

\* Types of the run's own state.
TypeOK ==
  /\ job \in [Tags -> Jobs] /\ pc \in [Tags -> Steps]
  /\ DOMAIN inputs = Tags /\ DOMAIN coordinates = Tags /\ DOMAIN verified = Tags
  /\ DOMAIN got = Tags /\ \A t \in Tags : DOMAIN got[t] = Registries
  /\ tries \in [Tags -> 1..Attempts]
  /\ DOMAIN label = Tags /\ DOMAIN nuget = Tags /\ DOMAIN symbols = Tags
  /\ main \in Tags \cup {None} /\ latest \in Tags \cup {None}
  /\ indexed \subseteq Tags \X Registries
  /\ \A t \in Tags : release[t] # None => release[t] \in GitHubRelease
  /\ faults \in 0..MaxFaults

\* What consumers find at a coordinate: nothing, what the tag says, or something else.
BsrStanding(t) == IF label[t] = None THEN "empty" ELSE IF VerifyBsr(tree[t], label[t]) THEN "tagged" ELSE "other"
CarriesTag(s, t, p) == Validate(p, t) /\ VerifySourcePayload(p, s)
NugetStanding(t) == IF nuget[t] = None THEN "empty" ELSE IF CarriesTag(tree[t], t, nuget[t]) THEN "tagged" ELSE "other"

\* The whole protocol, with its re-runs, its lagging registries and its occupied
\* coordinates, keeps the promise: a coordinate is filled once and only with what its tag
\* says, and the GitHub release comes last.
Promise == INSTANCE ReleasePromise WITH
  bsr <- [t \in Tags |-> BsrStanding(t)],
  nuget <- [t \in Tags |-> NugetStanding(t)],
  released <- [t \in Tags |-> release[t] # None]
PromiseKept == Promise!Spec

\* What a receipt says is so: the BSR label holds the archive it names, nuget.org holds
\* the payload it names, which is the payload built once from the tagged source, and the
\* symbols handed in are those of the same build, which the receipt names.
Backed(t) ==
  /\ verified[t].bsr = label[t] /\ verified[t].bsr = LocalModuleFiles(tree[t])
  /\ verified[t].public = CanonicalDigest(nuget[t])
  /\ verified[t].local = verified[t].public /\ verified[t].local = CanonicalDigest(inputs[t].nupkg)
  /\ verified[t].source = ExpectedPayload(tree[t])
  /\ symbols[t] = verified[t].symbols

\* Once written, a receipt stays true of the public registries, through every re-run.
ReceiptIsTrue == \A t \in Tags : verified[t] # None => Backed(t)

\* What consumers get without naming a version was released in order: label main is a tag
\* whose version contract holds and whose own label is there; the latest release of this
\* workflow is published, has every asset and a true receipt.
DefaultsAreEarned ==
  /\ main # None => Contract(tree[main], main) /\ BsrStanding(main) = "tagged"
  /\ latest # None =>
       /\ release[latest] = [assets |-> Assets, draft |-> FALSE, target |-> "tagged"]
       /\ Backed(latest)

\* A green run left a complete release of the tagged commit with a true receipt, whichever
\* attempt created it and whatever release was there before.
GreenIsComplete == \A t \in Tags : pc[t] = "done" =>
  release[t].assets = Assets /\ release[t].target = "tagged" /\ Backed(t)

\* The payload of nuget.org, where there is one, is that of the packages this run built.
\* A package of the same tree from another build is not: the run can never complete then.
OursOrEmpty(t) == nuget[t] = None \/ ComparePackages(inputs[t].nupkg, nuget[t])

=============================================================================
