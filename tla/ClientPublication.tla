------------------------- MODULE ClientPublication -------------------------
(***************************************************************************)
(* The publication of the generated clients of one tag:                    *)
(* publish-python-client.yml (PyPI, two files), publish-typescript-        *)
(* client.yml (npm) and publish-dotnet-github-packages.yml (GitHub         *)
(* Packages).  The tag push starts a run, and a manual dispatch with the   *)
(* tag may start another, which builds again.  Each run looks at the       *)
(* coordinate, uploads file by file, and compares what is public with its  *)
(* build; the registry serves a file some time after it accepted it.       *)
(***************************************************************************)
EXTENDS Naturals, Sequences, FiniteSets

CONSTANTS
  Clients,    \* clients considered, among "python", "typescript", "dotnet"
  Forms,      \* bound: forms of the tag, [canonical, zero, prerelease, metadata : BOOLEAN]
  Contents,   \* bound: contents a build may give a file
  None,       \* no file
  MaxFaults   \* bound: failures of the environment

Runs == {"push", "dispatch"}

ASSUME ClientAssumption ==
  /\ Clients \subseteq {"python", "typescript", "dotnet"}
  /\ None \notin Contents /\ MaxFaults \in Nat

VARIABLES
  client, form,  \* the client and the tag, fixed
  job, pc,       \* per run: the job it is in, and its step
  built,         \* per run: artifact of its build job, file to content
  next,          \* per run: index of the file to upload
  public,        \* the coordinate: what the registry holds of each file
  served,        \* the files it serves
  faults

progress == <<job, pc, next>>
registry == <<public, served>>
vars == <<client, form, progress, built, registry, faults>>

\* In the order they are uploaded: wheels go first.
UploadOrder(c) == CASE c = "python" -> <<"wheel", "sdist">> [] c = "typescript" -> <<"tarball">> [] OTHER -> <<"nupkg">>
Files(c) == {UploadOrder(c)[i] : i \in DOMAIN UploadOrder(c)}
Uploads == UploadOrder(client)

\* .NET is published by the tag push alone.
Publishes(c) == IF c = "dotnet" THEN {"push"} ELSE Runs
First(j) == CASE j = "build" -> "build" [] j = "publish" -> "guard" [] OTHER -> "prove"

\* The coordinate is unused, or was filled by hand.
Init ==
  /\ client \in Clients /\ form \in Forms
  /\ job = [r \in Publishes(client) |-> "build"] /\ pc = [r \in Publishes(client) |-> "build"]
  /\ built = [r \in Publishes(client) |-> None]
  /\ next = [r \in Publishes(client) |-> 1]
  /\ \E c \in Contents \cup {None} : public = [f \in Files(client) |-> c]
  /\ served = {f \in Files(client) : public[f] # None}
  /\ faults = 0

Goto(r, step) == pc' = [pc EXCEPT ![r] = step] /\ UNCHANGED <<job, next>>
Enter(r, j) ==
  /\ job' = [job EXCEPT ![r] = j] /\ pc' = [pc EXCEPT ![r] = First(j)]
  /\ next' = [next EXCEPT ![r] = 1]
GotoIf(r, passes, step) == Goto(r, IF passes THEN step ELSE "failed")

-----------------------------------------------------------------------------
\* release_contract.py admits stable tags, whose major is not 0; pack_dotnet_release.py also
\* others, but no build metadata, which NuGet drops from a version.
StableTag(f) == f.canonical /\ ~f.zero /\ ~f.prerelease /\ ~f.metadata
VersionFromTag(f) == f.canonical /\ ~f.metadata
Releasable == IF client = "dotnet" THEN VersionFromTag(form) ELSE StableTag(form)

\* Builds once; independent builds of a file may differ.
Build(r) ==
  /\ pc[r] = "build"
  /\ IF Releasable
     THEN \E b \in [Files(client) -> Contents] : built' = [built EXCEPT ![r] = b] /\ Enter(r, "publish")
     ELSE Goto(r, "failed") /\ UNCHANGED built
  /\ UNCHANGED <<client, form, registry, faults>>

\* Seeded fault: the names are looked up, the digests are not compared.
Present(r) == \A f \in Files(client) : f \in served

\* Every file of the build is there, byte for byte.
Identical(r) == \A f \in Files(client) : f \in served /\ public[f] = built[r][f]

\* Seeded fault: an occupied coordinate is refused, its own build included.
GuardRefusesOccupied(r) ==
  /\ pc[r] = "guard"
  /\ GotoIf(r, client = "dotnet" \/ served = {}, "upload")
  /\ UNCHANGED <<client, form, built, registry, faults>>

\* Seeded fault: 404 is an error like any other status.
GuardRefusesUnused(r) ==
  /\ pc[r] = "guard"
  /\ IF client # "dotnet" /\ Identical(r) THEN Enter(r, "prove") ELSE GotoIf(r, client = "dotnet", "upload")
  /\ UNCHANGED <<client, form, built, registry, faults>>

\* Unused: publish.  Occupied: every file must be there and identical, then publication is
\* skipped.  GitHub Packages is not asked.
Guard(r) ==
  /\ pc[r] = "guard"
  /\ IF client = "dotnet" \/ served = {} THEN Goto(r, "upload")
     ELSE IF Identical(r) THEN Enter(r, "prove")
     ELSE Goto(r, "failed")
  /\ UNCHANGED <<client, form, built, registry, faults>>

\* The registry takes a file it does not hold.  PyPI also accepts the identical file again,
\* npm and GitHub Packages do not.
Accepts(f, content) == public[f] = None \/ (client = "python" /\ public[f] = content)

\* Seeded fault: one upload more than there are files.
LastUploadLate(r) == next[r] > Len(Uploads)

LastUpload(r) == next[r] = Len(Uploads)

\* Seeded fault: skip-existing, what is there already is skipped.
UploadSkipsExisting(r) ==
  /\ pc[r] = "upload"
  /\ LET f == Uploads[next[r]] IN public' = [public EXCEPT ![f] = IF @ = None THEN built[r][f] ELSE @]
  /\ IF LastUpload(r) THEN Enter(r, "prove")
     ELSE next' = [next EXCEPT ![r] = @ + 1] /\ UNCHANGED <<job, pc>>
  /\ UNCHANGED <<client, form, built, served, faults>>

\* Publish exact build artifact, one file: the registry takes it, or the job fails.
Upload(r) ==
  /\ pc[r] = "upload"
  /\ LET f == Uploads[next[r]]
     IN  IF Accepts(f, built[r][f])
         THEN /\ public' = [public EXCEPT ![f] = built[r][f]]
              /\ IF LastUpload(r) THEN Enter(r, "prove")
                 ELSE next' = [next EXCEPT ![r] = @ + 1] /\ UNCHANGED <<job, pc>>
         ELSE Goto(r, "failed") /\ UNCHANGED public
  /\ UNCHANGED <<client, form, built, served, faults>>

\* The registry takes the file and the answer is lost.
UploadBreaks(r) ==
  /\ pc[r] = "upload" /\ faults < MaxFaults
  /\ LET f == Uploads[next[r]]
     IN  Accepts(f, built[r][f]) /\ public' = [public EXCEPT ![f] = built[r][f]]
  /\ faults' = faults + 1
  /\ pc' = [pc EXCEPT ![r] = "failed"] /\ next' = [next EXCEPT ![r] = 1]
  /\ UNCHANGED <<client, form, job, built, served>>

\* The download attempts run out, or every file is there and compared; GitHub Packages is
\* done with its upload.
Prove(r) ==
  /\ pc[r] = "prove"
  /\ GotoIf(r, client = "dotnet" \/ Identical(r), "done")
  /\ UNCHANGED <<client, form, built, registry, faults>>

\* A runner or a service fails: the publishing job of .NET ends with its upload, so what
\* fails after it fails in that job.
Breaks(r) ==
  /\ pc[r] \notin {"failed", "done"} /\ faults < MaxFaults
  /\ faults' = faults + 1
  /\ pc' = [pc EXCEPT ![r] = "failed"] /\ next' = [next EXCEPT ![r] = 1]
  /\ job' = [job EXCEPT ![r] = IF client = "dotnet" /\ @ = "prove" THEN "publish" ELSE @]
  /\ UNCHANGED <<client, form, built, registry>>

\* Re-run failed jobs, with the artifacts of the build.
RerunFailed(r) ==
  /\ pc[r] = "failed"
  /\ Enter(r, job[r])
  /\ UNCHANGED <<client, form, built, registry, faults>>

Serve(f) ==
  /\ public[f] # None /\ f \notin served
  /\ served' = served \cup {f}
  /\ UNCHANGED <<client, form, progress, built, public, faults>>

-----------------------------------------------------------------------------
Work(r) == Build(r) \/ Guard(r) \/ Upload(r) \/ Prove(r)
Finished == (\A r \in DOMAIN pc : pc[r] = "done") /\ served = DOMAIN public /\ UNCHANGED vars

Next ==
  \/ \E r \in DOMAIN pc : Work(r) \/ UploadBreaks(r) \/ Breaks(r) \/ RerunFailed(r)
  \/ \E f \in DOMAIN public : Serve(f)
  \/ Finished

Spec == Init /\ [][Next]_vars

\* Runners make progress, the registry serves what it accepted, and the operator re-runs
\* what failed, as docs/generated-client-publication.md asks.
Fairness ==
  /\ \A r \in Runs : WF_vars(r \in DOMAIN pc /\ Work(r)) /\ WF_vars(r \in DOMAIN pc /\ RerunFailed(r))
  /\ \A f \in {"wheel", "sdist", "tarball", "nupkg"} : WF_vars(f \in DOMAIN public /\ Serve(f))
FairSpec == Spec /\ Fairness

-----------------------------------------------------------------------------
(* Properties.                                                             *)

TypeOK ==
  /\ client \in Clients /\ form \in Forms
  /\ job \in [Publishes(client) -> {"build", "publish", "prove"}]
  /\ pc \in [Publishes(client) -> {"build", "guard", "upload", "prove", "failed", "done"}]
  /\ built \in [Publishes(client) -> [Files(client) -> Contents] \cup {None}]
  /\ next \in [Publishes(client) -> 1..Len(Uploads)]
  /\ public \in [Files(client) -> Contents \cup {None}]
  /\ served \subseteq {f \in Files(client) : public[f] # None}
  /\ faults \in 0..MaxFaults

\* Runs that race for one coordinate never mix their builds: the files that are public are
\* those of one build, or those that were there before, although they are uploaded one by
\* one and nothing excludes the other run.
FromBuild(b) == \A f \in Files(client) : public[f] \in {b[f], None}
OneBuildPerCoordinate ==
  \/ \E r \in DOMAIN job : job[r] # "build" /\ FromBuild(built[r])
  \/ \E c \in Contents \cup {None} : \A f \in Files(client) : public[f] = c

\* A green run means that the public files are, byte for byte, the ones it built.
GreenMeansIdentical == \A r \in DOMAIN pc :
  pc[r] = "done" => \A f \in Files(client) : public[f] = built[r][f]

\* A run whose files are all public ends green, however its attempts failed: the guard of
\* a later attempt recognises them.
PublishedRunEndsGreen == \A r \in Runs :
  (client # "dotnet" /\ r \in DOMAIN pc /\ job[r] # "build" /\ \A f \in Files(client) : public[f] = built[r][f])
     ~> (r \in DOMAIN pc /\ pc[r] = "done")

\* A publication of a single file that failed is made by a later attempt.
Complete == \A f \in DOMAIN public : public[f] # None
SingleFileRecovers == <>(Releasable /\ Len(Uploads) = 1 => Complete)

\* docs/generated-client-publication.md: re-running recovers from a failed publish.
FailedPublicationRecovers == <>(Releasable => Complete)
=============================================================================
