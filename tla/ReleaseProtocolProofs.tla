----------------------- MODULE ReleaseProtocolProofs -----------------------
(***************************************************************************)
(* Proofs about the stable release: its type invariant, the three safety   *)
(* invariants the runs check, and that it implements ReleasePromise, for   *)
(* every set of tags, trees and builds and any number of failures.         *)
(***************************************************************************)
EXTENDS ReleaseProtocol, TLAPS

-----------------------------------------------------------------------------
(* The inductive invariant, a conjunction of what holds of each tag.       *)

StepFits(t) ==
  /\ pc[t] = "build" => job[t] = "build"
  /\ pc[t] \in {"begin", "bsr", "nuget", "probe"} => job[t] \in {"publish", "prove"}
  /\ pc[t] \in {"push bsr", "push nuget", "push symbols", "resolve"} => job[t] = "publish"
  /\ pc[t] = "consume" => job[t] = "prove"
  /\ pc[t] \in {"view", "create", "attach", "check", "done"} => job[t] = "release"
  /\ pc[t] \in {"bsr", "nuget"} /\ job[t] = "publish" => tries[t] = 1

\* The packages are those built once from the tagged tree, and were admitted.
InputsFit(t) ==
  /\ job[t] # "build" => inputs[t] # None
  /\ inputs[t] # None => inputs[t] \in Packs(tree[t]) /\ Admissible(tree[t], t, inputs[t])

Holds(t) == label[t] = None \/ VerifyBsr(tree[t], label[t])

\* A label the registry does not serve yet was pushed by this workflow; where the preflight
\* found nothing there is nothing, or what it will push.
LabelFits(t) ==
  /\ <<t, "bsr">> \notin indexed => Holds(t)
  /\ pc[t] \in {"nuget", "probe", "push bsr"} /\ job[t] = "publish" /\ got[t]["bsr"] = None => Holds(t)

\* A package that was downloaded whole is the one nuget.org keeps.
DownloadFits(t) ==
  /\ pc[t] \in {"bsr", "nuget"} => got[t]["nuget"] = None
  /\ pc[t] \in {"probe", "push bsr", "push nuget", "consume"} /\ got[t]["nuget"] \notin {None, Unreadable}
       => got[t]["nuget"] = nuget[t]
  /\ pc[t] = "consume" => got[t]["nuget"] # None

\* The recorded commit is what the label holds; the symbols were handed in, and are this build's.
Recorded(t) ==
  /\ symbols[t] # None => inputs[t] # None /\ symbols[t] = inputs[t].snupkg
  /\ pc[t] = "resolve" => symbols[t] # None
  /\ job[t] = "prove" => coordinates[t] = label[t] /\ VerifyBsr(tree[t], label[t]) /\ symbols[t] # None

PackageHeld(t) == nuget[t] # None /\ CarriesTag(tree[t], t, nuget[t])
Earned(t) ==
  verified[t] # None \/ job[t] = "release" \/ latest = t =>
    /\ inputs[t] # None /\ symbols[t] # None
    /\ Backed(t) /\ VerifyBsr(tree[t], label[t]) /\ PackageHeld(t)

MainEarned(t) == main = t => Contract(tree[t], t) /\ VerifyBsr(tree[t], label[t])

\* What gh release create begins with and ends with.
Drafted == [assets |-> {}, draft |-> TRUE, target |-> "tagged"]
Complete == [assets |-> Assets, draft |-> FALSE, target |-> "tagged"]

ReleaseFits(t) ==
  /\ pc[t] \in {"attach", "check", "done"} => release[t] # None /\ release[t].target = "tagged"
  /\ pc[t] = "done" => release[t].assets = Assets
  /\ latest = t => release[t] = Complete

Inv(t) ==
  /\ StepFits(t) /\ InputsFit(t) /\ LabelFits(t) /\ DownloadFits(t)
  /\ Recorded(t) /\ Earned(t) /\ MainEarned(t) /\ ReleaseFits(t)

Typed ==
  /\ tree \in [Tags -> Sources] /\ TypeOK
  /\ DOMAIN release = Tags
IInv == Typed /\ \A t \in Tags : Inv(t)

-----------------------------------------------------------------------------
(* What the verifications of scripts/ mean for what is published.          *)

\* The signature nuget.org adds touches neither the manifest nor the tagged source.
LEMMA SigningEntriesApart ==
  ASSUME NEW n \in SigningEntries
  PROVE  n[3] # ".nuspec" /\ n[3] # ".proto" /\ n[1] # "v1" /\ n \notin Docs
  <1> DEFINE Shaped(x) == x[1] \in {"", "_rels"} /\ x[3] \in {".p7s", ".xml", ".rels"}
  <1>1. Shaped(n)
    <2>1. CASE n = <<"", ".signature", ".p7s">> BY <2>1 DEF Shaped
    <2>2. CASE n = <<"", "[Content_Types]", ".xml">> BY <2>2 DEF Shaped
    <2>3. CASE n = <<"_rels", "", ".rels">> BY <2>3 DEF Shaped
    <2> QED BY <2>1, <2>2, <2>3 DEF SigningEntries, Signature
  <1>2. n[3] # ".nuspec" /\ n[3] # ".proto" /\ n[1] # "v1" BY <1>1
  <1>3. License[3] = "" /\ Readme[3] = ".md" BY DEF License, Readme
  <1>4. n # License /\ n # Readme BY <1>1, <1>3
  <1> QED BY <1>2, <1>4 DEF Docs

LEMMA SignKeeps ==
  ASSUME NEW p, NEW n \in DOMAIN p, n \notin SigningEntries
  PROVE  n \in DOMAIN Sign(p) /\ Sign(p)[n] = p[n]
  BY DEF Sign

LEMMA SignedNuspecs ==
  ASSUME NEW p PROVE Nuspecs(Sign(p)) = Nuspecs(p)
  <1>1. DOMAIN Sign(p) = DOMAIN p \cup SigningEntries BY DEF Sign
  <1>2. ASSUME NEW n \in DOMAIN Sign(p), n[3] = ".nuspec" PROVE n \in DOMAIN p
    BY <1>1, <1>2, SigningEntriesApart
  <1> QED BY <1>1, <1>2 DEF Nuspecs

LEMMA SignedValidates ==
  ASSUME NEW p, NEW v, Validate(p, v), Sign(p) # Unreadable
  PROVE  Validate(Sign(p), v)
  <1>1. DOMAIN Sign(p) = DOMAIN p \cup SigningEntries BY DEF Sign
  <1>2. PackageIdentity(Sign(p), v)
    <2>1. ASSUME NEW n \in Nuspecs(p) PROVE Sign(p)[n] = p[n]
      <3>1. n \in DOMAIN p /\ n \notin SigningEntries BY SigningEntriesApart DEF Nuspecs
      <3> QED BY <3>1, SignKeeps
    <2> QED BY <2>1, SignedNuspecs DEF PackageIdentity, Validate
  <1>3. {License, Readme, Runtime} \subseteq DOMAIN Sign(p) BY <1>1 DEF Validate
  <1>4. \E n \in DOMAIN Sign(p) : n[1] = "v1" /\ n[3] = ".proto" BY <1>1 DEF Validate
  <1> QED BY <1>2, <1>3, <1>4 DEF Validate

LEMMA SignedCarriesSource ==
  ASSUME NEW p, NEW s, VerifySourcePayload(p, s), Sign(p) # Unreadable
  PROVE  VerifySourcePayload(Sign(p), s)
  <1> DEFINE Kept(q) == {n \in DOMAIN q : n \in Docs \/ n[1] = "v1"}
  <1>1. DOMAIN Sign(p) = DOMAIN p \cup SigningEntries BY DEF Sign
  <1>2. Kept(Sign(p)) = Kept(p) BY <1>1, SigningEntriesApart
  <1>3. \A n \in Kept(p) : Sign(p)[n] = p[n] BY SigningEntriesApart, SignKeeps
  <1>4. SourcePayload(Sign(p)) = SourcePayload(p) BY <1>2, <1>3 DEF SourcePayload, Restrict
  <1> QED BY <1>4 DEF VerifySourcePayload

\* What PushNuget and PushBsr publish is what the tag says.
LEMMA PublishedPackage ==
  ASSUME NEW t \in Tags, NEW s \in Sources, NEW p \in Packs(s), Admissible(s, t, p)
  PROVE  Sign(p.nupkg) # None /\ CarriesTag(s, t, Sign(p.nupkg))
  <1>1. Sign(p.nupkg) \notin {None, Unreadable} BY ReleaseAssumption
  <1>2. Validate(Sign(p.nupkg), t) BY <1>1, SignedValidates DEF Admissible
  <1>3. VerifySourcePayload(Sign(p.nupkg), s) BY <1>1, SignedCarriesSource DEF Admissible
  <1> QED BY <1>1, <1>2, <1>3 DEF CarriesTag

LEMMA PublishedModule ==
  ASSUME NEW t \in Tags, NEW s \in Sources, NEW p, Admissible(s, t, p)
  PROVE  VerifyBsr(s, BsrModule(s)) /\ BsrModule(s) # None
  <1>1. BsrModule(s) \notin {None, Unreadable} BY ReleaseAssumption
  <1>2. BsrModule(s) = LocalModuleFiles(s) BY DEF BsrModule, LocalModuleFiles
  <1>3. Docs \subseteq DOMAIN s.files BY DEF Admissible, VerifySourcePayload
  <1> QED BY <1>1, <1>2, <1>3 DEF VerifyBsr

-----------------------------------------------------------------------------
(* A step of one tag's run leaves the other tags alone.                    *)

Untouched(u) ==
  /\ tree' = tree
  /\ job'[u] = job[u] /\ pc'[u] = pc[u]
  /\ inputs'[u] = inputs[u] /\ coordinates'[u] = coordinates[u] /\ verified'[u] = verified[u]
  /\ got'[u] = got[u] /\ tries'[u] = tries[u]
  /\ label'[u] = label[u] /\ nuget'[u] = nuget[u] /\ symbols'[u] = symbols[u]
  /\ release'[u] = release[u]
  /\ main' = u => main = u
  /\ latest' = u => latest = u
  /\ \A r \in Registries : <<u, r>> \in indexed' <=> <<u, r>> \in indexed

TagStep(t) == Step(t) \/ Environment(t) \/ RerunFailed(t) \/ \E r \in Registries : Index(t, r)

LEMMA OthersUntouched ==
  ASSUME NEW t \in Tags, NEW u \in Tags \ {t}, Typed, TagStep(t)
  PROVE  Untouched(u)
  <1> USE DEF Typed, TypeOK, run, artifacts, downloads, registries, github, Goto, Enter, GotoIf
  <1>1. CASE RerunFailed(t) BY <1>1 DEF RerunFailed, Untouched
  <1>2. CASE RerunAll(t) BY <1>2 DEF RerunAll, Untouched
  <1>3. CASE Breaks(t) BY <1>3 DEF Breaks, Untouched
  <1>4. CASE Build(t) BY <1>4 DEF Build, Untouched
  <1>5. CASE Begin(t) BY <1>5 DEF Begin, Untouched
  <1>6. ASSUME NEW r \in Registries, Download(t, r) PROVE Untouched(u)
    BY <1>6 DEF Download, Fetched, TryAgain, Untouched
  <1>7. ASSUME NEW r \in Registries, DownloadBreaks(t, r) PROVE Untouched(u)
    BY <1>7 DEF DownloadBreaks, Fetched, TryAgain, Untouched
  <1>8. CASE Probe(t) BY <1>8 DEF Probe, Untouched
  <1>9. CASE PushBsr(t) BY <1>9 DEF PushBsr, Untouched
  <1>10. CASE PushNuget(t) BY <1>10 DEF PushNuget, Untouched
  <1>11. CASE PushSymbols(t) BY <1>11 DEF PushSymbols, Untouched
  <1>12. CASE Resolve(t) BY <1>12 DEF Resolve, Untouched
  <1>13. ASSUME NEW r \in Registries, Index(t, r) PROVE Untouched(u)
    BY <1>13 DEF Index, Untouched
  <1>14. CASE Consume(t) BY <1>14 DEF Consume, Untouched
  <1>15. CASE View(t) BY <1>15 DEF View, Untouched
  <1>16. CASE Create(t) BY <1>16 DEF Create, Untouched
  <1>17. CASE Attach(t) BY <1>17 DEF Attach, Untouched
  <1>18. CASE CheckRelease(t) BY <1>18 DEF CheckRelease, Untouched
  <1>19. CASE ViewFails(t) BY <1>19 DEF ViewFails, Untouched
  <1> QED
    BY <1>1, <1>2, <1>3, <1>4, <1>5, <1>6, <1>7, <1>8, <1>9, <1>10, <1>11, <1>12, <1>13, <1>14,
       <1>15, <1>16, <1>17, <1>18, <1>19 DEF TagStep, Step, Environment

LEMMA UntouchedKeeps ==
  ASSUME NEW u \in Tags, Inv(u), Untouched(u)
  PROVE  Inv(u)'
  <1> USE DEF Untouched
  <1>1. StepFits(u)' BY DEF Inv, StepFits
  <1>2. InputsFit(u)' BY DEF Inv, InputsFit
  <1>3. LabelFits(u)' BY DEF Inv, LabelFits, Holds, Registries
  <1>4. DownloadFits(u)' BY DEF Inv, DownloadFits
  <1>5. Recorded(u)' BY DEF Inv, Recorded
  <1>6. Earned(u)' BY DEF Inv, Earned, Backed, PackageHeld
  <1>7. MainEarned(u)' BY DEF Inv, MainEarned
  <1>8. ReleaseFits(u)' BY DEF Inv, ReleaseFits
  <1> QED BY <1>1, <1>2, <1>3, <1>4, <1>5, <1>6, <1>7, <1>8 DEF Inv

-----------------------------------------------------------------------------
(* Types.                                                                  *)

LEMMA Bounds == Attempts \in Nat /\ Attempts > 0 /\ MaxFaults \in Nat /\ None # Unreadable
  BY ReleaseAssumption

LEMMA OneFault ==
  ASSUME NEW f \in 0..MaxFaults, f < MaxFaults PROVE f + 1 \in 0..MaxFaults
  BY Bounds

LEMMA ReleaseRecords == Drafted \in GitHubRelease /\ Complete \in GitHubRelease /\ None \notin GitHubRelease
  <1>1. {} \in SUBSET Assets /\ Assets \in SUBSET Assets OBVIOUS
  <1>2. "tagged" \in Targets BY DEF Targets
  <1>3. Drafted \in GitHubRelease BY <1>1, <1>2 DEF Drafted, GitHubRelease
  <1>4. Complete \in GitHubRelease BY <1>1, <1>2 DEF Complete, GitHubRelease
  <1> QED BY <1>3, <1>4, ReleaseAssumption

LEMMA PublishedRecord ==
  ASSUME NEW r \in GitHubRelease
  PROVE  [r EXCEPT !.draft = FALSE] = [assets |-> r.assets, draft |-> FALSE, target |-> r.target]
  <1> DEFINE q == [r EXCEPT !.draft = FALSE]
  <1>1. q \in GitHubRelease BY DEF GitHubRelease
  <1>2. q.draft = FALSE BY DEF GitHubRelease
  <1>3. q.assets = r.assets BY DEF GitHubRelease
  <1>4. q.target = r.target BY DEF GitHubRelease
  <1> HIDE DEF q
  <1>5. q = [assets |-> q.assets, draft |-> q.draft, target |-> q.target] BY <1>1 DEF GitHubRelease
  <1>6. q = [assets |-> r.assets, draft |-> FALSE, target |-> r.target] BY <1>2, <1>3, <1>4, <1>5
  <1> QED BY <1>6 DEF q

LEMMA Attempt == 1 \in 1..Attempts BY Bounds
LEMMA AnotherAttempt ==
  ASSUME NEW n \in 1..Attempts, n # Attempts PROVE n + 1 \in 1..Attempts
  BY Bounds

LEMMA StoredDownload ==
  ASSUME NEW t \in Tags, NEW r \in Registries, NEW file, NEW u \in Tags, DOMAIN got = Tags,
         DOMAIN got[u] = Registries, got' = [got EXCEPT ![t][r] = file]
  PROVE  DOMAIN got'[u] = Registries
  BY DEF Registries

LEMMA IndexedKept ==
  ASSUME NEW t \in Tags, NEW r \in Registries, indexed \subseteq Tags \X Registries, Index(t, r)
  PROVE  indexed' \subseteq Tags \X Registries
  BY DEF Index

LEMMA TypedInit == ASSUME Init PROVE Typed
  <1> USE DEF Init
  <1>1. 1 \in 1..Attempts /\ 0 \in 0..MaxFaults BY Bounds
  <1>2. DOMAIN label = Tags /\ DOMAIN nuget = Tags BY DEF Occupied
  <1>3. job \in [Tags -> Jobs] /\ pc \in [Tags -> Steps] BY DEF Jobs, Steps
  <1>4. \A t \in Tags : DOMAIN got[t] = Registries BY DEF NoDownloads
  <1>5. ReleasesByHand \subseteq {None} \cup GitHubRelease BY DEF ReleasesByHand, GitHubRelease
  <1>6. \A t \in Tags : release[t] # None => release[t] \in GitHubRelease BY <1>5
  <1>7. DOMAIN release = Tags OBVIOUS
  <1> QED BY <1>1, <1>2, <1>3, <1>4, <1>6, <1>7 DEF Typed, TypeOK

LEMMA TypedKept ==
  ASSUME NEW t \in Tags, Typed, StepFits(t), ReleaseFits(t), TagStep(t)
  PROVE  Typed'
  <1> USE DEF Typed, TypeOK, run, artifacts, downloads, registries, github, Goto, Enter, GotoIf, Jobs, Steps
  <1>1. CASE RerunFailed(t)
    <2>1. First(job[t]) \in {"build", "view", "begin"} BY DEF First
    <2> QED BY <1>1, <2>1 DEF RerunFailed
  <1>2. CASE RerunAll(t) BY <1>2 DEF RerunAll
  <1>3. CASE Breaks(t)
    <2>1. faults' \in 0..MaxFaults BY <1>3, OneFault DEF Breaks
    <2> QED BY <1>3, <2>1 DEF Breaks
  <1>4. CASE Build(t) BY <1>4 DEF Build
  <1>5. CASE Begin(t)
    <2>1. 1 \in 1..Attempts BY Attempt
    <2>2. tries' \in [Tags -> 1..Attempts] BY <1>5, <2>1 DEF Begin
    <2>3. DOMAIN got' = Tags /\ \A u \in Tags : DOMAIN got'[u] = Registries BY <1>5 DEF Begin, NoDownloads
    <2>4. pc' \in [Tags -> Steps] /\ job' = job BY <1>5 DEF Begin
    <2> QED BY <1>5, <2>2, <2>3, <2>4 DEF Begin
  <1>6. ASSUME NEW r \in Registries, pc[t] = r, Fetched(t, r, None) \/ Fetched(t, r, Unreadable) \/ Fetched(t, r, Served(t, r)),
               UNCHANGED <<tree, artifacts, registries, github>>, faults' \in 0..MaxFaults
        PROVE  Typed'
    <2>1. 1 \in 1..Attempts BY Attempt
    <2>2. tries' \in [Tags -> 1..Attempts] BY <1>6, <2>1 DEF Fetched
    <2>3. DOMAIN got' = Tags /\ \A u \in Tags : DOMAIN got'[u] = Registries
      BY <1>6, StoredDownload DEF Fetched
    <2>4. pc' \in [Tags -> Steps] /\ job' = job BY <1>6 DEF Fetched
    <2> QED BY <1>6, <2>2, <2>3, <2>4
  <1>7. ASSUME NEW r \in Registries, pc[t] = r, ~LastTry(t), TryAgain(t),
               UNCHANGED <<tree, artifacts, registries, github>>, faults' \in 0..MaxFaults
        PROVE  Typed'
    <2>1. tries[t] + 1 \in 1..Attempts
      <3>1. tries[t] \in 1..Attempts OBVIOUS
      <3>2. job[t] # "publish" BY <1>7 DEF LastTry, StepFits, Registries
      <3>3. tries[t] # Attempts BY <1>7, <3>2 DEF LastTry
      <3> QED BY <3>1, <3>3, AnotherAttempt
    <2> QED BY <1>7, <2>1 DEF TryAgain
  <1>8. ASSUME NEW r \in Registries, Download(t, r) PROVE Typed'
    BY <1>6, <1>7, <1>8 DEF Download
  <1>9. ASSUME NEW r \in Registries, DownloadBreaks(t, r) PROVE Typed'
    <2>1. faults' \in 0..MaxFaults BY <1>9, OneFault DEF DownloadBreaks
    <2>2. CASE LastTry(t) /\ Goto(t, "failed") /\ UNCHANGED downloads BY <1>9, <2>1, <2>2 DEF DownloadBreaks
    <2> QED BY <1>6, <1>7, <1>9, <2>1, <2>2 DEF DownloadBreaks
  <1>10. CASE Probe(t) BY <1>10 DEF Probe
  <1>11. CASE PushBsr(t) BY <1>11 DEF PushBsr
  <1>12. CASE PushNuget(t) BY <1>12 DEF PushNuget
  <1>13. CASE PushSymbols(t) BY <1>13 DEF PushSymbols
  <1>14. CASE Resolve(t) BY <1>14 DEF Resolve
  <1>15. ASSUME NEW r \in Registries, Index(t, r) PROVE Typed'
    <2>1. indexed' \subseteq Tags \X Registries BY <1>15, IndexedKept
    <2> QED BY <1>15, <2>1 DEF Index
  <1>16. CASE Consume(t) BY <1>16 DEF Consume
  <1>17. CASE View(t) BY <1>17 DEF View
  <1>18. CASE Create(t)
    <2>1. CASE release' = release BY <1>18, <2>1 DEF Create
    <2>2. CASE release' = [release EXCEPT ![t] = Drafted]
      <3>1. Drafted \in GitHubRelease BY ReleaseRecords
      <3>2. \A u \in Tags : release'[u] = release[u] \/ release'[u] = Drafted BY <2>2
      <3>3. \A u \in Tags : release'[u] # None => release'[u] \in GitHubRelease
        BY <3>1, <3>2
      <3>4. DOMAIN release' = Tags BY <2>2
      <3>5. pc' \in [Tags -> Steps] /\ job' = job BY <1>18 DEF Create
      <3> QED BY <1>18, <3>3, <3>4, <3>5 DEF Create
    <2> QED BY <1>18, <2>1, <2>2 DEF Create, Drafted
  <1>19. CASE Attach(t)
    <2>1. latest' \in Tags \cup {None} BY <1>19 DEF Attach
    <2>2. PICK record \in GitHubRelease : release' = [release EXCEPT ![t] = record]
      <3>1. release[t] \in GitHubRelease BY <1>19 DEF Attach, ReleaseFits
      <3>2. CASE release[t].assets = Assets
        <4>1. [release[t] EXCEPT !.draft = FALSE] \in GitHubRelease BY <3>1 DEF GitHubRelease
        <4> QED BY <1>19, <3>2, <4>1 DEF Attach
      <3>3. CASE release[t].assets # Assets
        <4>1. PICK a \in Assets \ release[t].assets :
                release' = [release EXCEPT ![t].assets = @ \cup {a}]
          BY <1>19, <3>3 DEF Attach
        <4>2. [release[t] EXCEPT !.assets = @ \cup {a}] \in GitHubRelease BY <3>1 DEF GitHubRelease
        <4> QED BY <4>1, <4>2
      <3> QED BY <3>2, <3>3
    <2> QED BY <1>19, <2>1, <2>2 DEF Attach
  <1>20. CASE CheckRelease(t) BY <1>20 DEF CheckRelease
  <1>21. CASE ViewFails(t)
    <2>1. faults' \in 0..MaxFaults BY <1>21, OneFault DEF ViewFails
    <2> QED BY <1>21, <2>1 DEF ViewFails
  <1> QED
    BY <1>1, <1>2, <1>3, <1>4, <1>5, <1>8, <1>9, <1>10, <1>11, <1>12, <1>13, <1>14,
       <1>15, <1>16, <1>17, <1>18, <1>19, <1>20, <1>21 DEF TagStep, Step, Environment

-----------------------------------------------------------------------------
(* Each action keeps the invariant of its tag.                             *)

LEMMA InvInit == ASSUME Init, NEW t \in Tags PROVE Inv(t)
  <1> USE DEF Init
  <1>1. StepFits(t) BY DEF StepFits
  <1>2. InputsFit(t) BY DEF InputsFit
  <1>3. LabelFits(t)
    <2>1. label[t] # None => <<t, "bsr">> \in indexed BY DEF Registries, Held
    <2> QED BY <2>1 DEF LabelFits, Holds
  <1>4. DownloadFits(t) BY DEF DownloadFits
  <1>5. Recorded(t) BY DEF Recorded
  <1>6. None \notin Tags BY ReleaseAssumption, ArtifactAssumption
  <1>7. Earned(t) BY <1>6 DEF Earned
  <1>8. MainEarned(t) BY <1>6 DEF MainEarned
  <1>9. ReleaseFits(t) BY <1>6 DEF ReleaseFits
  <1> QED BY <1>1, <1>2, <1>3, <1>4, <1>5, <1>7, <1>8, <1>9 DEF Inv

\* Steps that move the run and store nothing.
StoresNothing == UNCHANGED <<tree, artifacts, downloads, registries, github>>

LEMMA RerunFailedKeeps ==
  ASSUME NEW t \in Tags, Typed, Inv(t), RerunFailed(t) PROVE Inv(t)'
  <1>1. /\ StoresNothing /\ job' = job /\ pc'[t] = First(job[t])
    BY DEF RerunFailed, Goto, StoresNothing, Typed, TypeOK
  <1>2. job[t] \in Jobs BY DEF Typed, TypeOK
  <1>3. /\ job[t] = "build" => pc'[t] = "build"
        /\ job[t] = "release" => pc'[t] = "view"
        /\ job[t] \in {"publish", "prove"} => pc'[t] = "begin"
    BY <1>1, <1>2 DEF First
  <1> USE DEF StoresNothing, artifacts, downloads, registries, github, Inv, Jobs
  <1>4. StepFits(t)' BY <1>1, <1>2, <1>3 DEF StepFits
  <1>5. InputsFit(t)' BY <1>1 DEF InputsFit
  <1>6. LabelFits(t)' BY <1>1, <1>2, <1>3 DEF LabelFits, Holds
  <1>7. DownloadFits(t)' BY <1>1, <1>2, <1>3 DEF DownloadFits
  <1>8. Recorded(t)' BY <1>1, <1>2, <1>3 DEF Recorded
  <1>9. Earned(t)' BY <1>1 DEF Earned, Backed, PackageHeld
  <1>10. MainEarned(t)' BY <1>1 DEF MainEarned
  <1>11. ReleaseFits(t)' BY <1>1, <1>2, <1>3 DEF ReleaseFits
  <1> QED BY <1>4, <1>5, <1>6, <1>7, <1>8, <1>9, <1>10, <1>11

\* A step that fails ends the job and nothing else.
FailsAt(t) == StoresNothing /\ job' = job /\ pc'[t] = "failed"

LEMMA FailureKeeps ==
  ASSUME NEW t \in Tags, Inv(t), FailsAt(t) PROVE Inv(t)'
  <1> USE DEF FailsAt, StoresNothing, artifacts, downloads, registries, github, Inv
  <1>1. StepFits(t)' BY DEF StepFits
  <1>2. InputsFit(t)' BY DEF InputsFit
  <1>3. LabelFits(t)' BY DEF LabelFits, Holds
  <1>4. DownloadFits(t)' BY DEF DownloadFits
  <1>5. Recorded(t)' BY DEF Recorded
  <1>6. Earned(t)' BY DEF Earned, Backed, PackageHeld
  <1>7. MainEarned(t)' BY DEF MainEarned
  <1>8. ReleaseFits(t)' BY DEF ReleaseFits
  <1> QED BY <1>1, <1>2, <1>3, <1>4, <1>5, <1>6, <1>7, <1>8

LEMMA BreaksKeeps == ASSUME NEW t \in Tags, Typed, Inv(t), Breaks(t) PROVE Inv(t)'
  <1>1. FailsAt(t) BY DEF Breaks, Goto, FailsAt, StoresNothing, Typed, TypeOK
  <1> QED BY <1>1, FailureKeeps

LEMMA RerunAllKeeps == ASSUME NEW t \in Tags, Typed, Inv(t), RerunAll(t) PROVE Inv(t)'
  <1>1. StoresNothing /\ job'[t] = "build" /\ pc'[t] = "build"
    BY DEF RerunAll, Enter, StoresNothing, Typed, TypeOK
  <1> USE DEF StoresNothing, artifacts, downloads, registries, github, Inv
  <1>2. StepFits(t)' BY <1>1 DEF StepFits
  <1>3. InputsFit(t)' BY <1>1 DEF InputsFit
  <1>4. LabelFits(t)' BY <1>1 DEF LabelFits, Holds
  <1>5. DownloadFits(t)' BY <1>1 DEF DownloadFits
  <1>6. Recorded(t)' BY <1>1 DEF Recorded
  <1>7. Earned(t)' BY <1>1 DEF Earned, Backed, PackageHeld
  <1>8. MainEarned(t)' BY <1>1 DEF MainEarned
  <1>9. ReleaseFits(t)' BY <1>1 DEF ReleaseFits
  <1> QED BY <1>2, <1>3, <1>4, <1>5, <1>6, <1>7, <1>8, <1>9

LEMMA BuildKeeps == ASSUME NEW t \in Tags, Typed, Inv(t), Build(t) PROVE Inv(t)'
  <1>1. PICK p \in Packs(tree[t]) :
          IF Admissible(tree[t], t, p) /\ inputs[t] = None
          THEN inputs' = [inputs EXCEPT ![t] = p] /\ Enter(t, "publish", "begin")
          ELSE Goto(t, "failed") /\ UNCHANGED inputs
    BY DEF Build
  <1>2. UNCHANGED <<tree, coordinates, verified, downloads, registries, github>> /\ pc[t] = "build"
    BY DEF Build
  <1>3. CASE ~(Admissible(tree[t], t, p) /\ inputs[t] = None)
    <2>1. FailsAt(t) BY <1>1, <1>2, <1>3 DEF Goto, FailsAt, StoresNothing, artifacts, Typed, TypeOK
    <2> QED BY <2>1, FailureKeeps
  <1>4. CASE Admissible(tree[t], t, p) /\ inputs[t] = None
    <2>1. inputs'[t] = p /\ job'[t] = "publish" /\ pc'[t] = "begin"
      BY <1>1, <1>4 DEF Enter, Typed, TypeOK
    <2>2. p # None BY <1>2, ReleaseAssumption DEF Typed
    <2>3. job[t] = "build" /\ verified[t] = None /\ latest # t BY <1>2, <1>4 DEF Inv, StepFits, Earned
    <2> USE <1>2 DEF downloads, registries, github, Inv
    <2>4. StepFits(t)' BY <2>1 DEF StepFits
    <2>5. InputsFit(t)'
      <3>1. p \in Packs(tree[t]) BY <1>1
      <3>2. tree'[t] = tree[t] OBVIOUS
      <3>3. inputs'[t] # None BY <2>1, <2>2
      <3>4. inputs'[t] \in Packs(tree'[t]) BY <2>1, <3>1, <3>2
      <3>5. Admissible(tree'[t], t, inputs'[t]) BY <1>4, <2>1, <3>2
      <3> QED BY <3>3, <3>4, <3>5 DEF InputsFit
    <2>6. LabelFits(t)' BY <2>1 DEF LabelFits, Holds
    <2>7. DownloadFits(t)' BY <2>1 DEF DownloadFits
    <2>8. Recorded(t)'
      <3>1. symbols'[t] = None BY <1>4 DEF Recorded
      <3> QED BY <2>1, <3>1 DEF Recorded
    <2>9. Earned(t)' BY <2>1, <2>3 DEF Earned
    <2>10. MainEarned(t)' BY DEF MainEarned
    <2>11. ReleaseFits(t)' BY <2>1 DEF ReleaseFits
    <2> QED BY <2>4, <2>5, <2>6, <2>7, <2>8, <2>9, <2>10, <2>11
  <1> QED BY <1>3, <1>4

LEMMA BeginKeeps == ASSUME NEW t \in Tags, Typed, Inv(t), Begin(t) PROVE Inv(t)'
  <1>1. /\ UNCHANGED <<tree, artifacts, registries, github, job>>
        /\ pc[t] = "begin" /\ pc'[t] \in {"bsr", "failed"}
        /\ got'[t] = NoDownloads /\ tries'[t] = 1
    BY DEF Begin, GotoIf, Goto, Typed, TypeOK
  <1> USE <1>1 DEF artifacts, registries, github, Inv
  <1>2. StepFits(t)' BY DEF StepFits
  <1>3. InputsFit(t)' BY DEF InputsFit
  <1>4. LabelFits(t)' BY DEF LabelFits, Holds
  <1>5. DownloadFits(t)' BY DEF DownloadFits, NoDownloads, Registries
  <1>6. Recorded(t)' BY DEF Recorded
  <1>7. Earned(t)' BY DEF Earned, Backed, PackageHeld
  <1>8. MainEarned(t)' BY DEF MainEarned
  <1>9. ReleaseFits(t)' BY DEF ReleaseFits
  <1> QED BY <1>2, <1>3, <1>4, <1>5, <1>6, <1>7, <1>8, <1>9

\* A download that ends with a file, or with None for a coordinate that is missing.
LEMMA FetchedKeeps ==
  ASSUME NEW t \in Tags, NEW r \in Registries, NEW file, Typed, Inv(t), pc[t] = r,
         UNCHANGED <<tree, artifacts, registries, github>>, Fetched(t, r, file),
         file \in {None, Unreadable, Served(t, r)},
         r = "bsr" /\ job[t] = "publish" /\ file = None => Holds(t)
  PROVE  Inv(t)'
  <1>1. /\ got'[t] = [got[t] EXCEPT ![r] = file] /\ tries'[t] = 1 /\ job' = job
        /\ r = "bsr" => pc'[t] = "nuget"
        /\ r = "nuget" => pc'[t] = "probe"
    BY DEF Fetched, Goto, Typed, TypeOK, Registries
  <1>2. /\ r = "bsr" => got'[t]["bsr"] = file /\ got'[t]["nuget"] = got[t]["nuget"]
        /\ r = "nuget" => got'[t]["nuget"] = file /\ got'[t]["bsr"] = got[t]["bsr"]
    BY <1>1 DEF Typed, TypeOK, Registries
  <1>3. r = "bsr" \/ r = "nuget" BY DEF Registries
  <1> USE DEF artifacts, registries, github, Inv
  <1>4. StepFits(t)' BY <1>1, <1>3 DEF StepFits
  <1>5. InputsFit(t)' BY <1>1 DEF InputsFit
  <1>6. LabelFits(t)'
    <2>1. CASE r = "bsr" BY <1>1, <1>2, <2>1 DEF LabelFits, Holds
    <2>2. CASE r = "nuget" BY <1>1, <1>2, <2>2 DEF LabelFits, Holds
    <2> QED BY <1>3, <2>1, <2>2
  <1>7. DownloadFits(t)'
    <2>1. CASE r = "bsr"
      <3>1. got[t]["nuget"] = None BY <2>1 DEF DownloadFits
      <3> QED BY <1>1, <1>2, <2>1, <3>1 DEF DownloadFits
    <2>2. CASE r = "nuget"
      <3>1. file \notin {None, Unreadable} => file = nuget[t] BY <2>2 DEF Served
      <3> QED BY <1>1, <1>2, <2>2, <3>1 DEF DownloadFits
    <2> QED BY <1>3, <2>1, <2>2
  <1>8. Recorded(t)' BY <1>1, <1>3 DEF Recorded
  <1>9. Earned(t)' BY <1>1 DEF Earned, Backed, PackageHeld
  <1>10. MainEarned(t)' BY DEF MainEarned
  <1>11. ReleaseFits(t)' BY <1>1, <1>3 DEF ReleaseFits
  <1> QED BY <1>4, <1>5, <1>6, <1>7, <1>8, <1>9, <1>10, <1>11

LEMMA TryAgainKeeps ==
  ASSUME NEW t \in Tags, NEW r \in Registries, Inv(t), pc[t] = r, ~LastTry(t), TryAgain(t),
         UNCHANGED <<tree, artifacts, registries, github>>
  PROVE  Inv(t)'
  <1>1. job[t] # "publish" BY DEF LastTry, Inv, StepFits, Registries
  <1> USE DEF TryAgain, run, artifacts, registries, github, Inv
  <1>2. StepFits(t)' BY <1>1 DEF StepFits
  <1>3. InputsFit(t)' BY DEF InputsFit
  <1>4. LabelFits(t)' BY DEF LabelFits, Holds
  <1>5. DownloadFits(t)' BY DEF DownloadFits
  <1>6. Recorded(t)' BY DEF Recorded
  <1>7. Earned(t)' BY DEF Earned, Backed, PackageHeld
  <1>8. MainEarned(t)' BY DEF MainEarned
  <1>9. ReleaseFits(t)' BY DEF ReleaseFits
  <1> QED BY <1>2, <1>3, <1>4, <1>5, <1>6, <1>7, <1>8, <1>9

LEMMA DownloadKeeps ==
  ASSUME NEW t \in Tags, NEW r \in Registries, Typed, Inv(t), Download(t, r) PROVE Inv(t)'
  <1>1. UNCHANGED <<tree, artifacts, registries, github>> /\ pc[t] = r BY DEF Download
  <1>2. CASE <<t, r>> \in indexed
    <2>1. Fetched(t, r, Served(t, r)) BY <1>2 DEF Download
    <2>2. r = "bsr" /\ job[t] = "publish" /\ Served(t, r) = None => Holds(t) BY DEF Served, Holds
    <2> QED BY <1>1, <2>1, <2>2, FetchedKeeps
  <1>3. CASE <<t, r>> \notin indexed /\ LastTry(t)
    <2>1. Fetched(t, r, None) BY <1>3 DEF Download
    <2>2. r = "bsr" => Holds(t) BY <1>3 DEF Inv, LabelFits
    <2> QED BY <1>1, <2>1, <2>2, FetchedKeeps
  <1>4. CASE <<t, r>> \notin indexed /\ ~LastTry(t)
    BY <1>1, <1>4, TryAgainKeeps DEF Download
  <1> QED BY <1>2, <1>3, <1>4

LEMMA DownloadBreaksKeeps ==
  ASSUME NEW t \in Tags, NEW r \in Registries, Typed, Inv(t), DownloadBreaks(t, r) PROVE Inv(t)'
  <1>1. UNCHANGED <<tree, artifacts, registries, github>> /\ pc[t] = r BY DEF DownloadBreaks
  <1>2. CASE LastTry(t) /\ Goto(t, "failed") /\ UNCHANGED downloads
    <2>1. FailsAt(t) BY <1>1, <1>2 DEF Goto, FailsAt, StoresNothing, Typed, TypeOK
    <2> QED BY <2>1, FailureKeeps
  <1>3. CASE ~LastTry(t) /\ TryAgain(t) BY <1>1, <1>3, TryAgainKeeps
  <1>4. CASE Fetched(t, r, Unreadable) BY <1>1, <1>4, Bounds, FetchedKeeps
  <1> QED BY <1>2, <1>3, <1>4 DEF DownloadBreaks

LEMMA ProbeKeeps == ASSUME NEW t \in Tags, Typed, Inv(t), Probe(t) PROVE Inv(t)'
  <1>1. pc[t] = "probe" /\ StoresNothing /\ job' = job
    BY DEF Probe, GotoIf, Goto, StoresNothing
  <1>2. pc'[t] = IF ProbePasses(t) THEN IF job[t] = "publish" THEN "push bsr" ELSE "consume" ELSE "failed"
    BY DEF Probe, GotoIf, Goto, Typed, TypeOK
  <1>3. CASE ~ProbePasses(t)
    <2>1. FailsAt(t) BY <1>1, <1>2, <1>3 DEF FailsAt
    <2> QED BY <2>1, FailureKeeps
  <1>4. CASE ProbePasses(t)
    <2>1. \/ pc'[t] = "push bsr" /\ job[t] = "publish"
          \/ pc'[t] = "consume" /\ job[t] = "prove" /\ got[t]["nuget"] # None
      BY <1>1, <1>2, <1>4 DEF ProbePasses, Registries, Inv, StepFits
    <2> USE <1>1, <2>1 DEF StoresNothing, artifacts, downloads, registries, github, Inv
    <2>2. StepFits(t)' BY DEF StepFits
    <2>3. InputsFit(t)' BY DEF InputsFit
    <2>4. LabelFits(t)' BY DEF LabelFits, Holds
    <2>5. DownloadFits(t)' BY DEF DownloadFits
    <2>6. Recorded(t)' BY DEF Recorded
    <2>7. Earned(t)' BY DEF Earned, Backed, PackageHeld
    <2>8. MainEarned(t)' BY DEF MainEarned
    <2>9. ReleaseFits(t)' BY DEF ReleaseFits
    <2> QED BY <2>2, <2>3, <2>4, <2>5, <2>6, <2>7, <2>8, <2>9
  <1> QED BY <1>3, <1>4

LEMMA OneModule ==
  ASSUME NEW s, NEW a, NEW b, VerifyBsr(s, a), VerifyBsr(s, b) PROVE a = b
  BY DEF VerifyBsr

\* What the workflow pushes to the BSR is what the tag says; a label that holds something
\* already holds the same.
LEMMA PushedLabel ==
  ASSUME NEW t \in Tags, Typed, Inv(t), PushBsr(t), got[t]["bsr"] = None
  PROVE  /\ label'[t] = BsrModule(tree[t]) /\ VerifyBsr(tree[t], label'[t]) /\ label'[t] # None
         /\ Contract(tree[t], t)
         /\ label[t] = None \/ label'[t] = label[t]
  <1>1. label'[t] = BsrModule(tree[t]) BY DEF PushBsr, Typed, TypeOK
  <1>2. Admissible(tree[t], t, inputs[t]) BY DEF PushBsr, Inv, StepFits, InputsFit
  <1>3. VerifyBsr(tree[t], BsrModule(tree[t])) /\ BsrModule(tree[t]) # None
    BY <1>2, PublishedModule DEF Typed
  <1>4. Holds(t) BY DEF PushBsr, Inv, StepFits, LabelFits
  <1>5. label[t] # None => label[t] = BsrModule(tree[t])
    BY <1>3, <1>4 DEF Holds, VerifyBsr
  <1> QED BY <1>1, <1>2, <1>3, <1>5 DEF Admissible

LEMMA PushBsrKeeps == ASSUME NEW t \in Tags, Typed, Inv(t), PushBsr(t) PROVE Inv(t)'
  <1>1. /\ UNCHANGED <<tree, artifacts, downloads, nuget, symbols, indexed, github, job>>
        /\ pc[t] = "push bsr" /\ pc'[t] = "push nuget"
    BY DEF PushBsr, Goto, Typed, TypeOK
  <1>2. \/ label' = label /\ main' = main
        \/ VerifyBsr(tree[t], label'[t]) /\ main' = t /\ Contract(tree[t], t) /\ (label[t] = None \/ label'[t] = label[t])
    BY PushedLabel DEF PushBsr
  <1>3. job[t] = "publish" BY <1>1 DEF Inv, StepFits
  <1> USE <1>1, <1>3 DEF artifacts, downloads, github, Inv
  <1>4. StepFits(t)' BY DEF StepFits
  <1>5. InputsFit(t)' BY DEF InputsFit
  <1>6. LabelFits(t)' BY <1>2 DEF LabelFits, Holds
  <1>7. DownloadFits(t)' BY DEF DownloadFits
  <1>8. Recorded(t)' BY DEF Recorded
  <1>9. Earned(t)'
    <2>1. VerifyBsr(tree[t], label[t]) => label'[t] = label[t] BY <1>2, OneModule
    <2> QED BY <2>1 DEF Earned, Backed, PackageHeld
  <1>10. MainEarned(t)' BY <1>2 DEF MainEarned
  <1>11. ReleaseFits(t)' BY DEF ReleaseFits
  <1> QED BY <1>4, <1>5, <1>6, <1>7, <1>8, <1>9, <1>10, <1>11

LEMMA PushNugetKeeps == ASSUME NEW t \in Tags, Typed, Inv(t), PushNuget(t) PROVE Inv(t)'
  <1>1. /\ UNCHANGED <<tree, artifacts, downloads, label, symbols, main, indexed, github, job>>
        /\ pc[t] = "push nuget" /\ pc'[t] \in {"push symbols", "failed"}
    BY DEF PushNuget, GotoIf, Goto, Typed, TypeOK
  <1>2. nuget[t] # None => nuget'[t] = nuget[t] BY DEF PushNuget, Typed, TypeOK
  <1>3. job[t] = "publish" BY <1>1 DEF Inv, StepFits
  <1> USE <1>1, <1>3 DEF artifacts, downloads, github, Inv
  <1>4. StepFits(t)' BY DEF StepFits
  <1>5. InputsFit(t)' BY DEF InputsFit
  <1>6. LabelFits(t)' BY DEF LabelFits, Holds
  <1>7. DownloadFits(t)' BY DEF DownloadFits
  <1>8. Recorded(t)' BY DEF Recorded
  <1>9. Earned(t)' BY <1>2 DEF Earned, Backed, PackageHeld
  <1>10. MainEarned(t)' BY DEF MainEarned
  <1>11. ReleaseFits(t)' BY DEF ReleaseFits
  <1> QED BY <1>4, <1>5, <1>6, <1>7, <1>8, <1>9, <1>10, <1>11

LEMMA PushSymbolsKeeps == ASSUME NEW t \in Tags, Typed, Inv(t), PushSymbols(t) PROVE Inv(t)'
  <1>1. /\ UNCHANGED <<tree, artifacts, downloads, label, nuget, main, indexed, github, job>>
        /\ pc[t] = "push symbols" /\ pc'[t] = "resolve"
        /\ symbols'[t] = IF symbols[t] = None THEN inputs[t].snupkg ELSE symbols[t]
    BY DEF PushSymbols, Goto, Typed, TypeOK
  <1>2. job[t] = "publish" BY <1>1 DEF Inv, StepFits
  <1>3. inputs[t].snupkg # None
    <2>1. inputs[t] \in Packs(tree[t]) BY <1>2 DEF Inv, InputsFit
    <2>2. tree[t] \in Sources BY DEF Typed
    <2> QED BY <2>1, <2>2, ReleaseAssumption
  <1>4. symbols'[t] # None /\ symbols'[t] = inputs[t].snupkg /\ (symbols[t] # None => symbols'[t] = symbols[t])
    BY <1>1, <1>3 DEF Inv, Recorded
  <1> USE <1>1, <1>2, <1>4 DEF artifacts, downloads, github, Inv
  <1>5. StepFits(t)' BY DEF StepFits
  <1>6. InputsFit(t)' BY DEF InputsFit
  <1>7. LabelFits(t)' BY DEF LabelFits, Holds
  <1>8. DownloadFits(t)' BY DEF DownloadFits
  <1>9. Recorded(t)' BY DEF Recorded, InputsFit
  <1>10. Earned(t)' BY DEF Earned, Backed, PackageHeld
  <1>11. MainEarned(t)' BY DEF MainEarned
  <1>12. ReleaseFits(t)' BY DEF ReleaseFits
  <1> QED BY <1>5, <1>6, <1>7, <1>8, <1>9, <1>10, <1>11, <1>12

LEMMA ResolveKeeps == ASSUME NEW t \in Tags, Typed, Inv(t), Resolve(t) PROVE Inv(t)'
  <1>1. UNCHANGED <<tree, inputs, verified, downloads, registries, github>> /\ pc[t] = "resolve"
    BY DEF Resolve
  <1>2. CASE ~(<<t, "bsr">> \in indexed /\ VerifyBsr(tree[t], label[t]))
    <2>1. FailsAt(t) BY <1>1, <1>2 DEF Resolve, Goto, FailsAt, StoresNothing, artifacts, Typed, TypeOK
    <2> QED BY <2>1, FailureKeeps
  <1>3. CASE <<t, "bsr">> \in indexed /\ VerifyBsr(tree[t], label[t])
    <2>1. coordinates'[t] = label[t] /\ job'[t] = "prove" /\ pc'[t] = "begin"
      BY <1>1, <1>3 DEF Resolve, Enter, Typed, TypeOK
    <2>2. job[t] = "publish" BY <1>1 DEF Inv, StepFits
    <2> USE <1>1, <1>3, <2>1, <2>2 DEF downloads, registries, github, Inv
    <2>3. StepFits(t)' BY DEF StepFits
    <2>4. InputsFit(t)' BY DEF InputsFit
    <2>5. LabelFits(t)' BY DEF LabelFits, Holds
    <2>6. DownloadFits(t)' BY DEF DownloadFits
    <2>7. Recorded(t)' BY DEF Recorded
    <2>8. Earned(t)' BY DEF Earned, Backed, PackageHeld
    <2>9. MainEarned(t)' BY DEF MainEarned
    <2>10. ReleaseFits(t)' BY DEF ReleaseFits
    <2> QED BY <2>3, <2>4, <2>5, <2>6, <2>7, <2>8, <2>9, <2>10
  <1> QED BY <1>2, <1>3

LEMMA IndexKeeps ==
  ASSUME NEW t \in Tags, NEW r \in Registries, Typed, Inv(t), Index(t, r) PROVE Inv(t)'
  <1>1. indexed \subseteq indexed' BY DEF Index
  <1> USE DEF Index, run, artifacts, downloads, github, Inv
  <1>2. StepFits(t)' BY DEF StepFits
  <1>3. InputsFit(t)' BY DEF InputsFit
  <1>4. LabelFits(t)' BY <1>1 DEF LabelFits, Holds
  <1>5. DownloadFits(t)' BY DEF DownloadFits
  <1>6. Recorded(t)' BY DEF Recorded
  <1>7. Earned(t)' BY DEF Earned, Backed, PackageHeld
  <1>8. MainEarned(t)' BY DEF MainEarned
  <1>9. ReleaseFits(t)' BY DEF ReleaseFits
  <1> QED BY <1>2, <1>3, <1>4, <1>5, <1>6, <1>7, <1>8, <1>9

\* The receipt is true when it is written.
LEMMA ReceiptEarned ==
  ASSUME NEW t \in Tags, Typed, Inv(t), pc[t] = "consume", job[t] = "prove", Consumable(t),
         ReceiptHolds(tree[t], t, coordinates[t], got[t]["bsr"], inputs[t].nupkg, got[t]["nuget"],
                      inputs[t].snupkg, Consumption(t)),
         NEW receipt,
         receipt = Receipt(tree[t], t, got[t]["bsr"], inputs[t].nupkg, got[t]["nuget"], inputs[t].snupkg)
  PROVE  /\ receipt.bsr = label[t] /\ receipt.bsr = LocalModuleFiles(tree[t])
         /\ receipt.public = CanonicalDigest(nuget[t])
         /\ receipt.local = receipt.public /\ receipt.local = CanonicalDigest(inputs[t].nupkg)
         /\ receipt.source = ExpectedPayload(tree[t]) /\ receipt.symbols = inputs[t].snupkg
         /\ PackageHeld(t)
  <1>1. /\ receipt.bsr = got[t]["bsr"] /\ receipt.local = CanonicalDigest(inputs[t].nupkg)
        /\ receipt.public = CanonicalDigest(got[t]["nuget"])
        /\ receipt.source = SourcePayload(inputs[t].nupkg) /\ receipt.symbols = inputs[t].snupkg
    BY DEF Receipt
  <1>2. VerifyBsr(tree[t], got[t]["bsr"]) /\ VerifyBsr(tree[t], label[t])
    BY DEF ReceiptHolds, Inv, Recorded
  <1>3. got[t]["bsr"] = label[t] /\ label[t] = LocalModuleFiles(tree[t])
    BY <1>2 DEF VerifyBsr
  <1>4. Validate(got[t]["nuget"], t) /\ VerifySourcePayload(got[t]["nuget"], tree[t])
    BY DEF ReceiptHolds
  <1>5. got[t]["nuget"] = nuget[t] /\ got[t]["nuget"] # None
    BY <1>4 DEF Validate, Inv, DownloadFits
  <1>6. CanonicalDigest(inputs[t].nupkg) = CanonicalDigest(got[t]["nuget"])
    BY DEF ReceiptHolds, ComparePackages, CanonicalDigest
  <1>7. SourcePayload(inputs[t].nupkg) = ExpectedPayload(tree[t])
    BY DEF ReceiptHolds, VerifySourcePayload
  <1>8. PackageHeld(t) BY <1>4, <1>5 DEF PackageHeld, CarriesTag
  <1> QED BY <1>1, <1>3, <1>5, <1>6, <1>7, <1>8

LEMMA ConsumeKeeps == ASSUME NEW t \in Tags, Typed, Inv(t), Consume(t) PROVE Inv(t)'
  <1> DEFINE Passes == /\ Consumable(t)
                       /\ ReceiptHolds(tree[t], t, coordinates[t], got[t]["bsr"], inputs[t].nupkg, got[t]["nuget"],
                                       inputs[t].snupkg, Consumption(t))
             Written == Receipt(tree[t], t, got[t]["bsr"], inputs[t].nupkg, got[t]["nuget"], inputs[t].snupkg)
  <1>1. UNCHANGED <<tree, inputs, coordinates, downloads, registries, github>> /\ pc[t] = "consume"
    BY DEF Consume
  <1>2. CASE ~Passes
    <2>1. FailsAt(t) BY <1>1, <1>2 DEF Consume, Goto, FailsAt, StoresNothing, artifacts, Typed, TypeOK
    <2> QED BY <2>1, FailureKeeps
  <1>3. CASE Passes
    <2>1. verified'[t] = Written /\ job'[t] = "release" /\ pc'[t] = "view"
      BY <1>1, <1>3 DEF Consume, Enter, Typed, TypeOK
    <2>2. job[t] = "prove" BY <1>1 DEF Inv, StepFits
    <2>3. /\ Written.bsr = label[t] /\ Written.bsr = LocalModuleFiles(tree[t])
          /\ Written.public = CanonicalDigest(nuget[t])
          /\ Written.local = Written.public /\ Written.local = CanonicalDigest(inputs[t].nupkg)
          /\ Written.source = ExpectedPayload(tree[t]) /\ Written.symbols = inputs[t].snupkg
          /\ PackageHeld(t)
      BY <1>1, <1>3, <2>2, ReceiptEarned
    <2> HIDE DEF Written, Passes
    <2> USE <1>1 DEF downloads, registries, github, Inv
    <2>4. StepFits(t)' BY <2>1 DEF StepFits
    <2>5. InputsFit(t)' BY <2>2 DEF InputsFit
    <2>6. LabelFits(t)' BY <2>1 DEF LabelFits, Holds
    <2>7. DownloadFits(t)' BY <2>1 DEF DownloadFits
    <2>8. Recorded(t)' BY <2>1 DEF Recorded
    <2>9. Earned(t)'
      <3>1. inputs'[t] # None /\ symbols'[t] # None BY <2>2 DEF InputsFit, Recorded
      <3>2. Backed(t)' BY <2>1, <2>2, <2>3 DEF Backed, Recorded
      <3>3. VerifyBsr(tree'[t], label'[t]) BY <2>2 DEF Recorded
      <3>4. PackageHeld(t)' BY <2>3 DEF PackageHeld
      <3> QED BY <3>1, <3>2, <3>3, <3>4 DEF Earned
    <2>10. MainEarned(t)' BY DEF MainEarned
    <2>11. ReleaseFits(t)' BY <2>1 DEF ReleaseFits
    <2> QED BY <2>4, <2>5, <2>6, <2>7, <2>8, <2>9, <2>10, <2>11
  <1> QED BY <1>2, <1>3

LEMMA ViewKeeps == ASSUME NEW t \in Tags, Typed, Inv(t), View(t) \/ ViewFails(t) PROVE Inv(t)'
  <1>1. /\ StoresNothing /\ job' = job /\ pc[t] = "view"
        /\ \/ pc'[t] \in {"create", "failed"}
           \/ pc'[t] = "check" /\ release[t] # None /\ release[t].target = "tagged"
    BY DEF View, ViewFails, Goto, StoresNothing, Typed, TypeOK
  <1> USE <1>1 DEF StoresNothing, artifacts, downloads, registries, github, Inv
  <1>2. StepFits(t)' BY DEF StepFits
  <1>3. InputsFit(t)' BY DEF InputsFit
  <1>4. LabelFits(t)' BY DEF LabelFits, Holds
  <1>5. DownloadFits(t)' BY DEF DownloadFits
  <1>6. Recorded(t)' BY DEF Recorded
  <1>7. Earned(t)' BY DEF Earned, Backed, PackageHeld
  <1>8. MainEarned(t)' BY DEF MainEarned
  <1>9. ReleaseFits(t)' BY DEF ReleaseFits
  <1> QED BY <1>2, <1>3, <1>4, <1>5, <1>6, <1>7, <1>8, <1>9

\* GitHub does not take a second release of a tag that has one.
Published(t) == release[t] # None /\ ~release[t].draft

LEMMA CreateKeeps == ASSUME NEW t \in Tags, Typed, Inv(t), Create(t) PROVE Inv(t)'
  <1>1. /\ UNCHANGED <<tree, artifacts, downloads, registries, latest, job>> /\ pc[t] = "create"
        /\ \/ pc'[t] = "failed" /\ release' = release
           \/ pc'[t] = "attach" /\ release'[t] = Drafted /\ ~Published(t)
    BY DEF Create, Goto, Typed, TypeOK, Published, Drafted
  <1>2. job[t] = "release" BY <1>1 DEF Inv, StepFits
  <1>3. Drafted # None /\ Drafted.target = "tagged" BY ReleaseRecords DEF Drafted
  <1>4. latest = t => Published(t)
    <2>1. Complete # None /\ ~Complete.draft BY ReleaseRecords DEF Complete
    <2> QED BY <2>1 DEF Published, Inv, ReleaseFits
  <1> USE <1>1, <1>2, <1>3, <1>4 DEF artifacts, downloads, registries, Inv
  <1>5. StepFits(t)' BY DEF StepFits
  <1>6. InputsFit(t)' BY DEF InputsFit
  <1>7. LabelFits(t)' BY DEF LabelFits, Holds
  <1>8. DownloadFits(t)' BY DEF DownloadFits
  <1>9. Recorded(t)' BY DEF Recorded
  <1>10. Earned(t)' BY DEF Earned, Backed, PackageHeld
  <1>11. MainEarned(t)' BY DEF MainEarned
  <1>12. ReleaseFits(t)' BY DEF ReleaseFits
  <1> QED BY <1>5, <1>6, <1>7, <1>8, <1>9, <1>10, <1>11, <1>12

LEMMA AttachKeeps == ASSUME NEW t \in Tags, Typed, Inv(t), Attach(t) PROVE Inv(t)'
  <1>1. UNCHANGED <<tree, artifacts, downloads, registries, job>> /\ pc[t] = "attach"
    BY DEF Attach, Goto, run
  <1>2. job[t] = "release" BY <1>1 DEF Inv, StepFits
  <1>3. \/ /\ release'[t] = Complete /\ latest' = t /\ pc'[t] = "check"
        \/ /\ release'[t] # None /\ release'[t].target = "tagged" /\ latest' = latest /\ latest # t /\ pc' = pc
    <2>1. release[t] \in GitHubRelease /\ release[t].target = "tagged"
      BY <1>1 DEF Typed, TypeOK, Inv, ReleaseFits
    <2>2. CASE release[t].assets = Assets
      <3>1. [release[t] EXCEPT !.draft = FALSE] = Complete BY <2>1, <2>2, PublishedRecord DEF Complete
      <3>2. release'[t] = Complete BY <2>2, <3>1 DEF Attach, Typed
      <3> QED BY <1>1, <2>2, <3>2 DEF Attach, Goto, Typed, TypeOK
    <2>3. CASE release[t].assets # Assets
      <3>1. PICK a \in Assets \ release[t].assets :
              release' = [release EXCEPT ![t].assets = @ \cup {a}]
        BY <2>3 DEF Attach
      <3>2. [release[t] EXCEPT !.assets = @ \cup {a}] \in GitHubRelease BY <2>1 DEF GitHubRelease
      <3>3. release'[t] = [release[t] EXCEPT !.assets = @ \cup {a}] BY <3>1 DEF Typed
      <3>4. release'[t].target = "tagged" BY <2>1, <3>3 DEF GitHubRelease
      <3>5. latest # t BY <2>3 DEF Inv, ReleaseFits, Complete
      <3> QED BY <2>3, <3>2, <3>3, <3>4, <3>5, ReleaseRecords DEF Attach, run
    <2> QED BY <2>2, <2>3
  <1> USE <1>1, <1>2, <1>3 DEF artifacts, downloads, registries, Inv
  <1>4. StepFits(t)' BY DEF StepFits
  <1>5. InputsFit(t)' BY DEF InputsFit
  <1>6. LabelFits(t)' BY DEF LabelFits, Holds
  <1>7. DownloadFits(t)' BY DEF DownloadFits
  <1>8. Recorded(t)' BY DEF Recorded
  <1>9. Earned(t)' BY DEF Earned, Backed, PackageHeld
  <1>10. MainEarned(t)' BY DEF MainEarned
  <1>11. ReleaseFits(t)' BY ReleaseRecords DEF ReleaseFits, Complete
  <1> QED BY <1>4, <1>5, <1>6, <1>7, <1>8, <1>9, <1>10, <1>11

LEMMA CheckReleaseKeeps == ASSUME NEW t \in Tags, Typed, Inv(t), CheckRelease(t) PROVE Inv(t)'
  <1>1. /\ StoresNothing /\ job' = job /\ pc[t] = "check"
        /\ pc'[t] = IF release[t].assets = Assets THEN "done" ELSE "failed"
    BY DEF CheckRelease, GotoIf, Goto, StoresNothing, Typed, TypeOK
  <1> USE <1>1 DEF StoresNothing, artifacts, downloads, registries, github, Inv
  <1>2. StepFits(t)' BY DEF StepFits
  <1>3. InputsFit(t)' BY DEF InputsFit
  <1>4. LabelFits(t)' BY DEF LabelFits, Holds
  <1>5. DownloadFits(t)' BY DEF DownloadFits
  <1>6. Recorded(t)' BY DEF Recorded
  <1>7. Earned(t)' BY DEF Earned, Backed, PackageHeld
  <1>8. MainEarned(t)' BY DEF MainEarned
  <1>9. ReleaseFits(t)' BY DEF ReleaseFits
  <1> QED BY <1>2, <1>3, <1>4, <1>5, <1>6, <1>7, <1>8, <1>9

LEMMA TagStepKeeps == ASSUME NEW t \in Tags, Typed, Inv(t), TagStep(t) PROVE Inv(t)'
  BY RerunFailedKeeps, RerunAllKeeps, BreaksKeeps, BuildKeeps, BeginKeeps, DownloadKeeps, DownloadBreaksKeeps,
     ProbeKeeps, PushBsrKeeps, PushNugetKeeps, PushSymbolsKeeps, ResolveKeeps, IndexKeeps, ConsumeKeeps,
     ViewKeeps, CreateKeeps, AttachKeeps, CheckReleaseKeeps
  DEF TagStep, Step, Environment

\* The inductive invariant holds throughout.
LEMMA IInvKept == ASSUME IInv, [Next]_vars PROVE IInv'
  <1>1. CASE UNCHANGED vars
    <2> USE <1>1 DEF vars, run, artifacts, downloads, registries, github
    <2>1. Typed' BY DEF IInv, Typed, TypeOK
    <2>2. ASSUME NEW u \in Tags PROVE Inv(u)'
      <3>1. Untouched(u) BY DEF Untouched
      <3> QED BY <3>1, UntouchedKeeps DEF IInv
    <2> QED BY <2>1, <2>2 DEF IInv
  <1>2. CASE Next
    <2>1. PICK t \in Tags : TagStep(t) BY <1>2 DEF Next, TagStep
    <2>2. Typed' BY <2>1, TypedKept DEF IInv, Inv
    <2>3. ASSUME NEW u \in Tags PROVE Inv(u)'
      <3>1. CASE u = t BY <2>1, <3>1, TagStepKeeps DEF IInv
      <3>2. CASE u # t BY <2>1, <3>2, OthersUntouched, UntouchedKeeps DEF IInv
      <3> QED BY <3>1, <3>2
    <2> QED BY <2>2, <2>3 DEF IInv
  <1> QED BY <1>1, <1>2

\* The inductive invariant holds in every state of every run.
THEOREM Invariant == Spec => []IInv
  <1>1. Init => IInv BY TypedInit, InvInit DEF IInv
  <1> QED BY <1>1, IInvKept, PTL DEF Spec

-----------------------------------------------------------------------------
(* The invariants the runs check.                                          *)

\* Types.
THEOREM TypeCorrect == Spec => []TypeOK
  <1>1. IInv => TypeOK BY DEF IInv, Typed
  <1> QED BY <1>1, Invariant, PTL

\* A receipt stays true of the registries.
THEOREM ReceiptsAreTrue == Spec => []ReceiptIsTrue
  <1>1. IInv => ReceiptIsTrue BY DEF IInv, Inv, Earned, ReceiptIsTrue
  <1> QED BY <1>1, Invariant, PTL

\* A green run left a complete release with a true receipt.
THEOREM GreenRunsAreComplete == Spec => []GreenIsComplete
  <1>1. ASSUME IInv, NEW t \in Tags, pc[t] = "done"
        PROVE  release[t].assets = Assets /\ release[t].target = "tagged" /\ Backed(t)
    <2>1. job[t] = "release" BY <1>1 DEF IInv, Inv, StepFits
    <2> QED BY <1>1, <2>1 DEF IInv, Inv, Earned, ReleaseFits
  <1>2. IInv => GreenIsComplete BY <1>1 DEF GreenIsComplete
  <1> QED BY <1>2, Invariant, PTL

LEMMA TaggedModule ==
  ASSUME IInv, NEW t \in Tags, VerifyBsr(tree[t], label[t]) PROVE BsrStanding(t) = "tagged"
  <1>1. label[t] = BsrModule(tree[t]) BY DEF VerifyBsr, BsrModule, LocalModuleFiles
  <1>2. tree[t] \in Sources BY DEF IInv, Typed
  <1>3. label[t] # None BY <1>1, <1>2, ReleaseAssumption
  <1> QED BY <1>3 DEF BsrStanding

\* Label main and the latest release were earned.
THEOREM DefaultsEarned == Spec => []DefaultsAreEarned
  <1>1. ASSUME IInv, main # None PROVE Contract(tree[main], main) /\ BsrStanding(main) = "tagged"
    <2>1. main \in Tags BY <1>1 DEF IInv, Typed, TypeOK
    <2>2. Contract(tree[main], main) /\ VerifyBsr(tree[main], label[main])
      BY <1>1, <2>1 DEF IInv, Inv, MainEarned
    <2> QED BY <1>1, <2>1, <2>2, TaggedModule
  <1>2. ASSUME IInv, latest # None PROVE release[latest] = Complete /\ Backed(latest)
    <2>1. latest \in Tags BY <1>2 DEF IInv, Typed, TypeOK
    <2> QED BY <1>2, <2>1 DEF IInv, Inv, Earned, ReleaseFits
  <1>3. IInv => DefaultsAreEarned BY <1>1, <1>2 DEF DefaultsAreEarned, Complete
  <1> QED BY <1>3, Invariant, PTL

-----------------------------------------------------------------------------
(* The release implements ReleasePromise.                                  *)

\* A step that changes no coordinate and no release is a stutter.
LEMMA SameStanding ==
  ASSUME tree' = tree, \A u \in Tags : label'[u] = label[u] /\ nuget'[u] = nuget[u],
         \A u \in Tags : release'[u] # None <=> release[u] # None
  PROVE  /\ [u \in Tags |-> BsrStanding(u)]' = [u \in Tags |-> BsrStanding(u)]
         /\ [u \in Tags |-> NugetStanding(u)]' = [u \in Tags |-> NugetStanding(u)]
         /\ [u \in Tags |-> release[u] # None]' = [u \in Tags |-> release[u] # None]
  <1>1. \A u \in Tags : BsrStanding(u)' = BsrStanding(u) BY DEF BsrStanding
  <1>2. \A u \in Tags : NugetStanding(u)' = NugetStanding(u) BY DEF NugetStanding
  <1> QED BY <1>1, <1>2

\* PushBsr fills an empty coordinate with what the tag says, or changes nothing.
LEMMA PushBsrStanding ==
  ASSUME IInv, NEW t \in Tags, PushBsr(t), label'[t] # label[t]
  PROVE  Promise!PublishBsr(t)
  <1>1. Typed /\ Inv(t) /\ DOMAIN label = Tags BY DEF IInv, Typed, TypeOK
  <1>2. got[t]["bsr"] = None /\ label' = [label EXCEPT ![t] = BsrModule(tree[t])] BY DEF PushBsr
  <1>3. VerifyBsr(tree[t], label'[t]) /\ label'[t] # None /\ (label[t] = None \/ label'[t] = label[t])
    BY <1>1, <1>2, PushedLabel
  <1>4. label[t] = None BY <1>3
  <1>5. UNCHANGED <<tree, nuget, release>> BY DEF PushBsr, github
  <1>6. BsrStanding(t) = "empty" BY <1>4 DEF BsrStanding
  <1>7. BsrStanding(t)' = "tagged" BY <1>3, <1>5 DEF BsrStanding
  <1>8. ASSUME NEW u \in Tags, u # t PROVE BsrStanding(u)' = BsrStanding(u)
    BY <1>1, <1>2, <1>5, <1>8 DEF BsrStanding
  <1>9. [u \in Tags |-> BsrStanding(u)]' = [[u \in Tags |-> BsrStanding(u)] EXCEPT ![t] = "tagged"]
    BY <1>7, <1>8
  <1>10. [u \in Tags |-> NugetStanding(u)]' = [u \in Tags |-> NugetStanding(u)]
    <2>1. \A u \in Tags : NugetStanding(u)' = NugetStanding(u) BY <1>5 DEF NugetStanding
    <2> QED BY <2>1
  <1>11. [u \in Tags |-> release[u] # None]' = [u \in Tags |-> release[u] # None] BY <1>5
  <1> QED BY <1>6, <1>9, <1>10, <1>11 DEF Promise!PublishBsr

\* PushNuget fills an empty coordinate with what the tag says.
LEMMA PushNugetStanding ==
  ASSUME IInv, NEW t \in Tags, PushNuget(t), nuget'[t] # nuget[t]
  PROVE  Promise!PublishNuget(t)
  <1>1. Typed /\ Inv(t) /\ DOMAIN nuget = Tags BY DEF IInv, Typed, TypeOK
  <1>2. nuget[t] = None /\ nuget' = [nuget EXCEPT ![t] = Sign(inputs[t].nupkg)] BY DEF PushNuget
  <1>3. inputs[t] \in Packs(tree[t]) /\ Admissible(tree[t], t, inputs[t])
    BY <1>1 DEF PushNuget, Inv, StepFits, InputsFit
  <1>4. nuget'[t] = Sign(inputs[t].nupkg) BY <1>1, <1>2
  <1>5. nuget'[t] # None /\ CarriesTag(tree[t], t, nuget'[t])
    BY <1>1, <1>3, <1>4, PublishedPackage DEF Typed
  <1>6. UNCHANGED <<tree, label, release>> BY DEF PushNuget, github
  <1>7. NugetStanding(t) = "empty" BY <1>2 DEF NugetStanding
  <1>8. NugetStanding(t)' = "tagged" BY <1>5, <1>6 DEF NugetStanding
  <1>9. ASSUME NEW u \in Tags, u # t PROVE NugetStanding(u)' = NugetStanding(u)
    BY <1>1, <1>2, <1>6, <1>9 DEF NugetStanding
  <1>10. [u \in Tags |-> NugetStanding(u)]' = [[u \in Tags |-> NugetStanding(u)] EXCEPT ![t] = "tagged"]
    BY <1>8, <1>9
  <1>11. [u \in Tags |-> BsrStanding(u)]' = [u \in Tags |-> BsrStanding(u)]
    <2>1. \A u \in Tags : BsrStanding(u)' = BsrStanding(u) BY <1>6 DEF BsrStanding
    <2> QED BY <2>1
  <1>12. [u \in Tags |-> release[u] # None]' = [u \in Tags |-> release[u] # None] BY <1>6
  <1> QED BY <1>7, <1>10, <1>11, <1>12 DEF Promise!PublishNuget

\* Create makes the release of a tag whose coordinates both hold what it says.
LEMMA CreateStanding ==
  ASSUME IInv, NEW t \in Tags, Create(t), release[t] = None
  PROVE  Promise!Release(t)
  <1>1. Typed /\ Inv(t) /\ DOMAIN release = Tags BY DEF IInv, Typed
  <1>2. job[t] = "release" BY <1>1 DEF Create, Inv, StepFits
  <1>3. VerifyBsr(tree[t], label[t]) /\ PackageHeld(t) BY <1>1, <1>2 DEF Inv, Earned
  <1>4. BsrStanding(t) = "tagged" BY <1>3, TaggedModule
  <1>5. NugetStanding(t) = "tagged" BY <1>3 DEF PackageHeld, NugetStanding
  <1>6. UNCHANGED <<tree, label, nuget>> BY DEF Create, registries
  <1>7. release' = [release EXCEPT ![t] = Drafted] BY DEF Create, Drafted
  <1>8. release'[t] # None BY <1>1, <1>7, ReleaseRecords
  <1>9. ASSUME NEW u \in Tags, u # t PROVE release'[u] = release[u] BY <1>1, <1>7, <1>9
  <1>10. [u \in Tags |-> release[u] # None]' = [[u \in Tags |-> release[u] # None] EXCEPT ![t] = TRUE]
    BY <1>8, <1>9
  <1>11. [u \in Tags |-> BsrStanding(u)]' = [u \in Tags |-> BsrStanding(u)]
    <2>1. \A u \in Tags : BsrStanding(u)' = BsrStanding(u) BY <1>6 DEF BsrStanding
    <2> QED BY <2>1
  <1>12. [u \in Tags |-> NugetStanding(u)]' = [u \in Tags |-> NugetStanding(u)]
    <2>1. \A u \in Tags : NugetStanding(u)' = NugetStanding(u) BY <1>6 DEF NugetStanding
    <2> QED BY <2>1
  <1> QED BY <1>2, <1>4, <1>5, <1>10, <1>11, <1>12 DEF Promise!Release

\* Every other step is a stutter of the promise.
LEMMA OtherStanding ==
  ASSUME IInv, NEW t \in Tags, TagStep(t), ~(Create(t) /\ release[t] = None),
         label'[t] = label[t], nuget'[t] = nuget[t]
  PROVE  UNCHANGED Promise!vars
  <1>1. Typed /\ Inv(t) BY DEF IInv
  <1>2. \A u \in Tags \ {t} : Untouched(u) BY <1>1, OthersUntouched
  <1>3. tree' = tree
    BY DEF TagStep, Step, Environment, RerunFailed, RerunAll, Breaks, Build, Begin, Download, DownloadBreaks, Probe,
           PushBsr, PushNuget, PushSymbols, Resolve, Index, Consume, View, ViewFails, Create, Attach, CheckRelease
  <1>4. release'[t] # None <=> release[t] # None
    <2>1. CASE Attach(t)
      <3>1. release[t] # None /\ Inv(t)' BY <1>1, <2>1, AttachKeeps DEF Attach, Inv, ReleaseFits
      <3>2. Typed' BY <1>1, TypedKept DEF Inv
      <3>3. pc'[t] = "attach" \/ latest' = t BY <2>1 DEF Attach, Goto, run
      <3>4. latest' = t => release'[t] = Complete BY <3>1 DEF Inv, ReleaseFits
      <3>5. pc'[t] = "attach" => release'[t] # None BY <3>1 DEF Inv, ReleaseFits
      <3> QED BY <3>1, <3>3, <3>4, <3>5, ReleaseRecords
    <2>2. CASE Create(t)
      <3>1. release[t] # None BY <2>2
      <3>2. release'[t] = release[t] \/ release'[t] = Drafted BY <1>1, <2>2 DEF Create, Drafted, Typed
      <3> QED BY <3>1, <3>2, ReleaseRecords
    <2>3. CASE ~Attach(t) /\ ~Create(t)
      <3>1. release' = release
        BY <2>3 DEF TagStep, Step, Environment, RerunFailed, RerunAll, Breaks, Build, Begin, Download, DownloadBreaks,
                    Probe, PushBsr, PushNuget, PushSymbols, Resolve, Index, Consume, View, ViewFails, CheckRelease, github
      <3> QED BY <3>1
    <2> QED BY <2>1, <2>2, <2>3
  <1>5. \A u \in Tags : label'[u] = label[u] /\ nuget'[u] = nuget[u] BY <1>2 DEF Untouched
  <1>6. \A u \in Tags : release'[u] # None <=> release[u] # None BY <1>2, <1>4 DEF Untouched
  <1> QED BY <1>3, <1>5, <1>6, SameStanding DEF Promise!vars

LEMMA PromiseInit == ASSUME Init PROVE Promise!Init
  <1>1. [u \in Tags |-> BsrStanding(u)] \in [Tags -> {"empty", "tagged", "other"}] BY DEF BsrStanding
  <1>2. [u \in Tags |-> NugetStanding(u)] \in [Tags -> {"empty", "tagged", "other"}] BY DEF NugetStanding
  <1>3. [u \in Tags |-> release[u] # None] \in [Tags -> BOOLEAN] OBVIOUS
  <1> QED BY <1>1, <1>2, <1>3 DEF Promise!Init, Promise!Standings

LEMMA PromiseStep == ASSUME IInv, [Next]_vars PROVE [Promise!Next]_(Promise!vars)
  <1>1. CASE UNCHANGED vars
    BY <1>1, SameStanding DEF vars, registries, github, Promise!vars
  <1>2. CASE Next
    <2>1. PICK t \in Tags : TagStep(t) BY <1>2 DEF Next, TagStep
    <2>2. CASE PushBsr(t) /\ label'[t] # label[t]
      <3>1. Promise!PublishBsr(t) BY <2>2, PushBsrStanding
      <3> QED BY <3>1 DEF Promise!Next
    <2>3. CASE PushNuget(t) /\ nuget'[t] # nuget[t]
      <3>1. Promise!PublishNuget(t) BY <2>3, PushNugetStanding
      <3> QED BY <3>1 DEF Promise!Next
    <2>4. CASE Create(t) /\ release[t] = None
      <3>1. Promise!Release(t) BY <2>4, CreateStanding
      <3> QED BY <3>1 DEF Promise!Next
    <2>5. label'[t] # label[t] => PushBsr(t)
      BY <2>1 DEF TagStep, Step, Environment, RerunFailed, RerunAll, Breaks, Build, Begin, Download, DownloadBreaks,
                  Probe, PushNuget, PushSymbols, Resolve, Index, Consume, View, ViewFails, Create, Attach, CheckRelease, registries
    <2>6. nuget'[t] # nuget[t] => PushNuget(t)
      BY <2>1 DEF TagStep, Step, Environment, RerunFailed, RerunAll, Breaks, Build, Begin, Download, DownloadBreaks,
                  Probe, PushBsr, PushSymbols, Resolve, Index, Consume, View, ViewFails, Create, Attach, CheckRelease, registries
    <2> QED BY <2>1, <2>2, <2>3, <2>4, <2>5, <2>6, OtherStanding
  <1> QED BY <1>1, <1>2

\* The release, with its re-runs, implements the promise made to its consumers.
THEOREM ReleaseKeepsPromise == Spec => PromiseKept
  <1>1. Init => Promise!Init BY PromiseInit
  <1>2. IInv /\ [Next]_vars => [Promise!Next]_(Promise!vars) BY PromiseStep
  <1> QED BY <1>1, <1>2, Invariant, PTL DEF Spec, PromiseKept, Promise!Spec
=============================================================================
