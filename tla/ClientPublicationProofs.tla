---------------------- MODULE ClientPublicationProofs ----------------------
(***************************************************************************)
(* Proofs about the publication of the generated clients: types, and that  *)
(* racing runs never mix their builds, for every set of contents and any   *)
(* number of failures.                                                     *)
(***************************************************************************)
EXTENDS ClientPublication, TLAPS

-----------------------------------------------------------------------------
(* The inductive invariant.                                                *)

\* A run past its build job has a build.
HasBuild(r) ==
  /\ pc[r] = "build" => job[r] = "build"
  /\ pc[r] \in {"guard", "upload"} => job[r] = "publish"
  /\ pc[r] \in {"prove", "done"} => job[r] = "prove"
  /\ job[r] # "build" => built[r] \in [Files(client) -> Contents]

\* The files a run went past are public as it built them.
Wrote(r) == pc[r] \in {"guard", "upload"} =>
  \A i \in DOMAIN Uploads : i < next[r] => public[Uploads[i]] = built[r][Uploads[i]]

Matches(r) == \A f \in Files(client) : public[f] = built[r][f]
Compared(r) == pc[r] = "done" \/ (client = "dotnet" /\ job[r] = "prove") => Matches(r)

\* No file is public before those that are uploaded before it.
InOrder == \A i, j \in DOMAIN Uploads :
  i < j /\ public[Uploads[j]] # None => public[Uploads[i]] # None

IInv ==
  /\ TypeOK /\ InOrder /\ OneBuildPerCoordinate
  /\ \A r \in Publishes(client) : HasBuild(r) /\ Wrote(r) /\ Compared(r)

-----------------------------------------------------------------------------
(* The order of the uploads.                                               *)

LEMMA UploadFacts ==
  ASSUME client \in Clients
  PROVE  /\ Len(Uploads) \in Nat \ {0} /\ DOMAIN Uploads = 1..Len(Uploads)
         /\ \A i \in DOMAIN Uploads : Uploads[i] \in Files(client)
         /\ \A f \in Files(client) : \E i \in DOMAIN Uploads : f = Uploads[i]
         /\ \A i, j \in DOMAIN Uploads : Uploads[i] = Uploads[j] => i = j
  <1>1. Uploads \in {<<"wheel", "sdist">>, <<"tarball">>, <<"nupkg">>}
    <2>1. CASE client = "python" BY <2>1 DEF Uploads, UploadOrder
    <2>2. CASE client = "typescript" BY <2>2 DEF Uploads, UploadOrder
    <2>3. CASE client \notin {"python", "typescript"} BY <2>3 DEF Uploads, UploadOrder
    <2> QED BY <2>1, <2>2, <2>3
  <1>2. Files(client) = {Uploads[i] : i \in DOMAIN Uploads} BY DEF Files, Uploads
  <1>3. CASE Uploads = <<"wheel", "sdist">>
    <2>1. Len(Uploads) = 2 /\ DOMAIN Uploads = 1..2 /\ Uploads[1] = "wheel" /\ Uploads[2] = "sdist" BY <1>3
    <2> QED BY <1>2, <2>1
  <1>4. CASE Uploads = <<"tarball">>
    <2>1. Len(Uploads) = 1 /\ DOMAIN Uploads = 1..1 BY <1>4
    <2> QED BY <1>2, <2>1
  <1>5. CASE Uploads = <<"nupkg">>
    <2>1. Len(Uploads) = 1 /\ DOMAIN Uploads = 1..1 BY <1>5
    <2> QED BY <1>2, <2>1
  <1> QED BY <1>1, <1>3, <1>4, <1>5

-----------------------------------------------------------------------------
(* Uploading one file.                                                     *)

\* A public file never changes.
Immutable == \A f \in Files(client) : public[f] # None => public'[f] = public[f]

Stores(r) ==
  LET f == Uploads[next[r]]
  IN  Accepts(f, built[r][f]) /\ public' = [public EXCEPT ![f] = built[r][f]]

LEMMA StoredFile ==
  ASSUME IInv, NEW r \in Publishes(client), pc[r] = "upload", Stores(r)
  PROVE  /\ Uploads[next[r]] \in Files(client) /\ next[r] \in DOMAIN Uploads
         /\ built[r] \in [Files(client) -> Contents]
         /\ public'[Uploads[next[r]]] = built[r][Uploads[next[r]]]
         /\ built[r][Uploads[next[r]]] # None
         /\ \A f \in Files(client) : f # Uploads[next[r]] => public'[f] = public[f]
         /\ Immutable
         /\ public' \in [Files(client) -> Contents \cup {None}]
  <1> DEFINE f == Uploads[next[r]]
  <1>1. client \in Clients BY DEF IInv, TypeOK
  <1>2. next[r] \in DOMAIN Uploads BY <1>1, UploadFacts DEF IInv, TypeOK
  <1>3. f \in Files(client) BY <1>1, <1>2, UploadFacts
  <1>4. built[r] \in [Files(client) -> Contents] BY DEF IInv, HasBuild
  <1>5. built[r][f] \in Contents /\ built[r][f] # None BY <1>3, <1>4, ClientAssumption
  <1>6. public \in [Files(client) -> Contents \cup {None}] BY DEF IInv, TypeOK
  <1>7. public' = [public EXCEPT ![f] = built[r][f]] /\ (public[f] = None \/ public[f] = built[r][f])
    BY DEF Stores, Accepts
  <1> HIDE DEF f
  <1>8. public'[f] = built[r][f] /\ \A g \in Files(client) : g # f => public'[g] = public[g]
    BY <1>3, <1>6, <1>7
  <1>9. Immutable BY <1>3, <1>7, <1>8 DEF Immutable
  <1>10. public' \in [Files(client) -> Contents \cup {None}] BY <1>3, <1>5, <1>6, <1>7
  <1> QED BY <1>2, <1>3, <1>4, <1>5, <1>8, <1>9, <1>10 DEF f

LEMMA StoredInOrder ==
  ASSUME IInv, NEW r \in Publishes(client), pc[r] = "upload", Stores(r), client' = client
  PROVE  InOrder'
  <1>1. client \in Clients /\ Uploads' = Uploads BY DEF IInv, TypeOK, Uploads
  <1>2. SUFFICES ASSUME NEW i \in DOMAIN Uploads, NEW j \in DOMAIN Uploads, i < j, public'[Uploads[j]] # None
                 PROVE  public'[Uploads[i]] # None
    BY <1>1 DEF InOrder
  <1>3. Uploads[i] \in Files(client) /\ Uploads[j] \in Files(client) BY <1>1, UploadFacts
  <1>4. public[Uploads[i]] # None => public'[Uploads[i]] # None BY <1>3, StoredFile DEF Immutable
  <1>5. CASE Uploads[j] = Uploads[next[r]]
    <2>1. j = next[r] BY <1>1, <1>5, StoredFile, UploadFacts
    <2>2. public[Uploads[i]] = built[r][Uploads[i]] BY <1>2, <2>1 DEF IInv, Wrote
    <2>3. built[r][Uploads[i]] # None BY <1>3, StoredFile, ClientAssumption
    <2> QED BY <1>4, <2>2, <2>3
  <1>6. CASE Uploads[j] # Uploads[next[r]]
    <2>1. public[Uploads[j]] # None BY <1>2, <1>3, <1>6, StoredFile
    <2> QED BY <1>2, <1>4, <2>1 DEF IInv, InOrder
  <1> QED BY <1>5, <1>6

\* The file goes with the files of the same build, or was there.
LEMMA StoredOneBuild ==
  ASSUME IInv, NEW r \in Publishes(client), pc[r] = "upload", Stores(r),
         UNCHANGED <<client, built>>, DOMAIN job' = DOMAIN job, \A s \in DOMAIN job : job[s] # "build" => job'[s] # "build"
  PROVE  OneBuildPerCoordinate'
  <1> DEFINE f == Uploads[next[r]]
  <1>1. client \in Clients /\ Files(client)' = Files(client) /\ DOMAIN job = Publishes(client)
    BY DEF IInv, TypeOK
  <1>2. f \in Files(client) /\ \A g \in Files(client) : g # f => public'[g] = public[g] BY StoredFile
  <1>3. public'[f] = built[r][f] BY StoredFile
  <1>4. CASE public[f] = None
    <2>1. ASSUME NEW g \in Files(client) PROVE public'[g] \in {built[r][g], None}
      <3>1. PICK i \in DOMAIN Uploads : g = Uploads[i] BY <1>1, UploadFacts
      <3>2. next[r] \in DOMAIN Uploads BY StoredFile
      <3>3. i \in Nat /\ next[r] \in Nat BY <1>1, <3>2, UploadFacts
      <3>4. CASE i < next[r]
        <4>1. public[g] = built[r][g] BY <3>1, <3>4 DEF IInv, Wrote
        <4> QED BY <1>2, <1>3, <4>1
      <3>5. CASE i = next[r] BY <1>3, <3>1, <3>5
      <3>6. CASE next[r] < i
        <4>1. public[g] = None BY <1>4, <3>1, <3>2, <3>6 DEF IInv, InOrder
        <4> QED BY <1>2, <1>3, <4>1
      <3> QED BY <3>3, <3>4, <3>5, <3>6
    <2>2. job'[r] # "build" BY <1>1 DEF IInv, HasBuild
    <2> QED BY <1>1, <2>1, <2>2 DEF OneBuildPerCoordinate, FromBuild
  <1>5. CASE public[f] # None
    <2>1. \A g \in Files(client) : public'[g] = public[g] BY <1>2, <1>5, StoredFile DEF Immutable
    <2>2. OneBuildPerCoordinate BY DEF IInv
    <2> QED BY <1>1, <2>1, <2>2 DEF OneBuildPerCoordinate, FromBuild
  <1> QED BY <1>4, <1>5

-----------------------------------------------------------------------------
(* What one step leaves alone.                                             *)

\* A run that does not move keeps its part of the invariant while files appear.
LEMMA IdleRunKeeps ==
  ASSUME IInv, NEW s \in Publishes(client), client' = client, Immutable,
         job'[s] = job[s], pc'[s] = pc[s], next'[s] = next[s], built'[s] = built[s]
  PROVE  HasBuild(s)' /\ Wrote(s)' /\ Compared(s)'
  <1>1. client \in Clients /\ Uploads' = Uploads /\ Files(client)' = Files(client)
    BY DEF IInv, TypeOK, Uploads
  <1>2. HasBuild(s)' BY DEF IInv, HasBuild
  <1>3. ASSUME NEW f \in Files(client), job[s] # "build", public[f] = built[s][f] PROVE public'[f] = built[s][f]
    <2>1. built[s] \in [Files(client) -> Contents] BY <1>3 DEF IInv, HasBuild
    <2>2. public[f] # None BY <1>3, <2>1, ClientAssumption
    <2> QED BY <1>3, <2>2 DEF Immutable
  <1>4. Wrote(s)'
    <2>1. SUFFICES ASSUME pc[s] \in {"guard", "upload"}, NEW i \in DOMAIN Uploads, i < next[s]
                   PROVE  public'[Uploads[i]] = built[s][Uploads[i]]
      BY <1>1 DEF Wrote
    <2>2. public[Uploads[i]] = built[s][Uploads[i]] /\ job[s] # "build" BY <2>1 DEF IInv, Wrote, HasBuild
    <2>3. Uploads[i] \in Files(client) BY <1>1, UploadFacts
    <2> QED BY <1>3, <2>2, <2>3
  <1>5. Compared(s)'
    <2>1. pc[s] = "done" => job[s] = "prove" BY DEF IInv, HasBuild
    <2>2. Compared(s) BY DEF IInv
    <2> QED BY <1>1, <1>3, <2>1, <2>2 DEF Compared, Matches
  <1> QED BY <1>2, <1>4, <1>5

\* The coordinate keeps its part while no file changes.
LEMMA SameFilesKeep ==
  ASSUME IInv, UNCHANGED <<client, public>>, DOMAIN job' = DOMAIN job,
         \A s \in DOMAIN job : job[s] # "build" => job'[s] # "build" /\ built'[s] = built[s]
  PROVE  InOrder' /\ OneBuildPerCoordinate'
  <1>1. InOrder' BY DEF IInv, InOrder, Uploads
  <1>2. OneBuildPerCoordinate' BY DEF IInv, OneBuildPerCoordinate, FromBuild
  <1> QED BY <1>1, <1>2

OthersIdle(r) == \A s \in Publishes(client) \ {r} :
  job'[s] = job[s] /\ pc'[s] = pc[s] /\ next'[s] = next[s] /\ built'[s] = built[s]

LEMMA OthersKeep ==
  ASSUME IInv, NEW r \in Publishes(client), client' = client, Immutable, OthersIdle(r)
  PROVE  \A s \in Publishes(client) \ {r} : HasBuild(s)' /\ Wrote(s)' /\ Compared(s)'
  BY IdleRunKeeps DEF OthersIdle

LEMMA FirstUpload == client \in Clients => 1 \in 1..Len(Uploads)
  BY UploadFacts

\* Before the first file there is nothing to have gone past.
LEMMA NothingPassed ==
  ASSUME client \in Clients, client' = client, NEW r, next'[r] = 1
  PROVE  Wrote(r)'
  <1>1. \A i \in DOMAIN Uploads : ~(i < 1) BY UploadFacts
  <1>2. Uploads' = Uploads BY DEF Uploads
  <1> QED BY <1>1, <1>2 DEF Wrote

-----------------------------------------------------------------------------
(* Each action keeps the invariant.                                        *)

LEMMA InitKeeps == ASSUME Init PROVE IInv
  <1> USE DEF Init
  <1>1. 1 \in 1..Len(Uploads) BY FirstUpload
  <1>2. PICK c \in Contents \cup {None} : public = [f \in Files(client) |-> c] OBVIOUS
  <1>3. TypeOK BY <1>1, <1>2, ClientAssumption DEF TypeOK
  <1>4. InOrder BY <1>2, UploadFacts DEF InOrder
  <1>5. OneBuildPerCoordinate BY <1>2 DEF OneBuildPerCoordinate
  <1>6. \A r \in Publishes(client) : HasBuild(r) /\ Wrote(r) /\ Compared(r)
    BY DEF HasBuild, Wrote, Compared
  <1> QED BY <1>3, <1>4, <1>5, <1>6 DEF IInv

LEMMA BuildKeeps == ASSUME IInv, NEW r \in Publishes(client), Build(r) PROVE IInv'
  <1>1. TypeOK /\ UNCHANGED <<client, form, public, served, faults>> /\ pc[r] = "build" /\ job[r] = "build"
    BY DEF Build, registry, IInv, HasBuild
  <1>2. \/ \E b \in [Files(client) -> Contents] : built' = [built EXCEPT ![r] = b] /\ Enter(r, "publish")
        \/ Goto(r, "failed") /\ UNCHANGED built
    BY DEF Build
  <1>3. TypeOK'
    <2>1. CASE Goto(r, "failed") /\ UNCHANGED built BY <1>1, <2>1 DEF Goto, TypeOK, Uploads
    <2>2. ASSUME NEW b \in [Files(client) -> Contents], built' = [built EXCEPT ![r] = b], Enter(r, "publish")
          PROVE  TypeOK'
      <3>1. 1 \in 1..Len(Uploads) BY <1>1, FirstUpload DEF TypeOK
      <3> QED BY <1>1, <2>2, <3>1 DEF Enter, First, TypeOK, Uploads
    <2> QED BY <1>2, <2>1, <2>2
  <1>4. DOMAIN job' = DOMAIN job /\ OthersIdle(r) /\ Immutable
    BY <1>1, <1>2 DEF Goto, Enter, TypeOK, OthersIdle, Immutable
  <1>5. InOrder' /\ OneBuildPerCoordinate'
    <2>1. \A s \in DOMAIN job : job[s] # "build" => job'[s] # "build" /\ built'[s] = built[s]
      BY <1>1, <1>4 DEF OthersIdle, TypeOK
    <2> QED BY <1>1, <1>4, <2>1, SameFilesKeep
  <1>6. HasBuild(r)' /\ Wrote(r)' /\ Compared(r)'
    <2>1. \/ pc'[r] = "failed" /\ job'[r] = "build"
          \/ pc'[r] = "guard" /\ job'[r] = "publish" /\ built'[r] \in [Files(client) -> Contents] /\ next'[r] = 1
      BY <1>1, <1>2 DEF Goto, Enter, First, TypeOK
    <2>2. next'[r] = 1 => Wrote(r)' BY <1>1, NothingPassed DEF TypeOK
    <2> QED BY <1>1, <2>1, <2>2 DEF HasBuild, Wrote, Compared
  <1> QED BY <1>1, <1>3, <1>4, <1>5, <1>6, OthersKeep DEF IInv

\* A step that moves one run and touches no file.
LEMMA MoveKeeps ==
  ASSUME IInv, NEW r \in Publishes(client), UNCHANGED <<client, form, built, registry>>,
         TypeOK', OthersIdle(r), job[r] # "build" => job'[r] # "build",
         HasBuild(r)' /\ Wrote(r)' /\ Compared(r)'
  PROVE  IInv'
  <1>1. Immutable /\ UNCHANGED public BY DEF Immutable, registry
  <1>2. DOMAIN job' = DOMAIN job /\ DOMAIN job = Publishes(client) BY DEF TypeOK, IInv
  <1>3. \A s \in DOMAIN job : job[s] # "build" => job'[s] # "build" /\ built'[s] = built[s]
    BY <1>2 DEF OthersIdle
  <1>4. InOrder' /\ OneBuildPerCoordinate' BY <1>1, <1>2, <1>3, SameFilesKeep
  <1> QED BY <1>1, <1>4, OthersKeep DEF IInv

LEMMA GuardKeeps == ASSUME IInv, NEW r \in Publishes(client), Guard(r) PROVE IInv'
  <1>1. TypeOK /\ UNCHANGED <<client, form, built, registry, faults>> /\ job[r] = "publish"
        /\ built[r] \in [Files(client) -> Contents]
    BY DEF Guard, IInv, HasBuild
  <1>2. \/ Goto(r, "upload")
        \/ Goto(r, "failed")
        \/ Enter(r, "prove") /\ (client = "dotnet" => Matches(r))
    BY DEF Guard
  <1>3. 1 \in 1..Len(Uploads) BY <1>1, FirstUpload DEF TypeOK
  <1>4. TypeOK' /\ OthersIdle(r)
    BY <1>1, <1>2, <1>3 DEF Goto, Enter, First, TypeOK, OthersIdle, registry, Uploads
  <1>5. \/ pc'[r] = "upload" /\ job'[r] = "publish" /\ next'[r] = next[r]
        \/ pc'[r] = "failed" /\ job'[r] = "publish"
        \/ pc'[r] = "prove" /\ job'[r] = "prove" /\ (client = "dotnet" => Matches(r))
    BY <1>1, <1>2 DEF Goto, Enter, First, TypeOK
  <1>6. Wrote(r)'
    BY <1>1, <1>5 DEF Wrote, Guard, IInv, registry, Uploads
  <1>7. HasBuild(r)' /\ Compared(r)'
    BY <1>1, <1>5 DEF HasBuild, Compared, Matches, registry
  <1> QED BY <1>1, <1>4, <1>5, <1>6, <1>7, MoveKeeps

LEMMA ProveKeeps == ASSUME IInv, NEW r \in Publishes(client), Prove(r) PROVE IInv'
  <1>1. TypeOK /\ UNCHANGED <<client, form, built, registry, faults>> /\ job[r] = "prove"
        /\ built[r] \in [Files(client) -> Contents] /\ Compared(r)
    BY DEF Prove, IInv, HasBuild
  <1>2. Goto(r, IF client = "dotnet" \/ Identical(r) THEN "done" ELSE "failed") BY DEF Prove, GotoIf
  <1>3. TypeOK' /\ OthersIdle(r) BY <1>1, <1>2 DEF Goto, TypeOK, OthersIdle, registry, Uploads
  <1>4. /\ job'[r] = "prove" /\ pc'[r] \in {"done", "failed"}
        /\ pc'[r] = "done" => Matches(r)
    BY <1>1, <1>2 DEF Goto, TypeOK, Compared, Identical, Matches
  <1>5. HasBuild(r)' /\ Wrote(r)' /\ Compared(r)'
    BY <1>1, <1>4 DEF HasBuild, Wrote, Compared, Matches, registry
  <1> QED BY <1>1, <1>3, <1>4, <1>5, MoveKeeps
LEMMA BreaksKeeps == ASSUME IInv, NEW r \in Publishes(client), Breaks(r) PROVE IInv'
  <1>1. TypeOK /\ UNCHANGED <<client, form, built, registry>> /\ pc'[r] = "failed" /\ next'[r] = 1
        /\ pc[r] \notin {"failed", "done"} /\ Compared(r) /\ HasBuild(r)
    BY DEF Breaks, IInv, TypeOK
  <1>2. job'[r] = IF client = "dotnet" /\ job[r] = "prove" THEN "publish" ELSE job[r]
    BY <1>1 DEF Breaks, TypeOK
  <1>3. 1 \in 1..Len(Uploads) /\ MaxFaults \in Nat BY <1>1, FirstUpload, ClientAssumption DEF TypeOK
  <1>4. OthersIdle(r) BY <1>1 DEF Breaks, TypeOK, OthersIdle
  <1>5. TypeOK'
    <2>1. job'[r] \in {"build", "publish", "prove"} BY <1>1, <1>2 DEF TypeOK
    <2>2. job' \in [Publishes(client) -> {"build", "publish", "prove"}] BY <1>1, <1>2, <2>1 DEF Breaks, TypeOK
    <2>3. pc' \in [Publishes(client) -> {"build", "guard", "upload", "prove", "failed", "done"}]
      BY <1>1 DEF Breaks, TypeOK
    <2>4. next' \in [Publishes(client) -> 1..Len(Uploads)] BY <1>1, <1>3 DEF Breaks, TypeOK
    <2>5. faults' \in 0..MaxFaults BY <1>1, <1>3 DEF Breaks, TypeOK
    <2> QED BY <1>1, <2>2, <2>3, <2>4, <2>5 DEF TypeOK, registry, Uploads
  <1>6. Wrote(r)' BY <1>1, NothingPassed DEF TypeOK
  <1>7. HasBuild(r)' BY <1>1, <1>2 DEF HasBuild
  <1>8. Compared(r)' BY <1>1, <1>2 DEF Compared
  <1>9. job[r] # "build" => job'[r] # "build" BY <1>2
  <1> QED BY <1>1, <1>4, <1>5, <1>6, <1>7, <1>8, <1>9, MoveKeeps

LEMMA RerunFailedKeeps == ASSUME IInv, NEW r \in Publishes(client), RerunFailed(r) PROVE IInv'
  <1>1. TypeOK /\ UNCHANGED <<client, form, built, registry, faults>> /\ Compared(r) /\ HasBuild(r)
        /\ Enter(r, job[r])
    BY DEF RerunFailed, IInv
  <1>2. 1 \in 1..Len(Uploads) BY <1>1, FirstUpload DEF TypeOK
  <1>3. job'[r] = job[r] /\ pc'[r] = First(job[r]) /\ next'[r] = 1 BY <1>1 DEF Enter, TypeOK
  <1>4. OthersIdle(r) BY <1>1 DEF Enter, TypeOK, OthersIdle
  <1>5. TypeOK' BY <1>1, <1>2 DEF Enter, First, TypeOK, registry, Uploads
  <1>6. Wrote(r)' BY <1>1, <1>3, NothingPassed DEF TypeOK
  <1>7. HasBuild(r)' BY <1>1, <1>3 DEF HasBuild, First, TypeOK
  <1>8. Compared(r)' BY <1>1, <1>3 DEF Compared, Matches, First, TypeOK, registry
  <1> QED BY <1>1, <1>3, <1>4, <1>5, <1>6, <1>7, <1>8, MoveKeeps

LEMMA ServeKeeps == ASSUME IInv, NEW f \in DOMAIN public, Serve(f) PROVE IInv'
  <1>1. TypeOK /\ UNCHANGED <<client, form, job, pc, next, built, public, faults>>
        /\ DOMAIN public = Files(client)
    BY DEF Serve, progress, IInv, TypeOK
  <1>2. TypeOK' BY <1>1 DEF Serve, TypeOK, Uploads
  <1>3. Immutable BY <1>1 DEF Immutable
  <1>4. InOrder' /\ OneBuildPerCoordinate' BY <1>1, SameFilesKeep
  <1>5. \A r \in Publishes(client) : HasBuild(r)' /\ Wrote(r)' /\ Compared(r)'
    BY <1>1, <1>3, IdleRunKeeps
  <1> QED BY <1>1, <1>2, <1>4, <1>5 DEF IInv

\* A stored file keeps the invariant of the run that stored it, whatever its next step.
LEMMA StoreKeeps ==
  ASSUME IInv, NEW r \in Publishes(client), pc[r] = "upload", Stores(r),
         UNCHANGED <<client, form, built, served>>, OthersIdle(r),
         TypeOK', job[r] # "build" => job'[r] # "build",
         HasBuild(r)' /\ Wrote(r)' /\ Compared(r)'
  PROVE  IInv'
  <1>1. DOMAIN job' = DOMAIN job /\ DOMAIN job = Publishes(client) BY DEF TypeOK, IInv
  <1>2. \A s \in DOMAIN job : job[s] # "build" => job'[s] # "build" BY <1>1 DEF OthersIdle
  <1>3. InOrder' BY StoredInOrder
  <1>4. OneBuildPerCoordinate' BY <1>1, <1>2, StoredOneBuild
  <1>5. Immutable BY StoredFile
  <1> QED BY <1>3, <1>4, <1>5, OthersKeep DEF IInv

LEMMA StoredServed ==
  ASSUME IInv, NEW r \in Publishes(client), pc[r] = "upload", Stores(r), UNCHANGED <<client, served>>
  PROVE  served' \subseteq {f \in Files(client) : public'[f] # None}
  <1>1. \A f \in served : f \in Files(client) /\ public[f] # None BY DEF IInv, TypeOK
  <1>2. \A f \in served : public'[f] # None BY <1>1, StoredFile DEF Immutable
  <1> QED BY <1>1, <1>2
LEMMA UploadBreaksKeeps == ASSUME IInv, NEW r \in Publishes(client), UploadBreaks(r) PROVE IInv'
  <1>1. TypeOK /\ UNCHANGED <<client, form, job, built, served>> /\ pc[r] = "upload" /\ HasBuild(r)
    BY DEF UploadBreaks, IInv
  <1>2. Stores(r) BY DEF UploadBreaks, Stores
  <1>3. 1 \in 1..Len(Uploads) /\ MaxFaults \in Nat BY <1>1, FirstUpload, ClientAssumption DEF TypeOK
  <1>4. pc'[r] = "failed" /\ next'[r] = 1 /\ OthersIdle(r)
    BY <1>1 DEF UploadBreaks, TypeOK, OthersIdle
  <1>5. TypeOK'
    <2>1. pc' \in [Publishes(client) -> {"build", "guard", "upload", "prove", "failed", "done"}]
      BY <1>1 DEF UploadBreaks, TypeOK
    <2>2. next' \in [Publishes(client) -> 1..Len(Uploads)] BY <1>1, <1>3 DEF UploadBreaks, TypeOK
    <2>3. faults' \in 0..MaxFaults BY <1>1, <1>3 DEF UploadBreaks, TypeOK
    <2>4. public' \in [Files(client) -> Contents \cup {None}] BY <1>1, <1>2, StoredFile
    <2>5. served' \subseteq {f \in Files(client) : public'[f] # None} BY <1>1, <1>2, StoredServed
    <2> QED BY <1>1, <2>1, <2>2, <2>3, <2>4, <2>5 DEF TypeOK, Uploads
  <1>6. Wrote(r)' BY <1>1, <1>4, NothingPassed DEF TypeOK
  <1>7. job[r] = "publish" BY <1>1 DEF HasBuild
  <1>8. HasBuild(r)' /\ Compared(r)' BY <1>1, <1>4, <1>7 DEF HasBuild, Compared
  <1> QED BY <1>1, <1>2, <1>4, <1>5, <1>6, <1>8, StoreKeeps

LEMMA UploadKeeps == ASSUME IInv, NEW r \in Publishes(client), Upload(r) PROVE IInv'
  <1>1. TypeOK /\ UNCHANGED <<client, form, built, served, faults>> /\ pc[r] = "upload" /\ HasBuild(r)
        /\ job[r] = "publish" /\ next[r] \in 1..Len(Uploads)
    BY DEF Upload, IInv, HasBuild, TypeOK
  <1>2. 1 \in 1..Len(Uploads) /\ Len(Uploads) \in Nat BY <1>1, FirstUpload, UploadFacts DEF TypeOK
  <1>3. CASE ~Accepts(Uploads[next[r]], built[r][Uploads[next[r]]])
    <2>1. Goto(r, "failed") /\ UNCHANGED public BY <1>3 DEF Upload
    <2>2. pc'[r] = "failed" /\ UNCHANGED <<job, next>> /\ OthersIdle(r)
      BY <1>1, <2>1 DEF Goto, TypeOK, OthersIdle
    <2>3. TypeOK' BY <1>1, <2>1 DEF Goto, TypeOK, Uploads
    <2>4. HasBuild(r)' /\ Wrote(r)' /\ Compared(r)'
      BY <1>1, <2>2 DEF HasBuild, Wrote, Compared
    <2> QED BY <1>1, <2>1, <2>2, <2>3, <2>4, MoveKeeps DEF registry
  <1>4. CASE Accepts(Uploads[next[r]], built[r][Uploads[next[r]]])
    <2>1. Stores(r) BY <1>4 DEF Upload, Stores
    <2>2. public' \in [Files(client) -> Contents \cup {None}]
          /\ served' \subseteq {f \in Files(client) : public'[f] # None}
      BY <1>1, <2>1, StoredFile, StoredServed
    <2>3. CASE LastUpload(r)
      <3>1. Enter(r, "prove") BY <1>4, <2>3 DEF Upload
      <3>2. job'[r] = "prove" /\ pc'[r] = "prove" /\ next'[r] = 1 /\ OthersIdle(r)
        BY <1>1, <3>1 DEF Enter, First, TypeOK, OthersIdle
      <3>3. TypeOK'
        <4>1. job' \in [Publishes(client) -> {"build", "publish", "prove"}] BY <1>1, <3>1 DEF Enter, TypeOK
        <4>2. pc' \in [Publishes(client) -> {"build", "guard", "upload", "prove", "failed", "done"}]
          BY <1>1, <3>1 DEF Enter, First, TypeOK
        <4>3. next' \in [Publishes(client) -> 1..Len(Uploads)] BY <1>1, <1>2, <3>1 DEF Enter, TypeOK
        <4> QED BY <1>1, <2>2, <4>1, <4>2, <4>3 DEF TypeOK, Uploads
      <3>4. Wrote(r)' BY <3>2 DEF Wrote
      <3>5. HasBuild(r)' BY <1>1, <3>2 DEF HasBuild
      <3>6. Compared(r)'
        <4>1. SUFFICES Matches(r)' BY DEF Compared
        <4>2. SUFFICES ASSUME NEW f \in Files(client) PROVE public'[f] = built[r][f]
          BY <1>1 DEF Matches
        <4>3. PICK i \in DOMAIN Uploads : f = Uploads[i] BY <1>1, UploadFacts DEF TypeOK
        <4>4. i \in 1..Len(Uploads) BY <1>1, UploadFacts DEF TypeOK
        <4>5. CASE i = next[r] BY <1>1, <2>1, <4>3, <4>5, StoredFile
        <4>6. CASE i < next[r]
          <5>1. public[f] = built[r][f] BY <1>1, <4>3, <4>6 DEF IInv, Wrote
          <5>2. Uploads[i] # Uploads[next[r]] => public'[f] = public[f]
            BY <1>1, <2>1, <4>3, StoredFile
          <5>3. public'[Uploads[next[r]]] = built[r][Uploads[next[r]]] BY <1>1, <2>1, StoredFile
          <5> QED BY <4>3, <5>1, <5>2, <5>3
        <4> QED BY <1>1, <1>2, <2>3, <4>4, <4>5, <4>6 DEF LastUpload
      <3>7. job'[r] # "build" BY <3>2
      <3> QED BY <1>1, <2>1, <3>2, <3>3, <3>4, <3>5, <3>6, <3>7, StoreKeeps
    <2>4. CASE ~LastUpload(r)
      <3>1. next' = [next EXCEPT ![r] = @ + 1] /\ UNCHANGED <<job, pc>> BY <1>4, <2>4 DEF Upload
      <3>2. next'[r] = next[r] + 1 /\ next[r] + 1 \in 1..Len(Uploads)
        BY <1>1, <1>2, <2>4, <3>1 DEF TypeOK, LastUpload
      <3>3. OthersIdle(r) BY <1>1, <3>1 DEF TypeOK, OthersIdle
      <3>4. next' \in [Publishes(client) -> 1..Len(Uploads)] BY <1>1, <3>1, <3>2 DEF TypeOK
      <3>5. TypeOK' BY <1>1, <2>2, <3>1, <3>4 DEF TypeOK, Uploads
      <3>6. Wrote(r)'
        <4>1. SUFFICES ASSUME NEW i \in DOMAIN Uploads, i < next[r] + 1
                       PROVE  public'[Uploads[i]] = built[r][Uploads[i]]
          BY <1>1, <3>2 DEF Wrote, Uploads
        <4>2. i \in 1..Len(Uploads) /\ Uploads[i] \in Files(client) BY <1>1, UploadFacts DEF TypeOK
        <4>3. public'[Uploads[next[r]]] = built[r][Uploads[next[r]]] BY <1>1, <2>1, StoredFile
        <4>4. i < next[r] => public[Uploads[i]] = built[r][Uploads[i]] BY <1>1 DEF IInv, Wrote
        <4>5. Uploads[i] # Uploads[next[r]] => public'[Uploads[i]] = public[Uploads[i]]
          BY <1>1, <2>1, <4>2, StoredFile
        <4>6. i < next[r] \/ i = next[r] BY <1>1, <4>1, <4>2
        <4> QED BY <4>3, <4>4, <4>5, <4>6
      <3>7. HasBuild(r)' BY <1>1, <3>1 DEF HasBuild
      <3>8. Compared(r)' BY <1>1, <3>1 DEF Compared
      <3> QED BY <1>1, <2>1, <3>1, <3>3, <3>5, <3>6, <3>7, <3>8, StoreKeeps
    <2> QED BY <2>3, <2>4
  <1> QED BY <1>3, <1>4

-----------------------------------------------------------------------------
(* The theorems.                                                           *)

\* Every step keeps the inductive invariant.
LEMMA StepKeeps == IInv /\ [Next]_vars => IInv'
  <1> SUFFICES ASSUME IInv, [Next]_vars PROVE IInv'
    OBVIOUS
  <1>1. DOMAIN pc = Publishes(client) BY DEF IInv, TypeOK
  <1>2. ASSUME NEW r \in DOMAIN pc, Work(r) PROVE IInv'
    BY <1>1, <1>2, BuildKeeps, GuardKeeps, UploadKeeps, ProveKeeps DEF Work
  <1>3. ASSUME NEW r \in DOMAIN pc, UploadBreaks(r) \/ Breaks(r) \/ RerunFailed(r) PROVE IInv'
    BY <1>1, <1>3, UploadBreaksKeeps, BreaksKeeps, RerunFailedKeeps
  <1>4. ASSUME NEW f \in DOMAIN public, Serve(f) PROVE IInv' BY <1>4, ServeKeeps
  <1>5. CASE UNCHANGED vars
    <2>1. UNCHANGED <<client, form, job, pc, next, built, public, served, faults>>
      BY <1>5 DEF vars, progress, registry
    <2>2. TypeOK' BY <2>1 DEF IInv, TypeOK, Uploads
    <2>3. Immutable BY <2>1 DEF Immutable
    <2>4. InOrder' /\ OneBuildPerCoordinate' BY <2>1, SameFilesKeep
    <2>5. \A r \in Publishes(client) : HasBuild(r)' /\ Wrote(r)' /\ Compared(r)' BY <2>1, <2>3, IdleRunKeeps
    <2> QED BY <2>1, <2>2, <2>4, <2>5 DEF IInv
  <1>6. CASE Finished BY <1>5, <1>6 DEF Finished
  <1> QED BY <1>2, <1>3, <1>4, <1>5, <1>6 DEF Next

\* The inductive invariant holds throughout.
THEOREM Invariant == Spec => []IInv
  <1>1. Init => IInv BY InitKeeps
  <1> QED BY <1>1, StepKeeps, PTL DEF Spec

\* Types, whatever fails and is re-run.
THEOREM TypeCorrect == Spec => []TypeOK
  <1>1. IInv => TypeOK BY DEF IInv
  <1> QED BY <1>1, Invariant, PTL

\* The runs of a tag, started by its push and by hand, never leave files of two builds at
\* one coordinate, although they upload file by file and nothing excludes them.
THEOREM RacingRunsNeverMix == Spec => []OneBuildPerCoordinate
  <1>1. IInv => OneBuildPerCoordinate BY DEF IInv
  <1> QED BY <1>1, Invariant, PTL

\* What a green run of a client's workflow built is what is public, also after its last look.
THEOREM GreenRunsAreIdentical == Spec => []GreenMeansIdentical
  <1>1. IInv => GreenMeansIdentical BY DEF IInv, GreenMeansIdentical, Compared, Matches, TypeOK
  <1> QED BY <1>1, Invariant, PTL
=============================================================================
