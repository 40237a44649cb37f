--------------------- MODULE FixtureDistributionProofs ---------------------
(***************************************************************************)
(* Proofs about the fixture bundles and their fetches, for every set of    *)
(* jobs, destinations and offers, and any number of kills.                 *)
(***************************************************************************)
EXTENDS FixtureDistribution, TLAPS

-----------------------------------------------------------------------------
(* The inductive invariant.                                                *)

\* What a job has downloaded is what the release of its version offers.
Downloaded(j) == \A a \in Assets : work[j][a] \in {None, Torn, offer[pin[j]][a]}

\* Nothing is published unverified.
Checked(j) == Publishing(j) => Verified(pin[j], work[j])

\* Who publishes beside another at one destination knows it.
Aware == \A j, k \in Jobs :
  (j # k /\ dest[j] = dest[k] /\ Publishing(j) /\ Publishing(k)) => raced[j]

\* Copied to a destination so far.
Partial(j) == [made |-> TRUE, inner |-> {},
               files |-> [f \in Files |-> IF f \in copied[j] THEN work[j]["tarball"] ELSE None]]

\* A job alone at its destination finds there what it did.
Alone(j) == ~raced[j] =>
  /\ pc[j] = "move" => Place(j) = Absent /\ copied[j] = {}
  /\ pc[j] = "copy" => Place(j) = Partial(j)

\* Files are copied in the last step only.
Fresh(j) == pc[j] \notin {"copy", "done", "failed", "killed"} => copied[j] = {}

IInv ==
  /\ TypeOK /\ OnlyVerifiedLands /\ Aware
  /\ \A j \in Jobs : Downloaded(j) /\ Checked(j) /\ Alone(j) /\ Fresh(j)

-----------------------------------------------------------------------------
(* Steps.                                                                  *)

Act(j) == Fetch(j) \/ (\E a \in Assets : HttpBreaks(j, a)) \/ Kill(j) \/ Rerun(j)

LEMMA Split ==
  ASSUME [Next]_vars
  PROVE  (\E v \in Versions : Attach(v)) \/ (\E j \in Jobs : Act(j)) \/ UNCHANGED vars
  BY DEF Next, Act

\* The script's steps, one by one.
LEMMA ActCases ==
  ASSUME NEW j \in Jobs, Act(j)
  PROVE  \/ GhDownloads(j) \/ GhGivesUp(j) \/ Check(j) \/ Remove(j) \/ RemoveDirectory(j)
         \/ MoveTo(j) \/ MoveInto(j) \/ Copy(j) \/ Kill(j) \/ Rerun(j)
         \/ \E a \in Assets : HttpDownloads(j, a) \/ HttpBreaks(j, a)
  BY DEF Act, Fetch

\* Releases are offered once, and arguments do not change.
LEMMA Fixed ==
  ASSUME [Next]_vars
  PROVE  offer' = offer /\ pin' = pin /\ dest' = dest
  <1>1. ASSUME NEW j \in Jobs, Act(j) PROVE UNCHANGED <<offer, pin, dest>>
    <2> USE DEF releases, arguments
    <2>1. CASE GhDownloads(j) BY <2>1 DEF GhDownloads
    <2>2. CASE GhGivesUp(j) BY <2>2 DEF GhGivesUp
    <2>3. CASE Check(j) BY <2>3 DEF Check
    <2>4. CASE Remove(j) BY <2>4 DEF Remove
    <2>5. CASE RemoveDirectory(j) BY <2>5 DEF RemoveDirectory
    <2>6. CASE MoveTo(j) BY <2>6 DEF MoveTo
    <2>7. CASE MoveInto(j) BY <2>7 DEF MoveInto
    <2>8. CASE Copy(j) BY <2>8 DEF Copy
    <2>9. CASE Kill(j) BY <2>9 DEF Kill
    <2>10. CASE Rerun(j) BY <2>10 DEF Rerun
    <2>11. ASSUME NEW a \in Assets, HttpDownloads(j, a) PROVE UNCHANGED <<offer, pin, dest>> BY <2>11 DEF HttpDownloads
    <2>12. ASSUME NEW a \in Assets, HttpBreaks(j, a) PROVE UNCHANGED <<offer, pin, dest>> BY <2>12 DEF HttpBreaks
    <2> QED BY <1>1, ActCases, <2>1, <2>2, <2>3, <2>4, <2>5, <2>6, <2>7, <2>8, <2>9, <2>10, <2>11, <2>12
  <1>2. ASSUME NEW v \in Versions, Attach(v) PROVE UNCHANGED <<offer, pin, dest>> BY <1>2 DEF Attach, arguments
  <1> QED BY <1>1, <1>2, Split DEF vars, releases, arguments

-----------------------------------------------------------------------------
(* Types.                                                                  *)

LEMMA TypeInit == Init => TypeOK
  <1> SUFFICES ASSUME Init PROVE TypeOK OBVIOUS
  <1>1. \A v \in Versions : Package(v) \in Bundles BY DEF Package, Bundles
  <1>2. EmptyWork \in Downloads BY DEF EmptyWork, Downloads, Contents
  <1>3. PICK old \in {Absent} \cup {Tree(Package(v)) : v \in Versions} : place = [d \in Dests |-> old] BY DEF Init
  <1>4. Absent \in Trees BY DEF Absent, NoFiles, Trees, Contents
  <1>5. \A v \in Versions : Tree(Package(v)) \in Trees BY <1>1 DEF Tree, Trees, Contents
  <1>6. place \in [Dests -> Trees] BY <1>3, <1>4, <1>5
  <1>7. offer \in [Versions -> [Assets -> Bundles]] /\ \A v \in Versions : offer[v] \in Offered[v] BY DEF Init
  <1>8. attached \in [Versions -> SUBSET Assets] BY DEF Init
  <1>9. faults \in 0 .. MaxFaults BY FixtureAssumption DEF Init, FixtureAssumption
  <1>10. work \in [Jobs -> Downloads] BY <1>2 DEF Init
  <1> QED BY <1>6, <1>7, <1>8, <1>9, <1>10 DEF Init, TypeOK, Steps

\* What a job writes, in its directory and at its destination, is of the kind that belongs there.
LEMMA Written ==
  ASSUME TypeOK, NEW j \in Jobs
  PROVE  /\ \A a \in Assets, c \in Contents : Store(j, a, c) => work' \in [Jobs -> Downloads]
         /\ \A t \in Trees : Put(j, t) => place' \in [Dests -> Trees]
         /\ \A f \in Files, c \in Contents : PutFile(j, f, c) => place' \in [Dests -> Trees]
         /\ \A bs \in SUBSET Bundles : PutInner(j, bs) => place' \in [Dests -> Trees]
  <1>1. work \in [Jobs -> Downloads] /\ place \in [Dests -> Trees] /\ dest[j] \in Dests BY DEF TypeOK
  <1>2. Place(j) \in Trees BY <1>1 DEF Place
  <1>3. \A t \in Trees : Put(j, t) => place' \in [Dests -> Trees] BY <1>1 DEF Put
  <1>4. ASSUME NEW f \in Files, NEW c \in Contents, PutFile(j, f, c) PROVE place' \in [Dests -> Trees]
    <2>1. [made |-> Place(j).made, files |-> [Place(j).files EXCEPT ![f] = c], inner |-> Place(j).inner] \in Trees
      BY <1>2 DEF Trees
    <2> QED BY <1>3, <1>4, <2>1 DEF PutFile
  <1>5. ASSUME NEW bs \in SUBSET Bundles, PutInner(j, bs) PROVE place' \in [Dests -> Trees]
    <2>1. [made |-> Place(j).made, files |-> Place(j).files, inner |-> bs] \in Trees BY <1>2 DEF Trees
    <2> QED BY <1>3, <1>5, <2>1 DEF PutInner
  <1>6. ASSUME NEW a \in Assets, NEW c \in Contents, Store(j, a, c) PROVE work' \in [Jobs -> Downloads]
    <2>1. work[j] \in Downloads BY <1>1
    <2>2. [work[j] EXCEPT ![a] = c] \in Downloads BY <2>1 DEF Downloads
    <2> QED BY <1>1, <1>6, <2>2 DEF Store
  <1> QED BY <1>3, <1>4, <1>5, <1>6

\* A verified download is a bundle.
LEMMA VerifiedBundle ==
  ASSUME NEW v \in Versions, NEW w \in Downloads, Verified(v, w)
  PROVE  w["tarball"] \in Bundles /\ Intact(w["tarball"], v) /\ w = [a \in Assets |-> w["tarball"]]
  <1>1. w["tarball"] \in Bundles /\ w["sidecar"] = w["tarball"] BY DEF Verified
  <1>2. w = [a \in Assets |-> w["tarball"]] BY <1>1 DEF Downloads, Assets
  <1> QED BY <1>1, <1>2 DEF Verified, Intact

\* Every step keeps the variables in their types.
LEMMA TypeStep == TypeOK /\ (\A j \in Jobs : Checked(j)) /\ [Next]_vars => TypeOK'
  <1> SUFFICES ASSUME TypeOK, \A j \in Jobs : Checked(j), [Next]_vars PROVE TypeOK' OBVIOUS
  <1>1. ASSUME NEW v \in Versions, Attach(v) PROVE TypeOK' BY <1>1 DEF Attach, TypeOK, arguments
  <1>2. ASSUME NEW j \in Jobs, Act(j) PROVE TypeOK'
    <2> USE DEF releases, arguments, Goto
    <2>0. dest[j] \in Dests /\ pin[j] \in Versions /\ work[j] \in Downloads /\ Place(j) \in Trees
          /\ None \in Contents /\ Torn \in Contents /\ Bundles \subseteq Contents
      BY DEF TypeOK, Contents, Place
    <2>1. CASE GhDownloads(j)
      <3>1. [a \in Assets |-> IF a \in attached[pin[j]] THEN offer[pin[j]][a] ELSE None] \in Downloads
        BY <2>0 DEF Downloads, TypeOK
      <3> QED BY <2>1, <3>1 DEF GhDownloads, TypeOK, Steps
    <2>2. CASE GhGivesUp(j)
      <3>1. work' \in [Jobs -> Downloads] BY <2>0, <2>2, Written DEF GhGivesUp, Assets
      <3> QED BY <2>2, <3>1 DEF GhGivesUp, TypeOK, Steps
    <2>3. CASE Check(j) BY <2>3 DEF Check, TypeOK, Steps
    <2>4. CASE Remove(j)
      <3>1. place' \in [Dests -> Trees]
        <4>1. CASE UNCHANGED place BY <4>1 DEF TypeOK
        <4>2. CASE \E f \in Files : PutFile(j, f, None) BY <2>0, <4>2, Written
        <4>3. CASE PutInner(j, {}) BY <4>3, Written
        <4> QED BY <2>4, <4>1, <4>2, <4>3 DEF Remove
      <3> QED BY <2>4, <3>1 DEF Remove, TypeOK, Steps
    <2>5. CASE RemoveDirectory(j)
      <3>1. Absent \in Trees BY DEF Absent, NoFiles, Trees, Contents
      <3>2. place' \in [Dests -> Trees] BY <2>5, <3>1, Written DEF RemoveDirectory, TypeOK
      <3> QED BY <2>5, <3>2 DEF RemoveDirectory, TypeOK, Steps
    <2>6. CASE MoveTo(j)
      <3>1. Tree(work[j]["tarball"]) \in Trees BY <2>0 DEF Tree, Trees, Downloads, Assets
      <3>2. [made |-> TRUE, files |-> NoFiles, inner |-> {}] \in Trees BY DEF NoFiles, Trees, Contents
      <3>3. place' \in [Dests -> Trees] BY <2>6, <3>1, <3>2, Written DEF MoveTo
      <3> QED BY <2>6, <3>3 DEF MoveTo, TypeOK, Steps
    <2>7. CASE MoveInto(j)
      <3>1. work[j]["tarball"] \in Bundles BY <2>0, <2>7, VerifiedBundle DEF MoveInto, Checked, Publishing
      <3>2. Place(j).inner \cup {work[j]["tarball"]} \in SUBSET Bundles BY <2>0, <3>1 DEF Trees
      <3>3. place' \in [Dests -> Trees] BY <2>7, <3>2, Written DEF MoveInto, TypeOK
      <3> QED BY <2>7, <3>3 DEF MoveInto, TypeOK, Steps
    <2>8. CASE Copy(j)
      <3>1. work[j]["tarball"] \in Contents BY <2>0 DEF Downloads, Assets
      <3>2. place' \in [Dests -> Trees]
        <4>1. CASE UNCHANGED place BY <4>1 DEF TypeOK
        <4>2. CASE \E f \in Files : PutFile(j, f, work[j]["tarball"]) BY <3>1, <4>2, Written
        <4> QED BY <2>8, <4>1, <4>2 DEF Copy
      <3>3. copied' \in [Jobs -> SUBSET Files] BY <2>8 DEF Copy, TypeOK
      <3> QED BY <2>8, <3>2, <3>3 DEF Copy, TypeOK, Steps
    <2>9. CASE Kill(j)
      <3>1. place' \in [Dests -> Trees]
        <4>1. CASE UNCHANGED place BY <4>1 DEF TypeOK
        <4>2. CASE \E f \in Files : PutFile(j, f, Torn) BY <2>0, <4>2, Written
        <4> QED BY <2>9, <4>1, <4>2 DEF Kill
      <3>2. faults' \in 0 .. MaxFaults BY <2>9, FixtureAssumption DEF Kill, Fault, TypeOK, FixtureAssumption
      <3> QED BY <2>9, <3>1, <3>2 DEF Kill, TypeOK, Steps
    <2>10. CASE Rerun(j)
      <3>1. EmptyWork \in Downloads BY <2>0 DEF EmptyWork, Downloads
      <3> QED BY <2>10, <3>1 DEF Rerun, TypeOK, Steps
    <2>11. ASSUME NEW a \in Assets, HttpDownloads(j, a) PROVE TypeOK'
      <3>1. offer[pin[j]][a] \in Contents BY <2>0 DEF TypeOK
      <3>2. work' \in [Jobs -> Downloads] BY <2>11, <3>1, Written DEF HttpDownloads, TypeOK
      <3> QED BY <2>11, <3>2 DEF HttpDownloads, TypeOK, Steps
    <2>12. ASSUME NEW a \in Assets, HttpBreaks(j, a) PROVE TypeOK'
      <3>1. work' \in [Jobs -> Downloads] BY <2>0, <2>12, Written DEF HttpBreaks, TypeOK
      <3>2. faults' \in 0 .. MaxFaults
        <4>1. MaxFaults \in Nat BY FixtureAssumption DEF FixtureAssumption
        <4>2. faults \in 0 .. MaxFaults /\ faults < MaxFaults /\ faults' = faults + 1 BY <2>12 DEF HttpBreaks, Fault, TypeOK
        <4> QED BY <4>1, <4>2
      <3> QED BY <2>12, <3>1, <3>2 DEF HttpBreaks, TypeOK, Steps
    <2> QED BY <1>2, ActCases, <2>1, <2>2, <2>3, <2>4, <2>5, <2>6, <2>7, <2>8, <2>9, <2>10, <2>11, <2>12
  <1>3. CASE UNCHANGED vars BY <1>3 DEF vars, TypeOK, releases, arguments
  <1> QED BY <1>1, <1>2, <1>3, Split

-----------------------------------------------------------------------------
(* What a step of one job leaves alone.                                    *)

LEMMA Untouched ==
  ASSUME TypeOK, NEW j \in Jobs, Act(j), NEW k \in Jobs, k # j
  PROVE  pc'[k] = pc[k] /\ work'[k] = work[k] /\ copied'[k] = copied[k] /\ (raced[k] => raced'[k])
  <1> USE DEF TypeOK, Goto, Store
  <1>1. CASE GhDownloads(j) BY <1>1 DEF GhDownloads
  <1>2. CASE GhGivesUp(j) BY <1>2 DEF GhGivesUp
  <1>3. CASE Check(j) BY <1>3 DEF Check
  <1>4. CASE Remove(j) BY <1>4 DEF Remove
  <1>5. CASE RemoveDirectory(j) BY <1>5 DEF RemoveDirectory
  <1>6. CASE MoveTo(j) BY <1>6 DEF MoveTo
  <1>7. CASE MoveInto(j) BY <1>7 DEF MoveInto
  <1>8. CASE Copy(j) BY <1>8 DEF Copy
  <1>9. CASE Kill(j) BY <1>9 DEF Kill
  <1>10. CASE Rerun(j) BY <1>10 DEF Rerun
  <1>11. CASE \E a \in Assets : HttpDownloads(j, a) BY <1>11 DEF HttpDownloads
  <1>12. CASE \E a \in Assets : HttpBreaks(j, a) BY <1>12 DEF HttpBreaks
  <1> QED BY ActCases, <1>1, <1>2, <1>3, <1>4, <1>5, <1>6, <1>7, <1>8, <1>9, <1>10, <1>11, <1>12

\* Only a job that publishes changes a destination, and only its own.
LEMMA Elsewhere ==
  ASSUME TypeOK, NEW j \in Jobs, Act(j)
  PROVE  /\ ~Publishing(j) => place' = place
         /\ \A d \in Dests : d # dest[j] => place'[d] = place[d]
  <1> USE DEF Publishing, Put, PutFile, PutInner
  <1>0. dest[j] \in Dests /\ place \in [Dests -> Trees] BY DEF TypeOK
  <1>1. CASE GhDownloads(j) BY <1>1 DEF GhDownloads
  <1>2. CASE GhGivesUp(j) BY <1>2 DEF GhGivesUp
  <1>3. CASE Check(j) BY <1>3 DEF Check
  <1>4. CASE Remove(j) BY <1>0, <1>4 DEF Remove
  <1>5. CASE RemoveDirectory(j) BY <1>0, <1>5 DEF RemoveDirectory
  <1>6. CASE MoveTo(j) BY <1>0, <1>6 DEF MoveTo
  <1>7. CASE MoveInto(j) BY <1>0, <1>7 DEF MoveInto
  <1>8. CASE Copy(j) BY <1>0, <1>8 DEF Copy
  <1>9. CASE Kill(j) BY <1>0, <1>9 DEF Kill
  <1>10. CASE Rerun(j) BY <1>10 DEF Rerun
  <1>11. CASE \E a \in Assets : HttpDownloads(j, a) BY <1>11 DEF HttpDownloads
  <1>12. CASE \E a \in Assets : HttpBreaks(j, a) BY <1>12 DEF HttpBreaks
  <1> QED BY ActCases, <1>1, <1>2, <1>3, <1>4, <1>5, <1>6, <1>7, <1>8, <1>9, <1>10, <1>11, <1>12

\* A job comes to publish by passing its checks, and keeps its download until it has ended.
LEMMA Publishes ==
  ASSUME TypeOK, NEW j \in Jobs, Act(j), Publishing(j)'
  PROVE  /\ work' = work
         /\ (Check(j) /\ Verified(pin[j], work[j])) \/ (Publishing(j) /\ raced' = raced)
  <1> USE DEF Publishing, Goto, TypeOK
  <1>1. CASE GhDownloads(j) BY <1>1 DEF GhDownloads
  <1>2. CASE GhGivesUp(j) BY <1>2 DEF GhGivesUp
  <1>3. CASE Check(j)
    <2>1. work' = work BY <1>3 DEF Check
    <2>2. CASE ~Verified(pin[j], work[j])
      <3>1. pc'[j] = "failed" BY <1>3, <2>2 DEF Check
      <3> QED BY <3>1
    <2>3. CASE Verified(pin[j], work[j]) BY <1>3, <2>1, <2>3, Zenon
    <2> QED BY <2>2, <2>3
  <1>4. CASE Remove(j) BY <1>4 DEF Remove
  <1>5. CASE RemoveDirectory(j) BY <1>5 DEF RemoveDirectory
  <1>6. CASE MoveTo(j) BY <1>6 DEF MoveTo
  <1>7. CASE MoveInto(j) BY <1>7 DEF MoveInto
  <1>8. CASE Copy(j) BY <1>8 DEF Copy
  <1>9. CASE Kill(j) BY <1>9 DEF Kill
  <1>10. CASE Rerun(j) BY <1>10 DEF Rerun
  <1>11. CASE \E a \in Assets : HttpDownloads(j, a) BY <1>11 DEF HttpDownloads
  <1>12. CASE \E a \in Assets : HttpBreaks(j, a) BY <1>12 DEF HttpBreaks
  <1> QED BY ActCases, <1>1, <1>2, <1>3, <1>4, <1>5, <1>6, <1>7, <1>8, <1>9, <1>10, <1>11, <1>12

-----------------------------------------------------------------------------
(* The invariant, part by part.                                            *)

LEMMA DownloadedStep ==
  ASSUME TypeOK, NEW j \in Jobs, Act(j), Downloaded(j), UNCHANGED <<offer, pin>>
  PROVE  Downloaded(j)'
  <1> USE DEF Downloaded
  <1>0. work \in [Jobs -> Downloads] /\ work[j] \in Downloads BY DEF TypeOK
  <1>a. ASSUME NEW a \in Assets, NEW c \in {None, Torn, offer[pin[j]][a]}, Store(j, a, c) PROVE Downloaded(j)'
    <2>1. work'[j] = [work[j] EXCEPT ![a] = c] BY <1>0, <1>a DEF Store
    <2>2. \A x \in Assets : work'[j][x] = IF x = a THEN c ELSE work[j][x] BY <1>0, <2>1 DEF Downloads
    <2> QED BY <2>2
  <1>1. CASE GhDownloads(j) BY <1>0, <1>1 DEF GhDownloads
  <1>2. CASE GhGivesUp(j) BY <1>2, <1>a DEF GhGivesUp, Assets
  <1>3. CASE work' = work BY <1>3
  <1>4. CASE Rerun(j) BY <1>0, <1>4 DEF Rerun, EmptyWork
  <1>5. ASSUME NEW a \in Assets, HttpDownloads(j, a) PROVE Downloaded(j)' BY <1>3, <1>5, <1>a DEF HttpDownloads
  <1>6. ASSUME NEW a \in Assets, HttpBreaks(j, a) PROVE Downloaded(j)' BY <1>3, <1>6, <1>a DEF HttpBreaks
  <1> QED BY ActCases, <1>1, <1>2, <1>3, <1>4, <1>5, <1>6
             DEF Check, Remove, RemoveDirectory, MoveTo, MoveInto, Copy, Kill

LEMMA FreshStep ==
  ASSUME TypeOK, NEW j \in Jobs, Act(j), Fresh(j)
  PROVE  Fresh(j)'
  <1> USE DEF Fresh, TypeOK, Goto
  <1>1. CASE GhDownloads(j) BY <1>1 DEF GhDownloads
  <1>2. CASE GhGivesUp(j) BY <1>2 DEF GhGivesUp
  <1>3. CASE Check(j) BY <1>3 DEF Check
  <1>4. CASE Remove(j) BY <1>4 DEF Remove
  <1>5. CASE RemoveDirectory(j) BY <1>5 DEF RemoveDirectory
  <1>6. CASE MoveTo(j) BY <1>6 DEF MoveTo
  <1>7. CASE MoveInto(j) BY <1>7 DEF MoveInto
  <1>8. CASE Copy(j) BY <1>8 DEF Copy
  <1>9. CASE Kill(j) BY <1>9 DEF Kill
  <1>10. CASE Rerun(j) BY <1>10 DEF Rerun
  <1>11. CASE \E a \in Assets : HttpDownloads(j, a) BY <1>11 DEF HttpDownloads
  <1>12. CASE \E a \in Assets : HttpBreaks(j, a) BY <1>12 DEF HttpBreaks
  <1> QED BY ActCases, <1>1, <1>2, <1>3, <1>4, <1>5, <1>6, <1>7, <1>8, <1>9, <1>10, <1>11, <1>12

LEMMA AwareStep ==
  ASSUME TypeOK, Aware, NEW j \in Jobs, Act(j), dest' = dest
  PROVE  Aware'
  <1> SUFFICES ASSUME NEW x \in Jobs, NEW y \in Jobs, x # y, dest[x] = dest[y], Publishing(x)', Publishing(y)'
               PROVE  raced'[x]
    BY DEF Aware
  <1>1. \A k \in Jobs \ {j} : (Publishing(k)' <=> Publishing(k)) /\ (raced[k] => raced'[k])
    BY Untouched DEF Publishing
  <1>2. CASE j \notin {x, y} BY <1>1, <1>2 DEF Aware
  <1>3. CASE j \in {x, y} /\ Publishing(j) /\ raced' = raced BY <1>1, <1>3 DEF Aware
  <1>4. CASE j \in {x, y} /\ Check(j) /\ Verified(pin[j], work[j])
    <2>1. raced' = [k \in Jobs |-> IF k = j THEN Rivals(j) # {} ELSE raced[k] \/ k \in Rivals(j)]
      BY <1>4 DEF Check
    <2>2. CASE x = j
      <3>1. y \in Rivals(j) BY <1>1, <2>2 DEF Rivals
      <3> QED BY <2>1, <2>2, <3>1
    <2>3. CASE y = j
      <3>1. x \in Rivals(j) BY <1>1, <2>3 DEF Rivals
      <3> QED BY <2>1, <2>3, <3>1
    <2> QED BY <1>4, <2>2, <2>3
  <1> QED BY <1>2, <1>3, <1>4, Publishes

LEMMA CheckedStep ==
  ASSUME TypeOK, NEW j \in Jobs, Act(j), NEW k \in Jobs, Checked(k), UNCHANGED pin
  PROVE  Checked(k)'
  <1> SUFFICES ASSUME Publishing(k)' PROVE Verified(pin[k], work'[k]) BY DEF Checked
  <1>1. CASE k # j
    <2>1. pc'[k] = pc[k] /\ work'[k] = work[k] BY <1>1, Untouched
    <2>2. Publishing(k) BY <2>1 DEF Publishing
    <2> QED BY <2>1, <2>2 DEF Checked
  <1>2. CASE k = j BY <1>2, Publishes DEF Checked
  <1> QED BY <1>1, <1>2

\* Nobody writes to the destination of a job that is alone there.
LEMMA AloneOthers ==
  ASSUME IInv, NEW j \in Jobs, Act(j), NEW k \in Jobs, k # j, UNCHANGED dest
  PROVE  Alone(k)'
  <1> SUFFICES ASSUME ~raced'[k], pc'[k] \in {"move", "copy"} PROVE Alone(k)' BY DEF Alone
  <1>1. pc'[k] = pc[k] /\ work'[k] = work[k] /\ copied'[k] = copied[k] /\ ~raced[k]
    BY Untouched DEF IInv
  <1>2. Publishing(k) BY <1>1 DEF Publishing
  <1>3. place'[dest[k]] = place[dest[k]]
    <2>1. CASE dest[k] = dest[j]
      <3>1. ~Publishing(j) BY <1>1, <1>2, <2>1 DEF IInv, Aware
      <3> QED BY <3>1, Elsewhere DEF IInv
    <2>2. CASE dest[k] # dest[j]
      <3>1. dest[k] \in Dests BY DEF IInv, TypeOK
      <3> QED BY <2>2, <3>1, Elsewhere DEF IInv
    <2> QED BY <2>1, <2>2
  <1> QED BY <1>1, <1>3 DEF IInv, Alone, Place, Partial

\* What a job that is alone leaves after a step.
LEMMA AloneOwn ==
  ASSUME IInv, NEW j \in Jobs, Act(j), UNCHANGED dest
  PROVE  Alone(j)'
  <1> SUFFICES ASSUME ~raced'[j], pc'[j] \in {"move", "copy"} PROVE Alone(j)' BY DEF Alone
  <1> USE DEF Goto
  <1>0. TypeOK /\ Alone(j) /\ Fresh(j) /\ dest[j] \in Dests /\ place \in [Dests -> Trees] /\ pc \in [Jobs -> Steps]
        /\ Place(j) \in Trees
    BY DEF IInv, TypeOK, Place
  <1>1. Publishing(j)' BY DEF Publishing
  <1>2. work' = work /\ ((Check(j) /\ Verified(pin[j], work[j])) \/ (Publishing(j) /\ raced' = raced))
    BY <1>0, <1>1, Publishes
  <1>3. CASE RemoveDirectory(j)
    <2>1. pc'[j] = "move" /\ Put(j, Absent) /\ copied' = copied BY <1>0, <1>3 DEF RemoveDirectory
    <2>2. Place(j)' = Absent BY <1>0, <2>1 DEF Put, Place
    <2>3. copied'[j] = {} BY <1>0, <1>3, <2>1 DEF Fresh, RemoveDirectory
    <2> QED BY <2>1, <2>2, <2>3 DEF Alone
  <1>4. CASE MoveTo(j)
    <2>1. pc[j] = "move" /\ pc'[j] = "copy" /\ copied' = copied BY <1>0, <1>4 DEF MoveTo
    <2>2. Put(j, [made |-> TRUE, files |-> NoFiles, inner |-> {}]) BY <1>0, <1>4, <2>1 DEF MoveTo
    <2>3. copied'[j] = {} BY <1>0, <2>1 DEF Fresh
    <2>4. Place(j)' = [made |-> TRUE, inner |-> {}, files |-> NoFiles] BY <1>0, <2>2 DEF Put, Place
    <2>5. Place(j)' = Partial(j)' BY <2>3, <2>4 DEF Partial, NoFiles
    <2> QED BY <2>1, <2>5 DEF Alone
  <1>5. CASE Copy(j)
    <2>1. pc[j] = "copy" /\ pc'[j] = "copy" BY <1>0, <1>5 DEF Copy
    <2>2. ~raced[j] BY <1>2, <2>1 DEF Check
    <2>3. Place(j) = Partial(j) BY <1>0, <2>1, <2>2 DEF Alone
    <2>4. PICK f \in Files \ copied[j] : PutFile(j, f, work[j]["tarball"]) /\ copied' = [copied EXCEPT ![j] = @ \cup {f}]
      BY <1>0, <1>5, <2>1 DEF Copy
    <2>5. Place(j)' = [made |-> Place(j).made, files |-> [Place(j).files EXCEPT ![f] = work[j]["tarball"]],
                       inner |-> Place(j).inner]
      BY <1>0, <2>4 DEF PutFile, Put, Place
    <2>6. copied'[j] = copied[j] \cup {f} BY <1>0, <2>4 DEF TypeOK
    <2>7. [Partial(j).files EXCEPT ![f] = work[j]["tarball"]]
            = [g \in Files |-> IF g \in copied'[j] THEN work'[j]["tarball"] ELSE None]
      BY <1>2, <2>6 DEF Partial
    <2>8. Place(j)' = [made |-> TRUE, inner |-> {},
                       files |-> [g \in Files |-> IF g \in copied'[j] THEN work'[j]["tarball"] ELSE None]]
      <3>1. Place(j).made = TRUE /\ Place(j).inner = {} /\ Place(j).files = Partial(j).files BY <2>3 DEF Partial
      <3> QED BY <2>5, <2>7, <3>1
    <2>9. Place(j)' = Partial(j)' BY <2>8 DEF Partial
    <2> QED BY <2>1, <2>9 DEF Alone
  <1>6. CASE ~(RemoveDirectory(j) \/ MoveTo(j) \/ Copy(j))
    <2> USE <1>0
    <2>1. ~GhDownloads(j) /\ ~GhGivesUp(j) BY DEF GhDownloads, GhGivesUp
    <2>2. ~Check(j) BY DEF Check
    <2>3. ~Remove(j) BY DEF Remove
    <2>4. ~MoveInto(j) BY DEF MoveInto
    <2>5. ~Kill(j) /\ ~Rerun(j) BY DEF Kill, Rerun
    <2>6. \A a \in Assets : ~HttpDownloads(j, a) BY DEF HttpDownloads
    <2>7. \A a \in Assets : ~HttpBreaks(j, a) BY DEF HttpBreaks
    <2> QED BY <1>6, <2>1, <2>2, <2>3, <2>4, <2>5, <2>6, <2>7, ActCases
  <1> QED BY <1>3, <1>4, <1>5, <1>6

-----------------------------------------------------------------------------
(* Only verified files land.                                               *)

\* What stands at a destination is earned.
Lands(t) ==
  /\ \A f \in Files : t.files[f] \notin {None, Torn} => Earned(t.files[f])
  /\ \A b \in t.inner : Earned(b)

LEMMA LandsEverywhere == OnlyVerifiedLands <=> \A d \in Dests : Lands(place[d])
  BY DEF OnlyVerifiedLands, Lands

\* The download a job publishes is earned.
LEMMA DownloadEarned ==
  ASSUME IInv, NEW j \in Jobs, Publishing(j)
  PROVE  Earned(work[j]["tarball"])
  <1> DEFINE b == work[j]["tarball"]
  <1>1. work[j] \in Downloads /\ pin[j] \in Versions /\ offer[pin[j]] \in [Assets -> Bundles] BY DEF IInv, TypeOK
  <1>2. Verified(pin[j], work[j]) BY DEF IInv, Checked
  <1>3. b \in Bundles /\ Intact(b, pin[j]) /\ work[j]["sidecar"] = b BY <1>1, <1>2, VerifiedBundle DEF Assets
  <1>4. b \notin {None, Torn} BY <1>3, FixtureAssumption DEF FixtureAssumption
  <1>5. offer[pin[j]]["tarball"] = b /\ offer[pin[j]]["sidecar"] = b BY <1>3, <1>4 DEF IInv, Downloaded, Assets
  <1>6. offer[pin[j]] = [a \in Assets |-> b] BY <1>1, <1>5 DEF Assets
  <1> QED BY <1>1, <1>3, <1>6 DEF Earned

\* What a step puts at a destination is what was there, or nothing, or what the job has verified.
LEMMA LandsAfter ==
  ASSUME IInv, NEW j \in Jobs, Act(j)
  PROVE  Lands(place'[dest[j]])
  <1> USE DEF Put
  <1>0. dest[j] \in Dests /\ place \in [Dests -> Trees] /\ Place(j) \in Trees /\ Lands(Place(j))
    BY LandsEverywhere DEF IInv, TypeOK, Place
  <1>1. CASE UNCHANGED place BY <1>0, <1>1 DEF Place
  <1>2. ASSUME NEW f \in Files, NEW c, c \in {None, Torn} \/ Earned(c), PutFile(j, f, c) PROVE Lands(place'[dest[j]])
    <2>1. place'[dest[j]] = [made |-> Place(j).made, files |-> [Place(j).files EXCEPT ![f] = c], inner |-> Place(j).inner]
      BY <1>0, <1>2 DEF PutFile
    <2>2. \A g \in Files : place'[dest[j]].files[g] = IF g = f THEN c ELSE Place(j).files[g]
      BY <1>0, <2>1 DEF Trees
    <2>3. place'[dest[j]].inner = Place(j).inner BY <2>1
    <2> QED BY <1>0, <1>2, <2>2, <2>3 DEF Lands
  <1>3. ASSUME NEW bs, \A b \in bs : Earned(b), PutInner(j, bs) PROVE Lands(place'[dest[j]])
    <2>1. place'[dest[j]] = [made |-> Place(j).made, files |-> Place(j).files, inner |-> bs] BY <1>0, <1>3 DEF PutInner
    <2> QED BY <1>0, <1>3, <2>1 DEF Lands
  <1>4. CASE Put(j, Absent) \/ Put(j, [made |-> TRUE, files |-> NoFiles, inner |-> {}])
    <2>1. place'[dest[j]].files = NoFiles /\ place'[dest[j]].inner = {} BY <1>0, <1>4 DEF Absent
    <2> QED BY <2>1 DEF Lands, NoFiles
  <1>5. CASE Publishing(j) /\ Put(j, Tree(work[j]["tarball"]))
    <2>1. place'[dest[j]] = Tree(work[j]["tarball"]) BY <1>0, <1>5
    <2> QED BY <1>5, <2>1, DownloadEarned DEF Lands, Tree
  <1>6. CASE Remove(j) BY <1>1, <1>2, <1>3, <1>6 DEF Remove
  <1>7. CASE RemoveDirectory(j) BY <1>1, <1>4, <1>7 DEF RemoveDirectory
  <1>8. CASE MoveTo(j) BY <1>4, <1>5, <1>8 DEF MoveTo, Publishing
  <1>9. CASE MoveInto(j)
    <2>1. Earned(work[j]["tarball"]) BY <1>9, DownloadEarned DEF MoveInto, Publishing
    <2> QED BY <1>0, <1>1, <1>3, <1>9, <2>1 DEF MoveInto, Lands
  <1>10. CASE Copy(j)
    <2>1. Earned(work[j]["tarball"]) BY <1>10, DownloadEarned DEF Copy, Publishing
    <2> QED BY <1>1, <1>2, <1>10, <2>1 DEF Copy
  <1>11. CASE Kill(j) BY <1>1, <1>2, <1>11 DEF Kill
  <1>12. CASE ~Publishing(j) BY <1>1, <1>12, Elsewhere DEF IInv
  <1>13. CASE Check(j) BY <1>1, <1>13 DEF Check
  <1>14. Publishing(j) => Check(j) \/ Remove(j) \/ RemoveDirectory(j) \/ MoveTo(j) \/ MoveInto(j) \/ Copy(j) \/ Kill(j)
    BY ActCases DEF Publishing, GhDownloads, GhGivesUp, HttpDownloads, HttpBreaks, Rerun, Running
  <1> QED BY <1>6, <1>7, <1>8, <1>9, <1>10, <1>11, <1>12, <1>13, <1>14

LEMMA LandsStep ==
  ASSUME IInv, NEW j \in Jobs, Act(j), UNCHANGED offer
  PROVE  OnlyVerifiedLands'
  <1>1. \A d \in Dests : Lands(place'[d]) BY LandsAfter, Elsewhere, LandsEverywhere DEF IInv
  <1> QED BY <1>1 DEF OnlyVerifiedLands, Lands, Earned

-----------------------------------------------------------------------------
(* The theorems.                                                           *)

LEMMA IInvInit == Init => IInv
  <1> SUFFICES ASSUME Init PROVE IInv OBVIOUS
  <1>1. TypeOK BY TypeInit
  <1>2. PICK old \in {Absent} \cup {Tree(Package(v)) : v \in Versions} : place = [d \in Dests |-> old] BY DEF Init
  <1>3. Lands(Absent) BY DEF Lands, Absent, NoFiles
  <1>4. ASSUME NEW v \in Versions PROVE Lands(Tree(Package(v)))
    <2>1. Intact(Package(v), v) BY DEF Intact, Package, Bundles
    <2>2. Earned(Package(v)) BY <2>1 DEF Earned
    <2> QED BY <2>2 DEF Lands, Tree
  <1>5. OnlyVerifiedLands BY <1>2, <1>3, <1>4, LandsEverywhere
  <1>6. \A j \in Jobs : pc[j] = "gh" /\ copied[j] = {} /\ work[j] = EmptyWork BY DEF Init
  <1>7. Aware BY <1>6 DEF Aware, Publishing
  <1>8. \A j \in Jobs : Downloaded(j) BY <1>6 DEF Downloaded, EmptyWork
  <1>9. \A j \in Jobs : Checked(j) /\ Alone(j) /\ Fresh(j) BY <1>6 DEF Checked, Publishing, Alone, Fresh
  <1> QED BY <1>1, <1>5, <1>7, <1>8, <1>9 DEF IInv

LEMMA IInvStep == IInv /\ [Next]_vars => IInv'
  <1> SUFFICES ASSUME IInv, [Next]_vars PROVE IInv' OBVIOUS
  <1>1. TypeOK' BY TypeStep DEF IInv
  <1>2. UNCHANGED <<offer, pin, dest>> BY Fixed
  <1>3. ASSUME NEW j \in Jobs, Act(j) PROVE IInv'
    <2>1. OnlyVerifiedLands' BY <1>2, <1>3, LandsStep
    <2>2. Aware' BY <1>2, <1>3, AwareStep DEF IInv
    <2>3. ASSUME NEW k \in Jobs PROVE (Downloaded(k) /\ Checked(k) /\ Alone(k) /\ Fresh(k))'
      <3>1. Checked(k)' BY <1>2, <1>3, CheckedStep DEF IInv
      <3>2. Alone(k)' BY <1>2, <1>3, AloneOthers, AloneOwn
      <3>3. CASE k = j BY <1>2, <1>3, <3>1, <3>2, <3>3, DownloadedStep, FreshStep DEF IInv
      <3>4. CASE k # j
        <4>1. pc'[k] = pc[k] /\ work'[k] = work[k] /\ copied'[k] = copied[k] BY <1>3, <3>4, Untouched DEF IInv
        <4>2. Downloaded(k)' BY <1>2, <4>1 DEF IInv, Downloaded
        <4>3. Fresh(k)' BY <4>1 DEF IInv, Fresh
        <4> QED BY <3>1, <3>2, <4>2, <4>3
      <3> QED BY <3>3, <3>4
    <2> QED BY <1>1, <2>1, <2>2, <2>3 DEF IInv
  <1>4. CASE UNCHANGED <<offer, pin, dest, pc, work, copied, raced, place>>
    <2>1. OnlyVerifiedLands' BY <1>4 DEF IInv, OnlyVerifiedLands, Earned
    <2>2. Aware' BY <1>4 DEF IInv, Aware, Publishing
    <2>3. \A k \in Jobs : (Downloaded(k) /\ Checked(k) /\ Alone(k) /\ Fresh(k))'
      BY <1>4 DEF IInv, Downloaded, Checked, Publishing, Alone, Place, Partial, Fresh
    <2> QED BY <1>1, <2>1, <2>2, <2>3 DEF IInv
  <1>5. (\E v \in Versions : Attach(v)) \/ UNCHANGED vars => UNCHANGED <<offer, pin, dest, pc, work, copied, raced, place>>
    BY DEF Attach, vars, releases, arguments
  <1> QED BY <1>3, <1>4, <1>5, Split

LEMMA Invariant == Spec => []IInv
  BY IInvInit, IInvStep, PTL DEF Spec

\* Every variable keeps to its values, for every set of jobs, versions, files and offers.
THEOREM TypeCorrect == Spec => []TypeOK
  <1>1. IInv => TypeOK BY DEF IInv
  <1> QED BY Invariant, <1>1, PTL

\* However many jobs fetch, race and are killed, and whatever a release or a mirror offers them: a complete
\* file at a destination is of a bundle that the whole of fetch-fixtures.sh's verification admits.
THEOREM NothingUnverifiedLands == Spec => []OnlyVerifiedLands
  <1>1. IInv => OnlyVerifiedLands BY DEF IInv
  <1> QED BY Invariant, <1>1, PTL

\* A fetch that ends well by itself leaves a bundle that passed the script's checks for its version, all of it
\* and nothing else.  That bundle may be without VERSION: the script checks the file where there is one.
THEOREM FetchesAreWhole == Spec => ReadyIsWhole
  <1>1. ASSUME IInv, [Next]_vars, NEW j \in Jobs, pc[j] # "done", pc'[j] = "done", ~raced[j]
        PROVE  \E b \in Bundles : Intact(b, pin[j]) /\ Place(j)' = Tree(b)
    <2> DEFINE b == work[j]["tarball"]
    <2>0. TypeOK /\ Alone(j) /\ Checked(j) /\ dest[j] \in Dests /\ place \in [Dests -> Trees]
      <3>1. TypeOK /\ Alone(j) /\ Checked(j) BY <1>1 DEF IInv
      <3> QED BY <3>1 DEF TypeOK
    <2>1. Act(j)
      <3>1. ASSUME NEW k \in Jobs, Act(k), k # j PROVE FALSE BY <1>1, <2>0, <3>1, Untouched
      <3>2. pc' # pc BY <1>1
      <3>3. \A v \in Versions : ~Attach(v) BY <3>2 DEF Attach
      <3>4. ~UNCHANGED vars BY <3>2 DEF vars
      <3> QED BY <1>1, <3>1, <3>3, <3>4, Split
    <2>2. UNCHANGED <<dest, pin>> BY <1>1, Fixed
    <2>3. MoveTo(j) \/ MoveInto(j) \/ Copy(j)
      BY <1>1, <2>0, <2>1, ActCases DEF TypeOK, Goto, GhDownloads, GhGivesUp, HttpDownloads, HttpBreaks, Check, Remove,
         RemoveDirectory, Kill, Rerun
    <2>4. Publishing(j) BY <2>3 DEF Publishing, MoveTo, MoveInto, Copy
    <2>5. b \in Bundles /\ Intact(b, pin[j])
      <3>1. work[j] \in Downloads /\ pin[j] \in Versions BY <2>0 DEF TypeOK
      <3> QED BY <2>0, <2>4, <3>1, VerifiedBundle DEF Checked
    <2>6. CASE MoveTo(j)
      <3>1. Put(j, Tree(b)) BY <1>1, <2>0, <2>6 DEF MoveTo, Goto, TypeOK
      <3>2. Place(j)' = Tree(b) BY <2>0, <2>2, <3>1 DEF Put, Place
      <3> QED BY <2>5, <3>2
    <2>7. ~MoveInto(j)
      <3>1. pc[j] = "move" => ~Place(j).made BY <1>1, <2>0 DEF Alone, Absent
      <3> QED BY <3>1 DEF MoveInto
    <2>8. CASE Copy(j)
      <3>1. pc[j] = "copy" /\ copied[j] = Files /\ place' = place BY <1>1, <2>0, <2>8 DEF Copy, Goto, TypeOK
      <3>2. Place(j) = Partial(j) BY <1>1, <2>0, <3>1 DEF Alone
      <3>3. Partial(j) = Tree(b) BY <3>1 DEF Partial, Tree
      <3>4. Place(j)' = Place(j) BY <2>2, <3>1 DEF Place
      <3> QED BY <2>5, <3>2, <3>3, <3>4
    <2> QED BY <2>3, <2>6, <2>7, <2>8
  <1>2. IInv /\ [Next]_vars => [\A j \in Jobs :
          (pc[j] # "done" /\ pc'[j] = "done" /\ ~raced[j]) => \E b \in Bundles : Intact(b, pin[j]) /\ Place(j)' = Tree(b)]_vars
    BY <1>1
  <1> QED BY Invariant, <1>2, PTL DEF Spec, ReadyIsWhole
=============================================================================
