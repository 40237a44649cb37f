------------------------ MODULE FixtureDistribution ------------------------
(***************************************************************************)
(* conformance/package.sh and fetch-fixtures.sh: the fixture bundle of a   *)
(* version is attached to its GitHub release, and jobs of downstream       *)
(* repositories fetch the version they pin, verify it, and put it in place *)
(* of whatever stands at their destination.  A job may be killed between   *)
(* any two steps and run again over what it left; two jobs may share a     *)
(* destination.                                                            *)
(***************************************************************************)
EXTENDS Naturals, FiniteSets

CONSTANTS
  Versions, Jobs, Dests,
  Files,      \* files of a bundle
  Offered,    \* bound: for each version, the downloads a release or a mirror may offer
  None,       \* no file
  Torn,       \* a file whose writing was interrupted
  MaxFaults   \* bound: kills, and failures of the network

\* A bundle is what verification can tell of it: the name of its root directory, the content of its
\* VERSION file, whether it has a SHA256SUMS, and whether its files agree with it.
Bundles == [pkg : Versions, version : Versions \cup {None}, listed : BOOLEAN, sound : BOOLEAN]

\* What package.sh builds from the tree: the sums are computed last, over all the files.
Package(v) == [pkg |-> v, version |-> v, listed |-> TRUE, sound |-> TRUE]

Assets == {"tarball", "sidecar"}

\* The digest in a sidecar is the bundle it was computed from.
ASSUME FixtureAssumption ==
  /\ None \notin Bundles /\ Torn \notin Bundles /\ None # Torn
  /\ Offered \in [Versions -> SUBSET [Assets -> Bundles]]
  /\ \A v \in Versions : [a \in Assets |-> Package(v)] \in Offered[v]
  /\ MaxFaults \in Nat

VARIABLES
  offer, attached,  \* per version: what the release holds, and which of it is there already
  pin, dest,        \* arguments of each job: --version and --dest
  renames,          \* the temporary directory and the destinations are on one file system
  pc,
  work,             \* per job: its temporary directory
  copied,           \* per job: files that mv has copied
  raced,            \* per job: another one was at work on its destination (history variable)
  place,            \* destinations: [made, files, inner]; inner are bundles inside, by their root directory
  faults

releases  == <<offer, attached>>
arguments == <<pin, dest, renames>>
vars == <<releases, arguments, pc, work, copied, raced, place, faults>>

NoFiles == [f \in Files |-> None]
Absent  == [made |-> FALSE, files |-> NoFiles, inner |-> {}]
Tree(b) == [made |-> TRUE, files |-> [f \in Files |-> b], inner |-> {}]
EmptyWork == [a \in Assets |-> None]

\* Seeded faults: what is there is taken; the files are not compared with SHA256SUMS.
VerifiedWhenPresent(v, w) == w["tarball"] # None /\ w["sidecar"] # None

VerifiedWithoutSums(v, w) ==
  LET b == w["tarball"] IN b \in Bundles /\ w["sidecar"] = b /\ b.pkg = v /\ b.listed /\ b.version \in {None, v}

\* The download of version v that the script lets through.
Verified(v, w) ==
  LET b == w["tarball"] IN
  /\ b \in Bundles
  /\ w["sidecar"] = b
  /\ b.pkg = v /\ b.listed /\ b.sound
  /\ b.version \in {None, v}

\* Destinations are unused, or hold what an earlier fetch left.
Init ==
  /\ offer \in {o \in [Versions -> [Assets -> Bundles]] : \A v \in Versions : o[v] \in Offered[v]}
  /\ attached \in [Versions -> {{}, Assets}]
  /\ pin \in [Jobs -> Versions] /\ dest \in [Jobs -> Dests] /\ renames \in BOOLEAN
  /\ pc = [j \in Jobs |-> "gh"]
  /\ work = [j \in Jobs |-> EmptyWork]
  /\ copied = [j \in Jobs |-> {}]
  /\ raced = [j \in Jobs |-> FALSE]
  /\ \E old \in {Absent} \cup {Tree(Package(v)) : v \in Versions} : place = [d \in Dests |-> old]
  /\ faults = 0

Publishing(j) == pc[j] \in {"remove", "rmdir", "move", "copy"}
Running(j) == pc[j] \in {"gh", "http tarball", "http sidecar", "check"} \/ Publishing(j)
Rivals(j) == {k \in Jobs \ {j} : dest[k] = dest[j] /\ Publishing(k)}

Goto(j, step) == pc' = [pc EXCEPT ![j] = step]
Place(j) == place[dest[j]]
Put(j, tree) == place' = [place EXCEPT ![dest[j]] = tree]
PutFile(j, f, content) ==
  Put(j, [made |-> Place(j).made, files |-> [Place(j).files EXCEPT ![f] = content], inner |-> Place(j).inner])
PutInner(j, bundles) == Put(j, [made |-> Place(j).made, files |-> Place(j).files, inner |-> bundles])
Store(j, a, content) == work' = [work EXCEPT ![j] = [work[j] EXCEPT ![a] = content]]
Fault == faults < MaxFaults /\ faults' = faults + 1

-----------------------------------------------------------------------------
\* Assets are uploaded one by one, to a draft or to the mirror --repo names.
Attach(v) ==
  /\ \E a \in Assets \ attached[v] : attached' = [attached EXCEPT ![v] = @ \cup {a}]
  /\ UNCHANGED <<offer, arguments, pc, work, copied, raced, place, faults>>

\* gh downloads what there is of the two patterns, and is content with one.
GhDownloads(j) ==
  /\ pc[j] = "gh" /\ attached[pin[j]] # {}
  /\ work' = [work EXCEPT ![j] = [a \in Assets |-> IF a \in attached[pin[j]] THEN offer[pin[j]][a] ELSE None]]
  /\ Goto(j, "check")
  /\ UNCHANGED <<releases, arguments, copied, raced, place, faults>>

\* gh is missing, not signed in, finds nothing or stops midway, which leaves part of a download behind.
GhGivesUp(j) ==
  /\ pc[j] = "gh"
  /\ \E left \in {None, Torn} : Store(j, "tarball", left)
  /\ Goto(j, "http tarball")
  /\ UNCHANGED <<releases, arguments, copied, raced, place, faults>>

HttpDownloads(j, a) ==
  /\ pc[j] = IF a = "tarball" THEN "http tarball" ELSE "http sidecar"
  /\ IF a \in attached[pin[j]]
     THEN /\ Store(j, a, offer[pin[j]][a])
          /\ Goto(j, IF a = "tarball" THEN "http sidecar" ELSE "check")
     ELSE Goto(j, "failed") /\ UNCHANGED work
  /\ UNCHANGED <<releases, arguments, copied, raced, place, faults>>

\* The server fails, or a proxy cuts the file short and calls it complete.
HttpBreaks(j, a) ==
  /\ pc[j] = IF a = "tarball" THEN "http tarball" ELSE "http sidecar"
  /\ Fault
  /\ \/ Goto(j, "failed") /\ UNCHANGED work
     \/ /\ Store(j, a, Torn)
        /\ Goto(j, IF a = "tarball" THEN "http sidecar" ELSE "check")
  /\ UNCHANGED <<releases, arguments, copied, raced, place>>

-----------------------------------------------------------------------------
\* Seeded faults: the destination is not cleared; an occupied one is refused.
CheckKeepsOld(j) ==
  /\ pc[j] = "check"
  /\ IF Verified(pin[j], work[j])
     THEN /\ Goto(j, "move")
          /\ raced' = [k \in Jobs |-> IF k = j THEN Rivals(j) # {} ELSE raced[k] \/ k \in Rivals(j)]
     ELSE Goto(j, "failed") /\ UNCHANGED raced
  /\ UNCHANGED <<releases, arguments, work, copied, place, faults>>

CheckRefusesOccupied(j) ==
  /\ pc[j] = "check"
  /\ Goto(j, IF Verified(pin[j], work[j]) /\ ~Place(j).made THEN "move" ELSE "failed")
  /\ UNCHANGED <<releases, arguments, work, copied, raced, place, faults>>

\* Every check comes before the destination is touched.
Check(j) ==
  /\ pc[j] = "check"
  /\ IF Verified(pin[j], work[j])
     THEN /\ Goto(j, "remove")
          /\ raced' = [k \in Jobs |-> IF k = j THEN Rivals(j) # {} ELSE raced[k] \/ k \in Rivals(j)]
     ELSE Goto(j, "failed") /\ UNCHANGED raced
  /\ UNCHANGED <<releases, arguments, work, copied, place, faults>>

\* rm -rf empties the directory entry by entry ...
Remove(j) ==
  /\ pc[j] = "remove"
  /\ \/ \E f \in Files : /\ Place(j).files[f] # None
                         /\ PutFile(j, f, None) /\ UNCHANGED pc
     \/ Place(j).inner # {} /\ PutInner(j, {}) /\ UNCHANGED pc
     \/ Place(j).files = NoFiles /\ Place(j).inner = {} /\ Goto(j, "rmdir") /\ UNCHANGED place
  /\ UNCHANGED <<releases, arguments, work, copied, raced, faults>>

\* ... and then removes it, if nobody has written to it meanwhile.
RemoveDirectory(j) ==
  /\ pc[j] = "rmdir"
  /\ IF Place(j).files = NoFiles /\ Place(j).inner = {}
     THEN Put(j, Absent) /\ Goto(j, "move")
     ELSE Goto(j, "failed") /\ UNCHANGED place
  /\ UNCHANGED <<releases, arguments, work, copied, raced, faults>>

\* mv to a name that is free renames, or creates a directory and copies between file systems.
MoveTo(j) ==
  /\ pc[j] = "move" /\ ~Place(j).made
  /\ IF renames
     THEN Put(j, Tree(work[j]["tarball"])) /\ Goto(j, "done")
     ELSE Put(j, [made |-> TRUE, files |-> NoFiles, inner |-> {}]) /\ Goto(j, "copy")
  /\ UNCHANGED <<releases, arguments, work, copied, raced, faults>>

\* mv to a directory moves into it, unless its name is taken there.
MoveInto(j) ==
  /\ pc[j] = "move" /\ Place(j).made
  /\ IF \E b \in Place(j).inner : b.pkg = pin[j]
     THEN Goto(j, "failed") /\ UNCHANGED place
     ELSE PutInner(j, Place(j).inner \cup {work[j]["tarball"]}) /\ Goto(j, "done")
  /\ UNCHANGED <<releases, arguments, work, copied, raced, faults>>

Copy(j) ==
  /\ pc[j] = "copy"
  /\ \/ \E f \in Files \ copied[j] :
          IF Place(j).made
          THEN /\ PutFile(j, f, work[j]["tarball"])
               /\ copied' = [copied EXCEPT ![j] = @ \cup {f}] /\ UNCHANGED pc
          ELSE Goto(j, "failed") /\ UNCHANGED <<place, copied>>
     \/ copied[j] = Files /\ Goto(j, "done") /\ UNCHANGED <<place, copied>>
  /\ UNCHANGED <<releases, arguments, work, raced, faults>>

-----------------------------------------------------------------------------
\* A job that is cancelled while it copies may leave a file cut short.
Kill(j) ==
  /\ Running(j) /\ Fault
  /\ Goto(j, "killed")
  /\ \/ UNCHANGED place
     \/ /\ pc[j] = "copy" /\ Place(j).made
        /\ \E f \in Files \ copied[j] : PutFile(j, f, Torn)
  /\ UNCHANGED <<releases, arguments, work, copied, raced>>

\* Every run has a temporary directory of its own.
Rerun(j) ==
  /\ ~Running(j)
  /\ Goto(j, "gh")
  /\ work' = [work EXCEPT ![j] = EmptyWork]
  /\ copied' = [copied EXCEPT ![j] = {}]
  /\ raced' = [raced EXCEPT ![j] = FALSE]
  /\ UNCHANGED <<releases, arguments, place, faults>>

Fetch(j) ==
  \/ GhDownloads(j) \/ GhGivesUp(j) \/ \E a \in Assets : HttpDownloads(j, a)
  \/ Check(j) \/ Remove(j) \/ RemoveDirectory(j) \/ MoveTo(j) \/ MoveInto(j) \/ Copy(j)

Next ==
  \/ \E v \in Versions : Attach(v)
  \/ \E j \in Jobs : Fetch(j) \/ (\E a \in Assets : HttpBreaks(j, a)) \/ Kill(j) \/ Rerun(j)

Spec == Init /\ [][Next]_vars

\* A shell script that is not killed goes on; nobody is obliged to kill or to run it again.
FairSpec == Spec /\ \A j \in Jobs : WF_vars(Fetch(j))

-----------------------------------------------------------------------------
Steps == {"gh", "http tarball", "http sidecar", "check", "remove", "rmdir", "move", "copy", "done", "failed", "killed"}
Contents == Bundles \cup {None, Torn}
Downloads == [Assets -> Contents]
Trees == [made : BOOLEAN, files : [Files -> Contents], inner : SUBSET Bundles]

\* Every variable keeps to its values.
TypeOK ==
  /\ offer \in [Versions -> [Assets -> Bundles]] /\ \A v \in Versions : offer[v] \in Offered[v]
  /\ attached \in [Versions -> SUBSET Assets]
  /\ pin \in [Jobs -> Versions] /\ dest \in [Jobs -> Dests] /\ renames \in BOOLEAN
  /\ pc \in [Jobs -> Steps]
  /\ work \in [Jobs -> Downloads]
  /\ copied \in [Jobs -> SUBSET Files]
  /\ raced \in [Jobs -> BOOLEAN]
  /\ place \in [Dests -> Trees]
  /\ faults \in 0 .. MaxFaults

\* The bundle passes what the script checks of version v: its directory names it, its files agree with its
\* SHA256SUMS, and its VERSION, where it has one, is the pin.  A bundle without VERSION passes.
Intact(b, v) == b \in Bundles /\ b.pkg = v /\ b.listed /\ b.sound /\ b.version \in {None, v}

Earned(b) == \E v \in Versions : Intact(b, v) /\ (b = Package(v) \/ offer[v] = [a \in Assets |-> b])

\* Whatever is downloaded, cut short, killed or raced, a file that stands at a destination complete comes
\* from an intact bundle, and the digest beside it was that bundle's or it was there before.
OnlyVerifiedLands == \A d \in Dests :
  /\ \A f \in Files : place[d].files[f] \notin {None, Torn} => Earned(place[d].files[f])
  /\ \A b \in place[d].inner : Earned(b)

\* A fetch that ends well, with no other at work on its destination, leaves there all of one intact
\* bundle that passed for its version and nothing else, whatever earlier fetches of it left behind.
ReadyIsWhole == [][\A j \in Jobs :
  (pc[j] # "done" /\ pc'[j] = "done" /\ ~raced[j]) => \E b \in Bundles : Intact(b, pin[j]) /\ Place(j)' = Tree(b)]_vars

\* conformance/README.md says that the script asserts the embedded VERSION equals the pin and leaves it in
\* --dest: after a fetch that ends well, with no other at work there, VERSION is there and names the pin.
ReadyNamesPin == [][\A j \in Jobs :
  (pc[j] # "done" /\ pc'[j] = "done" /\ ~raced[j]) =>
    \E b \in Bundles : b.version = pin[j] /\ Place(j)' = Tree(b)]_vars

\* A fetch that starts when the release is complete and nothing fails any more ends well, over whatever was left
\* at its destination, unless another was at work there at the same time.
RefetchSucceeds == \A j \in Jobs :
  ( /\ pc[j] = "gh" /\ faults = MaxFaults
    /\ attached[pin[j]] = Assets /\ Verified(pin[j], offer[pin[j]]) ) ~> (pc[j] = "done" \/ raced[j])
=============================================================================
