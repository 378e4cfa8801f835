--------------------------- MODULE ImagePinsProofs ---------------------------
(***************************************************************************)
(* ImagePins for any artifacts, repositories, policies and bounds: what a  *)
(* deploy runs under Pinned is what the pin records, and a pin changes     *)
(* only for a reason the operator gave.                                    *)
(***************************************************************************)
EXTENDS ImagePins, TLAPS

(* Every step either leaves the containers alone or creates one.            *)
USE DEF containers

-----------------------------------------------------------------------------
(***************************************************************************)
(* The inductive invariant.                                                *)
(***************************************************************************)

(* The registry and the host answer for a tag with a version of its        *)
(* repository.                                                             *)
Repos ==
  \A r \in TagRef :
    /\ registry[r].repo = r.repo
    /\ hostTag[r] # None => hostTag[r].repo = r.repo

(* What each stage of a command works on.                                  *)
StagesMatch ==
  /\ cmd = "none" <=> stage = "idle"
  /\ cmd = "bump" =>
       stage \in {"pull", "inspect"} /\ ~IsManifestOwned(cur)
  /\ cmd = "deploy" => todo \subseteq Planned
  /\ stage \in {"pull", "inspect", "release"} => cur \in Artifact
  /\ stage \in {"pull", "inspect"} => ref \in Ref
  /\ stage \in {"pull", "inspect", "release"} /\ cmd = "deploy" => cur \in todo
  /\ stage = "release" => IsManifestOwned(cur)

(* A deploy looks for a new version under Pinned only without a pin to     *)
(* reuse, and none appears while it looks.                                 *)
Searching ==
  cmd = "deploy" /\ stage \in {"pull", "inspect"} /\ ~IsManifestOwned(cur) =>
    ~UsablePin(cur)

Inv == TypeOK /\ Repos /\ StagesMatch /\ Searching

(* The resolution of an artifact and its pin agree.                        *)
Agreed(a) ==
  IF IsManifestOwned(a) THEN pin[NameOf[a]] = NoPin
                        ELSE got[a] = pin[NameOf[a]].exact

(* They do so from the end of the resolution to the end of the deploy.     *)
Settled ==
  cmd = "deploy" =>
    \A a \in Planned : stage = "apply" \/ a \notin todo => Agreed(a)

-----------------------------------------------------------------------------
(***************************************************************************)
(* Facts about references and pins.                                        *)
(***************************************************************************)

LEMMA ManifestFacts ==
  ASSUME NEW m \in Manifest \cup {NoManifest}, m # NoManifest
  PROVE  m.ref \in TagRef /\ m.policy \in Policy
  BY DEF Manifest

LEMMA PinnedManifest ==
  ASSUME NEW m \in Manifest \cup {NoManifest}, m.policy = "Pinned"
  PROVE  m # NoManifest
  BY DEF NoManifest

LEMMA OnHostFacts ==
  ASSUME TypeOK, Repos, NEW r \in Ref, OnHost(r) # None
  PROVE  OnHost(r) \in Exact /\ OnHost(r).repo = r.repo
  BY DEF TypeOK, Repos, OnHost, Ref

LEMMA PutFacts ==
  ASSUME TypeOK, ref \in Ref, NEW a \in Artifact, NEW x \in Exact, x.repo = ref.repo
  PROVE  /\ Put(a, x) \in [Name -> Pin \cup {NoPin}]
         /\ \A n \in Name : Put(a, x)[n].requested.repo = Put(a, x)[n].exact.repo
         /\ Put(a, x)[NameOf[a]].exact = x
         /\ \A n \in Name \ {NameOf[a]} : Put(a, x)[n] = pin[n]
PROOF
<1> DEFINE p == [owner |-> a, requested |-> ref, exact |-> x]
<1>1. p \in Pin /\ p.requested.repo = p.exact.repo /\ p.exact = x
  BY DEF Pin
<1>2. NameOf[a] \in Name /\ Put(a, x) = [pin EXCEPT ![NameOf[a]] = p]
  BY ImagePinsAssumption DEF Put
<1> HIDE DEF p
<1> QED
  BY <1>1, <1>2 DEF TypeOK

LEMMA ReleasedFacts ==
  ASSUME TypeOK, NEW a \in Artifact
  PROVE  /\ PinReleased(a) \in [Name -> Pin \cup {NoPin}]
         /\ \A n \in Name :
              PinReleased(a)[n].requested.repo = PinReleased(a)[n].exact.repo
         /\ PinReleased(a)[NameOf[a]] = NoPin
         /\ \A n \in Name \ {NameOf[a]} : PinReleased(a)[n] = pin[n]
PROOF
<1>1. NoPin.requested.repo = NoPin.exact.repo
  BY DEF NoPin
<1>2. NameOf[a] \in Name
  BY ImagePinsAssumption
<1> QED
  BY <1>1, <1>2 DEF TypeOK, PinReleased

LEMMA InitInv == ASSUME Init PROVE Inv
PROOF
<1>1. NoPin.requested.repo = NoPin.exact.repo
  BY DEF NoPin
<1>2. TypeOK
  BY <1>1, ImagePinsAssumption DEF Init, TypeOK, NoPlan, NoArtifact
<1>3. Repos /\ StagesMatch /\ Searching
  BY DEF Init, Repos, StagesMatch, Searching
<1> QED
  BY <1>2, <1>3 DEF Inv

-----------------------------------------------------------------------------
(***************************************************************************)
(* The resolution of an artifact.                                          *)
(***************************************************************************)

(* The world outside the command stands still.                             *)
Still == UNCHANGED <<manifest, outside, containers, moves, edits>>

LEMMA BeginKeeps ==
  ASSUME Inv, Deploy \/ Bump PROVE Inv'
PROOF
<1>1. UNCHANGED <<manifest, pin, outside, images, containers, got, moves>>
  BY DEF Deploy, Bump
<1>2. edits' \in 0 .. MaxEdits
  BY ImagePinsAssumption DEF Inv, TypeOK, Deploy, Bump
<1>3. CASE Deploy
  <2>1. TypeOK'
    BY <1>1, <1>2, <1>3 DEF Deploy, Inv, TypeOK, outside, images
  <2>2. StagesMatch' /\ Searching'
    BY <1>3 DEF Deploy, StagesMatch, Searching, Planned
  <2> QED
    BY <1>1, <2>1, <2>2 DEF Inv, Repos, outside, images
<1>4. CASE Bump
  <2>1. /\ cur' \in Artifact /\ manifest[cur'].policy = "Pinned" /\ ref' \in Ref
        /\ cmd' = "bump" /\ stage' = "pull" /\ plan' = manifest /\ todo' = todo
    BY <1>4 DEF Bump, BumpTarget
  <2>2. TypeOK'
    BY <1>1, <1>2, <2>1 DEF Inv, TypeOK, outside, images
  <2>3. StagesMatch' /\ Searching'
    BY <2>1 DEF StagesMatch, Searching, IsManifestOwned
  <2> QED
    BY <1>1, <2>2, <2>3 DEF Inv, Repos, outside, images
<1> QED
  BY <1>3, <1>4

(* In the resolution pre-pass only a deploy resolves.                      *)
LEMMA Resolving ==
  ASSUME Inv, stage \in {"resolve", "release", "apply"}
  PROVE  cmd = "deploy"
  BY DEF Inv, TypeOK, StagesMatch

LEMMA ResolvedKeeps ==
  ASSUME Inv, cmd = "deploy", NEW a \in todo, NEW x \in Exact \cup {None},
         Resolved(a, x), Still, hostTag' = hostTag, host' \subseteq Exact,
         pin' \in [Name -> Pin \cup {NoPin}],
         \A n \in Name : pin'[n].requested.repo = pin'[n].exact.repo
  PROVE  Inv'
PROOF
<1> USE DEF Resolved, Still, outside
<1>1. a \in Artifact
  BY DEF Inv, TypeOK
<1>2. TypeOK'
  <2>1. got' \in [Artifact -> Exact \cup {None}]
    BY <1>1 DEF Inv, TypeOK
  <2> QED
    BY <2>1 DEF Inv, TypeOK
<1>3. StagesMatch' /\ Searching'
  BY DEF Inv, StagesMatch, Searching, Planned
<1> QED
  BY <1>2, <1>3 DEF Inv, Repos

LEMMA ReusePinKeeps ==
  ASSUME Inv, stage = "resolve", NEW a \in todo, ReusePin(a), Still
  PROVE  /\ Inv' /\ cmd = "deploy" /\ pin' = pin /\ ~IsManifestOwned(a)
         /\ Resolved(a, pin[NameOf[a]].exact)
PROOF
<1>1. cmd = "deploy" /\ a \in Artifact
  BY Resolving DEF Inv, TypeOK
<1>2. PICK x : /\ x = pin[NameOf[a]].exact /\ x \in host \cup served
               /\ host' = host \cup {x} /\ Resolved(a, x)
  BY DEF ReusePin, PinnedVersion
<1>3. x \in Exact /\ host' \subseteq Exact
  BY <1>2 DEF Inv, TypeOK
<1>4. pin' = pin /\ hostTag' = hostTag /\ ~IsManifestOwned(a)
  BY DEF ReusePin
<1> QED
  BY <1>1, <1>2, <1>3, <1>4, ResolvedKeeps DEF Inv, TypeOK

LEMMA LocateKeeps ==
  ASSUME Inv, stage = "resolve", NEW a \in todo, LocateOnHost(a), Still
  PROVE  Inv'
PROOF
<1>1. cmd = "deploy" /\ a \in Artifact /\ plan[a] # NoManifest
  BY Resolving DEF Inv, TypeOK, StagesMatch, Planned
<1>2. plan[a].ref \in TagRef
  BY <1>1, ManifestFacts DEF Inv, TypeOK
<1>3. hostTag[plan[a].ref] \in Exact
  BY <1>2 DEF LocateOnHost, Inv, TypeOK
<1>4. /\ got' = [got EXCEPT ![a] = hostTag[plan[a].ref]]
      /\ cur' = a /\ ref' = plan[a].ref /\ stage' = "release"
      /\ UNCHANGED <<pin, hostTag, host, cmd, plan, todo>>
      /\ UNCHANGED <<manifest, registry, served, containers, moves, edits>>
  BY DEF LocateOnHost, images, outside, Still
<1>5. got' \in [Artifact -> Exact \cup {None}] /\ ref' \in Ref
  BY <1>1, <1>2, <1>3, <1>4 DEF Inv, TypeOK, Ref
<1>6. TypeOK'
  BY <1>1, <1>4, <1>5 DEF Inv, TypeOK
<1>7. StagesMatch' /\ Searching'
  BY <1>1, <1>4
     DEF Inv, StagesMatch, Searching, Planned, IsManifestOwned, LocateOnHost
<1> QED
  BY <1>4, <1>6, <1>7 DEF Inv, Repos

LEMMA ChoosePullKeeps ==
  ASSUME Inv, stage = "resolve", NEW a \in todo, ChoosePull(a), Still
  PROVE  Inv'
PROOF
<1>1. cmd = "deploy" /\ a \in Artifact /\ plan[a] # NoManifest
  BY Resolving DEF Inv, TypeOK, StagesMatch, Planned
<1>2. plan[a].ref \in TagRef
  BY <1>1, ManifestFacts DEF Inv, TypeOK
<1>3. /\ cur' = a /\ ref' = plan[a].ref /\ stage' = "pull"
      /\ UNCHANGED <<pin, hostTag, host, cmd, plan, todo, got>>
      /\ UNCHANGED <<manifest, registry, served, containers, moves, edits>>
  BY DEF ChoosePull, images, outside, Still
<1>4. TypeOK'
  BY <1>1, <1>2, <1>3 DEF Inv, TypeOK, Ref
<1>5. StagesMatch'
  BY <1>1, <1>2, <1>3 DEF Inv, StagesMatch, Planned, Ref
<1>6. Searching'
  BY <1>3 DEF Searching, ChoosePull, MustPull, IsManifestOwned, UsablePin
<1> QED
  BY <1>3, <1>4, <1>5, <1>6 DEF Inv, Repos

LEMMA PullKeeps ==
  ASSUME Inv, PullImage PROVE Inv'
PROOF
<1>1. /\ stage = "pull" /\ stage' = "inspect"
      /\ host' = host \cup {Served(ref)} /\ Served(ref) \in served
      /\ hostTag' = IF ref \in TagRef
                    THEN [hostTag EXCEPT ![ref] = registry[ref]] ELSE hostTag
      /\ UNCHANGED <<manifest, pin, registry, served, containers, moves, edits>>
      /\ UNCHANGED <<cmd, plan, todo, cur, ref, got>>
  BY DEF PullImage, outside
<1>2. host' \subseteq Exact /\ hostTag' \in [TagRef -> Exact \cup {None}]
  BY <1>1 DEF Inv, TypeOK
<1>3. TypeOK'
  BY <1>1, <1>2 DEF Inv, TypeOK
<1>4. Repos'
  BY <1>1 DEF Inv, TypeOK, Repos
<1>5. StagesMatch' /\ Searching'
  BY <1>1 DEF Inv, StagesMatch, Searching, Planned, IsManifestOwned, UsablePin
<1> QED
  BY <1>3, <1>4, <1>5 DEF Inv

LEMMA IdleKeeps ==
  ASSUME Inv, Idle, Still, UNCHANGED images,
         pin' \in [Name -> Pin \cup {NoPin}],
         \A n \in Name : pin'[n].requested.repo = pin'[n].exact.repo
  PROVE  Inv'
PROOF
<1> USE DEF Idle, Still, images, outside
<1>1. TypeOK'
  BY DEF Inv, TypeOK, NoPlan, NoArtifact
<1>2. StagesMatch' /\ Searching'
  BY DEF StagesMatch, Searching
<1> QED
  BY <1>1, <1>2 DEF Inv, Repos

LEMMA PinReferenceKeeps ==
  ASSUME Inv, PinReference
  PROVE  /\ Inv'
         /\ cur \in Artifact /\ ~IsManifestOwned(cur)
         /\ pin'[NameOf[cur]].exact = OnHost(ref)
         /\ \A n \in Name \ {NameOf[cur]} : pin'[n] = pin[n]
PROOF
<1>1. /\ cur \in Artifact /\ ref \in Ref
      /\ pin' = Put(cur, OnHost(ref)) /\ ~IsManifestOwned(cur)
      /\ IF cmd = "bump" THEN Idle ELSE Resolved(cur, OnHost(ref))
      /\ Still /\ UNCHANGED images
  BY DEF PinReference, Inv, StagesMatch, Still
<1>2. OnHost(ref) \in Exact /\ OnHost(ref).repo = ref.repo
  BY <1>1, OnHostFacts DEF PinReference, Inv
<1>3. /\ pin' \in [Name -> Pin \cup {NoPin}]
      /\ \A n \in Name : pin'[n].requested.repo = pin'[n].exact.repo
      /\ pin'[NameOf[cur]].exact = OnHost(ref)
      /\ \A n \in Name \ {NameOf[cur]} : pin'[n] = pin[n]
  BY <1>1, <1>2, PutFacts DEF Inv
<1>4. CASE cmd = "bump"
  BY <1>1, <1>3, <1>4, IdleKeeps
<1>5. CASE cmd # "bump"
  <2>1. cmd = "deploy" /\ cur \in todo
    BY <1>5 DEF PinReference, Inv, TypeOK, StagesMatch
  <2>2. hostTag' = hostTag /\ host' \subseteq Exact
    BY <1>1 DEF images, Inv, TypeOK
  <2> QED
    BY <1>1, <1>2, <1>3, <1>5, <2>1, <2>2, ResolvedKeeps
<1> QED
  BY <1>1, <1>3, <1>4, <1>5

LEMMA InspectPulledKeeps ==
  ASSUME Inv, InspectPulled PROVE Inv'
PROOF
<1>1. /\ stage = "inspect" /\ stage' = "release" /\ IsManifestOwned(cur)
      /\ got' = [got EXCEPT ![cur] = OnHost(ref)] /\ OnHost(ref) # None
      /\ UNCHANGED <<manifest, pin, registry, served, hostTag, host, containers>>
      /\ UNCHANGED <<moves, edits, cmd, plan, todo, cur, ref>>
  BY DEF InspectPulled, images, outside
<1>2. cur \in Artifact /\ ref \in Ref
  BY <1>1 DEF Inv, StagesMatch
<1>3. got' \in [Artifact -> Exact \cup {None}]
  BY <1>1, <1>2, OnHostFacts DEF Inv, TypeOK
<1>4. TypeOK'
  BY <1>1, <1>3 DEF Inv, TypeOK
<1>5. StagesMatch' /\ Searching'
  BY <1>1 DEF Inv, StagesMatch, Searching, Planned, IsManifestOwned
<1> QED
  BY <1>1, <1>4, <1>5 DEF Inv, Repos

LEMMA ReleasePinKeeps ==
  ASSUME Inv, ReleasePin
  PROVE  /\ Inv'
         /\ cmd = "deploy" /\ cur \in todo /\ IsManifestOwned(cur)
         /\ pin'[NameOf[cur]] = NoPin
         /\ \A n \in Name \ {NameOf[cur]} : pin'[n] = pin[n]
PROOF
<1>1. cmd = "deploy" /\ cur \in todo /\ cur \in Artifact /\ IsManifestOwned(cur)
  BY Resolving DEF ReleasePin, Inv, StagesMatch
<1>2. /\ pin' = PinReleased(cur) /\ Resolved(cur, got[cur])
      /\ Still /\ UNCHANGED images
  BY DEF ReleasePin, Still
<1>3. /\ got[cur] \in Exact \cup {None}
      /\ hostTag' = hostTag /\ host' \subseteq Exact
  BY <1>1, <1>2 DEF Inv, TypeOK, images
<1>4. /\ pin' \in [Name -> Pin \cup {NoPin}]
      /\ \A m \in Name : pin'[m].requested.repo = pin'[m].exact.repo
      /\ pin'[NameOf[cur]] = NoPin
      /\ \A m \in Name \ {NameOf[cur]} : pin'[m] = pin[m]
  BY <1>1, <1>2, ReleasedFacts DEF Inv
<1> QED
  BY <1>1, <1>2, <1>3, <1>4, ResolvedKeeps

-----------------------------------------------------------------------------
(***************************************************************************)
(* The containers, the other commands and the world around.                *)
(***************************************************************************)

LEMMA ApplyKeeps ==
  ASSUME Inv, ResolveDone \/ CreateContainer PROVE Inv'
PROOF
<1>1. /\ cmd' = cmd /\ cmd = "deploy" /\ stage' = "apply" /\ todo' \subseteq Planned
      /\ UNCHANGED <<manifest, pin, registry, served, hostTag, host, moves, edits>>
      /\ UNCHANGED <<plan, cur, ref, got>>
  BY Resolving DEF ResolveDone, CreateContainer, images, outside, Inv, StagesMatch
<1>2. /\ deployed' \in [Name -> Exact \cup {None}]
      /\ recorded' \in [Name -> Exact \cup {None}]
  <2>1. CASE ResolveDone
    BY <2>1 DEF ResolveDone, Inv, TypeOK
  <2>2. CASE CreateContainer
    <3>1. PICK a \in todo : KeepContainer(a) \/ NewContainer(a)
      BY <2>2 DEF CreateContainer
    <3>2. CASE KeepContainer(a)
      BY <3>2 DEF KeepContainer, Inv, TypeOK
    <3>3. CASE NewContainer(a)
      <4>1. a \in Artifact /\ CreatedFrom(a) \in Exact
        BY <3>3 DEF NewContainer, Inv, TypeOK
      <4> QED
        BY <3>3, <4>1, ImagePinsAssumption DEF NewContainer, Inv, TypeOK
    <3> QED
      BY <3>1, <3>2, <3>3
  <2> QED
    BY <2>1, <2>2
<1>3. TypeOK'
  BY <1>1, <1>2 DEF Inv, TypeOK, Planned
<1>4. StagesMatch' /\ Searching'
  BY <1>1 DEF StagesMatch, Searching, Planned
<1> QED
  BY <1>1, <1>3, <1>4 DEF Inv, Repos

LEMMA EndKeeps ==
  ASSUME Inv, DeployDone \/ RunStops PROVE Inv' /\ Idle /\ pin' = pin
PROOF
<1>1. Idle /\ Still /\ UNCHANGED images /\ pin' = pin
  BY DEF DeployDone, RunStops, Still
<1> QED
  BY <1>1, IdleKeeps DEF Inv, TypeOK

LEMMA OperatorKeeps ==
  ASSUME Inv, EditManifest \/ Teardown \/ DeleteArtifact PROVE Inv'
PROOF
<1>1. /\ UNCHANGED <<registry, served, hostTag, host, moves>>
      /\ UNCHANGED <<cmd, stage, plan, todo, cur, ref, got>>
      /\ edits' \in 0 .. MaxEdits
  BY ImagePinsAssumption
     DEF EditManifest, Teardown, DeleteArtifact, outside, images, run, Inv, TypeOK
<1>2. manifest' \in [Artifact -> Manifest \cup {NoManifest}]
  BY DEF EditManifest, Teardown, DeleteArtifact, Inv, TypeOK
<1>3. /\ deployed' \in [Name -> Exact \cup {None}]
      /\ recorded' \in [Name -> Exact \cup {None}]
  BY DEF EditManifest, Teardown, DeleteArtifact, Inv, TypeOK
<1>4. /\ pin' \in [Name -> Pin \cup {NoPin}]
      /\ \A n \in Name : pin'[n].requested.repo = pin'[n].exact.repo
  <2>1. CASE EditManifest \/ Teardown
    BY <2>1 DEF EditManifest, Teardown, Inv, TypeOK
  <2>2. CASE DeleteArtifact
    <3>1. PICK a \in Artifact : pin' = PinReleased(a)
      BY <2>2 DEF DeleteArtifact, PinReleased
    <3> QED
      BY <3>1, ReleasedFacts DEF Inv
  <2> QED
    BY <2>1, <2>2
<1>5. TypeOK'
  BY <1>1, <1>2, <1>3, <1>4 DEF Inv, TypeOK
<1>6. StagesMatch'
  BY <1>1 DEF Inv, StagesMatch, Planned, IsManifestOwned
<1>7. Searching'
  <2>1. cmd = "deploy" => pin' = pin
    BY DEF EditManifest, Teardown, DeleteArtifact
  <2> QED
    BY <1>1, <2>1 DEF Inv, Searching, IsManifestOwned, UsablePin
<1> QED
  BY <1>1, <1>5, <1>6, <1>7 DEF Inv, Repos

LEMMA WorldKeeps ==
  ASSUME Inv, TagMoves \/ VersionWithdrawn \/ HostPrunes PROVE Inv'
PROOF
<1>1. /\ UNCHANGED <<manifest, pin, containers, edits>>
      /\ UNCHANGED <<cmd, stage, plan, todo, cur, ref, got>>
      /\ moves' \in 0 .. MaxMoves
  BY ImagePinsAssumption
     DEF TagMoves, VersionWithdrawn, HostPrunes, run, Inv, TypeOK
<1>2. /\ registry' \in [TagRef -> Exact] /\ served' \subseteq Exact
      /\ \A r \in TagRef : registry'[r].repo = r.repo
  BY DEF TagMoves, VersionWithdrawn, HostPrunes, outside, Inv, TypeOK, Repos
<1>3. /\ hostTag' \in [TagRef -> Exact \cup {None}] /\ host' \subseteq Exact
      /\ \A r \in TagRef : hostTag'[r] # None => hostTag'[r].repo = r.repo
  BY DEF TagMoves, VersionWithdrawn, HostPrunes, images, Inv, TypeOK, Repos
<1>4. TypeOK'
  BY <1>1, <1>2, <1>3 DEF Inv, TypeOK
<1>5. StagesMatch' /\ Searching'
  BY <1>1 DEF Inv, StagesMatch, Searching, Planned, IsManifestOwned, UsablePin
<1> QED
  BY <1>2, <1>3, <1>4, <1>5 DEF Inv, Repos

LEMMA ResolveKeeps ==
  ASSUME Inv, ResolveImage PROVE Inv'
PROOF
<1>1. /\ stage = "resolve" /\ Still
      /\ \E a \in todo : ReusePin(a) \/ LocateOnHost(a) \/ ChoosePull(a)
  BY DEF ResolveImage, Still
<1> QED
  BY <1>1, ReusePinKeeps, LocateKeeps, ChoosePullKeeps

LEMMA StepInv ==
  ASSUME Inv, [Next]_vars PROVE Inv'
PROOF
<1>1. CASE UNCHANGED vars
  BY <1>1 DEF vars, outside, images, run, Inv, TypeOK, Repos, StagesMatch, Searching,
              Planned, IsManifestOwned, UsablePin
<1>2. CASE Next
  BY <1>2, BeginKeeps, ResolveKeeps, PullKeeps, PinReferenceKeeps, InspectPulledKeeps,
     ReleasePinKeeps, ApplyKeeps, EndKeeps, OperatorKeeps, WorldKeeps DEF Next
<1> QED
  BY <1>1, <1>2

LEMMA Inductive == Spec => []Inv
PROOF
<1>1. Init => Inv
  BY InitInv
<1>2. Inv /\ [Next]_vars => Inv'
  BY StepInv
<1> QED
  BY <1>1, <1>2, PTL DEF Spec

(* Every variable has its type, and every pin its version in the           *)
(* repository it was requested from.                                       *)
THEOREM TypeCorrect == Spec => []TypeOK
PROOF
<1>1. Inv => TypeOK
  BY DEF Inv
<1> QED
  BY <1>1, Inductive, PTL

-----------------------------------------------------------------------------
(***************************************************************************)
(* A pin changes only for a reason.                                        *)
(***************************************************************************)

LEMMA ChangedForAReason ==
  ASSUME Inv, Next, NEW n \in Name, pin[n] # NoPin, pin'[n] # pin[n]
  PROVE  Asked(n)
PROOF
<1>1. CASE PinReference
  <2>1. NameOf[cur] = n /\ ~IsManifestOwned(cur) /\ cmd # "none"
    BY <1>1, PinReferenceKeeps DEF Inv, StagesMatch, PinReference
  <2>2. CASE cmd = "deploy"
    <3>1. ~UsablePin(cur)
      BY <1>1, <2>1, <2>2 DEF Inv, Searching, PinReference
    <3> QED
      BY <2>1, <2>2, <3>1 DEF Asked, UsablePin
  <2>3. CASE cmd = "bump"
    BY <2>1, <2>3 DEF Asked
  <2> QED
    BY <2>1, <2>2, <2>3 DEF Inv, TypeOK
<1>2. CASE ReleasePin
  BY <1>2, ReleasePinKeeps DEF Asked
<1>3. CASE DeleteArtifact
  <2>1. PICK a \in Artifact :
          deployed[NameOf[a]] = None /\ pin' = [pin EXCEPT ![NameOf[a]] = NoPin]
    BY <1>3 DEF DeleteArtifact
  <2>2. NameOf[a] = n
    BY <2>1 DEF Inv, TypeOK
  <2> QED
    BY <1>3, <2>1, <2>2 DEF DeleteArtifact, Asked
<1>4. CASE ResolveImage
  BY <1>4 DEF ResolveImage, ReusePin, LocateOnHost, ChoosePull
<1>5. CASE \/ Deploy \/ Bump \/ PullImage \/ InspectPulled \/ ResolveDone
           \/ CreateContainer \/ DeployDone \/ RunStops
  BY <1>5 DEF Deploy, Bump, PullImage, InspectPulled, ResolveDone, CreateContainer,
              DeployDone, RunStops
<1>6. CASE EditManifest \/ Teardown \/ TagMoves \/ VersionWithdrawn \/ HostPrunes
  BY <1>6 DEF EditManifest, Teardown, TagMoves, VersionWithdrawn, HostPrunes
<1> QED
  BY <1>1, <1>2, <1>3, <1>4, <1>5, <1>6 DEF Next

(* No failed run, moved tag, withdrawn version, prune or teardown changes  *)
(* a recorded pin.                                                         *)
THEOREM PinsAreStable == Spec => PinsStable
PROOF
<1>1. Inv /\ [Next]_vars =>
        [\A n \in Name : pin[n] # NoPin /\ pin'[n] # pin[n] => Asked(n)]_vars
  BY ChangedForAReason
<1> QED
  BY <1>1, Inductive, PTL DEF Spec, PinsStable

-----------------------------------------------------------------------------
(***************************************************************************)
(* What a deploy is about to run.  Pins are keyed by name, so two artifacts *)
(* of one name would take each other's.                                    *)
(***************************************************************************)

OneNameEach == \A a, b \in Artifact : NameOf[a] = NameOf[b] => a = b

LEMMA ResolvedSettles ==
  ASSUME Inv, Settled, OneNameEach, cmd = "deploy", stage # "apply",
         NEW a \in todo, NEW x, Resolved(a, x),
         IF IsManifestOwned(a) THEN pin'[NameOf[a]] = NoPin
                               ELSE x = pin'[NameOf[a]].exact,
         \A n \in Name \ {NameOf[a]} : pin'[n] = pin[n]
  PROVE  Settled'
PROOF
<1>1. /\ plan' = plan /\ stage' = "resolve" /\ todo' = todo \ {a}
      /\ got' = [got EXCEPT ![a] = x] /\ a \in Artifact
  BY DEF Resolved, Inv, TypeOK
<1>2. SUFFICES ASSUME NEW b \in Planned, b \notin todo \ {a} PROVE Agreed(b)'
  BY <1>1 DEF Settled, Planned
<1>3. CASE b = a
  BY <1>1, <1>3 DEF Agreed, IsManifestOwned, Inv, TypeOK
<1>4. CASE b # a
  <2>1. b \in Artifact /\ Agreed(b)
    BY <1>2, <1>4 DEF Planned, Settled
  <2>2. NameOf[b] \in Name \ {NameOf[a]}
    BY <1>1, <1>4, <2>1, ImagePinsAssumption DEF OneNameEach
  <2> QED
    BY <1>1, <1>4, <2>1, <2>2 DEF Agreed, IsManifestOwned, Inv, TypeOK
<1> QED
  BY <1>3, <1>4

(* A step that keeps the pins of a deploy and moves no artifact out of the *)
(* steps left keeps what is settled.                                       *)
LEMMA QuietSettles ==
  ASSUME Inv, Settled, cmd' = cmd, plan' = plan, cmd = "deploy" => pin' = pin,
         stage # "apply" => stage' # "apply",
         stage' # "apply" => todo' = todo,
         \A a \in Artifact : a \notin todo \/ stage = "apply" => got'[a] = got[a]
  PROVE  Settled'
  BY DEF Settled, Planned, Agreed, IsManifestOwned

LEMMA StepSettles ==
  ASSUME Inv, Settled, OneNameEach, [Next]_vars PROVE Settled'
PROOF
<1>1. CASE Bump \/ DeployDone \/ RunStops
  BY <1>1 DEF Bump, DeployDone, RunStops, Idle, Settled
<1>2. CASE Deploy
  BY <1>2 DEF Deploy, Settled, Planned
<1>3. CASE ResolveImage
  <2>1. cmd = "deploy" /\ stage = "resolve" /\ Still
    BY <1>3, Resolving DEF ResolveImage, Still
  <2>2. PICK a \in todo : ReusePin(a) \/ LocateOnHost(a) \/ ChoosePull(a)
    BY <1>3 DEF ResolveImage
  <2>3. CASE ReusePin(a)
    BY <2>1, <2>3, ReusePinKeeps, ResolvedSettles
  <2>4. CASE LocateOnHost(a) \/ ChoosePull(a)
    BY <2>1, <2>4, QuietSettles DEF LocateOnHost, ChoosePull, Inv, TypeOK
  <2> QED
    BY <2>2, <2>3, <2>4
<1>4. CASE PullImage
  BY <1>4, QuietSettles DEF PullImage
<1>5. CASE PinReference
  <2>1. CASE cmd = "bump"
    BY <1>5, <2>1 DEF PinReference, Idle, Settled
  <2>2. CASE cmd # "bump"
    <3>1. cmd = "deploy" /\ cur \in todo /\ stage = "inspect"
      BY <1>5, <2>2 DEF PinReference, Inv, TypeOK, StagesMatch
    <3>2. Resolved(cur, OnHost(ref))
      BY <1>5, <2>2 DEF PinReference
    <3> QED
      BY <1>5, <3>1, <3>2, PinReferenceKeeps, ResolvedSettles
  <2> QED
    BY <2>1, <2>2
<1>6. CASE InspectPulled
  <2>1. cmd = "deploy" /\ cur \in todo
    BY <1>6 DEF InspectPulled, Inv, TypeOK, StagesMatch
  <2> QED
    BY <1>6, <2>1, QuietSettles DEF InspectPulled, Inv, TypeOK
<1>7. CASE ReleasePin
  <2>1. stage = "release" /\ Resolved(cur, got[cur])
    BY <1>7 DEF ReleasePin
  <2> QED
    BY <1>7, <2>1, ReleasePinKeeps, ResolvedSettles
<1>8. CASE ResolveDone
  BY <1>8 DEF ResolveDone, Settled, Planned, Agreed, IsManifestOwned
<1>9. CASE CreateContainer
  BY <1>9, QuietSettles DEF CreateContainer
<1>10. CASE \/ EditManifest \/ Teardown \/ DeleteArtifact \/ TagMoves
            \/ VersionWithdrawn \/ HostPrunes \/ UNCHANGED vars
  BY <1>10, QuietSettles
     DEF EditManifest, Teardown, DeleteArtifact, TagMoves, VersionWithdrawn,
         HostPrunes, run, vars
<1> QED
  BY <1>1, <1>2, <1>3, <1>4, <1>5, <1>6, <1>7, <1>8, <1>9, <1>10 DEF Next

LEMMA AlwaysSettled == ASSUME OneNameEach PROVE Spec => []Settled
PROOF
<1>1. Init => Settled
  BY DEF Init, Settled
<1>2. Inv /\ Settled /\ [Next]_vars => Settled'
  BY StepSettles
<1> QED
  BY <1>1, <1>2, Inductive, PTL DEF Spec

LEMMA ApplyAgrees ==
  ASSUME Inv, Settled, stage = "apply", NEW a \in Planned PROVE Agreed(a)
  BY Resolving DEF Settled

(* What a deploy is about to run under Pinned is what the pin records,     *)
(* whatever the registry and the host did before or during the deploy.     *)
THEOREM PinnedRunsPin == ASSUME OneNameEach PROVE Spec => []RunsPin
PROOF
<1>1. Inv /\ Settled => RunsPin
  BY ApplyAgrees DEF RunsPin, Agreed
<1> QED
  BY <1>1, Inductive, AlwaysSettled, PTL

(* A deploy that reaches the containers has released the pin of every      *)
(* artifact whose version the manifest owns.                               *)
THEOREM StalePinsReleased ==
  ASSUME OneNameEach PROVE Spec => []ManifestOwnedHoldsNoPin
PROOF
<1>1. Inv /\ Settled => ManifestOwnedHoldsNoPin
  BY ApplyAgrees DEF ManifestOwnedHoldsNoPin, Agreed
<1> QED
  BY <1>1, Inductive, AlwaysSettled, PTL
=============================================================================
