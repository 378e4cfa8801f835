----------------------------- MODULE ImagePins -----------------------------
(***************************************************************************)
(* Which exact version of its image every artifact of a team runs:         *)
(* the resolution pre-pass of a deploy (internal/engine/engine.go,         *)
(* internal/engine/local/dockercontainer/docker_image.go), the pin store   *)
(* (internal/state/local/pins.go) and the bump and delete commands.        *)
(*                                                                         *)
(* One command runs at a time, one registry, daemon or store call per      *)
(* step.  Between the calls the registry moves tags and stops serving      *)
(* versions, and the host prunes images.  A run may stop before any call.  *)
(***************************************************************************)
EXTENDS FiniteSets, Integers

CONSTANTS
  Artifact,   \* applications and resources: kind and name
  Name,       \* their names, which key pins and containers
  NameOf,     \* the name of each artifact
  Repo,       \* image repositories
  Tag,        \* tags of a repository
  Digest,     \* registry digests
  Policy,     \* the pull policies the manifests use
  MaxMoves,   \* bound: tag moves, withdrawn versions, prunes
  MaxEdits    \* bound: manifest edits, bumps, teardowns, deletes

ASSUME ImagePinsAssumption ==
  /\ NameOf \in [Artifact -> Name]
  /\ Policy \subseteq {"Pinned", "IfNotPresent", "Always"}
  /\ Tag \cap Digest = {}
  /\ MaxMoves \in Nat /\ MaxEdits \in Nat

(* A reference names a tag or an exact version of a repository. *)
TagRef == [repo : Repo, version : Tag]
Exact == [repo : Repo, version : Digest]
Ref == TagRef \cup Exact

None == [repo |-> "none", version |-> "none"]
Manifest == [ref : TagRef, policy : Policy]
NoManifest == [ref |-> None, policy |-> "none"]
Pin == [owner : Artifact, requested : Ref, exact : Exact]
NoPin == [owner |-> "none", requested |-> None, exact |-> None]

VARIABLES
  manifest,  \* the manifests on disk
  pin,       \* pins.txt, keyed by name
  registry,  \* the exact version every tag of the registry names
  served,    \* exact versions the registry still serves
  hostTag,   \* what the host's copy of every tag names, or None
  host,      \* exact versions the host has
  deployed,  \* the exact version each container was created from
  recorded,  \* deployments.txt: the version in the configuration recorded
  cmd,       \* "none", "deploy" or "bump"
  stage,     \* the call the command makes next
  plan,      \* the manifests the command loaded
  todo,      \* artifacts still to resolve, then to apply
  cur, ref,  \* the artifact being resolved and the reference it resolves
  got,       \* the exact versions resolved so far
  moves, edits

outside == <<registry, served>>
images == <<hostTag, host>>
containers == <<deployed, recorded>>
run == <<cmd, stage, plan, todo, cur, ref, got>>
vars == <<manifest, pin, outside, images, containers, run, moves, edits>>

NoArtifact == "none"
Planned == {a \in Artifact : plan[a] # NoManifest}
NoPlan == [a \in Artifact |-> NoManifest]
Idle ==
  /\ cmd' = "none" /\ stage' = "idle" /\ plan' = NoPlan /\ todo' = {}
  /\ cur' = NoArtifact /\ ref' = None /\ got' = [a \in Artifact |-> None]

Init ==
  /\ manifest \in [Artifact -> Manifest]
  /\ pin = [n \in Name |-> NoPin]
  /\ registry \in [TagRef -> Exact]
  /\ \A r \in TagRef : registry[r].repo = r.repo
  /\ served = Exact
  /\ hostTag = [r \in TagRef |-> None]
  /\ host = {}
  /\ deployed = [n \in Name |-> None] /\ recorded = [n \in Name |-> None]
  /\ cmd = "none" /\ stage = "idle" /\ plan = NoPlan /\ todo = {}
  /\ cur = NoArtifact /\ ref = None /\ got = [a \in Artifact |-> None]
  /\ moves = MaxMoves /\ edits = MaxEdits

-----------------------------------------------------------------------------
(***************************************************************************)
(* Starting a command.  A deploy resolves the artifacts in plan order,     *)
(* which differs from set to set: any order here.                          *)
(***************************************************************************)

Deploy ==
  /\ cmd = "none"
  /\ cmd' = "deploy" /\ stage' = "resolve" /\ plan' = manifest
  /\ todo' = {a \in Artifact : manifest[a] # NoManifest}
  /\ UNCHANGED <<manifest, pin, outside, images, containers, cur, ref, got>>
  /\ UNCHANGED <<moves, edits>>

(* bump moves a Pinned artifact to a tag or exact version of the repository *)
(* its manifest names.                                                      *)
BumpTarget(a) == {r \in Ref : r.repo = manifest[a].ref.repo}

Bump ==
  /\ cmd = "none" /\ edits > 0 /\ edits' = edits - 1
  /\ \E a \in Artifact :
       /\ manifest[a].policy = "Pinned"
       /\ cur' = a
       /\ ref' \in BumpTarget(a)
  /\ cmd' = "bump" /\ stage' = "pull" /\ plan' = manifest
  /\ UNCHANGED <<manifest, pin, outside, images, containers, todo, got, moves>>

-----------------------------------------------------------------------------
(***************************************************************************)
(* Resolving one artifact.                                                 *)
(***************************************************************************)

IsManifestOwned(a) == plan[a].policy # "Pinned"

(* Mutant: no pin is ever reused.                                          *)
NeverUsable(a) == FALSE

(* A pin for another repository counts as absent.                          *)
UsablePin(a) ==
  /\ pin[NameOf[a]] # NoPin
  /\ pin[NameOf[a]].requested.repo = plan[a].ref.repo

(* Mutant: the pinned version is looked up by the tag it was resolved from. *)
TagOfPin(p) ==
  IF p.requested \in TagRef THEN registry[p.requested] ELSE p.exact

(* The image a reused pin runs. *)
PinnedVersion(p) == p.exact

Resolved(a, x) ==
  /\ got' = [got EXCEPT ![a] = x]
  /\ todo' = todo \ {a}
  /\ cur' = NoArtifact /\ ref' = None /\ stage' = "resolve"
  /\ UNCHANGED <<cmd, plan>>

(* The pinned version runs from the host, or is fetched by its digest; when *)
(* neither has it the deploy fails (RunStops).                              *)
ReusePin(a) ==
  LET x == PinnedVersion(pin[NameOf[a]])
  IN  /\ ~IsManifestOwned(a) /\ UsablePin(a)
      /\ x \in host \cup served
      /\ host' = host \cup {x}
      /\ Resolved(a, x)
      /\ UNCHANGED <<pin, hostTag>>

(* IfNotPresent takes the host's copy of the tag as it is. *)
LocateOnHost(a) ==
  /\ plan[a].policy = "IfNotPresent" /\ hostTag[plan[a].ref] # None
  /\ got' = [got EXCEPT ![a] = hostTag[plan[a].ref]]
  /\ cur' = a /\ ref' = plan[a].ref /\ stage' = "release"
  /\ UNCHANGED <<pin, images, cmd, plan, todo>>

MustPull(a) ==
  \/ plan[a].policy = "Pinned" /\ ~UsablePin(a)
  \/ plan[a].policy = "IfNotPresent" /\ hostTag[plan[a].ref] = None
  \/ plan[a].policy = "Always"

ChoosePull(a) ==
  /\ MustPull(a)
  /\ cur' = a /\ ref' = plan[a].ref /\ stage' = "pull"
  /\ UNCHANGED <<pin, images, cmd, plan, todo, got>>

ResolveImage ==
  /\ stage = "resolve"
  /\ \E a \in todo : ReusePin(a) \/ LocateOnHost(a) \/ ChoosePull(a)
  /\ UNCHANGED <<manifest, outside, containers, moves, edits>>

Served(r) == IF r \in TagRef THEN registry[r] ELSE r

PullImage ==
  /\ stage = "pull"
  /\ Served(ref) \in served
  /\ host' = host \cup {Served(ref)}
  /\ hostTag' = IF ref \in TagRef
                THEN [hostTag EXCEPT ![ref] = registry[ref]] ELSE hostTag
  /\ stage' = "inspect"
  /\ UNCHANGED <<manifest, pin, outside, containers, moves, edits>>
  /\ UNCHANGED <<cmd, plan, todo, cur, ref, got>>

(* What the daemon answers for a reference once it is pulled. *)
OnHost(r) ==
  IF r \in TagRef THEN hostTag[r] ELSE IF r \in host THEN r ELSE None

(* Mutant: the pin keeps the version the previous pin had.                 *)
PutKeepsExact(a, x) ==
  LET old == pin[NameOf[a]]
  IN  [pin EXCEPT ![NameOf[a]] =
         [owner |-> a, requested |-> ref,
          exact |-> IF old = NoPin THEN x ELSE old.exact]]

Put(a, x) ==
  [pin EXCEPT ![NameOf[a]] = [owner |-> a, requested |-> ref, exact |-> x]]

(* pinReference: the version the daemon reports is recorded as the pin. *)
PinReference ==
  /\ stage = "inspect" /\ ~IsManifestOwned(cur)
  /\ OnHost(ref) # None
  /\ pin' = Put(cur, OnHost(ref))
  /\ IF cmd = "bump" THEN Idle ELSE Resolved(cur, OnHost(ref))
  /\ UNCHANGED <<manifest, outside, images, containers, moves, edits>>

InspectPulled ==
  /\ stage = "inspect" /\ IsManifestOwned(cur)
  /\ OnHost(ref) # None
  /\ got' = [got EXCEPT ![cur] = OnHost(ref)]
  /\ stage' = "release"
  /\ UNCHANGED <<manifest, pin, outside, images, containers, moves, edits>>
  /\ UNCHANGED <<cmd, plan, todo, cur, ref>>

(* Mutant: a manifest-owned deploy keeps the pin.                          *)
PinKept(a) == pin

PinReleased(a) == [pin EXCEPT ![NameOf[a]] = NoPin]

(* A manifest-owned resolution gives the artifact's pin back. *)
ReleasePin ==
  /\ stage = "release"
  /\ pin' = PinReleased(cur)
  /\ Resolved(cur, got[cur])
  /\ UNCHANGED <<manifest, outside, images, containers, moves, edits>>

-----------------------------------------------------------------------------
(***************************************************************************)
(* Applying: every image is resolved before the first container changes.   *)
(***************************************************************************)

ResolveDone ==
  /\ cmd = "deploy" /\ stage = "resolve" /\ todo = {}
  /\ stage' = "apply" /\ todo' = Planned
  /\ UNCHANGED <<manifest, pin, outside, images, containers, moves, edits>>
  /\ UNCHANGED <<cmd, plan, cur, ref, got>>

(* A container is created from the host's copy: of the exact version under *)
(* Pinned, of the tag otherwise, whatever it names by now.                 *)
CreatedFrom(a) == IF IsManifestOwned(a) THEN hostTag[plan[a].ref] ELSE got[a]

(* The container stays when the hash on record has the version resolved; it *)
(* goes all the same when something else of its configuration changed.      *)
KeepContainer(a) ==
  /\ deployed[NameOf[a]] # None /\ recorded[NameOf[a]] = got[a]
  /\ UNCHANGED containers

NewContainer(a) ==
  /\ CreatedFrom(a) \in host
  /\ deployed' = [deployed EXCEPT ![NameOf[a]] = CreatedFrom(a)]
  /\ recorded' = [recorded EXCEPT ![NameOf[a]] = got[a]]

CreateContainer ==
  /\ stage = "apply"
  /\ \E a \in todo :
       /\ KeepContainer(a) \/ NewContainer(a)
       /\ todo' = todo \ {a}
  /\ UNCHANGED <<manifest, pin, outside, images, moves, edits>>
  /\ UNCHANGED <<cmd, stage, plan, cur, ref, got>>

DeployDone ==
  /\ stage = "apply" /\ todo = {}
  /\ Idle
  /\ UNCHANGED <<manifest, pin, outside, images, containers, moves, edits>>

(* An error of a call, or the end of the process: nothing is undone. *)
RunStops ==
  /\ cmd # "none"
  /\ Idle
  /\ UNCHANGED <<manifest, pin, outside, images, containers, moves, edits>>

-----------------------------------------------------------------------------
(***************************************************************************)
(* The operator's other commands and the world around.                     *)
(***************************************************************************)

EditManifest ==
  /\ edits > 0 /\ edits' = edits - 1
  /\ \E a \in Artifact, m \in Manifest \cup {NoManifest} :
       manifest' = [manifest EXCEPT ![a] = m]
  /\ UNCHANGED <<pin, outside, images, containers, run, moves>>

(* Teardown removes containers and leaves the pins. *)
Teardown ==
  /\ cmd = "none" /\ edits > 0 /\ edits' = edits - 1
  /\ deployed' = [n \in Name |-> None] /\ recorded' = [n \in Name |-> None]
  /\ UNCHANGED <<manifest, pin, outside, images, run, moves>>

(* The kind guard: only the artifact's own pin.  Docker answers here; a    *)
(* delete that cannot inspect the container is in module Containers.       *)
FindImagePin(a) == pin[NameOf[a]] # NoPin /\ pin[NameOf[a]].owner = a

DeleteArtifact ==
  /\ cmd = "none" /\ edits > 0 /\ edits' = edits - 1
  /\ \E a \in Artifact :
       /\ deployed[NameOf[a]] = None
       /\ FindImagePin(a)
       /\ pin' = [pin EXCEPT ![NameOf[a]] = NoPin]
  /\ UNCHANGED <<manifest, outside, images, containers, run, moves>>

TagMoves ==
  /\ moves > 0 /\ moves' = moves - 1
  /\ \E r \in TagRef, x \in served :
       /\ x.repo = r.repo
       /\ registry' = [registry EXCEPT ![r] = x]
  /\ UNCHANGED <<manifest, pin, served, images, containers, run, edits>>

VersionWithdrawn ==
  /\ moves > 0 /\ moves' = moves - 1
  /\ \E x \in served : served' = served \ {x}
  /\ UNCHANGED <<manifest, pin, registry, images, containers, run, edits>>

(* An image no container uses is pruned, with the tags that name it. *)
HostPrunes ==
  /\ moves > 0 /\ moves' = moves - 1
  /\ \E x \in host :
       /\ \A n \in Name : deployed[n] # x
       /\ host' = host \ {x}
       /\ hostTag' = [r \in TagRef |->
                        IF hostTag[r] = x THEN None ELSE hostTag[r]]
  /\ UNCHANGED <<manifest, pin, outside, containers, run, edits>>

Next ==
  \/ Deploy \/ Bump
  \/ ResolveImage \/ PullImage \/ PinReference \/ InspectPulled \/ ReleasePin
  \/ ResolveDone \/ CreateContainer \/ DeployDone \/ RunStops
  \/ EditManifest \/ Teardown \/ DeleteArtifact
  \/ TagMoves \/ VersionWithdrawn \/ HostPrunes

Spec == Init /\ [][Next]_vars

-----------------------------------------------------------------------------
(***************************************************************************)
(* Properties.                                                             *)
(***************************************************************************)

(* Every variable has its type; a pin's exact version belongs to the        *)
(* repository it was requested from, and a container never runs a version   *)
(* of no repository.                                                        *)
TypeOK ==
  /\ manifest \in [Artifact -> Manifest \cup {NoManifest}]
  /\ pin \in [Name -> Pin \cup {NoPin}]
  /\ \A n \in Name : pin[n].requested.repo = pin[n].exact.repo
  /\ registry \in [TagRef -> Exact] /\ served \subseteq Exact
  /\ hostTag \in [TagRef -> Exact \cup {None}] /\ host \subseteq Exact
  /\ deployed \in [Name -> Exact \cup {None}]
  /\ recorded \in [Name -> Exact \cup {None}]
  /\ cmd \in {"none", "deploy", "bump"}
  /\ stage \in {"idle", "resolve", "pull", "inspect", "release", "apply"}
  /\ plan \in [Artifact -> Manifest \cup {NoManifest}]
  /\ todo \subseteq Artifact /\ cur \in Artifact \cup {NoArtifact}
  /\ ref \in Ref \cup {None}
  /\ got \in [Artifact -> Exact \cup {None}]
  /\ moves \in 0 .. MaxMoves /\ edits \in 0 .. MaxEdits

(* What a deploy is about to run for an artifact under Pinned is the version *)
(* its pin records, however the registry moved the tag, withdrew the version *)
(* or the host pruned it, during this deploy or before it (docker_image.go   *)
(* reusePin: "the tag is never consulted").                                  *)
RunsPin ==
  stage = "apply" =>
    \A a \in Planned :
      ~IsManifestOwned(a) => got[a] = pin[NameOf[a]].exact

(* A deploy that reaches the containers has left no pin for an artifact     *)
(* whose version the manifest owns: a stale one would come back into force   *)
(* when the policy returns to Pinned (docker_image.go releasePin).           *)
ManifestOwnedHoldsNoPin ==
  stage = "apply" =>
    \A a \in Planned : IsManifestOwned(a) => pin[NameOf[a]] = NoPin

(* A recorded pin changes only for a reason the operator gave: a bump of     *)
(* that artifact, a delete of one without a container, a deploy under a      *)
(* manifest-owned policy or from another repository.  No failed run, moved   *)
(* tag, withdrawn version, prune or teardown changes it (state/pins.go:      *)
(* "Pins outlive containers and teardown").                                  *)
Asked(n) ==
  \/ cmd = "none" /\ deployed[n] = None
  \/ cmd = "bump" /\ NameOf[cur] = n
  \/ /\ cmd = "deploy" /\ NameOf[cur] = n
     /\ \/ IsManifestOwned(cur)
        \/ plan[cur].ref.repo # pin[n].requested.repo

PinsStable ==
  [][\A n \in Name : pin[n] # NoPin /\ pin'[n] # pin[n] => Asked(n)]_vars

(* A deploy changes or releases only the pin of the artifact it resolves.    *)
(* The specification of pins has them per artifact; the store keys them by   *)
(* the name alone, which an application and a resource may share.            *)
PinsPerArtifact ==
  [][\A n \in Name :
       pin[n] # NoPin /\ pin'[n] # pin[n] /\ cmd # "none"
         => cur = pin[n].owner]_vars
=============================================================================
