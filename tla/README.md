# Shrine in TLA+

Shrine deploys applications and resources, described by YAML manifests, as Docker
containers on one host. A command (`shrine deploy`, `apply`, `teardown`, `bump`,
`delete`) is a process that reads state files, plans, makes a sequence of Docker,
registry and state-file calls and ends. The first error ends it; nothing it did is
undone. All of the difficulty is in that sentence: what is left behind by a run
that stopped, what the next run makes of it, and what the outside world (an
operator, Docker, the registry, the gateway's configuration) changed in between.

This directory holds TLA+ models of the parts of Shrine that keep state, the TLC
configurations that check them, and proofs checked by TLAPS.

## 1. Inventory

| Component | State | Operations | Interacts with |
|---|---|---|---|
| Host-port store (`state/local/hostports.go`) | `hostports.txt`; per process the `ports` map and `taken` set, loaded once | `AllocateHostPort`, `ClaimHostPort`, `ReleaseHostPort`, `ReleaseTeamHostPorts` | backend (`resolvePublishBinding`), planner (persisted ports), delete commands |
| Subnet store (`state/local/subnets.go`) | `subnets.txt`, memory loaded once | `AllocateSubnet`, `ReleaseSubnet` | `CreateNetwork`, delete team |
| Pin store (`state/local/pins.go`) | a `pins.txt` per team, read per call | `Get`, `Put`, `Release`, `ReleaseTeam` | image resolution, bump, delete |
| Deployment records (`state/local/deployments.go`) | a `deployments.txt` per team, read per call | `Record`, `Remove`, `List` | backend, `PlanTeardown`, status, delete |
| Team registry (`state/local/teams.go`) | a file per team | `SaveTeam`, `DeleteTeam`, `LoadTeam` | planner (quota), apply teams, delete team |
| Secret store (`state/local/secrets.go`) | a `secrets.env` per team, read per call, replaced by a rename | `GetOrGenerate`, `Get`, `List` | resolver |
| Docker backend (`engine/local/dockercontainer`) | Docker: containers, networks, images, volumes | `CreateContainer`, `RemoveContainer`, `ResolveImage`, `CreateNetwork`, `RemoveNetwork` | all stores, registry |
| Engine (`engine/engine.go`) | none | `ExecuteDeploy`, `ExecuteTeardown` | backend, resolver, routing and DNS backends |
| Planner (`planner`, `topo`) | none | `Plan`, `PlanTeardown`, enrichment, ordering, collision checks | manifests, team registry, host-port file |
| Resolver (`resolver`) | exports and environments of one run | values of `valueFrom`, templates, exports; the same for a dry run | secret store, vault plugin, engine |
| Traefik plugin (`plugins/gateway/traefik`) | `traefik.yml`, `dynamic/`: a file per routed application and one for the dashboard, all written once; its own container | `WriteRoute`, `RemoveRoute`, `Finalize` | engine, planner (route collisions), host-port store (reserved ports), an operator who edits the files |
| Commands (`handler`, `cmd`, `app`) | none | deploy, apply, teardown, bump, delete, listings, status | everything above |

What is hard here:

- **A run stops between two calls.** Docker and the state files are updated by
  separate calls: a container exists before its record does; a host port moves
  before its container does; a team is deleted in five steps.
- **The outside moves.** Containers exit or are removed by hand, tags move,
  versions disappear, images are pruned, the gateway takes another port.
- **Two pieces of state must agree**: memory and file (after a failed write too),
  record and container, pin and running image, reservation and network, the
  planner's picture of the ports and the store's.
- **Long sequences of legal commands**: deploy, edit, deploy, teardown, delete,
  register again.
- **Bounded ranges**: automatic ports, third octets.
- **Checks in one place, use in another**: the planner checks a manifest set
  field by field, the enrichers look references up by other names, a filter narrows
  the plan but not what the engine resolves, and warnings are given before the
  file they speak of exists.
- **Overlapping processes**: nothing locks the state files.

What makes each component correct is stated as the properties of its module
(section 3); PROJECT.json lists the hazards with the line where each bites.

## 2. Modules

| Module | Models | Run directly or through |
|---|---|---|
| `HostPorts` | the host-port store, memory, file, failed writes, crashes, overlapping processes | `MCHostPorts` |
| `HostPortsProofs` | its theorems | tlapm |
| `Publishing` | planner check, claims and allocations, container bindings; EXTENDS `HostPorts` | `MCPublishing` |
| `PublishingProofs` | its theorems; EXTENDS `HostPortsProofs` | tlapm |
| `Containers` | containers and records, one Docker or store call per step | `MCContainers` |
| `Rollout` | what deploys and teardowns promise (abstract) | refined by `Containers` |
| `ContainersProofs` | the theorems of `Containers`, the refinement among them | tlapm |
| `ImagePins` | image resolution, pins, bump, with a registry that changes | `MCImagePins` |
| `ImagePinsProofs` | its theorems | tlapm |
| `TeamNetworks` | a team's subnet, network, ports, pins and record from registration to deletion | itself |
| `TeamNetworksProofs` | its theorems | tlapm |
| `PlanOrder` | inferred dependencies, topological sort, team filter, deploy loop | `MCPlanOrder` |
| `PlanOrderProofs` | its theorems | tlapm |
| `Planning` | the checks on a manifest set, the filter, what the planner accepts (operators only) | `Values` |
| `Resolution` | templates, environments, exports, references, dry runs (operators only); EXTENDS `Planning` | `Values` |
| `Values` | a deploy value by value, with the secret store and the vault; EXTENDS `Resolution` | `MCValues` |
| `ValuesProofs` | its theorems | tlapm |
| `Routing` | route claims, route files, `traefik.yml`, the dashboard's file, warnings, teardown | `MCRouting` |
| `RoutingProofs` | its theorems | tlapm |

### HostPorts

`file` is `hostports.txt`; `ports`, `taken` and `reserved` are the fields of a
store, one store per process. `NewHostPortStore` seeds `taken` with the gateway's
ports and loads the file. `Save` is the common end of every changing call: the
file is replaced by the process's map, or the write fails and the caller puts
memory back, each in its own way (`ClaimRollback`). Refused or idempotent calls
are stuttering steps. A crash is `Exit` at any time; the write is a rename, hence
atomic.

### Publishing

Adds the manifests' `publish` option (absent, off, automatic, explicit), the
planner's check (`Collides`, over the whole set whatever the filter), the binding
of one application at a time (`KeepBinding` when no write is needed, `TakeBinding`
otherwise) and the container that binds it. It composes the store by extending
its module and using its actions. The container is taken through the calls of
`CreateContainer` one at a time: `Inspect` keeps it, starts it or goes on to
`RemoveStale`, `Create`, `Start` (which Docker refuses while another running
container holds the port) and `RecordDeployment`. `record` is the port in the
configuration on record: when it is not the one asked for the hash cannot match; when
it is, the hash may match or not, for something else of the configuration may have
changed. The deploy may end before any of these calls, with the old container gone,
a new one there and the old record in place.

### Containers and Rollout

`container` is Docker's view of `team.name`, `record` is `deployments.txt`, `at`
is the call the run makes next. Each Docker or store call of `CreateContainer` and
`RemoveContainer` is an action. A configuration stands for what `ConfigHash`
digests. `RunStops` ends a run before any call of `Fault`; a call whose effect
happened and whose answer was lost is the call followed by a stop. Containers
exit or are removed by hand between any two calls. Steps of a plan are taken in
any order, which includes the plan's. A delete refuses only when the inspection of the
container succeeds; with `"del_inspect"` in `Fault` the inspection may fail
(`DeleteUnasked`).

The code has no protection against a stop between creating a container and
recording it (`docker_container.go` 129-157): the record is missing, or is the
container's predecessor's. Nothing is excluded here because of it. `astray` is a
history variable, read by no call, with the names whose container was left like that
(or was forgotten by a blind delete) and is still there. The properties say what such a
name may suffer and that no other does.

`Rollout` is the promise without Docker: a run works through a set of names, a
deploy takes a container away only if it is not the wanted one, or is `loose`.
`Implements` is the refinement, with `actual` the configuration of each container,
`pending` the steps left and the one in progress, and `loose` the names astray.

### ImagePins

A reference is a tag or an exact version of a repository; the registry maps tags
to exact versions; `hostTag` and `host` are the image store of the host. The
resolution of one artifact goes through `ResolveImage`, then where needed
`PullImage`, then `PinReference` (policy Pinned) or `InspectPulled` and
`ReleasePin` (the manifest owns the version). The pre-pass resolves every
artifact before the first container is touched (`ResolveDone`). A container is
then created from what was resolved under Pinned, and from the tag otherwise
(`CreatedFrom`), whatever the host's tag names by then; one whose recorded version is
the resolved one may be kept. Removal, creation and record of a container are one
step here (`Containers` has them apart). `bump` uses the same calls for one artifact.

### TeamNetworks

One container per team stands for its containers. `DeleteTeam` is the five steps of
`handler/teams.go`, each of which the command may stop before. `PoolFree` is
Docker's refusal of an overlapping subnet.

### PlanOrder

`StartSort`, `TakeNode`, `VisitDependent` and `EnqueueFreed` are the phases of
`topo.Sort`; dependents are visited in any order, as Go's map iteration does, and
what was freed is enqueued sorted. `Selected` is the team filter: the kept
positions of the order, in increasing order. `DeployStep` is the engine's loop; it
may end after any step.

### Planning, Resolution and Values

A manifest set is a function from `<<kind, name>>` to manifests, as
`MergeManifest` builds it: one name per kind, across teams. `Planning` has one
operator per check (`DependencyOK`, `ValueFromOK`, `EnvTemplatesOK`, `QuotaOK`,
`PolicyOK`, ...); `ResolveOK` is `planner.Resolve` and `Accepted` is `planner.Plan`,
for a filter. An image, and a resource's type, is its name, tag, digest and alias:
the default image is made of the type as written (`redis:7` has a tag), and the checks
of fixed versions do not apply to it (`IsImageOverride`). A template is `refs`, the names
`ExtractFieldRefs` finds (`{{.x}}`), `hidden`, names it reads that are not found
(`{{$.x}}`), which no check sees, and `picky`, whether it refuses some values when it is
executed: the placeholders of a dry run, or a value of a deploy (`{{slice .pass 0 20}}`
refuses `[GENERATED]` and takes a secret). A reference without a name or an output
(`resource..x`, `resource.x.`) is not `Recognised` by enrichment; the planner accepts
it, and it fails when it is looked up.

`Resolution` computes environments and exports. A value is the set of what it is
made of (a static text, a secret with its serial number, a vault value with its
version, a built-in of a manifest, or a hole where Go renders `<no value>`,
marked apart for a hidden name), so that it can be followed through exports and
templates. Hidden names do not order the templates of a manifest, so what one
reads there may or may not be rendered yet: the value is the set of what it may be
made of.

`Values` is a deploy: `Deploy` is accepted or not; each resource of the whole set is
resolved in dependency order, one value at a time in any order (`DrawStatic`,
`DrawReference`, `DrawVault`, `ReuseSecret`, or `GenerateSecret` and then `SaveTeam`,
between which the run may stop); `ResolveResource` renders templates and
publishes exports; then the steps are taken, an application being resolved in its
own. `RunStops` may end a run anywhere and forgets what was resolved. Manifests
change between runs, the vault at any time. Secrets survive teardowns.

### Routing

`files` is the directory `dynamic/`, `static` is `traefik.yml`. A route file has a
rule per route, or is `Foreign`: torn by a run that stopped, or an operator's. A
step creates the container and then writes the route (`WriteRoute`), finds a
file (`PreserveRoute`), cannot look (`RouteStatError`) or fails half way
(`RouteFails`). `Finalize` is `PreserveStatic` or `GenerateStatic`, then
`FinalizeDashboard`. `events` is what the observer was told in this run. A prefix is
a path and a number of trailing slashes, since the collision check and the two
kinds of rules trim them differently. `FileOf` gives each application's file
name; two applications may share one.

The module is about one directory. `scope.here` says whether the run has a gateway
that uses it. A deploy or a teardown may use another: `deploy --path d` without
`routing-dir` writes below `d`, and a teardown without `specsDir` looks in a relative
`traefik` (`resolveOptionalSpecsDir`, `plugin.go` 119-125). `apply --file` deploys one
application with an engine that has no routing backend and no plugin
(`BuildApplyBundle`): no configuration check, no route file, no warning, no `Finalize`
(`NoGateway`). A deploy whose plan is empty ends before the engine is called
(`DeployNothing`).

## 3. Runs

Every property has a mutant: a plausible bug (an operator preceded by a
"Mutant:" comment) under which TLC reports the property violated.

| Run | Checks | Bounds |
|---|---|---|
| `host_ports` | `TypeOK`; `TakenIsHeldOrReserved`, the two maps of a store agree; `MemoryIsFile`, also after failed writes; `PortsNeverShared`; `PortsStable` | 3 applications, 2 teams, 2 automatic and 2 explicit ports, 3 gateway configurations, one process at a time |
| `publishing` | `ApprovedNeverTaken`: the store never refuses a claim the planner accepted; `DeployedOnRecordedPort`: record, file and container agree on the port, the container unless an earlier deploy left it astray | 3 symmetric applications, 1 automatic port, 2 explicit ports, gateway off or on one of them, 2 edits, teardowns or deletes, any number of deploys and stops |
| `containers` | `RecordIsTruthful`, `NoOrphan`, `ChangeMissesOnlyAstray`, `TeardownRemovesAll`, `Implements`, `Converges`, each with what a name astray may suffer | 2 names, 2 configurations, 3 stops, exits, removals or failed inspections, 2 edits, teardowns or deletes |
| `image_pins` | `RunsPin`, `ManifestOwnedHoldsNoPin`, `PinsStable` | 2 artifacts, 2 repositories with a tag and 2 versions each, 2 moves of the outside, 1 edit, bump, teardown or delete; symmetric in repositories, versions and artifacts |
| `team_networks` | `SubnetsDistinct`, `DeployedOnOwnSubnet`, `ForgottenHoldsNothing`, `SubnetStable` | 3 teams, 2 octets, 2 stops, exits or removals, 2 teardowns or deletions |
| `plan_order` | `DependenciesFirst`, `PlannedOnce`, `CycleReported`, `DeployedAfterDependencies` | every graph over 3 manifests, 2 teams, one `valueFrom` each, one missing name |
| `values` | `SecretsOnFile`: no secret given to a container is lost or replaced; `ConsumersMatch`: a consumer and the resource itself got the same value; `ReadsGranted`: recognised references are granted, others never get a value; `FailuresForeseen`: a deploy's resolution fails only where the dry run fails, or on the vault, a missing port or a value a template refuses; `HolesExplained`; `PinnedFloats`, but for a default image of a type with a version | 1168 manifest sets of up to 3 manifests in 2 teams, 3 secrets, 2 versions of a vault value, edits to 2 of the sets at any time between runs |
| `routing` | `ClaimsDistinct`; `TLSWarned`, `Delivered`, of runs whose gateway has this directory; `FilesKept`, of every run | 3 applications of 2 teams in 8 sets with aliases, trailing slashes, TLS and a shared file name, the empty set among them, 4 configurations, any number of runs, edits and changes by hand |
| `host_ports_reserved` | violation of `NoReservedPortRecorded` | as `host_ports` |
| `containers_late` | violation of `ChangeTakesEffect`, the claim without the exception for names astray | as `containers`, with 2 stops |
| `containers_delete` | violation of `DeleteAsksDocker` when an inspection may fail | as `containers` |
| `image_pins_namesakes` | violation of `PinsPerArtifact` | an application and a resource of one name |

**Why the bounds are enough.** A violation of these properties needs two or three
parties (two claimants of a port, two names in a plan, three teams for two
subnets), one resource fewer than there are claimants, so that a limit is reached,
and a short chain of commands around one or two failures. The initial states
leave manifests, registry and dependency graphs arbitrary, which saves the edits
that would lead there. What depends on larger numbers (a wider range, longer
plans) repeats the same steps; the host-port, subnet and ordering properties are
proved without bounds (section 4).

**Deadlock.** It is not checked in the publishing runs (edits are bounded and a
colliding set cannot be planned until it is edited) and in `plan_order` (planning ends).

**Fairness.** Only `containers` assumes any: a run that can make its next call
makes it (`WF(Step)`; the code is a loop that blocks only on calls that answer or
fail), and the operator deploys again when no run is in progress (`WF(Deploy)`,
the condition under which the documentation promises convergence). Failures,
exits, edits and deletes are not fair and are finite by `MaxTrouble` and
`MaxEdits`.

**What a stop between create and record costs.** `containers` checks all stops and
failures, and its properties name the damage: a container astray may lie on a record
after later deploys (`RecordIsTruthful`), have none (`NoOrphan`), keep an old
configuration (`ChangeMissesOnlyAstray`), outlive a teardown if it has no record at all
(`TeardownRemovesAll`), or be found up to date for ever with another configuration
(`Misled`, in `Converges`). Only this stop and a blind delete make a name astray, and
the removal of the container ends it. The last of these in short: edit, deploy stops
after creating, edit back, deploy. `containers_late` is the same trace against the
promise as the repository states it. `publishing` has the same stop and the
same exception for the port a container binds; there the record and the file
still agree.

**Values and Routing.** The sets of `MCValues` are chosen so that every check of the
planner and every branch of the resolver goes both ways: each database with each
output read, each combination of access list, exposure and declared owner, each
combination of policy, default, version, type, tag and digest; references the enrichers
do not recognise, names hidden in templates, and templates that refuse the dry run's
values or the deploy's. Two edits suffice to
make a generated variable appear, disappear and reappear. In `MCRouting` the sets
include routes equal but for their slashes, hosts exchanged between teams and a
shared file name, so that filtered deploys of one set after the other meet the
files of earlier ones; runs, edits and changes by hand are unbounded. Any run may be
one for another directory. The longest runs are `routing` (1.1 million distinct
states, two and a half minutes) and `values` (0.9 million, under two).

## 4. Proofs

`HostPortsProofs` proves for every set of applications, ports, reservations and
processes, overlapping or not:

- `TypeCorrect`: `Spec => []TypeOK`.
- `NeverShared`: `Spec => []PortsNeverShared`. The file is only ever replaced by the
  whole map of one process, so it is enough that every process's map is
  injective. That is inductive together with the file's injectivity and the first
  half of `TakenIsHeldOrReserved`: an allocation takes a port outside `taken`,
  a claim a port outside the map. Lost updates of overlapping processes can
  forget an allocation but not share one.
- `NoPortLostOrLeaked`: `Spec => []TakenIsHeldOrReserved`, from the same invariant.
  It needs injectivity: a claim removes its previous port from `taken`, which is
  right only if nobody else holds it.

- `MemoryAgrees` and `PortsAreStable`: `MemoryIsFile` and the action property
  `PortsStable`, if no two processes overlap (`OneProcess`). Then every save writes
  the map the file already is, changed at the keys of the call.

- `RangeSuffices`: with a port in the range for every application beside those a
  gateway may occupy (`RoomForAll`), `AllocateHostPort` always finds one. Ports are held by
  at most the other applications (`HeldByOthers`), and nothing else of the range is
  taken, by `NoPortLostOrLeaked` and because a store is built for a gateway
  configuration (`Configured`).

They use the module's assumption `HostPortsAssumption` (the range consists of
ports, explicit ports are outside it, 0 is no port).

`PublishingProofs` builds on them:

- `UsesTheStore`: `PubSpec => Spec`. Every step of the planner, the deploy and the
  delete is a step of the store or leaves it alone, so the store's theorems hold of
  `Publishing`.
- `ApprovalHolds`: `PubSpec => []ApprovedNeverTaken`. What the planner checked of the
  file, `PlanApproved`, stays true of the store's map at every later call: an
  allocation takes a port of the range, where no claim is, and a claim the
  port of its own application, which the planner found different from the others.
- `BoundAsRecorded`: `PubSpec => []DeployedOnRecordedPort`. `Settled` says of the
  applications gone through that they run and their recorded port is right; a later call
  changes the file only for its own application. `Matched` says that a container
  binds the port of its record unless it is being created or went astray: an inspection
  that keeps a container trusts the record, so what it keeps is right exactly as far as
  `Matched` reaches.

- `EveryBindingIsPossible`: with `RoomForAll`, each application still to be deployed has
  its port held, claimable or allocatable, so an approved deploy is not refused half
  way for want of a port either. From the two above and `RangeSuffices`, which
  `UsesTheStore` carries over.

They use `PublishingAssumption`: one process at a time.

`ImagePinsProofs` proves for any artifacts, repositories, tags, policies and number of
moves and edits:

- `TypeCorrect` and `PinsAreStable`: `TypeOK` and the action property `PinsStable`.
- `PinnedRunsPin` and `StalePinsReleased`: `RunsPin` and `ManifestOwnedHoldsNoPin`, if
  no two artifacts share a name (`OneNameEach`; with namesakes each would take the
  other's pin, which `image_pins_namesakes` shows).

`Searching` is the part that a single call does not show: a deploy that looks up a
version for a Pinned artifact found no usable pin, and no pin appears for it before the
version is recorded. `Repos` says that a tag is always answered with a version of its
own repository, whatever moves, is withdrawn or pruned. `Settled` carries the agreement
of pins and resolutions from the end of each resolution through those of the other
artifacts to the first container. The assumption is `ImagePinsAssumption` (every
artifact has a name, policies are those of the code).

`TeamNetworksProofs` proves for every set of teams, any range of octets and any
number of commands, failures and exits:

- `TypeCorrect`, `SubnetsAreDistinct`, `DeploymentsKeepTheirSubnet`,
  `NothingIsForgotten`: the invariants `TypeOK`, `SubnetsDistinct`,
  `DeployedOnOwnSubnet` and `ForgottenHoldsNothing`.
- `ReservationsAreStable`: the action property `SubnetStable`.
- `EveryTeamGetsASubnet`: with no more registered teams than octets, a deploy finds an
  octet for each. Only registered teams hold one (`NothingIsForgotten`), and the team
  that allocates is registered and holds none, so one is left (`OctetLeft`).

Only the first two are nearly inductive. A record is written at the end of a deploy
and a registration removed at the end of a deletion, so the other properties rest
on what the run established calls earlier. `RunSound` says that: `CallsMatch`, a
call belongs to the command in progress; `DeploySound`, a deploy works for
registered teams and goes on only after reserving the subnet and settling the
network; `DeleteSound`, a deletion is of a team without records, and each of its
five steps leaves what the earlier ones released released. `RunInv` proves that no
step breaks it, and the five invariants are inductive with it. The assumption is
`TeamNetworksAssumption` (0 is not an octet of the range, the bounds are numbers).

`PlanOrderProofs` proves for every finite set of manifests and every graph:

- `SortedByDependencies`, `NeverPlannedTwice`, `CyclesAreReported`: the invariants
  `DependenciesFirst`, `PlannedOnce` and `CycleReported`.

`SortSound` is the strengthening. `Counts` says what `indeg` means in the middle of
the loop: the dependencies the order does not have yet, and one more while the
node has still to be visited. `Ready` says that the nodes with count zero are exactly
those in the order, in the queue or just freed; `Distinct` that each is there once.
So the node taken next has all its dependencies in the order, and a visited node,
whose count is positive, cannot be enqueued a second time. `CyclesStayOut` (a set
of nodes that wait for each other never enters the order) gives one half of
`CycleReported`; the other half is that with an empty queue everything left out
has a positive count, hence a dependency left out. The assumption is
`PlanOrderAssumption` (finitely many manifests, numbered in the order of ties).

- `TypesKept`, `DependenciesDeployedFirst`: the invariants `TypeOK` and
  `DeployedAfterDependencies`.

- `StepsAreReady`: a deploy takes no step while one of its dependencies is still to
  come. `Values` takes its steps in any order with this property (`Ready`), and this
  is why it may.

`DeployInv` is their strengthening: `Narrowed` says that `deployed \o steps` is always
one selection from the order, by increasing positions, so a dependency that the
filter keeps, and that the order has before its dependent, is before it in the
selection and deployed first; `Inferred` that the dependencies the sort was given
are the declared ones and those read.

- `EnumerationExists`: every finite set of naturals has an increasing enumeration.

`StartSort`, `EnqueueFreed` and `StartDeploy` choose from `SortedSeqs`; if it could be
empty, the invariants would hold because the sort is blocked. The
theorem says it never is. Its induction over the size of the set is by least
counterexample (`LeastNatural`, from the well-foundedness of the naturals).

- `SortTerminates`: the natural number `Work` decreases at every step of the sort, and
  until the order is complete or refused there is a step to take.

`Work` counts the nodes the order lacks, each with the visits it can still cause, and
the visits and freed nodes of the round in progress. This is the part of the sort's
termination that needs no fairness.

`ValuesProofs` proves for every library of manifest sets, edits, vault behaviour
and number of secrets:

- `SecretsStay`, `HolesKnown`: the invariants `SecretsOnFile` and `HolesExplained`.
- `ReadsAreGranted`, `PinnedAlwaysFloats`: the invariants `ReadsGranted` and
  `PinnedFloats`.
- `ValuesTyped`, `ConsumersGetTheSame`, `DryRunForesees`: the invariants `TypeOK`,
  `ConsumersMatch` and `FailuresForeseen`.
- `SecretsNeverReplaced`: a secret on file keeps its value in every step.
- `NeverStuck`: between artifacts the pre-pass has a resource whose resources are all
  resolved, and the deploy a step whose dependencies are taken, until all are done.

The first two speak of containers only, at the end of a chain of draws, renderings
and exports. `AllClean` says the same of every value on the way; `EnvGood` and
`ExportsGood` say that the resolver's operators add nothing but built-ins and
explained holes, given what the planner checked of the names it finds (a hidden name
leaves a hole of its own kind). `Checked` carries that (a set
being deployed was accepted, and its steps find all resources resolved) and
`Unwritten` that the secret about to be written has no predecessor on file, so
writing it (`WrittenGood`) changes no value given before. `Checked` alone implies the
next two. The assumption is `ValuesAssumption` (`SecretKey` has the key of every
generated entry, the bounds are numbers).

The last three are about a whole run and need a second invariant, `RunInv`.
`Drawing` says that the values drawn for the target are those of entries it has, and
that what it read from a resource is that resource's export (`ReadsFrom`) and exists
(`Found`). `Resolved` keeps this for every resource when it is resolved, with
its bare outputs equal to its variables; `Taken` carries it to the containers of the
steps taken so far, and both say that the dry run of the manifest succeeds. So
at the end of a deploy of everything both sides of `ConsumersMatch` are one export,
although the vault may have changed since, and the dry run succeeds for all of the
selection. For the failures, `KnownRead` shows that a named reference the
planner accepted and enrichment recognised is known when it is drawn: the graph has put
its resource first.
`Ordered` and `PartOfCycle` show that an order is missing only where the plan was not
sorted: a cycle of the resources is one of the whole set. `NeverStuck` is the converse:
`Sorted` says that a run of more than one artifact is of a set without cycles, so
what is left of it always has a next one.

`RoutingProofs` proves for every library of manifest sets, configurations, file names
and sequence of runs and edits:

- `Typed`, `Kept`, `Distinct`, `WarningsTrue`, `AllDelivered`: `TypeOK`, the action
  property `FilesKept`, `ClaimsDistinct`, `TLSWarned` and `Delivered`.

These properties speak of the end of a run; the inductive invariant says what each
step leaves behind. `Staged`: the steps left are of the scope, and only a run with this
directory gets to `Finalize`; `Served`: an application
already taken has its file or its event; `Warned`: its TLS warning agrees with the
`traefik.yml` that is there or will be generated, which a run never changes
otherwise; `Checked`: the collision check held for the manifests of the run;
`DashboardSettled` and `Announced` the same for the dashboard and for teardowns. The
assumption is `RoutingAssumption`: references are ranked, and no route file has
the dashboard's name (section 5).

`ContainersProofs` proves for any names, configurations, ids and bounds, whatever calls
fail and wherever runs stop:

- `Typed`, `RecordsAreTruthful`, `NothingElseOrphaned`: the invariants `TypeOK`,
  `RecordIsTruthful` and `NoOrphan`.
- `ChangesTakeEffect`, `TeardownsAreComplete`: the action properties
  `ChangeMissesOnlyAstray` and `TeardownRemovesAll`.
- `KeepsThePromise`: `Spec => Implements`, the refinement of `Rollout`.
- `DeploysAreComplete`: when a deploy is done, the container of every manifest, if it
  is still there, has the record that names it and the wanted configuration, or went
  astray.
- `RunsEnd`: every call of a run decreases `Left`, nothing in between increases it, and
  a run always has a call it can make, for finitely many names and ids that do not run
  out. What `Converges` adds needs fairness.

None of them assumes that a run does not stop somewhere: the exception for names astray
is in what they state, and `astray` grows only by a stop between creation and record
and by a blind delete. That the exceptions are needed is what `containers_late`
and `containers_delete` show.

`Typing` says where a run is and what it works on: `CallsMatch` that a deploy works only on
names the manifests have, `Held` which container a call holds. `Sound` is about records.
`RecordIsTruthful` is not inductive: a step compares the hash on record several
calls before it acts on it. `OnRecord` says that a container that is not astray, except
one created in the step, is the one on record, hash included; `StepSound` what the
calls of a step have established (the inspected container is the one there or it
is gone; one to be removed is not the wanted one; one to be recorded is, or went astray
before; nothing is left to unrecord); `AstrayThere` that what went astray is there.
`TeardownSound` adds that every container of the team is still ahead of the
teardown, or is astray without a record (`Missed`). Containers that exit or vanish
between the calls are why each of these speaks of a container only if it is there.
`DeploysAreComplete` needs one more: `Settled`, the names a deploy is done with stay as
their last call left them.

In the refinement, Inspect, List and Start stutter, RemoveStale, Create and
RemoveInspected are Replace, Place and Remove, a record written or removed completes the
name, and the stop that makes a name astray is Loosen. `ContainersAssumption`: ids are
positive, `NoConfig` is no configuration, `Fault` names calls, the bounds are numbers.

Model-checked only: liveness (`Converges`: fairness needs ENABLED, which tlapm does not
prove; `RunsEnd` and `SortTerminates` are the parts of termination that need none).
Every other invariant and action property of a passing run has its theorem.

## 5. Findings

PROJECT.json quotes the texts.

1. `host_ports_reserved`: moving an application off a port frees the port in
   memory even if the gateway has reserved it since.
2. `containers_late`: a run stopped between the creation and the record of a
   container leaves a record that a later comparison trusts.
3. `containers_delete`: a failed inspection counts as "no container".
4. `image_pins_namesakes`: pins are keyed by name; an application and a resource
   may share one.

Other differences between the code and its texts that the models show or had to
assume away, without a run of their own:

- The stop of `containers_late` may leave a container that no record names; a
  teardown, planned from the records, reports success and leaves it. After an edit back
  the same stop leaves an application on a port that is not the one on file
  (`DeployedOnRecordedPort`, the exception).
- A dry run is not a rehearsal of every deploy: a template may refuse its
  placeholders and execute on the real values (`{{slice .pass 0 20}}`), or the other
  way round, after containers of the deploy's earlier steps were replaced.
- The template checks see fields only: `{{$.nope}}` is accepted and renders
  `<no value>`.
- A resource whose type has a tag (`type: redis:7`), without image and version, is
  accepted under Pinned with that fixed version (`policy.go` 106-113).
- `apply --file` deploys a routed application without a route, and a teardown may look
  for route files in another directory than the deploy wrote to, and announce none.
- An application that changes from an explicit port to `publish: true` keeps the
  explicit port (`AllocateHostPort` returns the port held); spec 023 FR-007 asks
  for one of the automatic range.
- Errors a manifest already shows but only the deploy reports: an output `port` of a
  resource without `spec.port` and circular templates, which
  `manifest-schema.md` (lines 89, 295) calls required and a validation error, and
  a reference without a name or an output (`resource..x`, `resource.x.`), which the
  planner passes over. In `Values` these are the causes `port`, `cycle` and `unknown`.
- Route files are named `<team>-<name>`: team `a` with `b-c` and team `a-b` with `c`
  share one, against `routing-and-aliases.md` (line 99). A team `__shrine` with an
  application `dashboard` would get the dashboard's file.
- A route file torn by a run that stopped is preserved by later deploys like any
  file that is there.
- `guides/traefik.md` (line 58) says the three gateway ports must be distinct and
  are validated; `validate` (`plugin.go` 70-89) never compares `port` with
  `dashboard.port`.

## 6. Not modelled

- Parsing, formatting, listings, status, logging, configuration, updater: no
  shared state, or output only.
- Of the manifests: YAML parsing and scanning, the syntax of names, volumes and
  metadata. Of the planner: the wording and order of its errors (a set is accepted
  or not).
- The gateway's own container and the warning about a legacy `http` block; DNS (the
  local engine has no DNS backend). What a dry run prints.
- The vault's client (Infisical): in `Values` it answers or fails.
- Registry credentials (aliases are checked in `Planning`), volumes, bind mounts, restart policy: part of
  an image reference or of a configuration here. A restart policy and bind mounts
  are not in the hash; only the gateway uses them.
- Overlapping processes outside `HostPorts`: the repository documents that there is
  no cross-process locking. `Containers`, `ImagePins`, `TeamNetworks`, `Publishing`,
  `Values` and `Routing` run one command at a time.
- Docker errors other than those named: a call that fails ends the run.
- The text of templates: what one reads and whether it executes are parameters of the
  manifests. The other configuration of a container in `Publishing`, its exits there, and
  the stops between removal, creation and record in `ImagePins` and `TeamNetworks`, are
  in `Containers` only.

## 7. Plan

Done: `HostPorts`, `Containers`/`Rollout`, `ImagePins`, `TeamNetworks`,
`Publishing`, `PlanOrder`, `Planning`/`Resolution`/`Values`, `Routing`, and theorems
about every invariant and action property of the runs.

Next, in order:

1. An abstract deploy (every artifact of the plan runs what its manifest asks
   for, with the values resolved for it) that `Containers`, `ImagePins` and `Values`
   together implement.
2. The gateway's container: what `portBindings` publishes against the entry points
   of a preserved `traefik.yml`.
