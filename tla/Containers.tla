----------------------------- MODULE Containers -----------------------------
(***************************************************************************)
(* The containers of one team and their deployment records: the deploy,    *)
(* teardown and delete commands as the Docker backend carries them out     *)
(* (internal/engine/local/dockercontainer/docker_container.go), one Docker *)
(* or state-file call per step.                                            *)
(*                                                                         *)
(* A run of a command stops at the first error (the engine undoes nothing) *)
(* or when the process dies; both are RunStops, which may happen before    *)
(* any call named in Fault.  A call that takes effect although its answer  *)
(* is lost is the call followed by a stop before the next one.  Containers *)
(* also exit, and are removed by hand, between any two calls.              *)
(*                                                                         *)
(* A configuration stands for everything ConfigHash digests (image id,     *)
(* environment, volumes, ports, platform attachment): equal hashes, equal  *)
(* configurations.                                                         *)
(*                                                                         *)
(* astray is a history variable: the names whose container was left        *)
(* without a record of its own, by a run that stopped between creating and *)
(* recording it, or by a delete that could not ask Docker.  No call reads  *)
(* it; the properties use it to name what such a stop costs.               *)
(***************************************************************************)
EXTENDS Integers

CONSTANTS
  Name,        \* the team's applications and resources
  Config,      \* configurations a manifest can ask for
  Id,          \* Docker's container ids
  Fault,       \* the calls that may fail, or before which a run may stop
  MaxTrouble,  \* bound: stops, exits, removals by hand, failed inspections
  MaxEdits     \* bound: manifest edits, teardowns and deletes

Absent == [id |-> 0, cfg |-> "none", running |-> FALSE]
NoRecord == [id |-> 0, hash |-> "none"]
NoConfig == "none"

(* The call a run performs next; "next" picks the next step of the plan.   *)
DeployCall == {"inspect", "list", "remove", "create", "start", "record"}
TeardownCall == {"rm_inspect", "rm_remove", "unrecord"}
DeleteCall == {"del_inspect"}
Call == DeployCall \cup TeardownCall \cup {"idle", "next"}

ASSUME ContainersAssumption ==
  /\ Id \subseteq Nat \ {0}
  /\ NoConfig \notin Config
  /\ Fault \subseteq DeployCall \cup TeardownCall \cup DeleteCall
  /\ MaxTrouble \in Nat /\ MaxEdits \in Nat

VARIABLES
  wanted,     \* the manifests: a configuration per name, or NoConfig
  container,  \* what Docker has under the name team.name
  record,     \* deployments.txt
  cmd,        \* the command running: "none", "deploy" or "teardown"
  at,         \* the call it performs next
  todo,       \* the planned steps left
  cur,        \* the step in progress
  seen,       \* the container the step inspected or created
  astray,     \* the names left without a record of their container
  trouble, edits

state == <<container, record, astray>>
run == <<cmd, at, todo, cur, seen>>
vars == <<wanted, state, run, trouble, edits>>

ConfigOrNone == Config \cup {NoConfig}
NoName == "none"

Init ==
  /\ wanted \in [Name -> Config]
  /\ container = [n \in Name |-> Absent]
  /\ record = [n \in Name |-> NoRecord]
  /\ astray = {}
  /\ cmd = "none" /\ at = "idle" /\ todo = {} /\ cur = NoName /\ seen = Absent
  /\ trouble = MaxTrouble
  /\ edits = MaxEdits

-----------------------------------------------------------------------------
(***************************************************************************)
(* The run: it starts with a plan, moves from call to call and ends.       *)
(***************************************************************************)

Begin(c, plan) ==
  /\ cmd = "none"
  /\ cmd' = c /\ at' = "next" /\ todo' = plan
  /\ UNCHANGED <<cur, seen>>

Goto(call) ==
  /\ at' = call
  /\ UNCHANGED <<cmd, todo, cur, seen>>

End ==
  /\ cmd' = "none" /\ at' = "idle" /\ todo' = {} /\ cur' = NoName
  /\ seen' = Absent

Deploy ==
  /\ Begin("deploy", {n \in Name : wanted[n] # NoConfig})
  /\ UNCHANGED <<wanted, state, trouble, edits>>

(* Mutant: a teardown planned from the manifests.                          *)
TeardownPlanFromManifests == {n \in Name : wanted[n] # NoConfig}

(* PlanTeardown reads the records, not Docker. *)
TeardownPlan == {n \in Name : record[n] # NoRecord}

Teardown ==
  /\ edits > 0 /\ edits' = edits - 1
  /\ Begin("teardown", TeardownPlan)
  /\ UNCHANGED <<wanted, state, trouble>>

NextStep ==
  /\ at = "next"
  /\ \E n \in todo :
       /\ todo' = todo \ {n}
       /\ cur' = n
  /\ at' = IF cmd = "deploy" THEN "inspect" ELSE "rm_inspect"
  /\ UNCHANGED <<cmd, seen, wanted, state, trouble, edits>>

DeployDone ==
  /\ cmd = "deploy" /\ at = "next" /\ todo = {}
  /\ End
  /\ UNCHANGED <<wanted, state, trouble, edits>>

(* ExecuteTeardown ends with RemoveNetwork, which refuses a network that   *)
(* still has running containers; either way the run is over.               *)
TeardownDone ==
  /\ cmd = "teardown" /\ at = "next" /\ todo = {}
  /\ End
  /\ UNCHANGED <<wanted, state, trouble, edits>>

(* The teardown that ends here reports success. *)
NetworkEmpty == \A n \in Name : ~container[n].running

-----------------------------------------------------------------------------
(***************************************************************************)
(* CreateContainer.                                                        *)
(***************************************************************************)

Inspect ==
  /\ at = "inspect"
  /\ seen' = container[cur]
  /\ at' = IF container[cur] = Absent THEN "create" ELSE "list"
  /\ UNCHANGED <<cmd, todo, cur, wanted, state, trouble, edits>>

(* Mutant: any record of the name counts as up to date. *)
IsContainerUpToDateByName(n) == record[n] # NoRecord

(* Mutant: the container is recreated on every deploy. *)
IsNeverUpToDate(n) == FALSE

(* isContainerUpToDate compares the hash on record, looked up by name. *)
IsContainerUpToDate(n) == record[n].hash = wanted[n]

(* ensureRunning starts a stopped container, and records in either case. *)
List ==
  /\ at = "list"
  /\ Goto(IF ~IsContainerUpToDate(cur) THEN "remove"
          ELSE IF seen.running THEN "record" ELSE "start")
  /\ UNCHANGED <<wanted, state, trouble, edits>>

(* Docker removes the inspected container by id, running or not. *)
Removed(n) ==
  /\ container' = [container EXCEPT ![n] = Absent]
  /\ astray' = astray \ {n}

RemoveStale ==
  /\ at = "remove"
  /\ container[cur].id = seen.id
  /\ Removed(cur)
  /\ Goto("create")
  /\ UNCHANGED <<wanted, record, trouble, edits>>

UsedIds == {container[n].id : n \in Name} \cup {record[n].id : n \in Name}
             \cup {seen.id}

(* Docker creates a container under a free name, with an id of its own. *)
Create ==
  /\ at = "create"
  /\ container[cur] = Absent
  /\ \E i \in Id \ UsedIds :
       /\ \A j \in Id \ UsedIds : i <= j
       /\ seen' = [id |-> i, cfg |-> wanted[cur], running |-> FALSE]
  /\ container' = [container EXCEPT ![cur] = seen']
  /\ at' = "start"
  /\ UNCHANGED <<cmd, todo, cur, wanted, record, astray, trouble, edits>>

Start ==
  /\ at = "start"
  /\ container[cur].id = seen.id
  /\ container' = [container EXCEPT ![cur].running = TRUE]
  /\ Goto("record")
  /\ UNCHANGED <<wanted, record, astray, trouble, edits>>

(* Mutant: the record is written before the hash is set. *)
RecordedUnhashed == [id |-> seen.id, hash |-> "none"]

(* Mutant: an existing container's record is not renewed. *)
RecordedOnlyOnce ==
  IF record[cur] = NoRecord THEN [id |-> seen.id, hash |-> wanted[cur]]
                            ELSE record[cur]

Recorded == [id |-> seen.id, hash |-> wanted[cur]]

RecordDeployment ==
  /\ at = "record"
  /\ record' = [record EXCEPT ![cur] = Recorded]
  /\ Goto("next")
  /\ UNCHANGED <<wanted, container, astray, trouble, edits>>

-----------------------------------------------------------------------------
(***************************************************************************)
(* RemoveContainer: a missing container is not an error, and its record    *)
(* goes whether or not there was a container.                              *)
(***************************************************************************)

InspectForRemoval ==
  /\ at = "rm_inspect"
  /\ seen' = container[cur]
  /\ at' = IF container[cur] = Absent THEN "unrecord" ELSE "rm_remove"
  /\ UNCHANGED <<cmd, todo, cur, wanted, state, trouble, edits>>

RemoveInspected ==
  /\ at = "rm_remove"
  /\ container[cur].id = seen.id
  /\ Removed(cur)
  /\ Goto("unrecord")
  /\ UNCHANGED <<wanted, record, trouble, edits>>

RemoveDeployment ==
  /\ at = "unrecord"
  /\ record' = [record EXCEPT ![cur] = NoRecord]
  /\ Goto("next")
  /\ UNCHANGED <<wanted, container, astray, trouble, edits>>

-----------------------------------------------------------------------------
(***************************************************************************)
(* What ends a run early, and what happens outside it.                     *)
(***************************************************************************)

(* The container of the step in progress has yet to get its record. *)
Unrecorded ==
  /\ at \in {"start", "record"}
  /\ container[cur] # Absent
  /\ record[cur].id # container[cur].id

(* A call fails, or the process dies before it. *)
RunStops ==
  /\ at \in Fault
  /\ trouble > 0 /\ trouble' = trouble - 1
  /\ End
  /\ astray' = astray \cup {n \in {cur} : Unrecorded}
  /\ UNCHANGED <<wanted, container, record, edits>>

(* Docker answers NotFound: the inspected container was removed meanwhile. *)
ContainerVanished ==
  /\ at \in {"remove", "start", "rm_remove"}
  /\ container[cur].id # seen.id
  /\ End
  /\ UNCHANGED <<wanted, state, trouble, edits>>

ContainerExits ==
  /\ trouble > 0 /\ trouble' = trouble - 1
  /\ \E n \in Name :
       /\ container[n].running
       /\ container' = [container EXCEPT ![n].running = FALSE]
  /\ UNCHANGED <<wanted, record, astray, run, edits>>

RemovedByHand ==
  /\ trouble > 0 /\ trouble' = trouble - 1
  /\ \E n \in Name :
       /\ container[n] # Absent
       /\ Removed(n)
  /\ UNCHANGED <<wanted, record, run, edits>>

(* A deploy reads the manifests once, when it plans: an edit during a run  *)
(* is an edit after it.                                                    *)
EditManifest ==
  /\ cmd = "none"
  /\ edits > 0 /\ edits' = edits - 1
  /\ \E n \in Name :
       \E c \in ConfigOrNone \ {wanted[n]} :
         wanted' = [wanted EXCEPT ![n] = c]
  /\ UNCHANGED <<state, run, trouble>>

(* Mutant: the delete commands do not ask Docker. *)
DeletableUnchecked(n) == record[n] # NoRecord

(* deleteArtifact refuses when the inspection of the container succeeds. *)
Deletable(n) == record[n] # NoRecord /\ container[n] = Absent

Forget(n) ==
  /\ cmd = "none"
  /\ edits > 0 /\ edits' = edits - 1
  /\ record' = [record EXCEPT ![n] = NoRecord]
  /\ UNCHANGED <<wanted, container, run>>

DeleteArtifact ==
  \E n \in Name :
    /\ Deletable(n)
    /\ Forget(n)
    /\ UNCHANGED <<astray, trouble>>

(* An inspection that fails for another reason counts as no container.     *)
DeleteUnasked ==
  /\ "del_inspect" \in Fault
  /\ trouble > 0 /\ trouble' = trouble - 1
  /\ \E n \in Name :
       /\ record[n] # NoRecord /\ container[n] # Absent
       /\ Forget(n)
       /\ astray' = astray \cup {n}

-----------------------------------------------------------------------------

Step ==
  \/ NextStep \/ DeployDone \/ TeardownDone
  \/ Inspect \/ List \/ RemoveStale \/ Create \/ Start \/ RecordDeployment
  \/ InspectForRemoval \/ RemoveInspected \/ RemoveDeployment
  \/ ContainerVanished

Next ==
  \/ Deploy \/ Teardown \/ Step
  \/ RunStops \/ ContainerExits \/ RemovedByHand
  \/ EditManifest \/ DeleteArtifact \/ DeleteUnasked

Spec == Init /\ [][Next]_vars

(* A run that can go on does, and the operator deploys again when no run   *)
(* is in progress.  Failures, exits, edits and teardowns may come at any   *)
(* time; they are finitely many by MaxTrouble and MaxEdits.                *)
Fairness == WF_vars(Deploy) /\ WF_vars(Step)

FairSpec == Spec /\ Fairness

-----------------------------------------------------------------------------
(***************************************************************************)
(* Properties.                                                             *)
(***************************************************************************)

ContainerType ==
  [id : Id, cfg : Config, running : BOOLEAN] \cup {Absent}

TypeOK ==
  /\ wanted \in [Name -> ConfigOrNone]
  /\ container \in [Name -> ContainerType]
  /\ record \in [Name -> [id : Id, hash : Config] \cup {NoRecord}]
  /\ cmd \in {"none", "deploy", "teardown"}
  /\ at \in Call
  /\ todo \in SUBSET Name
  /\ cur \in Name \cup {NoName}
  /\ seen \in ContainerType
  /\ astray \in SUBSET Name
  /\ trouble \in 0..MaxTrouble
  /\ edits \in 0..MaxEdits

(* Drift detection relies on it: a record that names the live container    *)
(* also has the hash of the configuration that container was created with, *)
(* wherever runs stopped, unless that container went astray: its deploy    *)
(* stopped between creating and recording it.                              *)
RecordIsTruthful ==
  \A n \in Name \ astray :
    (container[n] # Absent /\ record[n].id = container[n].id) =>
      record[n].hash = container[n].cfg

(* What status, teardown and delete see is the records: between runs every *)
(* container of the team has one, unless it went astray.  No other failure *)
(* at any call, and no stop, loses a container to them.                    *)
NoOrphan ==
  cmd = "none" =>
    \A n \in Name \ astray : container[n] # Absent => record[n] # NoRecord

(* A change in the manifest takes full effect on the next deploy that      *)
(* completes the step (spec 023 FR-015): when the deployment is recorded,  *)
(* the live container has the configuration the manifest asks for.         *)
ChangeTakesEffect ==
  [][(at = "record" /\ at' = "next" /\ container[cur] # Absent) =>
       container[cur].cfg = wanted[cur]]_vars

(* What of FR-015 the code does keep: the change takes effect on every     *)
(* container but one that an earlier run left astray.                      *)
ChangeMissesOnlyAstray ==
  [][(at = "record" /\ at' = "next" /\ container[cur] # Absent) =>
       container[cur].cfg = wanted[cur] \/ cur \in astray]_vars

(* "Stop and remove all containers ... associated with the given team"     *)
(* (cmd/teardown.go): a teardown that reports success, planned from the    *)
(* records alone, leaves at most containers that went astray and have no   *)
(* record at all.                                                          *)
TeardownRemovesAll ==
  [][(cmd = "teardown" /\ cmd' = "none" /\ at = "next" /\ NetworkEmpty) =>
       \A n \in Name :
         \/ container[n] = Absent
         \/ n \in astray /\ record[n] = NoRecord]_vars

(* "A live container blocks the delete" (cmd/delete.go), and when Docker    *)
(* cannot be consulted the delete fails and releases nothing (spec 037      *)
(* FR-003): a delete forgets only what has no container.                   *)
DeleteAsksDocker ==
  [][\A n \in Name :
       (cmd = "none" /\ record[n] # NoRecord /\ record'[n] = NoRecord) =>
         container[n] = Absent]_vars

(* The calls and the records carry out what Rollout promises: in           *)
(* particular a deploy never takes away a container that is already what   *)
(* the manifest wants, unless it went astray.                              *)
Promise == INSTANCE Rollout WITH
  None <- NoConfig,
  actual <- [n \in Name |-> container[n].cfg],
  phase <- cmd,
  storms <- trouble,
  loose <- astray,
  pending <- todo \cup (IF at \in {"idle", "next"} THEN {} ELSE {cur})

Implements == Promise!Spec

Deployed(n) ==
  /\ container[n].running
  /\ container[n].cfg = wanted[n]
  /\ record[n] = [id |-> container[n].id, hash |-> wanted[n]]

(* The record says what is wanted and names the container, which runs with *)
(* another configuration: every later deploy finds it up to date.  It is   *)
(* reached only through a container that went astray and a manifest edited *)
(* back to what the old record says.                                       *)
Misled(n) ==
  /\ n \in astray
  /\ container[n].running
  /\ container[n].cfg # wanted[n]
  /\ record[n] = [id |-> container[n].id, hash |-> wanted[n]]

(* Deploys converge: once the failures and the edits are over, repeated    *)
(* deploys leave every name of the manifests running as it is wanted, for  *)
(* good, with a record that names the container; or misled.                *)
Converges ==
  <>[](\A n \in Name : wanted[n] # NoConfig => Deployed(n) \/ Misled(n))

=============================================================================
