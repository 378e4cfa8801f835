----------------------------- MODULE Publishing -----------------------------
(***************************************************************************)
(* Publishing an application on a host port, end to end: the planner's     *)
(* collision check (internal/planner/hostports.go), the binding a deploy   *)
(* asks the store for (dockercontainer/docker_container.go                 *)
(* resolvePublishBinding), the container created with it and the port      *)
(* Docker then binds, over the host-port store of module HostPorts, one    *)
(* command at a time.                                                      *)
(*                                                                         *)
(* A command may stop before any call; the next deploy plans afresh.       *)
(*                                                                         *)
(* astray is a history variable: the applications whose container binds    *)
(* another port than the one on record, because a deploy stopped between   *)
(* creating that container and recording it.                               *)
(***************************************************************************)
EXTENDS HostPorts

CONSTANTS MaxEdits   \* bound: manifest edits, teardowns and deletes

ASSUME PublishingAssumption ==
  /\ \E p \in Process : Process = {p}
  /\ MaxEdits \in Nat

Me == CHOOSE p \in Process : TRUE

Publish(m, n) == [mode |-> m, port |-> n]
Absent == Publish("absent", NoPort)   \* no such manifest
Off == Publish("off", NoPort)         \* publish: false
Automatic == Publish("auto", NoPort)       \* publish: true
Forms == {Absent, Off, Automatic} \cup {Publish("explicit", n) : n \in Explicit}

VARIABLES
  publish,   \* the manifests' publish option
  plan,      \* the same, as the running deploy loaded it
  planned,   \* the applications the deploy's filter selects
  todo,      \* those not yet deployed
  at, cur,   \* the next call, and the application it is for
  binding,   \* the host port resolved for it
  bound,     \* the host port each container is created to bind
  up,        \* applications with a container
  running,   \* those whose container runs, and holds its port
  record,    \* deployments.txt: the port in the configuration recorded
  astray,    \* those left without a record of their container
  edits

store == <<file, cmd, ports, taken, reserved>>
deployVars == <<plan, planned, todo, at, cur, binding>>
containers == <<bound, up, running, record, astray>>
pubVars == <<store, publish, deployVars, containers, edits>>

NoPlan == [k \in Key |-> Absent]
NoKey == "none"
NoRecord == -1

PubInit ==
  /\ Init
  /\ publish \in [Key -> Forms]
  /\ plan = NoPlan /\ planned = {} /\ todo = {}
  /\ at = "idle" /\ cur = NoKey /\ binding = NoPort
  /\ bound = NoPorts /\ up = {} /\ running = {}
  /\ record = [k \in Key |-> NoRecord] /\ astray = {}
  /\ edits = MaxEdits

-----------------------------------------------------------------------------
(***************************************************************************)
(* Planning.  The check runs over the whole set, whatever the filter.      *)
(***************************************************************************)

Claims(m) == {k \in Key : m[k].mode = "explicit"}

(* Mutant: claims are not compared with each other. *)
CollidesUnpaired(m, rsv) ==
  \E k \in Claims(m) :
    \/ m[k].port \in rsv
    \/ \E l \in Key \ {k} : file[l] = m[k].port

Collides(m, rsv) ==
  \E k \in Claims(m) :
    \/ \E l \in Claims(m) \ {k} : m[l].port = m[k].port
    \/ m[k].port \in rsv
    \/ \E l \in Key \ {k} : file[l] = m[k].port

PlanDeploy ==
  /\ at = "idle" /\ cmd[Me] = "none"
  /\ \E rsv \in Reservation :
       /\ ~Collides(publish, rsv)
       /\ NewHostPortStore(Me, "deploy", rsv)
  /\ planned' \in SUBSET {k \in Key : publish[k] # Absent} \ {{}}
  /\ plan' = publish /\ todo' = planned' /\ at' = "next"
  /\ UNCHANGED <<publish, cur, binding, containers, edits>>

-----------------------------------------------------------------------------
(***************************************************************************)
(* One application of a deploy: resolvePublishBinding.                     *)
(***************************************************************************)

(* The binding needs no write: nothing published, or the port is held.     *)
BindingHeld(k) ==
  \/ plan[k] = Off
  \/ plan[k] = Automatic /\ ports[Me][k] # NoPort
  \/ plan[k].mode = "explicit" /\ ports[Me][k] = plan[k].port

KeepBinding(k) ==
  /\ BindingHeld(k)
  /\ UNCHANGED store
  /\ binding' = IF plan[k] = Off THEN NoPort ELSE ports[Me][k]
  /\ at' = "inspect"

(* A failed save ends the deploy. *)
TakeBinding(k) ==
  /\ ~BindingHeld(k)
  /\ IF plan[k] = Automatic THEN AllocateHostPort(Me, k)
                       ELSE ClaimHostPort(Me, k, plan[k].port)
  /\ binding' = ports'[Me][k]
  /\ at' = IF ports' = ports THEN "failed" ELSE "inspect"

ResolvePublishBinding ==
  /\ at = "next"
  /\ \E k \in todo :
       /\ cur' = k
       /\ KeepBinding(k) \/ TakeBinding(k)
  /\ UNCHANGED <<publish, plan, planned, todo, containers, edits>>

-----------------------------------------------------------------------------
(***************************************************************************)
(* Its container: CreateContainer from the inspection on.                  *)
(***************************************************************************)

(* Mutant: any record of the application counts as up to date.             *)
UpToDateByName(k) == record[k] # NoRecord

(* The hash on record can be the hash asked for only if the ports agree.   *)
(* The rest of the configuration may have changed all the same.            *)
MayBeUpToDate(k) == record[k] = binding

(* ensureRunning leaves a container that runs as it is, and starts another.*)
Inspect ==
  /\ at = "inspect"
  /\ \/ cur \notin up /\ at' = "create"
     \/ cur \in up /\ at' = "remove"
     \/ /\ cur \in up /\ MayBeUpToDate(cur)
        /\ at' = IF cur \in running THEN "record" ELSE "start"
  /\ UNCHANGED <<store, publish, plan, planned, todo, cur, binding, containers, edits>>

Removed(k) ==
  /\ bound' = [bound EXCEPT ![k] = NoPort]
  /\ up' = up \ {k} /\ running' = running \ {k} /\ astray' = astray \ {k}

RemoveStale ==
  /\ at = "remove" /\ at' = "create"
  /\ Removed(cur)
  /\ UNCHANGED <<store, publish, plan, planned, todo, cur, binding, record, edits>>

Create ==
  /\ at = "create" /\ at' = "start"
  /\ bound' = [bound EXCEPT ![cur] = binding]
  /\ up' = up \cup {cur}
  /\ UNCHANGED <<store, publish, plan, planned, todo, cur, binding, running,
                 record, astray, edits>>

(* Docker refuses to start a container whose port another one holds: the   *)
(* deploy can then only end.                                               *)
Start ==
  /\ at = "start" /\ at' = "record"
  /\ bound[cur] # NoPort => \A l \in running \ {cur} : bound[l] # bound[cur]
  /\ running' = running \cup {cur}
  /\ UNCHANGED <<store, publish, plan, planned, todo, cur, binding, bound, up,
                 record, astray, edits>>

RecordDeployment ==
  /\ at = "record" /\ at' = "next"
  /\ record' = [record EXCEPT ![cur] = binding]
  /\ todo' = todo \ {cur}
  /\ UNCHANGED <<store, publish, plan, planned, cur, binding, bound, up, running,
                 astray, edits>>

Unrecorded(k) ==
  at \in {"start", "record"} /\ k = cur /\ record[k] # bound[k]

(* The deploy is done, failed, refused or killed. *)
ProcessEnds ==
  /\ Exit(Me)
  /\ plan' = NoPlan /\ planned' = {} /\ todo' = {}
  /\ at' = "idle" /\ cur' = NoKey /\ binding' = NoPort
  /\ astray' = astray \cup {k \in up : Unrecorded(k)}
  /\ UNCHANGED <<publish, bound, up, running, record, edits>>

-----------------------------------------------------------------------------
(***************************************************************************)
(* Manifest edits, teardown and delete application.                        *)
(***************************************************************************)

(* A deploy reads the manifests once, when it plans: an edit during a run  *)
(* is an edit after it.                                                    *)
EditManifest ==
  /\ at = "idle" /\ edits > 0 /\ edits' = edits - 1
  /\ \E k \in Key, f \in Forms : publish' = [publish EXCEPT ![k] = f]
  /\ UNCHANGED <<store, deployVars, containers>>

(* RemoveContainer of a teardown, planned from the records: the container  *)
(* goes, then its record, unless the run stops in between.  Teardown       *)
(* leaves the allocations.                                                 *)
Teardown ==
  /\ at = "idle" /\ edits > 0 /\ edits' = edits - 1
  /\ \E k \in Key :
       /\ record[k] # NoRecord
       /\ Removed(k)
       /\ record' \in {record, [record EXCEPT ![k] = NoRecord]}
  /\ UNCHANGED <<store, publish, deployVars>>

PlanDelete ==
  /\ at = "idle" /\ edits > 0 /\ edits' = edits - 1
  /\ \E k \in Key \ up : cur' = k
  /\ \E rsv \in Reservation : NewHostPortStore(Me, "delete", rsv)
  /\ at' = "release"
  /\ UNCHANGED <<publish, plan, planned, todo, binding, containers>>

(* A failed save leaves the record in place. *)
DeleteApplication ==
  /\ at = "release" /\ at' = "failed"
  /\ \/ ports[Me][cur] # NoPort /\ ReleaseHostPort(Me, cur)
     \/ ports[Me][cur] = NoPort /\ UNCHANGED store
  /\ record' \in {record} \cup
       (IF ports'[Me][cur] = NoPort THEN {[record EXCEPT ![cur] = NoRecord]} ELSE {})
  /\ UNCHANGED <<publish, plan, planned, todo, cur, binding, bound, up, running,
                 astray, edits>>

PubNext ==
  \/ PlanDeploy \/ ResolvePublishBinding
  \/ Inspect \/ RemoveStale \/ Create \/ Start \/ RecordDeployment
  \/ ProcessEnds
  \/ EditManifest \/ Teardown \/ PlanDelete \/ DeleteApplication

PubSpec == PubInit /\ [][PubNext]_pubVars

-----------------------------------------------------------------------------
(***************************************************************************)
(* Properties.                                                             *)
(***************************************************************************)

(* A set the planner accepted is never refused by the store: whatever the   *)
(* order of its applications and the automatic ports handed out on the way, *)
(* each explicit port is still claimable when its turn comes (spec 023      *)
(* FR-005: conflicts are rejected before any changes are made).             *)
ApprovedNeverTaken ==
  at = "next" =>
    \A k \in todo :
      plan[k].mode = "explicit" =>
        ports[Me][k] = plan[k].port \/ Claimable(Me, plan[k].port)

(* The port b is the one application k is to be bound to. *)
RightPort(k, b) ==
  /\ plan[k] = Off => b = NoPort
  /\ plan[k] # Off => b # NoPort /\ b = file[k]
  /\ plan[k].mode = "explicit" => b = plan[k].port

(* Every application a deploy has gone through is recorded with the port    *)
(* the store has on file for it, the explicit one if it names one, and with *)
(* none when it does not publish; and its container, one that was there     *)
(* before too, binds that port (spec 023 FR-015), unless an earlier deploy  *)
(* stopped between creating that container and recording it.                *)
DeployedOnRecordedPort ==
  at = "next" =>
    \A k \in planned \ todo :
      /\ k \in running
      /\ RightPort(k, record[k])
      /\ RightPort(k, bound[k]) \/ k \in astray
=============================================================================
