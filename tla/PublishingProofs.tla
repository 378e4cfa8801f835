-------------------------- MODULE PublishingProofs --------------------------
(***************************************************************************)
(* Publishing for any applications, ports, gateways and number of edits:   *)
(* its steps are steps of the store of HostPorts, so what HostPortsProofs  *)
(* shows of the store holds here, and with it a set of manifests the       *)
(* planner accepted is never refused half way, and every application       *)
(* deployed is recorded with the port on file and bound to it, unless an   *)
(* earlier deploy left its container astray.                               *)
(***************************************************************************)
EXTENDS Publishing, HostPortsProofs

-----------------------------------------------------------------------------
(***************************************************************************)
(* The inductive invariant.                                                *)
(***************************************************************************)

PubTypes ==
  /\ publish \in [Key -> Forms]
  /\ plan \in [Key -> Forms]
  /\ planned \subseteq Key /\ todo \subseteq planned
  /\ \A k \in planned : plan[k] # Absent
  /\ bound \in [Key -> PortOrNone]
  /\ record \in [Key -> PortOrNone \cup {NoRecord}]
  /\ up \subseteq Key /\ running \subseteq up /\ astray \subseteq up

(* The calls made for one application once its port is resolved.           *)
ContainerCall == {"inspect", "remove", "create", "start", "record"}

(* Where a run is, and what command its store was built for.               *)
StagesMatch ==
  /\ at \in {"idle", "next", "release", "failed"} \cup ContainerCall
  /\ at \in {"next"} \cup ContainerCall => cmd[Me] # "none"
  /\ at \in ContainerCall => cur \in todo
  /\ at = "release" => cur \in Key

(* One process: its map is the file.                                       *)
OneCopy == cmd[Me] # "none" => ports[Me] = file

(* What the planner checked still holds of the store at every later call.  *)
PlanApproved ==
  \A k \in Claims(plan) :
    /\ plan[k].port \notin reserved[Me]
    /\ \A l \in Claims(plan) \ {k} : plan[l].port # plan[k].port
    /\ \A l \in Key \ {k} : ports[Me][l] # plan[k].port

(* Only a deploy plans.                                                    *)
NothingPlanned == at \in {"idle", "release"} => plan = NoPlan

(* What is recorded of the applications gone through, and the port the one *)
(* in progress is to get.                                                  *)
Settled ==
  /\ at \in {"next"} \cup ContainerCall =>
       \A k \in planned \ todo : k \in running /\ RightPort(k, record[k])
  /\ at \in ContainerCall => RightPort(cur, binding)

Underway(k) == at \in {"start", "record"} /\ k = cur

(* A container binds the port on record, unless it is being created or     *)
(* went astray.                                                            *)
Matched ==
  /\ \A k \in up \ astray : ~Underway(k) => bound[k] = record[k]
  /\ at \in {"start", "record"} =>
       cur \in up /\ (bound[cur] = binding \/ cur \in astray)
  /\ at = "record" => cur \in running
  /\ at = "release" => cur \notin up

PubInv ==
  /\ Inv
  /\ PubTypes /\ StagesMatch /\ OneCopy /\ NothingPlanned
  /\ PlanApproved /\ Settled /\ Matched

-----------------------------------------------------------------------------

LEMMA OnlyProcess == Process = {Me}
  BY PublishingAssumption DEF Me

LEMMA FormFacts ==
  ASSUME NEW f \in Forms, f # Absent
  PROVE  \/ f = Off /\ f # Automatic /\ f.mode = "off"
         \/ f = Automatic /\ f # Off /\ f.mode = "auto"
         \/ f.mode = "explicit" /\ f # Off /\ f # Automatic /\ f.port \in Explicit
PROOF
<1>1. CASE f \in {Off, Automatic}
  BY <1>1 DEF Off, Automatic, Publish
<1>2. CASE \E n \in Explicit : f = Publish("explicit", n)
  <2>1. PICK n \in Explicit : f = Publish("explicit", n)
    BY <1>2
  <2>2. f.mode = "explicit" /\ f.port = n
    BY <2>1 DEF Publish
  <2> QED
    BY <2>2 DEF Off, Automatic, Publish
<1> QED
  BY <1>1, <1>2 DEF Forms

LEMMA ExplicitForm ==
  ASSUME NEW f \in Forms, f.mode = "explicit"
  PROVE  f.port \in Explicit /\ f # Absent
PROOF
<1>1. f # Absent
  BY DEF Absent, Publish
<1>2. f \notin {Off, Automatic}
  BY DEF Off, Automatic, Publish
<1> QED
  BY <1>1, <1>2, FormFacts

LEMMA PubInitInv == ASSUME PubInit PROVE PubInv
PROOF
<1> USE DEF PubInit
<1>1. Inv
  BY InitInv
<1>2. PubTypes
  BY DEF PubTypes, NoPlan, Forms, NoPorts, PortOrNone
<1>3. StagesMatch /\ Settled /\ Matched
  BY DEF StagesMatch, Settled, Matched, ContainerCall
<1>4. OneCopy /\ NothingPlanned
  BY OnlyProcess DEF Init, OneCopy, NothingPlanned
<1>5. PlanApproved
  BY DEF PlanApproved, Claims, NoPlan, Absent, Publish
<1> QED
  BY <1>1, <1>2, <1>3, <1>4, <1>5 DEF PubInv

-----------------------------------------------------------------------------
(***************************************************************************)
(* Every step is a step of the store, or leaves it alone.                  *)
(***************************************************************************)

ContainerStep == Inspect \/ RemoveStale \/ Create \/ Start \/ RecordDeployment

(* The store gives k a port it may have, or is left as it was.             *)
LEMMA StoreGives ==
  ASSUME PubInv, NEW k \in todo, TakeBinding(k)
  PROVE  \/ AllocateHostPort(Me, k) /\ plan[k] = Automatic
         \/ /\ ClaimHostPort(Me, k, plan[k].port)
            /\ plan[k].mode = "explicit" /\ plan[k].port \in Explicit
PROOF
<1>1. k \in planned /\ plan[k] \in Forms /\ plan[k] # Absent
  BY DEF PubInv, PubTypes
<1> QED
  BY <1>1, FormFacts DEF TakeBinding, BindingHeld

LEMMA StoreStep ==
  ASSUME PubInv, [PubNext]_pubVars PROVE [Next]_vars
PROOF
<1> USE OnlyProcess
<1>1. CASE PlanDeploy
  BY <1>1 DEF PlanDeploy, Next, Command
<1>2. CASE ResolvePublishBinding
  <2>1. PICK k \in todo : KeepBinding(k) \/ TakeBinding(k)
    BY <1>2 DEF ResolvePublishBinding
  <2>2. CASE KeepBinding(k)
    BY <2>2 DEF KeepBinding, store, vars
  <2>3. CASE TakeBinding(k)
    <3>1. k \in Key
      BY DEF PubInv, PubTypes
    <3> QED
      BY <2>3, <3>1, StoreGives DEF Next
  <2> QED
    BY <2>1, <2>2, <2>3
<1>3. CASE ProcessEnds
  BY <1>3 DEF ProcessEnds, Next
<1>4. CASE PlanDelete
  BY <1>4 DEF PlanDelete, Next, Command
<1>5. CASE DeleteApplication
  <2>1. PICK k \in Key : k = cur
    BY <1>5 DEF DeleteApplication, PubInv, StagesMatch
  <2>2. CASE ReleaseHostPort(Me, cur)
    <3>1. ReleaseHostPort(Me, k)
      BY <2>1, <2>2 DEF ReleaseHostPort
    <3> QED
      BY <3>1 DEF Next
  <2>3. CASE UNCHANGED store
    BY <2>3 DEF store, vars
  <2> QED
    BY <1>5, <2>2, <2>3 DEF DeleteApplication
<1>6. CASE ContainerStep \/ EditManifest \/ Teardown
  BY <1>6 DEF ContainerStep, Inspect, RemoveStale, Create, Start, RecordDeployment,
              EditManifest, Teardown, store, vars
<1>7. CASE UNCHANGED pubVars
  BY <1>7 DEF pubVars, store, vars
<1> QED
  BY <1>1, <1>2, <1>3, <1>4, <1>5, <1>6, <1>7 DEF PubNext, ContainerStep

-----------------------------------------------------------------------------
(***************************************************************************)
(* What a step does to the rest of the invariant.                          *)
(***************************************************************************)

Rest ==
  /\ PubTypes /\ StagesMatch /\ OneCopy /\ NothingPlanned
  /\ PlanApproved /\ Settled /\ Matched

LEMMA PlanDeployKeeps ==
  ASSUME PubInv, PlanDeploy PROVE Rest'
PROOF
<1>1. PICK rsv \in Reservation :
        ~Collides(publish, rsv) /\ NewHostPortStore(Me, "deploy", rsv)
  BY DEF PlanDeploy
<1>2. /\ cmd'[Me] = "deploy" /\ ports'[Me] = file /\ file' = file
      /\ reserved'[Me] = rsv
  BY <1>1, OnlyProcess DEF NewHostPortStore, PubInv, Inv, TypeOK
<1>3. /\ plan' = publish /\ todo' = planned' /\ publish' = publish
      /\ UNCHANGED <<bound, up, running, record, astray>>
      /\ at = "idle" /\ at' = "next" /\ planned' \subseteq {k \in Key : publish[k] # Absent}
  BY DEF PlanDeploy, containers
<1>4. PubTypes'
  BY <1>3 DEF PubInv, PubTypes
<1>5. StagesMatch' /\ OneCopy' /\ NothingPlanned'
  BY <1>2, <1>3 DEF StagesMatch, OneCopy, NothingPlanned, ContainerCall
<1>6. PlanApproved'
  BY <1>1, <1>2, <1>3 DEF PlanApproved, Collides, Claims
<1>7. Settled' /\ Matched'
  BY <1>3 DEF Settled, PubInv, Matched, Underway, ContainerCall
<1> QED
  BY <1>4, <1>5, <1>6, <1>7 DEF Rest

LEMMA KeepBindingKeeps ==
  ASSUME PubInv, ResolvePublishBinding, NEW k \in todo, cur' = k, KeepBinding(k)
  PROVE  Rest'
PROOF
<1>1. /\ file' = file /\ cmd' = cmd /\ ports' = ports /\ reserved' = reserved
      /\ plan' = plan /\ planned' = planned /\ todo' = todo
      /\ UNCHANGED <<bound, up, running, record, astray>>
      /\ publish' = publish /\ at = "next" /\ at' = "inspect"
      /\ BindingHeld(k)
      /\ binding' = IF plan[k] = Off THEN NoPort ELSE ports[Me][k]
  BY DEF ResolvePublishBinding, KeepBinding, store, containers
<1>2. k \in Key /\ k \in planned /\ plan[k] \in Forms /\ plan[k] # Absent
  BY DEF PubInv, PubTypes
<1>3. ports[Me] = file
  BY <1>1 DEF PubInv, StagesMatch, OneCopy
<1>4. RightPort(k, binding')
  <2>1. CASE plan[k] = Off
    BY <1>1, <2>1 DEF RightPort, Off, Publish
  <2>2. CASE plan[k] = Automatic
    BY <1>1, <1>3, <2>2 DEF RightPort, BindingHeld, Automatic, Off, Publish
  <2>3. CASE plan[k].mode = "explicit"
    <3>1. plan[k].port # NoPort /\ plan[k] # Off /\ plan[k] # Automatic
      BY <1>2, <2>3, FormFacts, HostPortsAssumption DEF Off, Automatic, Publish
    <3> QED
      BY <1>1, <1>3, <2>3, <3>1 DEF RightPort, BindingHeld
  <2> QED
    BY <1>2, <2>1, <2>2, <2>3, FormFacts
<1>5. PubTypes' /\ StagesMatch' /\ OneCopy' /\ NothingPlanned' /\ PlanApproved'
  BY <1>1 DEF PubInv, PubTypes, StagesMatch, OneCopy, NothingPlanned, PlanApproved,
              Claims, ContainerCall
<1>6. Settled' /\ Matched'
  BY <1>1, <1>4 DEF PubInv, Settled, RightPort, Matched, Underway, ContainerCall
<1> QED
  BY <1>5, <1>6 DEF Rest

(* One port is given to k, and written, or nothing is.                     *)
LEMMA GivenPort ==
  ASSUME PubInv, NEW k \in todo, TakeBinding(k)
  PROVE  /\ cmd' = cmd /\ reserved' = reserved
         /\ \/ ports' = ports /\ file' = file
            \/ \E n \in Port :
                 /\ ports'[Me] = [ports[Me] EXCEPT ![k] = n] /\ file' = ports'[Me]
                 /\ \/ plan[k] = Automatic /\ n \in FirstAuto .. LastAuto
                    \/ plan[k].mode = "explicit" /\ n = plan[k].port
PROOF
<1>1. ports \in [Process -> [Key -> PortOrNone]]
  BY DEF PubInv, Inv, TypeOK
<1>2. CASE AllocateHostPort(Me, k) /\ plan[k] = Automatic
  <2>1. PICK n \in FreePorts(Me) :
          Save(Me, [ports[Me] EXCEPT ![k] = n], taken[Me] \cup {n},
               (taken[Me] \cup {n}) \ {n})
    BY <1>2 DEF AllocateHostPort
  <2>2. n \in Port /\ n \in FirstAuto .. LastAuto
    BY HostPortsAssumption DEF FreePorts
  <2> QED
    BY <1>1, <1>2, <2>1, <2>2, OnlyProcess DEF Save
<1>3. CASE /\ ClaimHostPort(Me, k, plan[k].port)
           /\ plan[k].mode = "explicit" /\ plan[k].port \in Explicit
  <2>1. PICK t, backT : Save(Me, [ports[Me] EXCEPT ![k] = plan[k].port], t, backT)
    BY <1>3 DEF ClaimHostPort
  <2>2. plan[k].port \in Port
    BY <1>3, HostPortsAssumption
  <2> QED
    BY <1>1, <1>3, <2>1, <2>2, OnlyProcess DEF Save
<1> QED
  BY <1>2, <1>3, StoreGives

LEMMA TakeBindingKeeps ==
  ASSUME PubInv, ResolvePublishBinding, NEW k \in todo, cur' = k, TakeBinding(k)
  PROVE  Rest'
PROOF
<1>1. /\ plan' = plan /\ planned' = planned /\ todo' = todo
      /\ UNCHANGED <<bound, up, running, record, astray>>
      /\ publish' = publish /\ at = "next" /\ binding' = ports'[Me][k]
      /\ at' = IF ports' = ports THEN "failed" ELSE "inspect"
  BY DEF ResolvePublishBinding, TakeBinding, containers
<1>0. Matched'
  BY <1>1 DEF PubInv, Matched, Underway
<1>2. k \in Key /\ k \in planned /\ plan[k] \in Forms /\ plan[k] # Absent
  BY DEF PubInv, PubTypes
<1>3. /\ cmd' = cmd /\ reserved' = reserved
      /\ ports[Me] = file /\ ports[Me] \in [Key -> PortOrNone]
  BY <1>1, GivenPort, OnlyProcess DEF PubInv, StagesMatch, OneCopy, Inv, TypeOK
<1>4. CASE ports' = ports /\ file' = file
  <2>1. PubTypes' /\ StagesMatch' /\ OneCopy' /\ NothingPlanned' /\ PlanApproved'
    BY <1>1, <1>3, <1>4
       DEF PubInv, PubTypes, StagesMatch, OneCopy, NothingPlanned, PlanApproved,
           Claims, ContainerCall
  <2>2. Settled'
    BY <1>1, <1>4 DEF Settled, ContainerCall
  <2> QED
    BY <1>0, <2>1, <2>2 DEF Rest
<1>5. CASE \E n \in Port :
             /\ ports'[Me] = [ports[Me] EXCEPT ![k] = n] /\ file' = ports'[Me]
             /\ \/ plan[k] = Automatic /\ n \in FirstAuto .. LastAuto
                \/ plan[k].mode = "explicit" /\ n = plan[k].port
  <2>1. PICK n \in Port :
          /\ ports'[Me] = [ports[Me] EXCEPT ![k] = n] /\ file' = ports'[Me]
          /\ \/ plan[k] = Automatic /\ n \in FirstAuto .. LastAuto
             \/ plan[k].mode = "explicit" /\ n = plan[k].port
    BY <1>5
  <2>2. /\ file'[k] = n /\ n # NoPort /\ binding' = n
        /\ \A l \in Key \ {k} : file'[l] = file[l] /\ ports'[Me][l] = ports[Me][l]
    BY <1>1, <1>2, <1>3, <2>1, HostPortsAssumption
  <2>3. PubTypes' /\ StagesMatch' /\ OneCopy' /\ NothingPlanned'
    BY <1>1, <1>3, <2>1 DEF PubInv, PubTypes, StagesMatch, OneCopy, NothingPlanned,
                            ContainerCall
  <2>4. PlanApproved'
    <3> SUFFICES ASSUME NEW j \in Claims(plan)
                 PROVE  /\ plan[j].port \notin reserved[Me]
                        /\ \A l \in Claims(plan) \ {j} : plan[l].port # plan[j].port
                        /\ \A l \in Key \ {j} : ports'[Me][l] # plan[j].port
      BY <1>1, <1>3 DEF PlanApproved, Claims
    <3>1. /\ plan[j].port \notin reserved[Me]
          /\ \A l \in Claims(plan) \ {j} : plan[l].port # plan[j].port
          /\ \A l \in Key \ {j} : ports[Me][l] # plan[j].port
      BY DEF PubInv, PlanApproved
    <3>2. k # j => n # plan[j].port
      <4>1. CASE plan[k] = Automatic /\ n \in FirstAuto .. LastAuto
        <5>1. plan[j].port \in Explicit
          BY ExplicitForm DEF Claims, PubInv, PubTypes
        <5> QED
          BY <4>1, <5>1, HostPortsAssumption
      <4>2. CASE plan[k].mode = "explicit" /\ n = plan[k].port
        BY <1>2, <3>1, <4>2 DEF Claims
      <4> QED
        BY <2>1, <4>1, <4>2
    <3> QED
      BY <2>1, <2>2, <3>1, <3>2
  <2>5. RightPort(k, n)'
    BY <1>1, <2>1, <2>2 DEF RightPort, Automatic, Off, Publish
  <2>6. \A j \in planned \ todo : j \in running /\ RightPort(j, record[j])'
    <3> SUFFICES ASSUME NEW j \in planned \ todo
                 PROVE  j \in running /\ RightPort(j, record[j])'
      OBVIOUS
    <3>1. j \in Key \ {k} /\ j \in running /\ RightPort(j, record[j])
      BY <1>1 DEF PubInv, PubTypes, Settled
    <3> QED
      BY <1>1, <2>2, <3>1 DEF RightPort
  <2>7. Settled'
    BY <1>1, <2>2, <2>5, <2>6 DEF Settled, RightPort, ContainerCall
  <2> QED
    BY <1>0, <2>3, <2>4, <2>7 DEF Rest
<1> QED
  BY <1>4, <1>5, GivenPort

(* What the calls made for one container have in common.                   *)
LEMMA CallFrame ==
  ASSUME PubInv, ContainerStep
  PROVE  /\ file' = file /\ cmd' = cmd /\ ports' = ports /\ reserved' = reserved
         /\ plan' = plan /\ planned' = planned /\ publish' = publish /\ cur' = cur
         /\ binding' = binding /\ at \in ContainerCall
         /\ at' \in {"next"} \cup ContainerCall
         /\ at' # "next" => todo' = todo
         /\ cur \in todo /\ cur \in planned /\ cur \in Key /\ RightPort(cur, binding)
         /\ binding \in PortOrNone
         /\ OneCopy' /\ NothingPlanned' /\ PlanApproved'
         /\ at' # "next" => StagesMatch'
PROOF
<1> USE DEF ContainerStep, Inspect, RemoveStale, Create, Start, RecordDeployment
<1>1. /\ file' = file /\ cmd' = cmd /\ ports' = ports /\ reserved' = reserved
      /\ plan' = plan /\ planned' = planned /\ publish' = publish /\ cur' = cur
      /\ binding' = binding /\ at \in ContainerCall
      /\ at' \in {"next"} \cup ContainerCall
      /\ at' # "next" => todo' = todo
  BY DEF store, ContainerCall
<1> HIDE DEF ContainerStep, Inspect, RemoveStale, Create, Start, RecordDeployment
<1>2. cur \in todo /\ cur \in planned /\ cur \in Key /\ RightPort(cur, binding)
  BY <1>1 DEF PubInv, StagesMatch, PubTypes, Settled
<1>3. binding \in PortOrNone
  BY <1>2 DEF RightPort, PubInv, Inv, TypeOK, PortOrNone
<1>4. OneCopy' /\ NothingPlanned' /\ PlanApproved'
  BY <1>1 DEF PubInv, OneCopy, NothingPlanned, PlanApproved, Claims, ContainerCall
<1>5. at' # "next" => StagesMatch'
  BY <1>1 DEF PubInv, StagesMatch, ContainerCall
<1> QED
  BY <1>1, <1>2, <1>3, <1>4, <1>5

(* What is recorded stays as it is until the record of the one in progress *)
(* is written.                                                             *)
LEMMA StillSettled ==
  ASSUME PubInv, ContainerStep, at' # "next", record' = record,
         running \ {cur} \subseteq running'
  PROVE  Settled'
PROOF
<1>1. /\ file' = file /\ plan' = plan /\ planned' = planned /\ todo' = todo
      /\ cur' = cur /\ binding' = binding /\ cur \in todo
      /\ RightPort(cur, binding) /\ at \in ContainerCall /\ at' \in ContainerCall
  BY CallFrame
<1>2. \A k \in planned \ todo : k \in running' /\ RightPort(k, record[k])
  BY <1>1 DEF PubInv, Settled
<1> QED
  BY <1>1, <1>2 DEF Settled, RightPort

LEMMA InspectKeeps ==
  ASSUME PubInv, Inspect PROVE Rest'
PROOF
<1>1. ContainerStep /\ UNCHANGED <<bound, up, running, record, astray>>
  BY DEF ContainerStep, Inspect, containers
<1>2. at = "inspect" /\ at' \in {"create", "remove", "record", "start"}
  BY DEF Inspect
<1>3. PubTypes'
  BY <1>1, <1>2, CallFrame DEF PubInv, PubTypes
<1>4. Matched'
  <2>1. at' \in {"start", "record"} =>
          cur \in up /\ record[cur] = binding /\ (at' = "record" => cur \in running)
    BY DEF Inspect, MayBeUpToDate
  <2>2. \A k \in up \ astray : bound[k] = record[k]
    BY <1>2 DEF PubInv, Matched, Underway
  <2>3. cur' = cur /\ binding' = binding
    BY <1>1, CallFrame
  <2>4. at' \in {"start", "record"} => bound[cur] = binding \/ cur \in astray
    BY <2>1, <2>2
  <2> QED
    BY <1>1, <1>2, <2>1, <2>2, <2>3, <2>4 DEF Matched
<1>5. Settled'
  BY <1>1, <1>2, StillSettled
<1> QED
  BY <1>1, <1>2, <1>3, <1>4, <1>5, CallFrame DEF Rest

LEMMA RemoveStaleKeeps ==
  ASSUME PubInv, RemoveStale PROVE Rest'
PROOF
<1>1. /\ ContainerStep /\ at = "remove" /\ at' = "create" /\ record' = record
      /\ bound' = [bound EXCEPT ![cur] = NoPort]
      /\ up' = up \ {cur} /\ running' = running \ {cur} /\ astray' = astray \ {cur}
  BY DEF ContainerStep, RemoveStale, Removed
<1>2. PubTypes'
  BY <1>1, CallFrame DEF PubInv, PubTypes, PortOrNone
<1>3. Matched'
  <2>1. \A k \in up' \ astray' : bound'[k] = record[k]
    BY <1>1 DEF PubInv, PubTypes, Matched, Underway
  <2> QED
    BY <1>1, <2>1 DEF Matched
<1>4. Settled'
  BY <1>1, StillSettled
<1> QED
  BY <1>1, <1>2, <1>3, <1>4, CallFrame DEF Rest

LEMMA CreateKeeps ==
  ASSUME PubInv, Create PROVE Rest'
PROOF
<1>1. /\ ContainerStep /\ at = "create" /\ at' = "start"
      /\ bound' = [bound EXCEPT ![cur] = binding] /\ up' = up \cup {cur}
      /\ UNCHANGED <<running, record, astray>>
  BY DEF ContainerStep, Create
<1>2. cur \in Key /\ binding \in PortOrNone /\ cur' = cur /\ binding' = binding
  BY <1>1, CallFrame
<1>3. PubTypes'
  BY <1>1, <1>2, CallFrame DEF PubInv, PubTypes
<1>4. Matched'
  <2>1. \A k \in up' \ astray : k # cur => bound'[k] = record[k]
    BY <1>1 DEF PubInv, PubTypes, Matched, Underway
  <2>2. bound'[cur] = binding
    BY <1>1, <1>2 DEF PubInv, PubTypes
  <2> QED
    BY <1>1, <1>2, <2>1, <2>2 DEF Matched, Underway
<1>5. Settled'
  BY <1>1, StillSettled
<1> QED
  BY <1>1, <1>3, <1>4, <1>5, CallFrame DEF Rest

LEMMA StartKeeps ==
  ASSUME PubInv, Start PROVE Rest'
PROOF
<1>1. /\ ContainerStep /\ at = "start" /\ at' = "record"
      /\ running' = running \cup {cur} /\ UNCHANGED <<bound, up, record, astray>>
  BY DEF ContainerStep, Start
<1>2. cur' = cur /\ binding' = binding
  BY <1>1, CallFrame
<1>3. cur \in up
  BY <1>1 DEF PubInv, Matched
<1>4. PubTypes'
  BY <1>1, <1>3, CallFrame DEF PubInv, PubTypes
<1>5. Matched'
  BY <1>1, <1>2 DEF PubInv, Matched, Underway
<1>6. Settled'
  BY <1>1, StillSettled
<1> QED
  BY <1>1, <1>4, <1>5, <1>6, CallFrame DEF Rest

LEMMA RecordKeeps ==
  ASSUME PubInv, RecordDeployment PROVE Rest'
PROOF
<1>1. /\ ContainerStep /\ at = "record" /\ at' = "next"
      /\ record' = [record EXCEPT ![cur] = binding] /\ todo' = todo \ {cur}
      /\ UNCHANGED <<bound, up, running, astray>>
  BY DEF ContainerStep, RecordDeployment
<1>2. /\ file' = file /\ plan' = plan /\ planned' = planned /\ cmd' = cmd
      /\ cur \in Key /\ cur \in planned /\ binding \in PortOrNone
      /\ RightPort(cur, binding) /\ at \in ContainerCall
  BY <1>1, CallFrame
<1>3. /\ record'[cur] = binding
      /\ \A k \in Key \ {cur} : record'[k] = record[k]
      /\ record' \in [Key -> PortOrNone \cup {NoRecord}]
  BY <1>1, <1>2 DEF PubInv, PubTypes
<1>4. PubTypes'
  BY <1>1, <1>3, CallFrame DEF PubInv, PubTypes
<1>5. StagesMatch'
  BY <1>1, <1>2 DEF PubInv, StagesMatch, ContainerCall
<1>6. Matched'
  <2>1. bound[cur] = binding \/ cur \in astray
    BY <1>1 DEF PubInv, Matched
  <2>2. \A k \in up \ astray : bound[k] = record'[k]
    BY <1>3, <2>1 DEF PubInv, PubTypes, Matched, Underway
  <2> QED
    BY <1>1, <2>2 DEF Matched
<1>7. Settled'
  <2> SUFFICES ASSUME NEW k \in planned \ todo'
               PROVE  k \in running /\ RightPort(k, record'[k])
    BY <1>1, <1>2 DEF Settled, RightPort, ContainerCall
  <2>1. CASE k = cur
    BY <1>1, <1>2, <1>3, <2>1 DEF PubInv, Matched
  <2>2. CASE k # cur
    <3>1. k \in planned \ todo /\ k \in Key
      BY <1>1, <2>2 DEF PubInv, PubTypes
    <3>2. k \in running /\ RightPort(k, record[k])
      BY <1>2, <3>1 DEF PubInv, Settled
    <3> QED
      BY <1>3, <2>2, <3>1, <3>2
  <2> QED
    BY <2>1, <2>2
<1> QED
  BY <1>1, <1>4, <1>5, <1>6, <1>7, CallFrame DEF Rest

(* A run that stops leaves what it has not recorded astray.                *)
LEMMA ProcessEndsKeeps ==
  ASSUME PubInv, ProcessEnds PROVE Rest'
PROOF
<1>1. /\ plan' = NoPlan /\ planned' = {} /\ todo' = {} /\ at' = "idle"
      /\ publish' = publish /\ Exit(Me)
      /\ astray' = astray \cup {k \in up : Unrecorded(k)}
      /\ UNCHANGED <<bound, up, running, record>>
  BY DEF ProcessEnds
<1>2. cmd'[Me] = "none"
  BY <1>1, OnlyProcess DEF Exit, PubInv, Inv, TypeOK
<1>3. PubTypes'
  BY <1>1 DEF PubInv, PubTypes, NoPlan, Forms
<1>4. StagesMatch' /\ OneCopy' /\ NothingPlanned' /\ Settled'
  BY <1>1, <1>2 DEF StagesMatch, OneCopy, NothingPlanned, Settled, ContainerCall
<1>5. PlanApproved'
  BY <1>1 DEF PlanApproved, Claims, NoPlan, Absent, Publish
<1>6. Matched'
  BY <1>1 DEF PubInv, Matched, Underway, Unrecorded
<1> QED
  BY <1>3, <1>4, <1>5, <1>6 DEF Rest

LEMMA EditKeeps ==
  ASSUME PubInv, EditManifest PROVE Rest'
PROOF
<1>1. /\ UNCHANGED <<file, cmd, ports, reserved, plan, planned, todo, at, cur>>
      /\ UNCHANGED <<binding, bound, up, running, record, astray>>
      /\ publish' \in [Key -> Forms] /\ at = "idle"
  BY DEF EditManifest, store, deployVars, containers, PubInv, PubTypes
<1>2. PubTypes' /\ StagesMatch' /\ OneCopy' /\ NothingPlanned' /\ PlanApproved'
  BY <1>1 DEF PubInv, PubTypes, StagesMatch, OneCopy, NothingPlanned,
              PlanApproved, Claims
<1>3. Settled' /\ Matched'
  BY <1>1 DEF PubInv, Settled, Matched, Underway, ContainerCall
<1> QED
  BY <1>2, <1>3 DEF Rest

LEMMA TeardownKeeps ==
  ASSUME PubInv, Teardown PROVE Rest'
PROOF
<1>1. /\ UNCHANGED <<file, cmd, ports, reserved, plan, planned, todo, at, cur>>
      /\ UNCHANGED <<binding, publish>> /\ at = "idle"
  BY DEF Teardown, store, deployVars
<1>2. PICK k \in Key : /\ bound' = [bound EXCEPT ![k] = NoPort]
                       /\ up' = up \ {k} /\ running' = running \ {k}
                       /\ astray' = astray \ {k}
                       /\ record' \in {record, [record EXCEPT ![k] = NoRecord]}
  BY DEF Teardown, Removed
<1>3. record' \in [Key -> PortOrNone \cup {NoRecord}]
  BY <1>2 DEF PubInv, PubTypes
<1>4. PubTypes' /\ StagesMatch' /\ OneCopy' /\ NothingPlanned' /\ PlanApproved'
  BY <1>1, <1>2, <1>3 DEF PubInv, PubTypes, StagesMatch, OneCopy, NothingPlanned,
                          PlanApproved, Claims, PortOrNone
<1>5. \A j \in up' \ astray' : bound'[j] = record'[j]
  BY <1>1, <1>2 DEF PubInv, PubTypes, Matched, Underway
<1>6. Settled' /\ Matched'
  BY <1>1, <1>5 DEF Settled, Matched, ContainerCall
<1> QED
  BY <1>4, <1>6 DEF Rest

LEMMA PlanDeleteKeeps ==
  ASSUME PubInv, PlanDelete PROVE Rest'
PROOF
<1>1. PICK rsv \in Reservation : NewHostPortStore(Me, "delete", rsv)
  BY DEF PlanDelete
<1>2. ports'[Me] = file /\ file' = file
  BY <1>1, OnlyProcess DEF NewHostPortStore, PubInv, Inv, TypeOK
<1>3. /\ UNCHANGED <<plan, planned, todo, bound, up, running, record, astray>>
      /\ publish' = publish /\ at = "idle" /\ at' = "release"
      /\ cur' \in Key \ up
  BY DEF PlanDelete, containers
<1>4. PubTypes' /\ StagesMatch' /\ OneCopy' /\ NothingPlanned'
  BY <1>2, <1>3 DEF PubInv, PubTypes, StagesMatch, OneCopy, NothingPlanned,
                    ContainerCall
<1>5. PlanApproved'
  BY <1>3 DEF PlanApproved, PubInv, NothingPlanned, Claims, NoPlan, Absent, Publish
<1>6. Settled' /\ Matched'
  BY <1>3 DEF PubInv, Settled, Matched, Underway, ContainerCall
<1> QED
  BY <1>4, <1>5, <1>6 DEF Rest

LEMMA DeleteKeeps ==
  ASSUME PubInv, DeleteApplication PROVE Rest'
PROOF
<1>1. /\ UNCHANGED <<plan, planned, todo, cur, bound, up, running, astray>>
      /\ publish' = publish /\ at = "release" /\ at' = "failed" /\ cur \in Key
      /\ record' \in {record, [record EXCEPT ![cur] = NoRecord]}
  BY DEF DeleteApplication, PubInv, StagesMatch
<1>2. OneCopy'
  <2>1. CASE ReleaseHostPort(Me, cur)
    <3>1. cmd[Me] = "delete" /\ ports[Me] = file
      BY <2>1 DEF ReleaseHostPort, Release, PubInv, OneCopy
    <3> QED
      BY <2>1, <3>1, OnlyProcess
         DEF ReleaseHostPort, Release, Save, PubInv, Inv, TypeOK, OneCopy
  <2>2. CASE UNCHANGED store
    BY <2>2 DEF store, PubInv, OneCopy
  <2> QED
    BY <2>1, <2>2 DEF DeleteApplication
<1>3. record' \in [Key -> PortOrNone \cup {NoRecord}]
  BY <1>1 DEF PubInv, PubTypes
<1>4. PubTypes' /\ StagesMatch' /\ NothingPlanned'
  BY <1>1, <1>3 DEF PubInv, PubTypes, StagesMatch, NothingPlanned, ContainerCall
<1>5. PlanApproved'
  BY <1>1 DEF PlanApproved, PubInv, NothingPlanned, Claims, NoPlan, Absent, Publish
<1>6. Settled' /\ Matched'
  <2>1. cur \notin up
    BY <1>1 DEF PubInv, Matched
  <2>2. \A k \in up : record'[k] = record[k]
    BY <1>1, <2>1 DEF PubInv, PubTypes
  <2> QED
    BY <1>1, <2>2 DEF PubInv, Settled, Matched, Underway, ContainerCall
<1> QED
  BY <1>2, <1>4, <1>5, <1>6 DEF Rest

LEMMA PubStepInv ==
  ASSUME PubInv, [PubNext]_pubVars PROVE PubInv'
PROOF
<1>1. Inv'
  BY StoreStep, NextInv DEF PubInv
<1>2. Rest'
  <2>1. CASE ResolvePublishBinding
    <3>1. PICK k \in todo : cur' = k /\ (KeepBinding(k) \/ TakeBinding(k))
      BY <2>1 DEF ResolvePublishBinding
    <3> QED
      BY <2>1, <3>1, KeepBindingKeeps, TakeBindingKeeps
  <2>2. CASE UNCHANGED pubVars
    BY <2>2 DEF pubVars, store, deployVars, containers, Rest, PubInv, PubTypes,
                StagesMatch, OneCopy, NothingPlanned, PlanApproved, Claims, Settled,
                RightPort, Matched, Underway
  <2> QED
    BY <2>1, <2>2, PlanDeployKeeps, InspectKeeps, RemoveStaleKeeps, CreateKeeps,
       StartKeeps, RecordKeeps, ProcessEndsKeeps, EditKeeps, TeardownKeeps,
       PlanDeleteKeeps, DeleteKeeps DEF PubNext
<1> QED
  BY <1>1, <1>2 DEF PubInv, Rest

LEMMA PubInductive == PubSpec => []PubInv
PROOF
<1>1. PubInit => PubInv
  BY PubInitInv
<1>2. PubInv /\ [PubNext]_pubVars => PubInv'
  BY PubStepInv
<1> QED
  BY <1>1, <1>2, PTL DEF PubSpec

-----------------------------------------------------------------------------
(***************************************************************************)
(* The properties.                                                         *)
(***************************************************************************)

(* The planner, the binding of ports and the containers use the store only *)
(* by its operations, at the commands they belong to: every behaviour here *)
(* is one of HostPorts, and has its properties.                            *)
THEOREM UsesTheStore == PubSpec => Spec
PROOF
<1>1. PubInit => Init
  BY DEF PubInit
<1>2. PubInv /\ [PubNext]_pubVars => [Next]_vars
  BY StoreStep
<1> QED
  BY <1>1, <1>2, PubInductive, PTL DEF PubSpec, Spec

(* A set of manifests the planner accepted is never refused by the store   *)
(* in the middle of the deploy, in whatever order it takes the             *)
(* applications and whichever automatic ports it hands out on the way.     *)
THEOREM ApprovalHolds == PubSpec => []ApprovedNeverTaken
PROOF
<1>1. ASSUME PubInv PROVE ApprovedNeverTaken
  <2> SUFFICES ASSUME at = "next", NEW k \in todo, plan[k].mode = "explicit",
                      ports[Me][k] # plan[k].port
               PROVE  Claimable(Me, plan[k].port)
    BY DEF ApprovedNeverTaken
  <2>1. k \in Claims(plan)
    BY <1>1 DEF PubInv, PubTypes, Claims
  <2>2. \A l \in Key : ports[Me][l] # plan[k].port
    BY <1>1, <2>1 DEF PubInv, PlanApproved
  <2> QED
    BY <1>1, <2>1, <2>2 DEF PubInv, PlanApproved, Claimable, Held
<1> QED
  BY <1>1, PubInductive, PTL

(* Every application a deploy has gone through is recorded with the port   *)
(* the store has on file for it, and its container binds it, unless an     *)
(* earlier deploy stopped between creating and recording that container.   *)
THEOREM BoundAsRecorded == PubSpec => []DeployedOnRecordedPort
PROOF
<1>1. ASSUME PubInv PROVE DeployedOnRecordedPort
  <2> SUFFICES ASSUME at = "next", NEW k \in planned \ todo
               PROVE  /\ k \in running /\ RightPort(k, record[k])
                      /\ RightPort(k, bound[k]) \/ k \in astray
    BY DEF DeployedOnRecordedPort
  <2>1. k \in running /\ RightPort(k, record[k])
    BY <1>1 DEF PubInv, Settled
  <2>2. k \notin astray => bound[k] = record[k]
    BY <1>1, <2>1 DEF PubInv, PubTypes, Matched, Underway
  <2> QED
    BY <2>1, <2>2
<1> QED
  BY <1>1, PubInductive, PTL

(* Applications are taken from a deploy's list by a deploy only.           *)
DeployRuns == at \in {"next"} \cup ContainerCall => cmd[Me] = "deploy"

LEMMA DeployRunsKept ==
  ASSUME PubInv, DeployRuns, [PubNext]_pubVars PROVE DeployRuns'
PROOF
<1> USE OnlyProcess
<1>1. CASE PlanDeploy
  BY <1>1 DEF PlanDeploy, NewHostPortStore, DeployRuns, PubInv, Inv, TypeOK
<1>2. CASE ResolvePublishBinding
  <2>1. PICK k \in todo : KeepBinding(k) \/ TakeBinding(k)
    BY <1>2 DEF ResolvePublishBinding
  <2>2. cmd' = cmd
    BY <2>1 DEF KeepBinding, TakeBinding, AllocateHostPort, ClaimHostPort, Save,
                store
  <2> QED
    BY <1>2, <2>2 DEF ResolvePublishBinding, DeployRuns
<1>3. CASE ContainerStep
  BY <1>3, CallFrame DEF DeployRuns
<1>4. CASE ProcessEnds \/ PlanDelete \/ DeleteApplication
  BY <1>4 DEF ProcessEnds, PlanDelete, DeleteApplication, DeployRuns, ContainerCall
<1>5. CASE EditManifest \/ Teardown \/ UNCHANGED pubVars
  BY <1>5 DEF EditManifest, Teardown, pubVars, store, deployVars, DeployRuns
<1> QED
  BY <1>1, <1>2, <1>3, <1>4, <1>5 DEF PubNext, ContainerStep

(* The store can give the application the port its manifest asks for.      *)
CanBind(k) ==
  \/ plan[k] = Automatic /\ Allocatable(Me)
  \/ plan[k].mode = "explicit" /\ Claimable(Me, plan[k].port)

(* With room in the automatic range, no application of a set the planner   *)
(* accepted is left without its port: whenever one is next, its port is    *)
(* held, free to be claimed or free to be allocated.                       *)
THEOREM EveryBindingIsPossible ==
  ASSUME IsFiniteSet(Key), RoomForAll
  PROVE  PubSpec => [](at = "next" =>
                         \A k \in todo : BindingHeld(k) \/ CanBind(k))
PROOF
<1> DEFINE RangeHolds ==
      \A p \in Process : \A k \in Key :
        cmd[p] = "deploy" /\ ports[p][k] = NoPort => Allocatable(p)
<1>1. PubSpec => []RangeHolds
  BY RangeSuffices, UsesTheStore, PTL
<1>2. ASSUME PubInv, ApprovedNeverTaken, RangeHolds, DeployRuns,
             at = "next", NEW k \in todo
      PROVE  BindingHeld(k) \/ CanBind(k)
  <2>1. k \in Key /\ k \in planned /\ plan[k] \in Forms /\ plan[k] # Absent
    BY <1>2 DEF PubInv, PubTypes
  <2>2. CASE plan[k] = Off
    BY <2>2 DEF BindingHeld
  <2>3. CASE plan[k] = Automatic
    <3>1. ports[Me][k] = NoPort => Allocatable(Me)
      BY <1>2, <2>1, OnlyProcess DEF DeployRuns
    <3> QED
      BY <2>3, <3>1 DEF BindingHeld, CanBind
  <2>4. CASE plan[k].mode = "explicit"
    BY <1>2, <2>4 DEF ApprovedNeverTaken, BindingHeld, CanBind
  <2> QED
    BY <2>1, <2>2, <2>3, <2>4, FormFacts
<1>3. PubInit => DeployRuns
  BY DEF PubInit, DeployRuns, ContainerCall
<1>4. PubInv /\ DeployRuns /\ [PubNext]_pubVars => DeployRuns'
  BY DeployRunsKept
<1> HIDE DEF RangeHolds
<1>5. PubInv /\ ApprovedNeverTaken /\ RangeHolds /\ DeployRuns =>
        (at = "next" => \A k \in todo : BindingHeld(k) \/ CanBind(k))
  BY <1>2
<1> QED
  BY <1>1, <1>3, <1>4, <1>5, PubInductive, ApprovalHolds, PTL DEF PubSpec
=============================================================================
