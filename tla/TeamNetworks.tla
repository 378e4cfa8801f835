---------------------------- MODULE TeamNetworks ----------------------------
(***************************************************************************)
(* What a team holds on the host between its registration and its         *)
(* deletion: the /24 reserved for it (internal/state/local/subnets.go),    *)
(* the Docker network built on that reservation                            *)
(* (dockercontainer/docker_network.go), its containers and their records,  *)
(* host ports and image pins, through deploy, teardown and delete team     *)
(* (internal/engine/engine.go, internal/handler/teams.go).                 *)
(*                                                                         *)
(* One command runs at a time, one store or Docker call per step, and may  *)
(* stop before any of them.  A team stands for one container: what a run   *)
(* does to several of them in a row, module Containers models.             *)
(***************************************************************************)
EXTENDS Integers

CONSTANTS
  Team,
  FirstOctet, LastOctet,  \* third octets reserved for teams (5 and 255)
  MaxTrouble,             \* bound: stopped runs, exits, removals by hand
  MaxCommands             \* bound: teardowns and team deletions

NoSubnet == 0
Octet == FirstOctet .. LastOctet

ASSUME TeamNetworksAssumption ==
  /\ FirstOctet \in Nat \ {0} /\ LastOctet \in Nat
  /\ MaxTrouble \in Nat /\ MaxCommands \in Nat
  /\ "none" \notin Team

Call == {"idle", "pin", "next", "allocate", "network", "container", "record",
         "rm", "unrecord", "rmnet", "subnet", "ports", "pins", "team"}

VARIABLES
  known,     \* teams in the registry
  subnet,    \* subnets.txt
  ports,     \* teams that hold host ports (hostports.txt)
  pins,      \* teams that hold image pins (pins.txt)
  network,   \* the subnet of the team's Docker network
  running,   \* teams with a running container on their network
  recorded,  \* teams with a deployment record
  cmd, at, who, todo,   \* the run: command, next call, team, teams left
  trouble, commands

holdings == <<subnet, ports, pins>>
docker == <<network, running>>
bounds == <<trouble, commands>>
vars == <<known, holdings, docker, recorded, cmd, at, who, todo, bounds>>

NoTeam == "none"

Init ==
  /\ known = {} /\ ports = {} /\ pins = {}
  /\ subnet = [t \in Team |-> NoSubnet]
  /\ network = [t \in Team |-> NoSubnet]
  /\ running = {} /\ recorded = {}
  /\ cmd = "none" /\ at = "idle" /\ who = NoTeam /\ todo = {}
  /\ trouble = MaxTrouble /\ commands = MaxCommands

Goto(call) == at' = call /\ UNCHANGED <<cmd, who, todo>>
End == cmd' = "none" /\ at' = "idle" /\ who' = NoTeam /\ todo' = {}

-----------------------------------------------------------------------------
(***************************************************************************)
(* Deploy.                                                                 *)
(***************************************************************************)

(* SaveTeam, from apply teams. *)
SaveTeam ==
  /\ cmd = "none"
  /\ \E t \in Team : known' = known \cup {t}
  /\ UNCHANGED <<holdings, docker, recorded, cmd, at, who, todo, bounds>>

(* Planning fails unless every owner's team is registered (enforceQuota). *)
Deploy ==
  /\ cmd = "none"
  /\ todo' \in (SUBSET known) \ {{}}
  /\ cmd' = "deploy" /\ at' = "pin"
  /\ UNCHANGED <<known, holdings, docker, recorded, who, bounds>>

(* The pre-pass may pin any of the images before it is through or stops. *)
ResolveImages ==
  /\ at = "pin"
  /\ \E S \in SUBSET todo : pins' = pins \cup S
  /\ Goto("next")
  /\ UNCHANGED <<known, subnet, ports, docker, recorded, bounds>>

NextOwner ==
  /\ cmd = "deploy" /\ at = "next"
  /\ \E t \in todo : who' = t /\ todo' = todo \ {t}
  /\ at' = "allocate"
  /\ UNCHANGED <<known, holdings, docker, recorded, cmd, bounds>>

(* Mutant: the octets already reserved are not seen.                       *)
FreeOctetsUnchecked(t) == Octet

(* Mutant: the last octet is one past the range.                           *)
FreeOctetsPastEnd(t) ==
  (FirstOctet .. LastOctet + 1) \ {subnet[u] : u \in Team}

FreeOctets(t) == Octet \ {subnet[u] : u \in Team}

AllocateSubnet ==
  /\ at = "allocate"
  /\ \/ subnet[who] # NoSubnet /\ UNCHANGED subnet
     \/ /\ subnet[who] = NoSubnet
        /\ \E o \in FreeOctets(who) :
             /\ \A p \in FreeOctets(who) : o <= p
             /\ subnet' = [subnet EXCEPT ![who] = o]
  /\ Goto("network")
  /\ UNCHANGED <<known, ports, pins, docker, recorded, bounds>>

(* Mutant: an existing network is taken as it is.                          *)
NetworkUsableUnchecked(t) == network[t] # NoSubnet

(* CreateNetwork refuses an existing network on another subnet. *)
NetworkUsable(t) == network[t] # NoSubnet /\ network[t] = subnet[t]

(* Docker refuses a network whose subnet overlaps another network's. *)
PoolFree(o) == \A u \in Team : network[u] # o

CreateNetwork ==
  /\ at = "network"
  /\ \/ NetworkUsable(who) /\ UNCHANGED network
     \/ /\ network[who] = NoSubnet /\ PoolFree(subnet[who])
        /\ network' = [network EXCEPT ![who] = subnet[who]]
  /\ Goto("container")
  /\ UNCHANGED <<known, holdings, running, recorded, bounds>>

(* CreateContainer claims the host port, if the application publishes one, *)
(* and starts the container on the team's network.                         *)
StartContainer ==
  /\ at = "container"
  /\ network[who] # NoSubnet
  /\ ports' \in {ports, ports \cup {who}}
  /\ running' = running \cup {who}
  /\ Goto("record")
  /\ UNCHANGED <<known, subnet, pins, network, recorded, bounds>>

RecordDeployment ==
  /\ at = "record"
  /\ recorded' = recorded \cup {who}
  /\ Goto("next")
  /\ UNCHANGED <<known, holdings, docker, bounds>>

DeployDone ==
  /\ cmd = "deploy" /\ at = "next" /\ todo = {}
  /\ End
  /\ UNCHANGED <<known, holdings, docker, recorded, bounds>>

-----------------------------------------------------------------------------
(***************************************************************************)
(* Teardown and deletion of a team.                                        *)
(***************************************************************************)

(* A plan without records goes straight to the network. *)
Teardown ==
  /\ cmd = "none" /\ commands > 0 /\ commands' = commands - 1
  /\ \E t \in Team :
       /\ who' = t
       /\ at' = IF t \in recorded THEN "rm" ELSE "rmnet"
  /\ cmd' = "teardown"
  /\ UNCHANGED <<known, holdings, docker, recorded, todo, trouble>>

RemoveContainer ==
  /\ at = "rm"
  /\ running' = running \ {who}
  /\ Goto("unrecord")
  /\ UNCHANGED <<known, holdings, network, recorded, bounds>>

RemoveDeployment ==
  /\ at = "unrecord"
  /\ recorded' = recorded \ {who}
  /\ Goto("rmnet")
  /\ UNCHANGED <<known, holdings, docker, bounds>>

(* A network with running containers is not removed; the run ends anyway. *)
RemoveNetwork ==
  /\ at = "rmnet"
  /\ network' = IF who \in running THEN network
                ELSE [network EXCEPT ![who] = NoSubnet]
  /\ End
  /\ UNCHANGED <<known, holdings, running, recorded, bounds>>

(* Mutant: a team with deployment records may be deleted.                  *)
DeletableUnchecked(t) == TRUE

(* Recorded deployments refuse the deletion.  The Docker network is not    *)
(* looked at.                                                              *)
Deletable(t) == t \notin recorded

DeleteTeam ==
  /\ cmd = "none" /\ commands > 0 /\ commands' = commands - 1
  /\ \E t \in Team : Deletable(t) /\ who' = t
  /\ cmd' = "delete" /\ at' = "subnet"
  /\ UNCHANGED <<known, holdings, docker, recorded, todo, trouble>>

ReleaseSubnet ==
  /\ at = "subnet"
  /\ subnet' = [subnet EXCEPT ![who] = NoSubnet]
  /\ Goto("ports")
  /\ UNCHANGED <<known, ports, pins, docker, recorded, bounds>>

ReleaseTeamHostPorts ==
  /\ at = "ports"
  /\ ports' = ports \ {who}
  /\ Goto("pins")
  /\ UNCHANGED <<known, subnet, pins, docker, recorded, bounds>>

(* Mutant: the pins stay with the deleted team.                            *)
PinsKept(t) == pins

PinsWithout(t) == pins \ {t}

ReleaseTeamImagePins ==
  /\ at = "pins"
  /\ pins' = PinsWithout(who)
  /\ Goto("team")
  /\ UNCHANGED <<known, subnet, ports, docker, recorded, bounds>>

ForgetTeam ==
  /\ at = "team"
  /\ known' = known \ {who}
  /\ End
  /\ UNCHANGED <<holdings, docker, recorded, bounds>>

-----------------------------------------------------------------------------
(***************************************************************************)
(* Trouble: a run that stops, containers that exit, networks removed by    *)
(* hand once no container runs on them.                                    *)
(***************************************************************************)

RunStops ==
  /\ cmd # "none" /\ trouble > 0 /\ trouble' = trouble - 1
  /\ End
  /\ UNCHANGED <<known, holdings, docker, recorded, commands>>

ContainerExits ==
  /\ trouble > 0 /\ trouble' = trouble - 1
  /\ \E t \in running : running' = running \ {t}
  /\ UNCHANGED <<known, holdings, network, recorded, cmd, at, who, todo>>
  /\ UNCHANGED commands

NetworkRemoved ==
  /\ trouble > 0 /\ trouble' = trouble - 1
  /\ \E t \in Team \ running : network' = [network EXCEPT ![t] = NoSubnet]
  /\ UNCHANGED <<known, holdings, running, recorded, cmd, at, who, todo>>
  /\ UNCHANGED commands

(* A call that answers with an error ends the run: the subnet range is     *)
(* used up, the network is another's or on another subnet, or it vanished. *)
RunRefused ==
  /\ \/ at = "allocate" /\ subnet[who] = NoSubnet /\ FreeOctets(who) = {}
     \/ /\ at = "network" /\ ~NetworkUsable(who)
        /\ network[who] # NoSubnet \/ ~PoolFree(subnet[who])
     \/ at = "container" /\ network[who] = NoSubnet
  /\ End
  /\ UNCHANGED <<known, holdings, docker, recorded, bounds>>

Next ==
  \/ SaveTeam \/ Deploy \/ ResolveImages \/ NextOwner
  \/ AllocateSubnet \/ CreateNetwork \/ StartContainer \/ RecordDeployment
  \/ DeployDone
  \/ Teardown \/ RemoveContainer \/ RemoveDeployment \/ RemoveNetwork
  \/ DeleteTeam \/ ReleaseSubnet \/ ReleaseTeamHostPorts
  \/ ReleaseTeamImagePins \/ ForgetTeam
  \/ RunStops \/ RunRefused \/ ContainerExits \/ NetworkRemoved

Spec == Init /\ [][Next]_vars

-----------------------------------------------------------------------------
(***************************************************************************)
(* Properties.                                                             *)
(***************************************************************************)

(* Every variable has its type, and a run in the middle of a team's step   *)
(* knows the team.                                                         *)
TypeOK ==
  /\ known \subseteq Team /\ ports \subseteq Team /\ pins \subseteq Team
  /\ subnet \in [Team -> Octet \cup {NoSubnet}]
  /\ network \in [Team -> Octet \cup {NoSubnet}]
  /\ running \subseteq Team /\ recorded \subseteq Team
  /\ cmd \in {"none", "deploy", "teardown", "delete"}
  /\ at \in Call /\ who \in Team \cup {NoTeam} /\ todo \subseteq Team
  /\ at \notin {"idle", "pin", "next"} => who \in Team
  /\ trouble \in 0 .. MaxTrouble /\ commands \in 0 .. MaxCommands

(* Two teams never hold the same /24 reservation, across failed runs,       *)
(* deletions and re-registrations.                                         *)
SubnetsDistinct ==
  \A s, t \in Team : s # t /\ subnet[s] # NoSubnet => subnet[s] # subnet[t]

(* A recorded deployment has its team's reservation, and the network its    *)
(* team has, if Docker still has it, is on exactly that reservation: team   *)
(* isolation is by subnet, and no deploy may settle on another one.         *)
DeployedOnOwnSubnet ==
  \A t \in recorded :
    subnet[t] # NoSubnet /\ network[t] \in {NoSubnet, subnet[t]}

(* A team the registry does not have holds nothing: no subnet, host port,   *)
(* pin or record, however often its deletion stopped half way and was run   *)
(* again.  The registry entry goes last (DeleteTeam, step 5), so what is    *)
(* left of a stopped deletion can still be found under a name.              *)
ForgottenHoldsNothing ==
  \A t \in Team \ known :
    subnet[t] = NoSubnet /\ t \notin ports \cup pins \cup recorded

(* A reservation, once made, moves or goes only with the deletion of a team *)
(* that has no deployment record: a redeploy, a failed run and a teardown   *)
(* keep it.                                                                 *)
SubnetStable ==
  [][\A t \in Team :
       subnet[t] # NoSubnet /\ subnet'[t] # subnet[t]
         => cmd = "delete" /\ who = t /\ t \notin recorded]_vars
=============================================================================
