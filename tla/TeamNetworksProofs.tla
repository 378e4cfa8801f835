------------------------- MODULE TeamNetworksProofs -------------------------
(***************************************************************************)
(* The guarantees of TeamNetworks for any number of teams and octets, and  *)
(* any number of commands and failures.  RunSound is the strengthening: it *)
(* says what a run has established when it arrives at each of its calls,   *)
(* and that trouble in between cannot take it away.                        *)
(***************************************************************************)
EXTENDS TeamNetworks, TLAPS, FiniteSetTheorems, WellFoundedInduction

DeployCalls == {"pin", "next", "allocate", "network", "container", "record"}
TeardownCalls == {"rm", "unrecord", "rmnet"}
DeleteCalls == {"subnet", "ports", "pins", "team"}

(* A call belongs to the command that runs. *)
CallsMatch ==
  /\ at \in DeployCalls => cmd = "deploy"
  /\ at \in TeardownCalls => cmd = "teardown"
  /\ at \in DeleteCalls => cmd = "delete"
  /\ cmd = "none" => at = "idle"

(* A deploy works for registered teams, and has reserved the subnet, then  *)
(* settled the network, before it goes on.                                 *)
DeploySound ==
  /\ cmd = "deploy" => todo \subseteq known
  /\ at \in DeployCalls \ {"pin", "next"} => who \in known
  /\ at \in {"network", "container", "record"} => subnet[who] # NoSubnet
  /\ at \in {"container", "record"} => network[who] \in {NoSubnet, subnet[who]}

(* A deletion is of a team without records, and what it has released stays *)
(* released.                                                               *)
DeleteSound ==
  /\ at \in DeleteCalls => who \notin recorded
  /\ at \in {"ports", "pins", "team"} => subnet[who] = NoSubnet
  /\ at \in {"pins", "team"} => who \notin ports
  /\ at = "team" => who \notin pins

RunSound == CallsMatch /\ DeploySound /\ DeleteSound

Inv ==
  /\ TypeOK
  /\ RunSound
  /\ SubnetsDistinct
  /\ DeployedOnOwnSubnet
  /\ ForgottenHoldsNothing

-----------------------------------------------------------------------------

LEMMA OctetIsNotNone == NoSubnet \notin Octet
BY TeamNetworksAssumption DEF NoSubnet, Octet

LEMMA InitInv == Init => Inv
<1> SUFFICES ASSUME Init PROVE Inv
  OBVIOUS
<1>1. TypeOK
  BY TeamNetworksAssumption DEF Init, TypeOK, Call
<1>2. RunSound
  BY DEF Init, RunSound, CallsMatch, DeploySound, DeleteSound,
         DeployCalls, TeardownCalls, DeleteCalls
<1>3. SubnetsDistinct /\ DeployedOnOwnSubnet /\ ForgottenHoldsNothing
  BY DEF Init, SubnetsDistinct, DeployedOnOwnSubnet, ForgottenHoldsNothing
<1> QED
  BY <1>1, <1>2, <1>3 DEF Inv

(* The type is inductive on its own. *)
LEMMA TypeInv == TypeOK /\ [Next]_vars => TypeOK'
<1> SUFFICES ASSUME TypeOK, [Next]_vars PROVE TypeOK'
  OBVIOUS
<1> USE DEF TypeOK, Call, holdings, docker, bounds
<1>1. CASE SaveTeam
  BY <1>1 DEF SaveTeam
<1>2. CASE Deploy
  BY <1>2 DEF Deploy
<1>3. CASE ResolveImages
  BY <1>3 DEF ResolveImages, Goto
<1>4. CASE NextOwner
  BY <1>4 DEF NextOwner
<1>5. CASE AllocateSubnet
  BY <1>5 DEF AllocateSubnet, FreeOctets, Goto
<1>6. CASE CreateNetwork
  BY <1>6 DEF CreateNetwork, NetworkUsable, PoolFree, Goto
<1>7. CASE StartContainer
  BY <1>7 DEF StartContainer, Goto
<1>8. CASE RecordDeployment
  BY <1>8 DEF RecordDeployment, Goto
<1>9. CASE DeployDone
  BY <1>9 DEF DeployDone, End
<1>10. CASE Teardown
  BY <1>10, TeamNetworksAssumption DEF Teardown
<1>11. CASE RemoveContainer
  BY <1>11 DEF RemoveContainer, Goto
<1>12. CASE RemoveDeployment
  BY <1>12 DEF RemoveDeployment, Goto
<1>13. CASE RemoveNetwork
  BY <1>13 DEF RemoveNetwork, End
<1>14. CASE DeleteTeam
  BY <1>14, TeamNetworksAssumption DEF DeleteTeam, Deletable
<1>15. CASE ReleaseSubnet
  BY <1>15 DEF ReleaseSubnet, Goto
<1>16. CASE ReleaseTeamHostPorts
  BY <1>16 DEF ReleaseTeamHostPorts, Goto
<1>17. CASE ReleaseTeamImagePins
  BY <1>17 DEF ReleaseTeamImagePins, PinsWithout, Goto
<1>18. CASE ForgetTeam
  BY <1>18 DEF ForgetTeam, End
<1>19. CASE RunStops
  BY <1>19, TeamNetworksAssumption DEF RunStops, End
<1>20. CASE RunRefused
  BY <1>20 DEF RunRefused, End
<1>21. CASE ContainerExits
  BY <1>21, TeamNetworksAssumption DEF ContainerExits
<1>22. CASE NetworkRemoved
  BY <1>22, TeamNetworksAssumption DEF NetworkRemoved
<1>23. CASE UNCHANGED vars
  BY <1>23 DEF vars
<1> QED
  BY <1>1, <1>2, <1>3, <1>4, <1>5, <1>6, <1>7, <1>8, <1>9, <1>10, <1>11,
     <1>12, <1>13, <1>14, <1>15, <1>16, <1>17, <1>18, <1>19, <1>20, <1>21,
     <1>22, <1>23 DEF Next

(* What a run has established stands when it reaches the next call.  A     *)
(* network the run has settled may be removed by hand meanwhile, never     *)
(* moved to another subnet; a released subnet is given to nobody while the *)
(* deletion runs.                                                          *)
LEMMA RunInv == Inv /\ [Next]_vars => RunSound'
<1> SUFFICES ASSUME Inv, [Next]_vars PROVE RunSound'
  OBVIOUS
<1> USE DEF Inv, RunSound, CallsMatch, DeploySound, DeleteSound,
            DeployCalls, TeardownCalls, DeleteCalls
<1> USE DEF TypeOK, holdings, docker, bounds
<1>1. CASE SaveTeam
  BY <1>1 DEF SaveTeam
<1>2. CASE Deploy
  BY <1>2 DEF Deploy
<1>3. CASE ResolveImages
  BY <1>3 DEF ResolveImages, Goto
<1>4. CASE NextOwner
  BY <1>4 DEF NextOwner
<1>5. CASE AllocateSubnet
  BY <1>5, OctetIsNotNone DEF AllocateSubnet, FreeOctets, Goto
<1>6. CASE CreateNetwork
  BY <1>6 DEF CreateNetwork, NetworkUsable, PoolFree, Goto
<1>7. CASE StartContainer
  BY <1>7 DEF StartContainer, Goto
<1>8. CASE RecordDeployment
  BY <1>8 DEF RecordDeployment, Goto
<1>9. CASE DeployDone
  BY <1>9 DEF DeployDone, End
<1>10. CASE Teardown
  BY <1>10 DEF Teardown
<1>11. CASE RemoveContainer
  BY <1>11 DEF RemoveContainer, Goto
<1>12. CASE RemoveDeployment
  BY <1>12 DEF RemoveDeployment, Goto
<1>13. CASE RemoveNetwork
  BY <1>13 DEF RemoveNetwork, End
<1>14. CASE DeleteTeam
  BY <1>14 DEF DeleteTeam, Deletable
<1>15. CASE ReleaseSubnet
  BY <1>15 DEF ReleaseSubnet, Goto
<1>16. CASE ReleaseTeamHostPorts
  BY <1>16 DEF ReleaseTeamHostPorts, Goto
<1>17. CASE ReleaseTeamImagePins
  BY <1>17 DEF ReleaseTeamImagePins, PinsWithout, Goto
<1>18. CASE ForgetTeam
  BY <1>18 DEF ForgetTeam, End
<1>19. CASE RunStops
  BY <1>19 DEF RunStops, End
<1>20. CASE RunRefused
  BY <1>20 DEF RunRefused, End
<1>21. CASE ContainerExits
  BY <1>21 DEF ContainerExits
<1>22. CASE NetworkRemoved
  BY <1>22 DEF NetworkRemoved
<1>23. CASE UNCHANGED vars
  BY <1>23 DEF vars
<1> QED
  BY <1>1, <1>2, <1>3, <1>4, <1>5, <1>6, <1>7, <1>8, <1>9, <1>10, <1>11,
     <1>12, <1>13, <1>14, <1>15, <1>16, <1>17, <1>18, <1>19, <1>20, <1>21,
     <1>22, <1>23 DEF Next

(* The reservations have two writers.                                      *)
LEMMA OnlyTwoTouchSubnets ==
  [Next]_vars => AllocateSubnet \/ ReleaseSubnet \/ UNCHANGED subnet
<1> SUFFICES ASSUME [Next]_vars
             PROVE  AllocateSubnet \/ ReleaseSubnet \/ UNCHANGED subnet
  OBVIOUS
<1> USE DEF holdings
<1> QED
  BY DEF Next, vars, SaveTeam, Deploy, ResolveImages, NextOwner,
     CreateNetwork, StartContainer, RecordDeployment, DeployDone, Teardown,
     RemoveContainer, RemoveDeployment, RemoveNetwork, DeleteTeam,
     ReleaseTeamHostPorts, ReleaseTeamImagePins, ForgetTeam, RunStops,
     RunRefused, ContainerExits, NetworkRemoved

(* Only AllocateSubnet reserves a subnet, and takes one nobody holds.      *)
LEMMA DistinctInv == Inv /\ [Next]_vars => SubnetsDistinct'
<1> SUFFICES ASSUME Inv, [Next]_vars PROVE SubnetsDistinct'
  OBVIOUS
<1> USE DEF Inv, TypeOK, SubnetsDistinct
<1>1. CASE AllocateSubnet
  <2>1. CASE UNCHANGED subnet
    BY <2>1
  <2>2. ASSUME NEW o \in FreeOctets(who), subnet' = [subnet EXCEPT ![who] = o]
        PROVE  SubnetsDistinct'
    BY <2>2 DEF FreeOctets
  <2> QED
    BY <1>1, <2>1, <2>2 DEF AllocateSubnet
<1>2. CASE ReleaseSubnet
  BY <1>2 DEF ReleaseSubnet
<1>3. CASE UNCHANGED subnet
  BY <1>3
<1> QED
  BY <1>1, <1>2, <1>3, OnlyTwoTouchSubnets

(* A reservation goes only where there is no record, a network appears     *)
(* only on the reservation, and a record is written only for a run that    *)
(* has settled both.                                                       *)
LEMMA DeployedInv == Inv /\ [Next]_vars => DeployedOnOwnSubnet'
<1> SUFFICES ASSUME Inv, [Next]_vars PROVE DeployedOnOwnSubnet'
  OBVIOUS
<1> USE DEF Inv, TypeOK, DeployedOnOwnSubnet
<1>1. CASE AllocateSubnet
  BY <1>1 DEF AllocateSubnet, docker, FreeOctets
<1>2. CASE CreateNetwork
  BY <1>2, OctetIsNotNone DEF CreateNetwork, NetworkUsable, holdings
<1>3. CASE RecordDeployment
  BY <1>3 DEF RecordDeployment, RunSound, CallsMatch, DeploySound,
     DeployCalls, holdings, docker
<1>4. CASE RemoveDeployment
  BY <1>4 DEF RemoveDeployment, holdings, docker
<1>5. CASE RemoveNetwork
  BY <1>5 DEF RemoveNetwork, holdings
<1>6. CASE ReleaseSubnet
  BY <1>6 DEF ReleaseSubnet, RunSound, DeleteSound, DeleteCalls, docker
<1>7. CASE NetworkRemoved
  BY <1>7 DEF NetworkRemoved, holdings
<1>8. CASE UNCHANGED <<subnet, network, recorded>>
  BY <1>8
<1>9. [Next]_vars =>
        \/ AllocateSubnet
        \/ CreateNetwork
        \/ RecordDeployment
        \/ RemoveDeployment
        \/ RemoveNetwork
        \/ ReleaseSubnet
        \/ NetworkRemoved
        \/ UNCHANGED <<subnet, network, recorded>>
  BY DEF Next, vars, holdings, docker, SaveTeam, Deploy, ResolveImages,
     NextOwner, StartContainer, DeployDone, Teardown, RemoveContainer,
     DeleteTeam, ReleaseTeamHostPorts, ReleaseTeamImagePins, ForgetTeam,
     RunStops, RunRefused, ContainerExits
<1> QED
  BY <1>1, <1>2, <1>3, <1>4, <1>5, <1>6, <1>7, <1>8, <1>9

(* What an unregistered team must not hold is taken only by deploys, which *)
(* work for registered teams, and a team is forgotten last.                *)
LEMMA ForgottenInv == Inv /\ [Next]_vars => ForgottenHoldsNothing'
<1> SUFFICES ASSUME Inv, [Next]_vars PROVE ForgottenHoldsNothing'
  OBVIOUS
<1> USE DEF Inv, TypeOK, ForgottenHoldsNothing
<1>1. CASE SaveTeam
  BY <1>1 DEF SaveTeam, holdings
<1>2. CASE ResolveImages
  BY <1>2 DEF ResolveImages, RunSound, CallsMatch, DeploySound, DeployCalls
<1>3. CASE AllocateSubnet
  BY <1>3 DEF AllocateSubnet, RunSound, DeploySound, DeployCalls
<1>4. CASE StartContainer
  BY <1>4 DEF StartContainer, RunSound, DeploySound, DeployCalls
<1>5. CASE RecordDeployment
  BY <1>5 DEF RecordDeployment, RunSound, DeploySound, DeployCalls, holdings
<1>6. CASE RemoveDeployment
  BY <1>6 DEF RemoveDeployment, holdings
<1>7. CASE ReleaseSubnet
  BY <1>7 DEF ReleaseSubnet
<1>8. CASE ReleaseTeamHostPorts
  BY <1>8 DEF ReleaseTeamHostPorts
<1>9. CASE ReleaseTeamImagePins
  BY <1>9 DEF ReleaseTeamImagePins, PinsWithout
<1>10. CASE ForgetTeam
  BY <1>10 DEF ForgetTeam, RunSound, DeleteSound, DeleteCalls, holdings
<1>11. CASE UNCHANGED <<known, subnet, ports, pins, recorded>>
  BY <1>11
<1>12. [Next]_vars =>
        \/ SaveTeam
        \/ ResolveImages
        \/ AllocateSubnet
        \/ StartContainer
        \/ RecordDeployment
        \/ RemoveDeployment
        \/ ReleaseSubnet
        \/ ReleaseTeamHostPorts
        \/ ReleaseTeamImagePins
        \/ ForgetTeam
        \/ UNCHANGED <<known, subnet, ports, pins, recorded>>
  BY DEF Next, vars, holdings, docker, Deploy, NextOwner, CreateNetwork,
     DeployDone, Teardown, RemoveContainer, RemoveNetwork, DeleteTeam,
     RunStops, RunRefused, ContainerExits, NetworkRemoved
<1> QED
  BY <1>1, <1>2, <1>3, <1>4, <1>5, <1>6, <1>7, <1>8, <1>9, <1>10, <1>11,
     <1>12

(* Every part of the invariant is kept by every step. *)
LEMMA NextInv == Inv /\ [Next]_vars => Inv'
BY TypeInv, RunInv, DistinctInv, DeployedInv, ForgottenInv DEF Inv

LEMMA AlwaysInv == Spec => []Inv
BY InitInv, NextInv, PTL DEF Spec

-----------------------------------------------------------------------------

(* Every variable keeps its type: AllocateSubnet (subnets.go) reserves no  *)
(* octet outside its range.                                                *)
THEOREM TypeCorrect == Spec => []TypeOK
BY AlwaysInv, PTL DEF Inv

(* AllocateSubnet never gives two teams one subnet, however many compete   *)
(* for however few, through stopped runs, deletions by DeleteTeam and      *)
(* re-registrations.                                                       *)
THEOREM SubnetsAreDistinct == Spec => []SubnetsDistinct
BY AlwaysInv, PTL DEF Inv

(* A team with a deployment record has a reservation, and its network, if  *)
(* there is one, is on it: CreateNetwork of the backend compares the two   *)
(* before a container starts, and DeleteTeam refuses a team with records.  *)
THEOREM DeploymentsKeepTheirSubnet == Spec => []DeployedOnOwnSubnet
BY AlwaysInv, PTL DEF Inv

(* A team that is not registered holds nothing, wherever DeleteTeam        *)
(* (handler/teams.go) was interrupted before: the registration goes last.  *)
THEOREM NothingIsForgotten == Spec => []ForgottenHoldsNothing
BY AlwaysInv, PTL DEF Inv

(* A reservation is given up by ReleaseSubnet only, in the deletion of its *)
(* team, when the team has no deployment record.                           *)
THEOREM ReservationsAreStable == Spec => SubnetStable
<1>1. Inv /\ [Next]_vars =>
        [\A t \in Team :
           subnet[t] # NoSubnet /\ subnet'[t] # subnet[t]
             => cmd = "delete" /\ who = t /\ t \notin recorded]_vars
  <2> SUFFICES ASSUME Inv, [Next]_vars, NEW t \in Team,
                      subnet[t] # NoSubnet, subnet'[t] # subnet[t]
               PROVE  cmd = "delete" /\ who = t /\ t \notin recorded
    OBVIOUS
  <2> USE DEF Inv, TypeOK
  <2>1. CASE AllocateSubnet
    BY <2>1 DEF AllocateSubnet
  <2>2. CASE ReleaseSubnet
    BY <2>2 DEF ReleaseSubnet, RunSound, CallsMatch, DeleteSound, DeleteCalls
  <2> QED
    BY <2>1, <2>2, OnlyTwoTouchSubnets
<1> QED
  BY <1>1, AlwaysInv, PTL DEF Spec, SubnetStable

-----------------------------------------------------------------------------
(***************************************************************************)
(* As many registered teams as there are octets can all be deployed.       *)
(***************************************************************************)

EnoughOctets == IsFiniteSet(known) /\ Cardinality(known) <= Cardinality(Octet)

(* The loop of AllocateSubnet finds the least octet that is free.          *)
Allocatable(t) == \E o \in FreeOctets(t) : \A p \in FreeOctets(t) : o <= p

LEMMA LeastOf ==
  ASSUME NEW T \in SUBSET Nat, T # {}
  PROVE  \E x \in T : \A y \in T : x <= y
PROOF
<1>1. IsWellFoundedOn(OpToRel(<, Nat), Nat)
  BY NatLessThanWellFounded
<1>2. \E x \in T : \A y \in T : ~(<<y, x>> \in OpToRel(<, Nat))
  BY <1>1, WFMin
<1>3. \A x, y \in Nat : ~(<<y, x>> \in OpToRel(<, Nat)) => x <= y
  BY DEF OpToRel
<1> QED
  BY <1>2, <1>3

(* A registered team without a reservation leaves at most the octets of    *)
(* the other registered teams reserved: nobody else holds one.             *)
LEMMA OctetLeft ==
  ASSUME EnoughOctets, TypeOK, ForgottenHoldsNothing,
         NEW t \in known, subnet[t] = NoSubnet
  PROVE  FreeOctets(t) # {}
PROOF
<1> DEFINE others == {u \in Team : subnet[u] # NoSubnet}
           used == {subnet[u] : u \in others}
           f == [u \in others |-> subnet[u]]
<1>1. IsFiniteSet(Octet) /\ Cardinality(Octet) \in Nat
  BY TeamNetworksAssumption, FS_Interval, FS_CardinalityType DEF Octet
<1>2. f \in Surjection(others, used)
  BY DEF Surjection
<1>3. /\ IsFiniteSet(known \ {t})
      /\ Cardinality(known \ {t}) = Cardinality(known) - 1
      /\ Cardinality(known) \in Nat
  BY FS_RemoveElement, FS_CardinalityType DEF EnoughOctets
<1>4. IsFiniteSet(others) /\ Cardinality(others) <= Cardinality(known \ {t})
  <2>1. others \in SUBSET (known \ {t})
    BY DEF ForgottenHoldsNothing
  <2> QED
    BY <1>3, <2>1, FS_Subset
<1>5. FreeOctets(t) = Octet \ used
  BY OctetIsNotNone DEF FreeOctets
<1> HIDE DEF f, others, used
<1>6. IsFiniteSet(used) /\ Cardinality(used) <= Cardinality(others)
  BY <1>2, <1>4, FS_Surjection
<1>7. Cardinality(used) \in Nat /\ Cardinality(others) \in Nat
  BY <1>4, <1>6, FS_CardinalityType
<1>8. Cardinality(used) < Cardinality(Octet)
  BY <1>1, <1>3, <1>4, <1>6, <1>7 DEF EnoughOctets
<1>9. ~(Octet \in SUBSET used)
  BY <1>1, <1>6, <1>7, <1>8, FS_Subset
<1> QED
  BY <1>5, <1>9

(* With no more registered teams than octets a deploy is never refused for *)
(* want of a subnet, however many teams came and went before: a deletion,  *)
(* wherever it was interrupted, has given the octet back when the registry *)
(* forgets the team.                                                       *)
THEOREM EveryTeamGetsASubnet ==
  Spec => [](at = "allocate" /\ EnoughOctets =>
               subnet[who] # NoSubnet \/ Allocatable(who))
PROOF
<1>1. ASSUME Inv, at = "allocate", EnoughOctets, subnet[who] = NoSubnet
      PROVE  Allocatable(who)
  <2>1. who \in known
    BY <1>1 DEF Inv, RunSound, DeploySound, DeployCalls
  <2>2. FreeOctets(who) # {}
    BY <1>1, <2>1, OctetLeft DEF Inv
  <2>3. FreeOctets(who) \in SUBSET Nat
    BY TeamNetworksAssumption DEF FreeOctets, Octet
  <2> QED
    BY <2>2, <2>3, LeastOf DEF Allocatable
<1>2. Inv => (at = "allocate" /\ EnoughOctets =>
                subnet[who] # NoSubnet \/ Allocatable(who))
  BY <1>1
<1> QED
  BY <1>2, AlwaysInv, PTL

=============================================================================
