-------------------------- MODULE ContainersProofs --------------------------
(***************************************************************************)
(* Containers for any names, configurations, ids, bounds and faults: the   *)
(* calls named in Fault, and with them the places where runs stop, may be  *)
(* any.  What holds of every container, and what only of one that did not  *)
(* go astray, is said by the invariant: nothing is assumed of the runs.    *)
(***************************************************************************)
EXTENDS Containers, TLAPS, FiniteSetTheorems, WellFoundedInduction

-----------------------------------------------------------------------------
(***************************************************************************)
(* The inductive invariant.                                                *)
(***************************************************************************)

(* Where a run is and what it works on.                                    *)
CallsMatch ==
  /\ cmd = "none" <=> at = "idle"
  /\ at \in DeployCall => cmd = "deploy" /\ wanted[cur] \in Config
  /\ at \in TeardownCall => cmd = "teardown"
  /\ at \notin {"idle", "next"} => cur \in Name \ todo
  /\ cmd = "deploy" => \A n \in todo : wanted[n] \in Config

(* A creation follows an inspection that found nothing, or a removal; the  *)
(* other calls one that found a container, or a creation.                  *)
Held ==
  /\ at \in {"list", "remove", "start", "record", "rm_remove"} => seen # Absent
  /\ at = "create" => container[cur] = Absent

Typing == TypeOK /\ CallsMatch /\ Held

(* What the calls made so far in a step have established.                  *)
StepSound ==
  /\ at \in {"list", "remove", "start", "record", "rm_remove"} =>
       (container[cur] # Absent => container[cur].id = seen.id)
  /\ at = "remove" => record[cur].hash # wanted[cur]
  /\ at \in {"start", "record"} /\ container[cur] # Absent =>
       container[cur].cfg = wanted[cur] \/ cur \in astray
  /\ at = "unrecord" => container[cur] = Absent

Underway(n) == at \in {"start", "record"} /\ n = cur

(* A container is the one on record, with the configuration on record,     *)
(* unless it is being deployed or went astray.                             *)
OnRecord ==
  \A n \in Name \ astray :
    container[n] # Absent /\ ~Underway(n) =>
      record[n].id = container[n].id /\ record[n].hash = container[n].cfg

AstrayThere == \A n \in astray : container[n] # Absent

Sound == StepSound /\ OnRecord /\ RecordIsTruthful /\ AstrayThere

Inv == Typing /\ Sound

(* A teardown has still to take every container that is there, except one  *)
(* that went astray and has no record.                                     *)
Missed(n) == n \in astray /\ record[n] = NoRecord

TeardownSound ==
  cmd = "teardown" =>
    \A n \in Name : container[n] # Absent =>
      n \in todo \/ (at \in {"rm_inspect", "rm_remove"} /\ n = cur) \/ Missed(n)

-----------------------------------------------------------------------------
(***************************************************************************)
(* Facts about containers.                                                 *)
(***************************************************************************)

LEMMA ContainerFacts ==
  ASSUME NEW c \in ContainerType
  PROVE  /\ c # Absent => c.id \in Id /\ c.id # 0 /\ c.cfg \in Config
         /\ c = Absent => c.id = 0 /\ c.cfg = NoConfig
  BY ContainersAssumption DEF ContainerType, Absent, NoConfig

LEMMA AbsentType == Absent \in ContainerType
  BY DEF ContainerType

LEMMA RunningFacts ==
  ASSUME NEW c \in ContainerType, c # Absent, NEW b \in BOOLEAN,
         NEW d, d = [c EXCEPT !.running = b]
  PROVE  /\ d \in ContainerType /\ d # Absent
         /\ d.id = c.id /\ d.cfg = c.cfg
PROOF
<1>1. c \in [id : Id, cfg : Config, running : BOOLEAN]
  BY DEF ContainerType
<1>2. d \in [id : Id, cfg : Config, running : BOOLEAN]
  BY <1>1
<1>3. d.id = c.id /\ d.cfg = c.cfg
  BY <1>1
<1>4. d # Absent
  BY <1>2, ContainersAssumption DEF Absent
<1> QED
  BY <1>2, <1>3, <1>4 DEF ContainerType

LEMMA InAStep ==
  ASSUME Typing, at \in DeployCall \cup TeardownCall
  PROVE  /\ cur \in Name /\ cur \notin todo /\ cmd # "none"
         /\ container[cur] \in ContainerType
         /\ at \in DeployCall => cmd = "deploy" /\ wanted[cur] \in Config
         /\ at \in TeardownCall => cmd = "teardown"
  BY DEF Typing, TypeOK, CallsMatch, DeployCall, TeardownCall

(* The calls that find the container inspected or created under its name.  *)
LEMMA StillThere ==
  ASSUME Typing, at \in {"remove", "start", "rm_remove"},
         container[cur].id = seen.id
  PROVE  container[cur] # Absent
PROOF
<1>1. seen \in ContainerType /\ seen # Absent
  BY DEF Typing, TypeOK, Held
<1>2. container[cur] \in ContainerType
  BY InAStep DEF DeployCall, TeardownCall
<1> QED
  BY <1>1, <1>2, ContainerFacts

(* What Start, an exit and a creation do to the container of one name.     *)
LEMMA Running ==
  ASSUME TypeOK, NEW n \in Name, container[n] # Absent, NEW b \in BOOLEAN,
         container' = [container EXCEPT ![n].running = b]
  PROVE  /\ container' \in [Name -> ContainerType]
         /\ \A m \in Name : /\ container'[m] = Absent <=> container[m] = Absent
                            /\ container'[m].id = container[m].id
                            /\ container'[m].cfg = container[m].cfg
PROOF
<1>1. container[n] \in ContainerType
  BY DEF TypeOK
<1>2. PICK d : d = [container[n] EXCEPT !.running = b]
  OBVIOUS
<1>3. /\ d \in ContainerType /\ d # Absent
      /\ d.id = container[n].id /\ d.cfg = container[n].cfg
  BY <1>1, <1>2, RunningFacts
<1>4. container' = [container EXCEPT ![n] = d]
  BY <1>2
<1> QED
  BY <1>3, <1>4 DEF TypeOK

LEMMA RemovalFacts ==
  ASSUME TypeOK, NEW n \in Name, Removed(n)
  PROVE  /\ container' \in [Name -> ContainerType] /\ container'[n] = Absent
         /\ \A m \in Name \ {n} : container'[m] = container[m]
         /\ astray' = astray \ {n} /\ astray' \in SUBSET Name
  BY AbsentType DEF TypeOK, Removed

LEMMA Created ==
  ASSUME Typing, Create
  PROVE  /\ container' \in [Name -> ContainerType] /\ container'[cur] = seen'
         /\ \A n \in Name \ {cur} : container'[n] = container[n]
         /\ seen' \in ContainerType /\ seen' # Absent
         /\ seen'.cfg = wanted[cur] /\ seen'.id \notin UsedIds
PROOF
<1> USE DEF Create
<1>1. cur \in Name /\ wanted[cur] \in Config
  BY InAStep DEF DeployCall
<1>2. PICK i \in Id \ UsedIds :
        seen' = [id |-> i, cfg |-> wanted[cur], running |-> FALSE]
  OBVIOUS
<1>3. seen' \in ContainerType
  BY <1>1, <1>2 DEF ContainerType
<1>4. seen'.id = i /\ seen'.cfg = wanted[cur]
  BY <1>2
<1>5. seen' # Absent
  BY <1>4, ContainersAssumption DEF Absent
<1> QED
  BY <1>1, <1>3, <1>4, <1>5 DEF Typing, TypeOK

LEMMA Recording ==
  ASSUME Typing, RecordDeployment
  PROVE  /\ Recorded \in [id : Id, hash : Config]
         /\ Recorded.id = seen.id /\ Recorded.hash = wanted[cur]
         /\ Recorded # NoRecord
         /\ record' \in [Name -> [id : Id, hash : Config] \cup {NoRecord}]
         /\ record'[cur] = Recorded
         /\ \A n \in Name \ {cur} : record'[n] = record[n]
PROOF
<1>1. cur \in Name /\ wanted[cur] \in Config
  BY InAStep DEF RecordDeployment, DeployCall
<1>2. seen.id \in Id /\ seen.id # 0
  BY ContainerFacts DEF RecordDeployment, Typing, TypeOK, Held
<1>3. /\ Recorded \in [id : Id, hash : Config]
      /\ Recorded.id = seen.id /\ Recorded.hash = wanted[cur]
  BY <1>1, <1>2 DEF Recorded
<1>4. Recorded # NoRecord
  BY <1>2, <1>3 DEF NoRecord
<1> QED
  BY <1>1, <1>3, <1>4 DEF RecordDeployment, Typing, TypeOK

-----------------------------------------------------------------------------
(***************************************************************************)
(* Types, whatever fails.                                                  *)
(***************************************************************************)

LEMMA InitTyping == ASSUME Init PROVE Typing
PROOF
<1>1. TypeOK
  BY AbsentType, ContainersAssumption DEF Init, TypeOK, Call, NoName, ConfigOrNone
<1>2. CallsMatch /\ Held
  BY DEF Init, CallsMatch, Held, DeployCall, TeardownCall
<1> QED
  BY <1>1, <1>2 DEF Typing

LEMMA EndTyping ==
  ASSUME Typing, End, UNCHANGED <<wanted, container, record, edits>>,
         trouble' \in 0 .. MaxTrouble, astray' \in SUBSET Name
  PROVE  Typing'
PROOF
<1> USE DEF End, state
<1>1. TypeOK'
  <2>1. /\ wanted \in [Name -> ConfigOrNone] /\ container \in [Name -> ContainerType]
        /\ record \in [Name -> [id : Id, hash : Config] \cup {NoRecord}]
        /\ edits \in 0 .. MaxEdits
    BY DEF Typing, TypeOK
  <2>2. "idle" \in Call
    BY DEF Call
  <2> QED
    BY <2>1, <2>2, AbsentType DEF TypeOK
<1>2. CallsMatch' /\ Held'
  BY DEF CallsMatch, Held, DeployCall, TeardownCall
<1> QED
  BY <1>1, <1>2 DEF Typing

LEMMA BeginTyping ==
  ASSUME Typing, Deploy \/ Teardown PROVE Typing'
PROOF
<1> USE DEF Deploy, Teardown, Begin, state
<1>1. TypeOK'
  <2>1. todo' \in SUBSET Name
    BY DEF TeardownPlan
  <2>2. edits' \in 0 .. MaxEdits
    BY ContainersAssumption DEF Typing, TypeOK
  <2> QED
    BY <2>1, <2>2 DEF Typing, TypeOK, Call
<1>2. CallsMatch' /\ Held'
  BY DEF Typing, TypeOK, CallsMatch, Held, DeployCall, TeardownCall, ConfigOrNone
<1> QED
  BY <1>1, <1>2 DEF Typing

LEMMA NextStepTyping ==
  ASSUME Typing, NextStep PROVE Typing'
PROOF
<1> USE DEF NextStep, state
<1>1. PICK n \in todo : todo' = todo \ {n} /\ cur' = n
  OBVIOUS
<1>2. cmd \in {"deploy", "teardown"} /\ n \in Name
  BY DEF Typing, TypeOK, CallsMatch
<1>3. TypeOK'
  BY <1>1, <1>2 DEF Typing, TypeOK, Call, DeployCall, TeardownCall
<1>4. CallsMatch' /\ Held'
  BY <1>1, <1>2 DEF Typing, CallsMatch, Held, DeployCall, TeardownCall
<1> QED
  BY <1>3, <1>4 DEF Typing

LEMMA LookTyping ==
  ASSUME Typing, Inspect \/ InspectForRemoval \/ List PROVE Typing'
PROOF
<1> USE DEF Inspect, InspectForRemoval, List, Goto, state
<1>1. /\ cur \in Name /\ container[cur] \in ContainerType
      /\ wanted' = wanted /\ cur' = cur
  BY InAStep DEF DeployCall, TeardownCall
<1>2. at' \in {"create", "list", "remove", "record", "start", "unrecord", "rm_remove"}
  OBVIOUS
<1>3. TypeOK'
  BY <1>1, <1>2 DEF Typing, TypeOK, Call, DeployCall, TeardownCall
<1>4. CallsMatch'
  BY <1>1, <1>2 DEF Typing, CallsMatch, DeployCall, TeardownCall
<1>5. Held'
  BY DEF Typing, Held
<1> QED
  BY <1>3, <1>4, <1>5 DEF Typing

LEMMA RemoveTyping ==
  ASSUME Typing, RemoveStale \/ RemoveInspected PROVE Typing'
PROOF
<1> USE DEF RemoveStale, RemoveInspected, Goto, state
<1>1. cur \in Name
  BY InAStep DEF DeployCall, TeardownCall
<1>2. container' \in [Name -> ContainerType]
  BY <1>1, RemovalFacts DEF Typing
<1>3. TypeOK'
  BY <1>1, <1>2, RemovalFacts DEF Typing, TypeOK, Call, DeployCall, TeardownCall
<1>4. CallsMatch' /\ Held'
  BY <1>1, RemovalFacts DEF Typing, CallsMatch, Held, DeployCall, TeardownCall
<1> QED
  BY <1>3, <1>4 DEF Typing

LEMMA CreateTyping ==
  ASSUME Typing, Create PROVE Typing'
PROOF
<1>1. TypeOK'
  BY Created DEF Typing, TypeOK, Create, Call, DeployCall
<1>2. CallsMatch' /\ Held'
  BY Created, InAStep DEF Typing, CallsMatch, Held, Create, DeployCall, TeardownCall
<1> QED
  BY <1>1, <1>2 DEF Typing

LEMMA StartTyping ==
  ASSUME Typing, Start PROVE Typing'
PROOF
<1> USE DEF Start, Goto, state
<1>1. cur \in Name /\ container[cur] # Absent
  BY InAStep, StillThere DEF DeployCall
<1>2. container' \in [Name -> ContainerType]
  BY <1>1, Running DEF Typing
<1>3. TypeOK'
  BY <1>2 DEF Typing, TypeOK, Call, DeployCall
<1>4. CallsMatch' /\ Held'
  BY <1>1 DEF Typing, CallsMatch, Held, DeployCall, TeardownCall
<1> QED
  BY <1>3, <1>4 DEF Typing

LEMMA RecordTyping ==
  ASSUME Typing, RecordDeployment \/ RemoveDeployment PROVE Typing'
PROOF
<1> USE DEF RemoveDeployment, RecordDeployment, Goto, state
<1>1. cur \in Name
  BY InAStep DEF DeployCall, TeardownCall
<1>2. record' \in [Name -> [id : Id, hash : Config] \cup {NoRecord}]
  BY <1>1, Recording DEF Typing, TypeOK
<1>3. TypeOK'
  BY <1>2 DEF Typing, TypeOK, Call
<1>4. CallsMatch' /\ Held'
  BY <1>1 DEF Typing, CallsMatch, Held, DeployCall, TeardownCall
<1> QED
  BY <1>3, <1>4 DEF Typing

LEMMA TroubleTyping ==
  ASSUME Typing, ContainerExits \/ RemovedByHand PROVE Typing'
PROOF
<1> USE DEF ContainerExits, RemovedByHand, state, run
<1>1. /\ container' \in [Name -> ContainerType] /\ astray' \in SUBSET Name
      /\ \A m \in Name : container[m] = Absent => container'[m] = Absent
  <2>1. CASE ContainerExits
    <3>1. PICK n \in Name :
            /\ container[n].running
            /\ container' = [container EXCEPT ![n].running = FALSE]
      BY <2>1
    <3>2. container[n] # Absent
      BY <3>1 DEF Absent
    <3> QED
      BY <2>1, <3>1, <3>2, Running DEF Typing, TypeOK
  <2>2. CASE RemovedByHand
    BY <2>2, RemovalFacts DEF Typing
  <2> QED
    BY <2>1, <2>2
<1>2. trouble' \in 0 .. MaxTrouble
  BY ContainersAssumption DEF Typing, TypeOK
<1>3. TypeOK'
  BY <1>1, <1>2 DEF Typing, TypeOK
<1>4. CallsMatch' /\ Held'
  BY <1>1 DEF Typing, CallsMatch, Held
<1> QED
  BY <1>3, <1>4 DEF Typing

LEMMA BetweenTyping ==
  ASSUME Typing, EditManifest \/ DeleteArtifact \/ DeleteUnasked PROVE Typing'
PROOF
<1> USE DEF EditManifest, DeleteArtifact, DeleteUnasked, Forget, state, run
<1>1. at = "idle"
  BY DEF Typing, CallsMatch
<1>2. TypeOK'
  BY ContainersAssumption DEF Typing, TypeOK
<1>3. CallsMatch' /\ Held'
  BY <1>1 DEF Typing, CallsMatch, Held, DeployCall, TeardownCall
<1> QED
  BY <1>2, <1>3 DEF Typing

LEMMA RunEndTyping ==
  ASSUME Typing, DeployDone \/ TeardownDone \/ RunStops \/ ContainerVanished
  PROVE  Typing'
PROOF
<1>1. trouble' \in 0 .. MaxTrouble
  BY ContainersAssumption
     DEF Typing, TypeOK, DeployDone, TeardownDone, RunStops, ContainerVanished
<1>2. End /\ UNCHANGED <<wanted, container, record, edits>>
  BY DEF DeployDone, TeardownDone, RunStops, ContainerVanished, state
<1>3. astray' \in SUBSET Name
  <2>1. Unrecorded => cur \in Name
    BY InAStep DEF Unrecorded, DeployCall
  <2> QED
    BY <2>1 DEF Typing, TypeOK, DeployDone, TeardownDone, RunStops,
                ContainerVanished, state
<1> QED
  BY <1>1, <1>2, <1>3, EndTyping

LEMMA AlwaysTyping == Spec => []Typing
PROOF
<1>1. Typing /\ UNCHANGED vars => Typing'
  BY DEF vars, state, run, Typing, TypeOK, CallsMatch, Held
<1>2. Typing /\ [Next]_vars => Typing'
  BY <1>1, EndTyping, BeginTyping, NextStepTyping, LookTyping, RemoveTyping,
     CreateTyping, StartTyping, RecordTyping, TroubleTyping, BetweenTyping,
     RunEndTyping DEF Next, Step
<1>3. Init => Typing
  BY InitTyping
<1> QED
  BY <1>2, <1>3, PTL DEF Spec

-----------------------------------------------------------------------------
(***************************************************************************)
(* What the records say.                                                   *)
(***************************************************************************)

LEMMA InitSound == ASSUME Init PROVE Sound
  BY DEF Init, Sound, StepSound, OnRecord, RecordIsTruthful, AstrayThere

(* A run that stops leaves what it has not recorded astray; one that ends  *)
(* otherwise has nothing unrecorded in hand.                               *)
LEMMA RunEndSound ==
  ASSUME Inv, DeployDone \/ TeardownDone \/ RunStops \/ ContainerVanished
  PROVE  Sound'
PROOF
<1>1. End /\ UNCHANGED <<wanted, container, record>>
  BY DEF DeployDone, TeardownDone, RunStops, ContainerVanished, state
<1>2. astray \subseteq astray' /\ AstrayThere'
  BY <1>1 DEF DeployDone, TeardownDone, RunStops, ContainerVanished, state,
              Inv, Sound, AstrayThere, Unrecorded
<1>3. StepSound'
  BY <1>1 DEF End, StepSound
<1>4. RecordIsTruthful'
  BY <1>1, <1>2 DEF Inv, Sound, RecordIsTruthful
<1>5. OnRecord'
  <2> SUFFICES ASSUME NEW n \in Name \ astray', container[n] # Absent
               PROVE  /\ record[n].id = container[n].id
                      /\ record[n].hash = container[n].cfg
    BY <1>1 DEF OnRecord
  <2>1. n \notin astray
    BY <1>2
  <2>2. CASE ~Underway(n)
    BY <2>1, <2>2 DEF Inv, Sound, OnRecord
  <2>3. CASE Underway(n)
    <3>1. RunStops
      BY <2>3 DEF Underway, DeployDone, TeardownDone, ContainerVanished,
                  Inv, Sound, StepSound
    <3>2. record[n].id = container[n].id
      BY <2>3, <3>1 DEF RunStops, Unrecorded, Underway
    <3> QED
      BY <2>1, <3>2 DEF Inv, Sound, RecordIsTruthful
  <2> QED
    BY <2>2, <2>3
<1> QED
  BY <1>2, <1>3, <1>4, <1>5 DEF Sound

LEMMA BeginSound ==
  ASSUME Inv, Deploy \/ Teardown \/ NextStep PROVE Sound'
PROOF
<1> USE DEF Deploy, Teardown, Begin, NextStep, state
<1>1. at \in {"idle", "next"}
  BY DEF Inv, Typing, CallsMatch
<1>2. at' \in {"next", "inspect", "rm_inspect"}
  OBVIOUS
<1>3. StepSound'
  BY <1>2 DEF StepSound
<1>4. OnRecord' /\ RecordIsTruthful' /\ AstrayThere'
  BY <1>1 DEF Inv, Sound, OnRecord, Underway, RecordIsTruthful, AstrayThere
<1> QED
  BY <1>3, <1>4 DEF Sound

LEMMA InspectSound ==
  ASSUME Inv, Inspect \/ InspectForRemoval PROVE Sound'
PROOF
<1> USE DEF Inspect, InspectForRemoval, state
<1>1. at' \in {"create", "list", "unrecord", "rm_remove"}
  OBVIOUS
<1>2. StepSound'
  BY <1>1 DEF StepSound
<1>3. OnRecord' /\ RecordIsTruthful' /\ AstrayThere'
  BY <1>1 DEF Inv, Sound, OnRecord, Underway, RecordIsTruthful, AstrayThere
<1> QED
  BY <1>2, <1>3 DEF Sound

LEMMA ListSound ==
  ASSUME Inv, List PROVE Sound'
PROOF
<1> USE DEF List, Goto, state
<1>1. cur \in Name
  BY InAStep DEF Inv, DeployCall
<1>2. at' \in {"remove", "record", "start"}
  OBVIOUS
<1>3. container[cur] # Absent /\ record[cur].hash = wanted[cur] =>
        container[cur].cfg = wanted[cur] \/ cur \in astray
  BY <1>1 DEF Inv, Sound, OnRecord, Underway
<1>4. StepSound'
  BY <1>2, <1>3 DEF Inv, Sound, StepSound, IsContainerUpToDate
<1>5. OnRecord' /\ RecordIsTruthful' /\ AstrayThere'
  BY DEF Inv, Sound, OnRecord, Underway, RecordIsTruthful, AstrayThere
<1> QED
  BY <1>4, <1>5 DEF Sound

LEMMA RemoveSound ==
  ASSUME Inv, RemoveStale \/ RemoveInspected PROVE Sound'
PROOF
<1> USE DEF RemoveStale, RemoveInspected, Goto
<1>1. cur \in Name /\ TypeOK
  BY InAStep DEF Inv, Typing, DeployCall, TeardownCall
<1>2. /\ container'[cur] = Absent /\ astray' = astray \ {cur}
      /\ \A n \in Name \ {cur} : container'[n] = container[n]
      /\ at \in {"remove", "rm_remove"} /\ at' \in {"create", "unrecord"}
      /\ record' = record /\ astray \in SUBSET Name
  BY <1>1, RemovalFacts DEF TypeOK
<1>3. StepSound'
  BY <1>2 DEF StepSound, RemoveStale, RemoveInspected, Goto
<1> HIDE DEF RemoveStale, RemoveInspected, Goto
<1>4. OnRecord' /\ RecordIsTruthful' /\ AstrayThere'
  BY <1>2 DEF Inv, Sound, OnRecord, Underway, RecordIsTruthful, AstrayThere
<1> QED
  BY <1>3, <1>4 DEF Sound

LEMMA CreateSound ==
  ASSUME Inv, Create PROVE Sound'
PROOF
<1> USE DEF Create
<1>1. cur \in Name
  BY InAStep DEF Inv, DeployCall
<1>2. /\ container'[cur] = seen' /\ seen'.cfg = wanted[cur] /\ seen' # Absent
      /\ \A n \in Name \ {cur} : container'[n] = container[n]
      /\ record[cur].id # seen'.id
      /\ astray \in SUBSET Name
  BY <1>1, Created DEF Inv, Typing, TypeOK, UsedIds
<1>3. StepSound'
  BY <1>2 DEF StepSound
<1>4. OnRecord' /\ RecordIsTruthful' /\ AstrayThere'
  BY <1>2 DEF Inv, Sound, OnRecord, Underway, RecordIsTruthful, AstrayThere
<1> QED
  BY <1>3, <1>4 DEF Sound

LEMMA StartSound ==
  ASSUME Inv, Start PROVE Sound'
PROOF
<1> USE DEF Start, Goto
<1>1. /\ cur \in Name /\ container[cur] # Absent /\ TypeOK
  BY InAStep, StillThere DEF Inv, Typing, DeployCall
<1>2. \A m \in Name : /\ container'[m] = Absent <=> container[m] = Absent
                     /\ container'[m].id = container[m].id
                     /\ container'[m].cfg = container[m].cfg
  BY <1>1, Running
<1>3. StepSound'
  BY <1>1, <1>2 DEF Inv, Sound, StepSound
<1>4. OnRecord' /\ RecordIsTruthful' /\ AstrayThere'
  BY <1>1, <1>2 DEF Inv, Sound, OnRecord, Underway, RecordIsTruthful,
                    AstrayThere, TypeOK
<1> QED
  BY <1>3, <1>4 DEF Sound

LEMMA RecordSound ==
  ASSUME Inv, RecordDeployment PROVE Sound'
PROOF
<1>1. /\ Recorded.id = seen.id /\ Recorded.hash = wanted[cur]
      /\ record'[cur] = Recorded
      /\ \A n \in Name \ {cur} : record'[n] = record[n]
  BY Recording DEF Inv
<1> USE DEF RecordDeployment, Goto
<1>2. container[cur] # Absent =>
        /\ Recorded.id = container[cur].id
        /\ Recorded.hash = container[cur].cfg \/ cur \in astray
  BY <1>1 DEF Inv, Sound, StepSound
<1>3. StepSound'
  BY DEF StepSound
<1>4. OnRecord' /\ RecordIsTruthful' /\ AstrayThere'
  BY <1>1, <1>2 DEF Inv, Sound, OnRecord, Underway, RecordIsTruthful, AstrayThere
<1> QED
  BY <1>3, <1>4 DEF Sound

(* A record that is removed says nothing any more: its container is gone,  *)
(* or goes astray.                                                         *)
LEMMA UnrecordSound ==
  ASSUME Inv, RemoveDeployment \/ DeleteArtifact \/ DeleteUnasked PROVE Sound'
PROOF
<1> USE DEF RemoveDeployment, DeleteArtifact, DeleteUnasked, Forget, Goto, run
<1>1. PICK n \in Name :
        /\ record' = [record EXCEPT ![n] = NoRecord]
        /\ \/ container[n] = Absent /\ astray' = astray
           \/ container[n] # Absent /\ astray' = astray \cup {n}
  <2>1. CASE RemoveDeployment
    <3>1. cur \in Name /\ container[cur] = Absent
      BY <2>1, InAStep DEF Inv, Sound, StepSound, TeardownCall
    <3> QED
      BY <2>1, <3>1
  <2>2. CASE DeleteArtifact
    BY <2>2 DEF Deletable
  <2>3. CASE DeleteUnasked
    BY <2>3
  <2> QED
    BY <2>1, <2>2, <2>3
<1>2. /\ record'[n] = NoRecord
      /\ \A m \in Name \ {n} : record'[m] = record[m]
      /\ astray \subseteq astray'
  BY <1>1 DEF Inv, Typing, TypeOK
<1>3. at \in {"idle", "unrecord"} /\ at' \in {"idle", "next"}
      /\ container' = container
  BY DEF Inv, Typing, CallsMatch
<1> HIDE DEF RemoveDeployment, DeleteArtifact, DeleteUnasked, Forget, Goto, run
<1>4. StepSound'
  BY <1>3 DEF StepSound
<1>5. OnRecord' /\ RecordIsTruthful' /\ AstrayThere'
  BY <1>1, <1>2, <1>3
     DEF Inv, Sound, OnRecord, Underway, RecordIsTruthful, AstrayThere
<1> QED
  BY <1>4, <1>5 DEF Sound

LEMMA TroubleSound ==
  ASSUME Inv, ContainerExits \/ RemovedByHand PROVE Sound'
PROOF
<1>1. /\ \A m \in Name : container'[m] # Absent =>
           /\ container[m] # Absent
           /\ container'[m].id = container[m].id
           /\ container'[m].cfg = container[m].cfg
           /\ m \in astray => m \in astray'
      /\ \A m \in astray' : m \in astray /\ container'[m] # Absent
  <2>1. CASE ContainerExits
    <3>1. PICK n \in Name :
            /\ container[n].running
            /\ container' = [container EXCEPT ![n].running = FALSE]
      BY <2>1 DEF ContainerExits
    <3>2. container[n] # Absent
      BY <3>1 DEF Absent
    <3> QED
      BY <2>1, <3>1, <3>2, Running
         DEF ContainerExits, Inv, Typing, TypeOK, Sound, AstrayThere
  <2>2. CASE RemovedByHand
    <3>1. PICK n \in Name : Removed(n)
      BY <2>2 DEF RemovedByHand
    <3> QED
      BY <3>1, RemovalFacts DEF Inv, Typing, TypeOK, Sound, AstrayThere
  <2> QED
    BY <2>1, <2>2
<1>2. at \notin {"idle", "next"} => cur \in Name
  BY DEF Inv, Typing, CallsMatch
<1>3. UNCHANGED <<wanted, record, at, cur, seen>>
  BY DEF ContainerExits, RemovedByHand, run
<1>4. StepSound'
  BY <1>1, <1>2, <1>3 DEF Inv, Sound, StepSound
<1>5. OnRecord' /\ RecordIsTruthful' /\ AstrayThere'
  BY <1>1, <1>3 DEF Inv, Sound, OnRecord, Underway, RecordIsTruthful, AstrayThere
<1> QED
  BY <1>4, <1>5 DEF Sound

LEMMA EditSound ==
  ASSUME Inv, EditManifest PROVE Sound'
PROOF
<1>1. at = "idle" /\ UNCHANGED <<container, record, astray, at, cur>>
  BY DEF EditManifest, state, run, Inv, Typing, CallsMatch
<1>2. StepSound'
  BY <1>1 DEF StepSound
<1>3. OnRecord' /\ RecordIsTruthful' /\ AstrayThere'
  BY <1>1 DEF Inv, Sound, OnRecord, Underway, RecordIsTruthful, AstrayThere
<1> QED
  BY <1>2, <1>3 DEF Sound

LEMMA AlwaysInv == Spec => []Inv
PROOF
<1>1. Inv /\ UNCHANGED vars => Sound'
  BY DEF vars, state, run, Inv, Sound, StepSound, OnRecord, Underway,
         RecordIsTruthful, AstrayThere
<1>2. Inv /\ [Next]_vars => Sound'
  BY <1>1, RunEndSound, BeginSound, InspectSound, ListSound, RemoveSound,
     CreateSound, StartSound, RecordSound, UnrecordSound, TroubleSound, EditSound
     DEF Next, Step
<1>3. Typing /\ Sound <=> Inv
  BY DEF Inv
<1>4. Init => Sound
  BY InitSound
<1> QED
  BY <1>2, <1>3, <1>4, AlwaysTyping, PTL DEF Spec

-----------------------------------------------------------------------------
(***************************************************************************)
(* What a teardown, planned from the records, has still to take.           *)
(***************************************************************************)

(* PlanTeardown finds every container that is on record, and every other   *)
(* went astray.                                                            *)
LEMMA TeardownPlansAll ==
  ASSUME Inv, Teardown PROVE TeardownSound'
PROOF
<1> USE DEF Teardown, Begin, TeardownPlan, state
<1>1. at = "idle"
  BY DEF Inv, Typing, CallsMatch
<1> SUFFICES ASSUME NEW n \in Name, container[n] # Absent
             PROVE  record[n] # NoRecord \/ Missed(n)
  BY DEF TeardownSound, Missed
<1>2. container[n].id # 0
  BY ContainerFacts DEF Inv, Typing, TypeOK
<1> QED
  BY <1>1, <1>2 DEF Inv, Sound, OnRecord, Underway, Missed, NoRecord

(* While a teardown goes on containers and records only go: those of the   *)
(* step in progress, or by hand.                                           *)
LEMMA TeardownTakes ==
  ASSUME Inv, TeardownSound, [Next]_vars, cmd = "teardown", cmd' = "teardown"
  PROVE  TeardownSound'
PROOF
<1>1. at \notin DeployCall /\ at # "idle"
  BY DEF Inv, Typing, CallsMatch
<1>2. \/ NextStep \/ InspectForRemoval \/ RemoveInspected \/ RemoveDeployment
      \/ ContainerExits \/ RemovedByHand \/ UNCHANGED vars
  BY <1>1
     DEF Next, Step, Deploy, Teardown, Begin, DeployDone, TeardownDone, End,
         Inspect, List, RemoveStale, Create, Start, RecordDeployment, RunStops,
         ContainerVanished, EditManifest, DeleteArtifact, DeleteUnasked, Forget,
         DeployCall
<1>3. CASE NextStep
  BY <1>3 DEF NextStep, state, TeardownSound, Missed
<1>4. CASE InspectForRemoval
  BY <1>4 DEF InspectForRemoval, state, TeardownSound, Missed
<1>5. CASE RemoveInspected
  <2>1. \A n \in Name : container'[n] # Absent =>
          /\ n # cur /\ container[n] # Absent
          /\ n \in astray => n \in astray'
    BY <1>5, InAStep, RemovalFacts DEF RemoveInspected, Inv, Typing, TeardownCall
  <2>2. UNCHANGED <<todo, cur, record>>
    BY <1>5 DEF RemoveInspected, Goto
  <2> QED
    BY <2>1, <2>2 DEF TeardownSound, Missed
<1>6. CASE RemoveDeployment
  <2>1. cur \in Name /\ container[cur] = Absent
    BY <1>6, InAStep DEF RemoveDeployment, Inv, Sound, StepSound, TeardownCall
  <2>2. \A m \in Name : container[m] # Absent => record'[m] = record[m]
    BY <1>6, <2>1 DEF RemoveDeployment, Inv, Typing, TypeOK
  <2>3. UNCHANGED <<container, astray, todo, cur>> /\ at = "unrecord"
    BY <1>6 DEF RemoveDeployment, Goto
  <2> QED
    BY <2>2, <2>3 DEF TeardownSound, Missed
<1>7. CASE ContainerExits \/ RemovedByHand
  <2>1. \A n \in Name : container'[n] # Absent =>
          container[n] # Absent /\ (n \in astray => n \in astray')
    <3>1. CASE ContainerExits
      <4>1. PICK n \in Name :
              /\ container[n].running
              /\ container' = [container EXCEPT ![n].running = FALSE]
        BY <3>1 DEF ContainerExits
      <4>2. container[n] # Absent
        BY <4>1 DEF Absent
      <4> QED
        BY <3>1, <4>1, <4>2, Running DEF ContainerExits, Inv, Typing
    <3>2. CASE RemovedByHand
      <4>1. PICK n \in Name : Removed(n)
        BY <3>2 DEF RemovedByHand
      <4> QED
        BY <4>1, RemovalFacts DEF Inv, Typing
    <3> QED
      BY <1>7, <3>1, <3>2
  <2>2. UNCHANGED <<todo, cur, at, record>>
    BY <1>7 DEF ContainerExits, RemovedByHand, run
  <2> QED
    BY <2>1, <2>2 DEF TeardownSound, Missed
<1>8. CASE UNCHANGED vars
  BY <1>8 DEF vars, state, run, TeardownSound, Missed
<1> QED
  BY <1>2, <1>3, <1>4, <1>5, <1>6, <1>7, <1>8

LEMMA AlwaysTeardownSound == Spec => [](Inv /\ TeardownSound)
PROOF
<1>1. Init => TeardownSound
  BY DEF Init, TeardownSound
<1>2. ASSUME Inv, TeardownSound, [Next]_vars PROVE TeardownSound'
  <2>1. CASE cmd' # "teardown"
    BY <2>1 DEF TeardownSound
  <2>2. CASE cmd' = "teardown" /\ cmd = "teardown"
    BY <1>2, <2>2, TeardownTakes
  <2>3. CASE cmd' = "teardown" /\ cmd # "teardown"
    <3>1. Teardown
      BY <1>2, <2>3
         DEF Next, Step, Deploy, Begin, NextStep, DeployDone, TeardownDone, End,
             Inspect, List, RemoveStale, Create, Start, RecordDeployment, Goto,
             InspectForRemoval, RemoveInspected, RemoveDeployment, RunStops,
             ContainerVanished, ContainerExits, RemovedByHand, EditManifest,
             DeleteArtifact, DeleteUnasked, Forget, run, vars
    <3> QED
      BY <1>2, <3>1, TeardownPlansAll
  <2> QED
    BY <2>1, <2>2, <2>3
<1> QED
  BY <1>1, <1>2, AlwaysInv, PTL DEF Spec

-----------------------------------------------------------------------------
(***************************************************************************)
(* The properties.                                                         *)
(***************************************************************************)

(* The containers, their records and the run keep their types, whatever    *)
(* calls fail and wherever runs stop.                                      *)
THEOREM Typed == Spec => []TypeOK
PROOF
<1>1. Typing => TypeOK
  BY DEF Typing
<1> QED
  BY <1>1, AlwaysTyping, PTL

(* isContainerUpToDate can trust the hash: a record that names the live    *)
(* container has the configuration that container was created with,        *)
(* wherever runs stopped, unless that container itself went astray.        *)
THEOREM RecordsAreTruthful == Spec => []RecordIsTruthful
PROOF
<1>1. Inv => RecordIsTruthful
  BY DEF Inv, Sound
<1> QED
  BY <1>1, AlwaysInv, PTL

(* Between runs every container has a record, for PlanTeardown, status and *)
(* delete to find, but one that a late stop or a blind delete left astray: *)
(* no other failure or stop loses a container.                             *)
THEOREM NothingElseOrphaned == Spec => []NoOrphan
PROOF
<1>1. Inv => NoOrphan
  <2> SUFFICES ASSUME Inv, cmd = "none", NEW n \in Name \ astray,
                      container[n] # Absent
               PROVE  record[n] # NoRecord
    BY DEF NoOrphan
  <2>1. container[n].id # 0
    BY ContainerFacts DEF Inv, Typing, TypeOK
  <2>2. record[n].id = container[n].id
    BY DEF Inv, Typing, CallsMatch, Sound, OnRecord, Underway
  <2> QED
    BY <2>1, <2>2 DEF NoRecord
<1> QED
  BY <1>1, AlwaysInv, PTL

(* A deploy that records a live container has given it the configuration   *)
(* the manifest asks for, whatever happened to it during the step, unless  *)
(* an earlier run left that container astray.                              *)
THEOREM ChangesTakeEffect == Spec => ChangeMissesOnlyAstray
PROOF
<1>1. Inv /\ [Next]_vars =>
        [(at = "record" /\ at' = "next" /\ container[cur] # Absent) =>
           container[cur].cfg = wanted[cur] \/ cur \in astray]_vars
  BY DEF Inv, Sound, StepSound
<1> QED
  BY <1>1, AlwaysInv, PTL DEF Spec, ChangeMissesOnlyAstray

(* Only TeardownDone takes a teardown from "next" to its end.              *)
LEMMA TeardownEnds ==
  ASSUME Inv, Next, cmd = "teardown", cmd' = "none", at = "next"
  PROVE  todo = {}
  BY ContainersAssumption
     DEF Next, Step, Deploy, Teardown, Begin, NextStep, DeployDone, TeardownDone,
         Inspect, List, RemoveStale, Create, Start, RecordDeployment, Goto,
         InspectForRemoval, RemoveInspected, RemoveDeployment, ContainerVanished,
         RunStops, ContainerExits, RemovedByHand, EditManifest, DeleteArtifact,
         DeleteUnasked, Forget, DeployCall, TeardownCall, DeleteCall, run

(* A teardown that reports success has removed every container of the      *)
(* team, although it is planned from the records: what they miss went      *)
(* astray and has no record.                                               *)
THEOREM TeardownsAreComplete == Spec => TeardownRemovesAll
PROOF
<1>1. Inv /\ TeardownSound /\ [Next]_vars =>
        [(cmd = "teardown" /\ cmd' = "none" /\ at = "next" /\ NetworkEmpty) =>
           \A n \in Name :
             \/ container[n] = Absent
             \/ n \in astray /\ record[n] = NoRecord]_vars
  BY TeardownEnds DEF TeardownSound, Missed
<1> QED
  BY <1>1, AlwaysTeardownSound, PTL DEF Spec, TeardownRemovesAll

-----------------------------------------------------------------------------
(***************************************************************************)
(* The calls implement Rollout: its configuration in place is that of the  *)
(* container, and its pending names are the steps left and the one begun.  *)
(***************************************************************************)

Actual == [n \in Name |-> container[n].cfg]
Pending == todo \cup (IF at \in {"idle", "next"} THEN {} ELSE {cur})

LEMMA InitImplements ==
  ASSUME Init PROVE Promise!Init
PROOF
<1>1. Actual = [n \in Name |-> NoConfig]
  BY DEF Init, Actual, Absent, NoConfig
<1>2. Pending = {} /\ trouble \in Nat
  BY ContainersAssumption DEF Init, Pending
<1> QED
  BY <1>1, <1>2 DEF Init, Promise!Init, Actual, Pending

LEMMA BeginImplements ==
  ASSUME Inv, Deploy \/ Teardown PROVE Promise!Next
PROOF
<1> USE DEF Deploy, Teardown, Begin, state
<1>1. Pending' = todo' /\ Actual' = Actual
  BY DEF Pending, Actual
<1>2. CASE Deploy
  <2>1. Promise!Begin("deploy")
    BY <1>1, <1>2 DEF Promise!Begin, Pending, Actual
  <2> QED
    BY <2>1 DEF Promise!Next
<1>3. CASE Teardown
  <2>1. Promise!Begin("teardown")
    BY <1>1, <1>3 DEF Promise!Begin, Pending, Actual, TeardownPlan
  <2> QED
    BY <2>1 DEF Promise!Next
<1> QED
  BY <1>2, <1>3

LEMMA RemoveStaleImplements ==
  ASSUME Inv, RemoveStale PROVE Promise!Next
PROOF
<1> USE DEF RemoveStale, Removed, Goto
<1>1. cur \in Name /\ cmd = "deploy" /\ container[cur] \in ContainerType
  BY InAStep DEF Inv, DeployCall
<1>2. container[cur] # Absent
  BY StillThere DEF Inv
<1>3. container[cur].cfg # wanted[cur] \/ cur \in astray
  BY <1>1, <1>2 DEF Inv, Sound, OnRecord, Underway, StepSound
<1>4. Actual' = [Actual EXCEPT ![cur] = NoConfig]
  BY <1>1 DEF Actual, Inv, Typing, TypeOK, Absent, NoConfig
<1>5. cur \in Pending /\ Pending' = Pending
  BY DEF Pending
<1>6. PICK n \in Name : n = cur
  BY <1>1
<1>7. Promise!Replace(n)
  BY <1>1, <1>3, <1>4, <1>5, <1>6 DEF Promise!Replace, Promise!Gone, Actual, Pending
<1> QED
  BY <1>7 DEF Promise!Next

LEMMA CreateImplements ==
  ASSUME Inv, Create PROVE Promise!Next
PROOF
<1> USE DEF Create, state
<1>1. cur \in Name /\ cmd = "deploy"
  BY InAStep DEF Inv, DeployCall
<1>2. PICK i : seen' = [id |-> i, cfg |-> wanted[cur], running |-> FALSE]
  OBVIOUS
<1>3. Actual' = [Actual EXCEPT ![cur] = wanted[cur]]
  BY <1>1, <1>2 DEF Actual, Inv, Typing, TypeOK
<1>4. Actual[cur] = NoConfig
  BY <1>1 DEF Actual, Absent, NoConfig
<1>5. cur \in Pending /\ Pending' = Pending
  BY DEF Pending
<1>6. PICK n \in Name : n = cur
  BY <1>1
<1>7. Promise!Place(n)
  BY <1>1, <1>3, <1>4, <1>5, <1>6 DEF Promise!Place, Actual, Pending
<1> QED
  BY <1>7 DEF Promise!Next

LEMMA RemoveInspectedImplements ==
  ASSUME Inv, RemoveInspected PROVE Promise!Next
PROOF
<1> USE DEF RemoveInspected, Removed, Goto
<1>1. cur \in Name /\ cmd = "teardown"
  BY InAStep DEF Inv, TeardownCall
<1>2. Actual' = [Actual EXCEPT ![cur] = NoConfig]
  BY <1>1 DEF Actual, Inv, Typing, TypeOK, Absent, NoConfig
<1>3. cur \in Pending /\ Pending' = Pending
  BY DEF Pending
<1>4. PICK n \in Name : n = cur
  BY <1>1
<1>5. Promise!Remove(n)
  BY <1>1, <1>2, <1>3, <1>4 DEF Promise!Remove, Promise!Gone, Actual, Pending
<1> QED
  BY <1>5 DEF Promise!Next

LEMMA CompleteImplements ==
  ASSUME Inv, RecordDeployment \/ RemoveDeployment PROVE Promise!Next
PROOF
<1> USE DEF RecordDeployment, RemoveDeployment, Goto, state
<1>1. /\ cur \in Name /\ cur \notin todo /\ container[cur] \in ContainerType
      /\ cmd = IF at = "record" THEN "deploy" ELSE "teardown"
  BY InAStep DEF Inv, DeployCall, TeardownCall
<1>2. IF cmd = "deploy" THEN Actual[cur] \in {wanted[cur], NoConfig} \/ cur \in astray
                       ELSE Actual[cur] = NoConfig
  BY <1>1, ContainerFacts DEF Actual, Inv, Sound, StepSound
<1>3. cur \in Pending /\ Pending' = Pending \ {cur} /\ Actual' = Actual
  BY <1>1 DEF Pending, Actual
<1>4. PICK n \in Name : n = cur
  BY <1>1
<1>5. Promise!Complete(n)
  BY <1>1, <1>2, <1>3, <1>4 DEF Promise!Complete, Actual, Pending
<1> QED
  BY <1>5 DEF Promise!Next

LEMMA RunEndImplements ==
  ASSUME Inv, DeployDone \/ TeardownDone \/ RunStops \/ ContainerVanished
  PROVE  Promise!Next
PROOF
<1>1. cmd # "none"
  BY ContainersAssumption
     DEF DeployDone, TeardownDone, RunStops, ContainerVanished, Inv, Typing,
         CallsMatch, DeployCall, TeardownCall, DeleteCall
<1>2. \/ trouble' \in Nat /\ trouble' < trouble
      \/ UNCHANGED trouble
  BY ContainersAssumption
     DEF DeployDone, TeardownDone, RunStops, ContainerVanished, Inv, Typing, TypeOK
<1>3. /\ Pending' = {} /\ Actual' = Actual /\ cmd' = "none"
      /\ UNCHANGED wanted
  BY DEF DeployDone, TeardownDone, RunStops, ContainerVanished, End, state,
         Pending, Actual
<1>4. CASE UNCHANGED astray
  <2>1. Promise!End
    BY <1>1, <1>2, <1>3, <1>4
       DEF Promise!End, Promise!Disturbed, Actual, Pending
  <2> QED
    BY <2>1 DEF Promise!Next
<1>5. CASE astray' # astray
  <2>1. RunStops /\ Unrecorded /\ astray' = astray \cup {cur} /\ cur \notin astray
    BY <1>5 DEF DeployDone, TeardownDone, RunStops, ContainerVanished, state
  <2>2. /\ cur \in Name /\ cmd = "deploy" /\ container[cur] # Absent
        /\ container[cur] \in ContainerType
    BY <2>1, InAStep DEF Unrecorded, Inv, DeployCall
  <2>3. Actual[cur] = wanted[cur] /\ Actual[cur] # NoConfig
    BY <2>1, <2>2, ContainerFacts, ContainersAssumption
       DEF Actual, Unrecorded, Inv, Sound, StepSound
  <2>4. cur \in Pending /\ trouble' \in Nat /\ trouble' < trouble
    BY <2>1, ContainersAssumption
       DEF Pending, RunStops, Unrecorded, Inv, Typing, TypeOK
  <2>5. PICK n \in Name : n = cur
    BY <2>2
  <2>6. Promise!Loosen(n)
    BY <1>3, <2>1, <2>2, <2>3, <2>4, <2>5
       DEF Promise!Loosen, Promise!Disturbed, Actual, Pending
  <2> QED
    BY <2>6 DEF Promise!Next
<1> QED
  BY <1>4, <1>5

LEMMA TroubleImplements ==
  ASSUME Inv, ContainerExits \/ RemovedByHand PROVE Promise!Next
PROOF
<1> USE DEF state, run
<1>1. trouble' \in Nat /\ trouble' < trouble /\ Pending' = Pending
  BY ContainersAssumption DEF Inv, Typing, TypeOK, ContainerExits, RemovedByHand, Pending
<1>2. CASE ContainerExits
  <2>1. PICK n \in Name : container' = [container EXCEPT ![n].running = FALSE]
    BY <1>2 DEF ContainerExits
  <2>2. PICK d : d = [container[n] EXCEPT !.running = FALSE]
    OBVIOUS
  <2>3. d.cfg = container[n].cfg
    <3>1. container[n] \in [id : Id, cfg : Config, running : BOOLEAN]
            \/ container[n] = Absent
      BY DEF Inv, Typing, TypeOK, ContainerType
    <3> QED
      BY <2>2, <3>1 DEF Absent
  <2>4. container' = [container EXCEPT ![n] = d]
    BY <2>1, <2>2
  <2>5. Actual' = Actual
    BY <2>3, <2>4 DEF Actual, Inv, Typing, TypeOK
  <2>6. Promise!Disturbance
    BY <1>1, <1>2, <2>5
       DEF Promise!Disturbance, Promise!Disturbed, ContainerExits, Actual, Pending
  <2> QED
    BY <2>6 DEF Promise!Next
<1>3. CASE RemovedByHand
  <2>1. PICK n \in Name : /\ container' = [container EXCEPT ![n] = Absent]
                          /\ astray' = astray \ {n}
    BY <1>3 DEF RemovedByHand, Removed
  <2>2. Actual' = [Actual EXCEPT ![n] = NoConfig]
    BY <2>1 DEF Actual, Inv, Typing, TypeOK, Absent, NoConfig
  <2>3. Promise!Vanish(n)
    BY <1>1, <1>3, <2>1, <2>2
       DEF Promise!Vanish, Promise!Gone, Promise!Disturbed, RemovedByHand,
           Actual, Pending
  <2> QED
    BY <2>3 DEF Promise!Next
<1> QED
  BY <1>2, <1>3

LEMMA EditImplements ==
  ASSUME Inv, EditManifest PROVE Promise!Next
PROOF
<1> USE DEF EditManifest, state, run
<1>1. PICK n \in Name : \E c \in ConfigOrNone : wanted' = [wanted EXCEPT ![n] = c]
  OBVIOUS
<1>2. Pending' = Pending /\ Actual' = Actual
  BY DEF Pending, Actual
<1>3. Promise!Edit(n)
  BY <1>1, <1>2 DEF Promise!Edit, ConfigOrNone, Actual, Pending
<1> QED
  BY <1>3 DEF Promise!Next

(* To a delete that cannot ask, the container it forgets comes loose.      *)
LEMMA DeleteUnaskedImplements ==
  ASSUME Inv, DeleteUnasked PROVE Promise!Next
PROOF
<1> USE DEF DeleteUnasked
<1>1. PICK n \in Name :
        container[n] # Absent /\ Forget(n) /\ astray' = astray \cup {n}
  OBVIOUS
<1>2. /\ cmd = "none" /\ at = "idle"
      /\ UNCHANGED <<wanted, container, cmd, at, todo, cur>>
  BY <1>1 DEF Forget, run, Inv, Typing, CallsMatch
<1>3. Pending' = Pending /\ Actual' = Actual
  BY <1>2 DEF Pending, Actual
<1>4. trouble' \in Nat /\ trouble' < trouble
  BY ContainersAssumption DEF Inv, Typing, TypeOK
<1>5. Actual[n] # NoConfig
  BY <1>1, ContainerFacts, ContainersAssumption DEF Actual, Inv, Typing, TypeOK
<1>6. Promise!Loosen(n)
  BY <1>1, <1>2, <1>3, <1>4, <1>5
     DEF Promise!Loosen, Promise!Disturbed, Actual, Pending
<1> QED
  BY <1>6 DEF Promise!Next

(* The calls that Rollout does not see.                                    *)
LEMMA Stutters ==
  ASSUME Inv,
         NextStep \/ Inspect \/ List \/ Start \/ InspectForRemoval \/ DeleteArtifact
           \/ UNCHANGED vars
  PROVE  UNCHANGED Promise!vars
PROOF
<1> USE DEF state, run
<1>1. wanted' = wanted /\ cmd' = cmd /\ trouble' = trouble /\ astray' = astray
  BY DEF NextStep, Inspect, List, Goto, Start, InspectForRemoval, DeleteArtifact,
         Forget, vars
<1>2. Actual' = Actual
  <2>1. CASE Start
    <3>1. cur \in Name /\ container[cur] \in ContainerType
      BY <2>1, InAStep DEF Inv, Start, DeployCall
    <3>2. container[cur] # Absent
      BY <2>1, StillThere DEF Start, Inv
    <3>3. PICK d : d = [container[cur] EXCEPT !.running = TRUE]
      OBVIOUS
    <3>4. d.cfg = container[cur].cfg
      BY <3>1, <3>2, <3>3, RunningFacts
    <3>5. container' = [container EXCEPT ![cur] = d]
      BY <2>1, <3>3 DEF Start
    <3> QED
      BY <3>4, <3>5 DEF Actual, Inv, Typing, TypeOK
  <2> QED
    BY <2>1
       DEF Actual, NextStep, Inspect, List, InspectForRemoval, DeleteArtifact,
           Forget, vars
<1>3. Pending' = Pending
  <2>1. CASE NextStep
    BY <2>1 DEF NextStep, Pending
  <2>2. CASE Inspect \/ List \/ Start \/ InspectForRemoval
    BY <2>2 DEF Inspect, List, Goto, Start, InspectForRemoval, Pending
  <2>3. CASE DeleteArtifact \/ UNCHANGED vars
    BY <2>3 DEF DeleteArtifact, Forget, vars, Pending
  <2> QED
    BY <2>1, <2>2, <2>3
<1> QED
  BY <1>1, <1>2, <1>3 DEF Promise!vars, Actual, Pending

LEMMA StepImplements ==
  ASSUME Inv, [Next]_vars PROVE [Promise!Next]_(Promise!vars)
  BY BeginImplements, RemoveStaleImplements, CreateImplements,
     RemoveInspectedImplements, CompleteImplements, RunEndImplements,
     TroubleImplements, EditImplements, DeleteUnaskedImplements, Stutters
  DEF Next, Step

(* Deploys and teardowns, call by call and with whatever failures, keep    *)
(* the promise of Rollout: what is already wanted is never taken away,     *)
(* unless a late stop or a blind delete left it loose.                     *)
THEOREM KeepsThePromise == Spec => Implements
PROOF
<1>1. Init => Promise!Init
  BY InitImplements
<1>2. Inv /\ [Next]_vars => [Promise!Next]_(Promise!vars)
  BY StepImplements
<1> QED
  BY <1>1, <1>2, AlwaysInv, PTL DEF Spec, Implements, Promise!Spec

-----------------------------------------------------------------------------
(***************************************************************************)
(* Runs end: the calls a run has still to make, and that it can make them. *)
(***************************************************************************)

CallsLeft ==
  CASE at = "next"       -> 1
    [] at = "inspect"    -> 7
    [] at = "list"       -> 6
    [] at = "remove"     -> 5
    [] at = "create"     -> 4
    [] at = "start"      -> 3
    [] at = "record"     -> 2
    [] at = "rm_inspect" -> 4
    [] at = "rm_remove"  -> 3
    [] at = "unrecord"   -> 2
    [] OTHER             -> 0

(* At most eight calls for each step of the plan, and those of the step in *)
(* progress.                                                               *)
Left == 8 * Cardinality(todo) + CallsLeft

(* Every call is possible as it stands, except that a creation needs its   *)
(* name and a container id to be free.                                     *)
NotBlocked ==
  cmd # "none" =>
    /\ at \in {"next"} \cup DeployCall \cup TeardownCall
    /\ at = "create" => /\ container[cur] = Absent
                        /\ \E i \in Id \ UsedIds : \A j \in Id \ UsedIds : i <= j

LEMMA LeastId ==
  ASSUME NEW T \in SUBSET Id, T # {}
  PROVE  \E x \in T : \A y \in T : x <= y
PROOF
<1>1. T \in SUBSET Nat
  BY ContainersAssumption
<1>2. IsWellFoundedOn(OpToRel(<, Nat), Nat)
  BY NatLessThanWellFounded
<1>3. \E x \in T : \A y \in T : ~(<<y, x>> \in OpToRel(<, Nat))
  BY <1>1, <1>2, WFMin
<1>4. \A x, y \in Nat : ~(<<y, x>> \in OpToRel(<, Nat)) => x <= y
  BY DEF OpToRel
<1> QED
  BY <1>1, <1>3, <1>4

LEMMA FiniteImage ==
  ASSUME NEW X, IsFiniteSet(X), NEW f, f = [x \in X |-> f[x]]
  PROVE  IsFiniteSet({f[x] : x \in X})
PROOF
<1>1. f \in Surjection(X, {f[x] : x \in X})
  BY DEF Surjection
<1> QED
  BY <1>1, FS_Surjection

LEMMA FreeId ==
  ASSUME IsFiniteSet(Name), ~IsFiniteSet(Id)
  PROVE  \E i \in Id \ UsedIds : \A j \in Id \ UsedIds : i <= j
PROOF
<1> DEFINE C == [n \in Name |-> container[n].id]
           R == [n \in Name |-> record[n].id]
<1>1. IsFiniteSet({C[n] : n \in Name}) /\ IsFiniteSet({R[n] : n \in Name})
  <2>1. C = [n \in Name |-> C[n]] /\ R = [n \in Name |-> R[n]]
    OBVIOUS
  <2> HIDE DEF C, R
  <2> QED
    BY <2>1, FiniteImage
<1>2. IsFiniteSet({seen.id})
  BY FS_Singleton
<1>3. IsFiniteSet({C[n] : n \in Name} \cup {R[n] : n \in Name} \cup {seen.id})
  <2> HIDE DEF C, R
  <2> QED
    BY <1>1, <1>2, FS_Union
<1>4. {C[n] : n \in Name} \cup {R[n] : n \in Name} \cup {seen.id} = UsedIds
  BY DEF UsedIds
<1>5. Id \ UsedIds # {}
  BY <1>3, <1>4, FS_Subset
<1> QED
  BY <1>5, LeastId

LEMMA TodoSize ==
  ASSUME IsFiniteSet(Name), NEW V \in SUBSET Name
  PROVE  IsFiniteSet(V) /\ Cardinality(V) \in Nat
  BY FS_Subset, FS_CardinalityType

(* Every call of a run brings it nearer to its end, nothing that happens   *)
(* between the calls takes it back, and until it ends it has a call it can *)
(* make: with finitely many manifests each deploy and each teardown ends.  *)
THEOREM RunsEnd ==
  ASSUME IsFiniteSet(Name), ~IsFiniteSet(Id)
  PROVE  Spec => /\ [](Left \in Nat /\ NotBlocked)
                 /\ [][cmd # "none" => Left' <= Left /\ (Step => Left' < Left)]_vars
PROOF
<1>1. ASSUME Typing PROVE Left \in Nat /\ NotBlocked
  <2>1. Cardinality(todo) \in Nat
    BY <1>1, TodoSize DEF Typing, TypeOK
  <2>2. CallsLeft \in Nat
    BY DEF CallsLeft
  <2>3. Left \in Nat
    BY <2>1, <2>2 DEF Left
  <2>4. NotBlocked
    BY <1>1, FreeId DEF NotBlocked, Typing, TypeOK, CallsMatch, Held, Call
  <2> QED
    BY <2>3, <2>4
<1>2. ASSUME Typing, Typing', NextStep PROVE Left' < Left
  <2>1. PICK n \in todo : todo' = todo \ {n}
    BY <1>2 DEF NextStep
  <2>2. /\ Cardinality(todo') = Cardinality(todo) - 1
        /\ Cardinality(todo) \in Nat
    BY <1>2, <2>1, TodoSize, FS_RemoveElement DEF Typing, TypeOK
  <2>3. CallsLeft = 1 /\ CallsLeft' \in 0 .. 7
    BY <1>2 DEF NextStep, CallsLeft
  <2> QED
    BY <2>2, <2>3 DEF Left
<1>3. ASSUME Typing, Typing', todo' = todo,
             CallsLeft \in Nat, CallsLeft' \in Nat, CallsLeft' < CallsLeft
      PROVE  Left' < Left
  <2>1. Cardinality(todo) \in Nat
    BY <1>3, TodoSize DEF Typing, TypeOK
  <2> QED
    BY <1>3, <2>1 DEF Left
<1>4. ASSUME Typing, Inspect \/ List \/ RemoveStale \/ Create \/ Start
                     \/ RecordDeployment \/ InspectForRemoval
                     \/ RemoveInspected \/ RemoveDeployment
      PROVE  /\ todo' = todo /\ CallsLeft \in Nat /\ CallsLeft' \in Nat
             /\ CallsLeft' < CallsLeft
  <2>1. \/ at = "inspect" /\ at' \in {"create", "list"}
        \/ at = "list" /\ at' \in {"remove", "start", "record"}
        \/ at = "remove" /\ at' = "create"
        \/ at = "create" /\ at' = "start"
        \/ at = "start" /\ at' = "record"
        \/ at = "record" /\ at' = "next"
        \/ at = "rm_inspect" /\ at' \in {"rm_remove", "unrecord"}
        \/ at = "rm_remove" /\ at' = "unrecord"
        \/ at = "unrecord" /\ at' = "next"
    BY <1>4 DEF Inspect, List, RemoveStale, Create, Start, RecordDeployment,
                InspectForRemoval, RemoveInspected, RemoveDeployment, Goto
  <2>2. todo' = todo
    BY <1>4 DEF Inspect, List, RemoveStale, Create, Start, RecordDeployment,
                InspectForRemoval, RemoveInspected, RemoveDeployment, Goto
  <2> QED
    BY <2>1, <2>2 DEF CallsLeft
<1>5. ASSUME Typing, cmd # "none", End PROVE Left' < Left
  <2>1. todo' = {} /\ at' = "idle"
    BY <1>5 DEF End
  <2>2. Left' = 0
    <3>1. Cardinality(todo') = 0
      BY <2>1, FS_EmptySet
    <3>2. CallsLeft' = 0
      BY <2>1 DEF CallsLeft
    <3> QED
      BY <3>1, <3>2 DEF Left
  <2>3. CallsLeft \in Nat \ {0}
    <3>1. at \in {"next"} \cup DeployCall \cup TeardownCall
      BY <1>5 DEF Typing, TypeOK, CallsMatch, Call
    <3> QED
      BY <3>1 DEF CallsLeft, DeployCall, TeardownCall
  <2>4. Cardinality(todo) \in Nat
    BY <1>5, TodoSize DEF Typing, TypeOK
  <2> QED
    BY <2>2, <2>3, <2>4 DEF Left
<1>6. ASSUME Typing, cmd # "none",
             DeployDone \/ TeardownDone \/ ContainerVanished \/ RunStops
      PROVE  Left' < Left
  BY <1>5, <1>6 DEF DeployDone, TeardownDone, ContainerVanished, RunStops
<1>7. ASSUME Typing, Typing', cmd # "none", Step PROVE Left' < Left
  BY <1>2, <1>3, <1>4, <1>6, <1>7 DEF Step
<1>8. ASSUME ContainerExits \/ RemovedByHand \/ UNCHANGED vars
      PROVE  Left' = Left
  <2>1. todo' = todo /\ at' = at
    BY <1>8 DEF ContainerExits, RemovedByHand, vars, run
  <2> QED
    BY <2>1 DEF Left, CallsLeft
<1>9. ASSUME cmd # "none", [Next]_vars
      PROVE  Step \/ RunStops \/ ContainerExits \/ RemovedByHand \/ UNCHANGED vars
  BY <1>9 DEF Next, Deploy, Teardown, Begin, EditManifest, DeleteArtifact,
              DeleteUnasked, Forget
<1>10. ASSUME Typing, Typing', [Next]_vars, cmd # "none"
       PROVE  Left' <= Left /\ (Step => Left' < Left)
  <2>1. Left \in Nat /\ Left' \in Nat
    <3>1. Cardinality(todo) \in Nat /\ Cardinality(todo') \in Nat
      BY <1>10, TodoSize DEF Typing, TypeOK
    <3>2. CallsLeft \in Nat /\ CallsLeft' \in Nat
      BY DEF CallsLeft
    <3> QED
      BY <3>1, <3>2 DEF Left
  <2>2. Step => Left' < Left
    BY <1>7, <1>10
  <2>3. Step \/ RunStops \/ Left' = Left
    BY <1>8, <1>9, <1>10
  <2>4. RunStops => Left' < Left
    BY <1>6, <1>10
  <2> QED
    BY <2>1, <2>2, <2>3, <2>4
<1>11. Typing /\ Typing' /\ [Next]_vars =>
         [cmd # "none" => Left' <= Left /\ (Step => Left' < Left)]_vars
  BY <1>10
<1> QED
  BY <1>1, <1>11, AlwaysTyping, PTL DEF Spec

-----------------------------------------------------------------------------
(***************************************************************************)
(* A whole deploy: the steps behind it stay as it left them.               *)
(***************************************************************************)

(* The container of a name, if it is there, is the one on record, under    *)
(* the wanted configuration; and it has it, or went astray.                *)
AsWanted(n) ==
  container[n] # Absent =>
    /\ record[n] = [id |-> container[n].id, hash |-> wanted[n]]
    /\ container[n].cfg = wanted[n] \/ n \in astray

Behind(n) == wanted[n] # NoConfig /\ n \notin todo /\ (at = "next" \/ n # cur)

Settled == cmd = "deploy" => \A n \in Name : Behind(n) => AsWanted(n)

(* A call that touches the name in progress only disturbs no step behind.  *)
LEMMA OthersSettled ==
  ASSUME Typing, Settled, cmd = "deploy", cmd' = "deploy",
         UNCHANGED <<wanted, todo, cur>>, at # "next", at' # "next",
         \A n \in Name \ {cur} : /\ container'[n] = container[n]
                                 /\ record'[n] = record[n]
                                 /\ n \in astray => n \in astray'
  PROVE  Settled'
PROOF
<1> SUFFICES ASSUME NEW n \in Name, Behind(n)' PROVE AsWanted(n)'
  BY DEF Settled
<1>1. n # cur /\ Behind(n)
  BY DEF Behind
<1>2. AsWanted(n)
  BY <1>1 DEF Settled
<1> QED
  BY <1>1, <1>2 DEF AsWanted

LEMMA NextStepSettled ==
  ASSUME Settled, NextStep PROVE Settled'
PROOF
<1> SUFFICES ASSUME cmd' = "deploy", NEW n \in Name, Behind(n)'
             PROVE  AsWanted(n)'
  BY DEF Settled
<1>1. PICK m \in todo : todo' = todo \ {m} /\ cur' = m
  BY DEF NextStep
<1>2. cmd = "deploy" /\ at' # "next" /\ Behind(n)
  BY <1>1 DEF NextStep, Behind
<1>3. AsWanted(n)
  BY <1>2 DEF Settled
<1> QED
  BY <1>3 DEF NextStep, AsWanted, state

LEMMA RecordSettles ==
  ASSUME Inv, Settled, RecordDeployment PROVE Settled'
PROOF
<1> SUFFICES ASSUME NEW n \in Name, Behind(n)' PROVE AsWanted(n)'
  BY DEF Settled
<1>1. UNCHANGED <<wanted, container, astray, todo, cur>> /\ at = "record"
  BY DEF RecordDeployment, Goto
<1>2. cmd = "deploy"
  BY <1>1, InAStep DEF Inv, DeployCall
<1>3. CASE n = cur
  <2>1. container[n] # Absent =>
          /\ container[n].id = seen.id
          /\ container[n].cfg = wanted[n] \/ n \in astray
    BY <1>1, <1>3 DEF Inv, Sound, StepSound
  <2>2. record'[n] = [id |-> seen.id, hash |-> wanted[n]]
    BY <1>3, Recording DEF Inv, Recorded
  <2> QED
    BY <1>1, <2>1, <2>2 DEF AsWanted
<1>4. CASE n # cur
  <2>1. Behind(n)
    BY <1>1, <1>4 DEF Behind
  <2>2. AsWanted(n)
    BY <1>2, <2>1 DEF Settled
  <2>3. record'[n] = record[n]
    BY <1>4, Recording DEF Inv
  <2> QED
    BY <1>1, <2>2, <2>3 DEF AsWanted
<1> QED
  BY <1>3, <1>4

(* What happens meanwhile keeps a container as it was, or takes it away.   *)
LEMMA MeanwhileSettled ==
  ASSUME Typing, Settled, ContainerExits \/ RemovedByHand PROVE Settled'
PROOF
<1> SUFFICES ASSUME cmd' = "deploy", NEW n \in Name, Behind(n)',
                    container'[n] # Absent
             PROVE  AsWanted(n)'
  BY DEF Settled, AsWanted
<1>1. UNCHANGED <<wanted, record, run>>
  BY DEF ContainerExits, RemovedByHand
<1>2. cmd = "deploy" /\ Behind(n)
  BY <1>1 DEF run, Behind
<1>3. AsWanted(n)
  BY <1>2 DEF Settled
<1>4. /\ container[n] # Absent /\ container'[n].id = container[n].id
      /\ container'[n].cfg = container[n].cfg
      /\ n \in astray => n \in astray'
  <2>1. CASE ContainerExits
    <3>1. PICK m \in Name :
            /\ container[m].running
            /\ container' = [container EXCEPT ![m].running = FALSE]
      BY <2>1 DEF ContainerExits
    <3>2. container[m] # Absent
      BY <3>1 DEF Absent
    <3> QED
      BY <2>1, <3>1, <3>2, Running DEF Typing, ContainerExits
  <2>2. CASE RemovedByHand
    <3>1. PICK m \in Name : Removed(m)
      BY <2>2 DEF RemovedByHand
    <3>2. /\ n # m /\ container'[n] = container[n]
          /\ n \in astray => n \in astray'
      BY <3>1, RemovalFacts DEF Typing
    <3> QED
      BY <3>2
  <2> QED
    BY <2>1, <2>2
<1> QED
  BY <1>1, <1>3, <1>4 DEF AsWanted

LEMMA SettledKept ==
  ASSUME Inv, Settled, [Next]_vars PROVE Settled'
PROOF
<1> SUFFICES ASSUME cmd' = "deploy" PROVE Settled'
  BY DEF Settled
<1>1. CASE Deploy
  BY <1>1 DEF Deploy, Begin, Settled, Behind
<1>2. CASE NextStep
  BY <1>2, NextStepSettled
<1>3. CASE Inspect \/ List
  BY <1>3, OthersSettled DEF Inv, Inspect, List, Goto, state
<1>4. CASE RemoveStale
  <2>1. \A n \in Name \ {cur} : /\ container'[n] = container[n]
                                /\ n \in astray => n \in astray'
    BY <1>4, InAStep, RemovalFacts DEF Inv, Typing, RemoveStale, DeployCall
  <2> QED
    BY <1>4, <2>1, OthersSettled DEF Inv, RemoveStale, Goto
<1>5. CASE Create
  BY <1>5, Created, OthersSettled DEF Inv, Create
<1>6. CASE Start
  <2>1. \A n \in Name \ {cur} : container'[n] = container[n]
    BY <1>6 DEF Inv, Typing, TypeOK, Start
  <2> QED
    BY <1>6, <2>1, OthersSettled DEF Inv, Start, Goto
<1>7. CASE RecordDeployment
  BY <1>7, RecordSettles
<1>8. CASE ContainerExits \/ RemovedByHand
  BY <1>8, MeanwhileSettled DEF Inv
<1>9. CASE UNCHANGED vars
  BY <1>9 DEF vars, state, run, Settled, Behind, AsWanted
<1>10. CASE InspectForRemoval \/ RemoveInspected \/ RemoveDeployment
  BY <1>10, InAStep
  DEF InspectForRemoval, RemoveInspected, RemoveDeployment, Goto, Inv, TeardownCall
<1>11. CASE \/ Teardown \/ DeployDone \/ TeardownDone \/ RunStops
            \/ ContainerVanished \/ EditManifest \/ DeleteArtifact \/ DeleteUnasked
  BY <1>11 DEF Teardown, Begin, DeployDone, TeardownDone, RunStops,
     ContainerVanished, End, EditManifest, DeleteArtifact, DeleteUnasked, Forget, run
<1> QED
  BY <1>1, <1>2, <1>3, <1>4, <1>5, <1>6, <1>7, <1>8, <1>9, <1>10, <1>11
  DEF Next, Step

(* A deploy that goes through, wherever earlier runs stopped and whatever  *)
(* was removed or exited meanwhile, has every container of its manifests   *)
(* that is still there on record under the wanted configuration; and with  *)
(* it, unless an earlier run left that container astray.                   *)
THEOREM DeploysAreComplete ==
  Spec => [][DeployDone =>
               \A n \in Name : wanted[n] # NoConfig => AsWanted(n)]_vars
PROOF
<1>1. Init => Settled
  BY DEF Init, Settled
<1>2. Inv /\ Settled /\ [Next]_vars => Settled'
  BY SettledKept
<1>3. Settled /\ [Next]_vars =>
        [DeployDone => \A n \in Name : wanted[n] # NoConfig => AsWanted(n)]_vars
  BY DEF DeployDone, Settled, Behind
<1> QED
  BY <1>1, <1>2, <1>3, AlwaysInv, PTL DEF Spec

=============================================================================
