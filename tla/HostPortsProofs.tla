-------------------------- MODULE HostPortsProofs --------------------------
(***************************************************************************)
(* What HostPorts guarantees for any number of keys, ports, gateways and   *)
(* overlapping processes.  The inductive invariant says of every store     *)
(* what TLC checks of the file: its map gives no port twice and its taken  *)
(* set is exactly large enough.  Each operation computes the new map, the  *)
(* new taken set and the one its rollback leaves; SaveKeepsInv reduces the *)
(* operation to facts about those three.                                   *)
(***************************************************************************)
EXTENDS HostPorts, TLAPS, FiniteSetTheorems, WellFoundedInduction

(* A map and a taken set that agree with each other and with a gateway. *)
Sound(m, t, rsv) ==
  /\ m \in [Key -> PortOrNone]
  /\ t \in SUBSET Port
  /\ Injective(m)
  /\ Held(m) \subseteq t
  /\ t \subseteq Held(m) \cup rsv

StoresSound == \A p \in Process : Sound(ports[p], taken[p], reserved[p])

Inv == TypeOK /\ PortsNeverShared /\ StoresSound

-----------------------------------------------------------------------------

LEMMA EmptySound ==
  ASSUME NEW rsv
  PROVE  Sound(NoPorts, {}, rsv)
BY DEF Sound, NoPorts, Held, Injective, PortOrNone

LEMMA InitInv == Init => Inv
<1> SUFFICES ASSUME Init PROVE Inv
  OBVIOUS
<1>1. TypeOK
  BY DEF Init, TypeOK, NoPorts, PortOrNone, Command
<1>2. PortsNeverShared
  BY DEF Init, PortsNeverShared, Injective, NoPorts
<1>3. StoresSound
  BY EmptySound DEF Init, StoresSound
<1> QED
  BY <1>1, <1>2, <1>3 DEF Inv

(* A sound replacement and a sound rollback keep the invariant. *)
LEMMA SaveKeepsInv ==
  ASSUME Inv, NEW p \in Process, NEW m, NEW t, NEW backT,
         Sound(m, t, reserved[p]),
         Sound(ports[p], backT, reserved[p]),
         Save(p, m, t, backT)
  PROVE  Inv'
<1>1. CASE /\ file' = m
           /\ ports' = [ports EXCEPT ![p] = m]
           /\ taken' = [taken EXCEPT ![p] = t]
           /\ UNCHANGED <<cmd, reserved>>
  <2>1. TypeOK'
    BY <1>1 DEF Inv, TypeOK, Sound
  <2>2. PortsNeverShared'
    BY <1>1 DEF PortsNeverShared, Sound
  <2>3. StoresSound'
    BY <1>1 DEF Inv, TypeOK, StoresSound
  <2> QED
    BY <2>1, <2>2, <2>3 DEF Inv
<1>2. CASE /\ taken' = [taken EXCEPT ![p] = backT]
           /\ UNCHANGED <<file, cmd, ports, reserved>>
  <2>1. TypeOK'
    BY <1>2 DEF Inv, TypeOK, Sound
  <2>2. PortsNeverShared'
    BY <1>2 DEF Inv, PortsNeverShared
  <2>3. StoresSound'
    BY <1>2 DEF Inv, TypeOK, StoresSound
  <2> QED
    BY <2>1, <2>2, <2>3 DEF Inv
<1> QED
  BY <1>1, <1>2 DEF Save

(* A port outside the taken set, or one nobody holds, can be given to k.   *)
LEMMA GiveIsSound ==
  ASSUME NEW m, NEW t, NEW rsv, Sound(m, t, rsv),
         NEW k \in Key, NEW n \in Port, n \notin Held(m)
  PROVE  Sound([m EXCEPT ![k] = n], (t \cup {n}) \ {m[k]}, rsv)
<1> DEFINE mm == [m EXCEPT ![k] = n]
           tt == (t \cup {n}) \ {m[k]}
<1>0. n # NoPort /\ n # m[k] /\ NoPort \notin Port
  BY HostPortsAssumption DEF Held
<1>1. mm \in [Key -> PortOrNone] /\ tt \in SUBSET Port
  BY DEF Sound, PortOrNone
<1>2. \A l \in Key : mm[l] = IF l = k THEN n ELSE m[l]
  BY DEF Sound
<1>3. Injective(mm)
  BY <1>2, <1>0 DEF Injective, Sound, Held
<1>4. Held(mm) = (Held(m) \ {m[k]}) \cup {n}
  BY <1>0, <1>2 DEF Held, Injective, Sound
<1>5. Held(mm) \subseteq tt
  BY <1>4, <1>0 DEF Sound
<1>6. tt \subseteq Held(mm) \cup rsv
  BY <1>4 DEF Sound
<1> QED
  BY <1>1, <1>3, <1>5, <1>6 DEF Sound

-----------------------------------------------------------------------------

LEMMA AllocateInv ==
  ASSUME Inv, NEW p \in Process, NEW k \in Key, AllocateHostPort(p, k)
  PROVE  Inv'
<1>1. PICK n \in FreePorts(p) :
        Save(p, [ports[p] EXCEPT ![k] = n], taken[p] \cup {n},
             (taken[p] \cup {n}) \ {n})
  BY DEF AllocateHostPort
<1>2. n \in Port /\ n \notin taken[p] /\ n # NoPort
  BY HostPortsAssumption DEF FreePorts
<1>3. Sound(ports[p], taken[p], reserved[p]) /\ ports[p][k] = NoPort
  BY DEF Inv, StoresSound, AllocateHostPort
<1>4. n \notin Held(ports[p]) /\ NoPort \notin taken[p]
  BY <1>2, <1>3, HostPortsAssumption DEF Sound
<1>5. Sound([ports[p] EXCEPT ![k] = n],
            (taken[p] \cup {n}) \ {ports[p][k]}, reserved[p])
  BY <1>2, <1>3, <1>4, GiveIsSound
<1>6. (taken[p] \cup {n}) \ {ports[p][k]} = taken[p] \cup {n}
  BY <1>2, <1>3, <1>4
<1>7. (taken[p] \cup {n}) \ {n} = taken[p]
  BY <1>2
<1> QED
  BY <1>1, <1>3, <1>5, <1>6, <1>7, SaveKeepsInv

LEMMA ClaimInv ==
  ASSUME Inv, NEW p \in Process, NEW k \in Key, NEW n \in Explicit,
         ClaimHostPort(p, k, n)
  PROVE  Inv'
<1> DEFINE previous == ports[p][k]
           m == [ports[p] EXCEPT ![k] = n]
           t == ClaimTaken(taken[p], n, previous)
           backT == ClaimRollback(t, n, previous)
<1>1. Save(p, m, t, backT) /\ previous # n /\ Claimable(p, n)
  BY DEF ClaimHostPort
<1>2. Sound(ports[p], taken[p], reserved[p])
  BY DEF Inv, StoresSound
<1>3. n \in Port /\ n # NoPort /\ n \notin Held(ports[p]) /\ n \notin reserved[p]
  BY <1>1, HostPortsAssumption DEF Claimable
<1>4. Sound(m, t, reserved[p])
  BY <1>2, <1>3, GiveIsSound DEF ClaimTaken
<1>5. n \notin taken[p]
  BY <1>2, <1>3 DEF Sound
<1>6. previous \in PortOrNone /\ (previous # NoPort => previous \in taken[p])
  BY <1>2 DEF Sound, Held
<1>7. NoPort \notin taken[p]
  BY <1>2, HostPortsAssumption DEF Sound
<1>8. backT = taken[p]
  BY <1>1, <1>5, <1>6, <1>7 DEF ClaimTaken, ClaimRollback
<1> QED
  BY <1>1, <1>2, <1>4, <1>8, SaveKeepsInv

LEMMA ReleaseInv ==
  ASSUME Inv, NEW p \in Process, NEW released \in SUBSET Key,
         Release(p, released)
  PROVE  Inv'
<1> DEFINE gone == {ports[p][k] : k \in released} \ {NoPort}
           m == [k \in Key |-> IF k \in released THEN NoPort ELSE ports[p][k]]
           t == taken[p] \ gone
<1>1. Save(p, m, t, t \cup gone)
  BY DEF Release
<1>2. Sound(ports[p], taken[p], reserved[p])
  BY DEF Inv, StoresSound
<1>3. gone \subseteq taken[p]
  BY <1>2 DEF Sound, Held
<1>4. t \cup gone = taken[p]
  BY <1>3
<1>5. Sound(m, t, reserved[p])
  <2>1. m \in [Key -> PortOrNone] /\ t \in SUBSET Port
    BY <1>2 DEF Sound, PortOrNone
  <2>2. Injective(m)
    BY <1>2 DEF Injective, Sound
  <2>3. Held(m) = Held(ports[p]) \ gone
    BY <1>2 DEF Held, Injective, Sound
  <2> QED
    BY <1>2, <2>1, <2>2, <2>3 DEF Sound
<1> QED
  BY <1>1, <1>2, <1>4, <1>5, SaveKeepsInv

LEMMA StartInv ==
  ASSUME Inv, NEW p \in Process, NEW c \in Command \ {"none"},
         NEW rsv \in Reservation, NewHostPortStore(p, c, rsv)
  PROVE  Inv'
<1>1. /\ file' = file
      /\ cmd' = [cmd EXCEPT ![p] = c]
      /\ ports' = [ports EXCEPT ![p] = file]
      /\ taken' = [taken EXCEPT ![p] = rsv \cup Held(file)]
      /\ reserved' = [reserved EXCEPT ![p] = rsv]
  BY DEF NewHostPortStore, LoadedTaken
<1>2. rsv \in SUBSET Port /\ Held(file) \in SUBSET Port
  BY HostPortsAssumption DEF Inv, TypeOK, Held, PortOrNone
<1>3. Sound(file, rsv \cup Held(file), rsv)
  BY <1>2 DEF Inv, TypeOK, PortsNeverShared, Sound
<1>4. TypeOK'
  BY <1>1, <1>2 DEF Inv, TypeOK
<1>5. StoresSound'
  BY <1>1, <1>3 DEF Inv, TypeOK, StoresSound
<1> QED
  BY <1>1, <1>4, <1>5 DEF Inv, PortsNeverShared

LEMMA ExitInv ==
  ASSUME Inv, NEW p \in Process, Exit(p)
  PROVE  Inv'
<1>1. TypeOK'
  BY DEF Inv, TypeOK, Exit, NoPorts, PortOrNone, Command
<1>2. StoresSound'
  BY EmptySound DEF Inv, TypeOK, StoresSound, Exit
<1> QED
  BY <1>1, <1>2 DEF Inv, PortsNeverShared, Exit

LEMMA NextInv == Inv /\ [Next]_vars => Inv'
<1> SUFFICES ASSUME Inv, [Next]_vars PROVE Inv'
  OBVIOUS
<1>1. ASSUME NEW p \in Process, NEW c \in Command \ {"none"},
             NEW rsv \in Reservation, NewHostPortStore(p, c, rsv)
      PROVE  Inv'
  BY <1>1, StartInv
<1>2. ASSUME NEW p \in Process, Exit(p) PROVE Inv'
  BY <1>2, ExitInv
<1>3. ASSUME NEW p \in Process, NEW k \in Key, AllocateHostPort(p, k)
      PROVE  Inv'
  BY <1>3, AllocateInv
<1>4. ASSUME NEW p \in Process, NEW k \in Key, NEW n \in Explicit,
             ClaimHostPort(p, k, n)
      PROVE  Inv'
  BY <1>4, ClaimInv
<1>5. ASSUME NEW p \in Process, NEW k \in Key, ReleaseHostPort(p, k)
      PROVE  Inv'
  BY <1>5, ReleaseInv DEF ReleaseHostPort
<1>6. ASSUME NEW p \in Process, NEW t \in Team, ReleaseTeamHostPorts(p, t)
      PROVE  Inv'
  BY <1>6, ReleaseInv DEF ReleaseTeamHostPorts
<1>7. CASE UNCHANGED vars
  BY <1>7 DEF vars, Inv, TypeOK, PortsNeverShared, StoresSound
<1> QED
  BY <1>1, <1>2, <1>3, <1>4, <1>5, <1>6, <1>7 DEF Next

LEMMA AlwaysInv == Spec => []Inv
BY InitInv, NextInv, PTL DEF Spec

-----------------------------------------------------------------------------

(* Every variable of the store keeps its type, for all parameters: the     *)
(* taken set holds ports only, after every rollback.                       *)
THEOREM TypeCorrect == Spec => []TypeOK
BY AlwaysInv, PTL DEF Inv

(* hostports.txt never records one port for two applications, for any      *)
(* number of overlapping invocations, failed writes and crashes.           *)
THEOREM NeverShared == Spec => []PortsNeverShared
BY AlwaysInv, PTL DEF Inv

(* In every store a held port is taken and a taken port is held or         *)
(* reserved: no call loses a used port or leaks a free one.                *)
THEOREM NoPortLostOrLeaked == Spec => []TakenIsHeldOrReserved
<1>1. Inv => TakenIsHeldOrReserved
  BY DEF Inv, StoresSound, Sound, TakenIsHeldOrReserved
<1> QED
  BY <1>1, AlwaysInv, PTL

-----------------------------------------------------------------------------
(***************************************************************************)
(* One process at a time: its map is the file, so a call that rewrites the *)
(* file changes only what it is made for.                                  *)
(***************************************************************************)

OneProcess == \A p, q \in Process : p = q

LEMMA SaveAgrees ==
  ASSUME Inv, OneProcess, MemoryIsFile, NEW p \in Process, cmd[p] # "none",
         NEW m, NEW t, NEW backT, Save(p, m, t, backT)
  PROVE  /\ file' \in {m, file} /\ ports[p] = file
         /\ MemoryIsFile'
  BY DEF Inv, TypeOK, OneProcess, MemoryIsFile, Save

LEMMA MemoryStep ==
  ASSUME Inv, OneProcess, MemoryIsFile, [Next]_vars PROVE MemoryIsFile'
PROOF
<1>1. ASSUME NEW p \in Process, NEW c \in Command \ {"none"},
             NEW rsv \in Reservation, NewHostPortStore(p, c, rsv)
      PROVE  MemoryIsFile'
  BY <1>1 DEF NewHostPortStore, Inv, TypeOK, OneProcess, MemoryIsFile
<1>2. ASSUME NEW p \in Process, Exit(p) PROVE MemoryIsFile'
  BY <1>2 DEF Exit, Inv, TypeOK, OneProcess, MemoryIsFile
<1>3. ASSUME NEW p \in Process, NEW k \in Key, AllocateHostPort(p, k)
      PROVE  MemoryIsFile'
  BY <1>3, SaveAgrees DEF AllocateHostPort
<1>4. ASSUME NEW p \in Process, NEW k \in Key, NEW n \in Explicit,
             ClaimHostPort(p, k, n)
      PROVE  MemoryIsFile'
  BY <1>4, SaveAgrees DEF ClaimHostPort
<1>5. ASSUME NEW p \in Process, NEW released, Release(p, released)
      PROVE  MemoryIsFile'
  BY <1>5, SaveAgrees DEF Release
<1>6. CASE UNCHANGED vars
  BY <1>6 DEF vars, MemoryIsFile
<1> QED
  BY <1>1, <1>2, <1>3, <1>4, <1>5, <1>6
     DEF Next, ReleaseHostPort, ReleaseTeamHostPorts

(* A process that runs alone answers what the file says, after any number  *)
(* of failed writes, crashes and restarts.                                 *)
THEOREM MemoryAgrees == ASSUME OneProcess PROVE Spec => []MemoryIsFile
PROOF
<1>1. Init => MemoryIsFile
  BY DEF Init, MemoryIsFile
<1>2. Inv /\ MemoryIsFile /\ [Next]_vars => MemoryIsFile'
  BY MemoryStep
<1> QED
  BY <1>1, <1>2, AlwaysInv, PTL DEF Spec

(* Why the port of key k is not what it was.                               *)
Moved(k) ==
  \E p \in Process :
    \/ ReleaseHostPort(p, k)
    \/ ReleaseTeamHostPorts(p, TeamOf[k])
    \/ \E n \in Explicit : ClaimHostPort(p, k, n)

LEMMA OnlyMoved ==
  ASSUME Inv, OneProcess, MemoryIsFile, Next,
         NEW k \in Key, file[k] # NoPort, file'[k] # file[k]
  PROVE  Moved(k)
PROOF
<1>1. file \in [Key -> PortOrNone]
  BY DEF Inv, TypeOK
<1>2. ASSUME NEW p \in Process, NEW l \in Key, AllocateHostPort(p, l)
      PROVE  FALSE
  <2>1. PICK n : Save(p, [ports[p] EXCEPT ![l] = n], taken[p] \cup {n},
                      (taken[p] \cup {n}) \ {n})
    BY <1>2 DEF AllocateHostPort
  <2>2. file' \in {[ports[p] EXCEPT ![l] = n], file} /\ ports[p] = file
    BY <1>2, <2>1, SaveAgrees DEF AllocateHostPort
  <2>3. file[l] = NoPort
    BY <1>2, <2>2 DEF AllocateHostPort
  <2> QED
    BY <1>1, <2>2, <2>3
<1>3. ASSUME NEW p \in Process, NEW l \in Key, NEW n \in Explicit,
             ClaimHostPort(p, l, n)
      PROVE  Moved(k)
  <2>1. PICK t, b : Save(p, [ports[p] EXCEPT ![l] = n], t, b)
    BY <1>3 DEF ClaimHostPort
  <2>2. file' \in {[ports[p] EXCEPT ![l] = n], file} /\ ports[p] = file
    BY <1>3, <2>1, SaveAgrees DEF ClaimHostPort
  <2>3. l = k
    BY <1>1, <2>2
  <2> QED
    BY <1>3, <2>3 DEF Moved
<1>4. ASSUME NEW p \in Process, NEW released \in SUBSET Key, Release(p, released)
      PROVE  k \in released
  <2>1. PICK t, b :
          Save(p, [l \in Key |-> IF l \in released THEN NoPort ELSE ports[p][l]], t, b)
    BY <1>4 DEF Release
  <2>2. /\ file' \in {[l \in Key |-> IF l \in released THEN NoPort ELSE ports[p][l]],
                     file}
        /\ ports[p] = file
    BY <1>4, <2>1, SaveAgrees DEF Release
  <2> QED
    BY <1>1, <2>2
<1>5. ASSUME NEW p \in Process, NEW l \in Key, ReleaseHostPort(p, l)
      PROVE  Moved(k)
  <2>1. k = l
    BY <1>4, <1>5 DEF ReleaseHostPort
  <2> QED
    BY <1>5, <2>1 DEF Moved
<1>6. ASSUME NEW p \in Process, NEW t \in Team, ReleaseTeamHostPorts(p, t)
      PROVE  Moved(k)
  <2>1. TeamOf[k] = t
    BY <1>4, <1>6 DEF ReleaseTeamHostPorts
  <2> QED
    BY <1>6, <2>1 DEF Moved
<1> QED
  BY <1>2, <1>3, <1>5, <1>6 DEF Next, NewHostPortStore, Exit

(* With one process at a time no port on record changes as a side effect   *)
(* of a call made for another application.                                 *)
THEOREM PortsAreStable == ASSUME OneProcess PROVE Spec => PortsStable
PROOF
<1>1. Inv /\ MemoryIsFile /\ [Next]_vars =>
        [\A k \in Key :
           (file[k] # NoPort /\ file'[k] # file[k]) =>
             \E p \in Process :
               \/ ReleaseHostPort(p, k)
               \/ ReleaseTeamHostPorts(p, TeamOf[k])
               \/ \E n \in Explicit : ClaimHostPort(p, k, n)]_vars
  BY OnlyMoved DEF Moved
<1> QED
  BY <1>1, AlwaysInv, MemoryAgrees, PTL DEF Spec, PortsStable

-----------------------------------------------------------------------------
(***************************************************************************)
(* The automatic range is large enough if it has a port for every          *)
(* application beside those the gateway may occupy.                        *)
(***************************************************************************)

AutoRange == FirstAuto .. LastAuto

RoomForAll ==
  \A rsv \in Reservation :
    Cardinality(Key) + Cardinality(rsv \cap AutoRange) <= Cardinality(AutoRange)

(* AllocateHostPort finds a port for an application that has none.         *)
Allocatable(p) == \E n \in FreePorts(p) : \A i \in FreePorts(p) : n <= i

LEMMA LeastOf ==
  ASSUME NEW T \in SUBSET Nat, T # {}
  PROVE  \E x \in T : \A y \in T : x <= y
PROOF
<1>1. IsWellFoundedOn(OpToRel(<, Nat), Nat)
  BY NatLessThanWellFounded
<1>2. \E x \in T : \A y \in T : ~(<<y, x>> \in OpToRel(<, Nat))
  BY <1>1, WFMin
<1>3. \A x, y \in Nat : ~(<<y, x>> \in OpToRel(<, Nat)) => x <= y
  BY DEF OpToRel
<1> QED
  BY <1>2, <1>3

LEMMA AutoFacts ==
  IsFiniteSet(AutoRange) /\ Cardinality(AutoRange) \in Nat /\ AutoRange \in SUBSET Nat
PROOF
<1>1. FirstAuto \in Int /\ LastAuto \in Int /\ AutoRange \in SUBSET Nat
  BY HostPortsAssumption DEF AutoRange
<1>2. IsFiniteSet(AutoRange)
  BY <1>1, FS_Interval DEF AutoRange
<1> QED
  BY <1>1, <1>2, FS_CardinalityType

(* An application without a port leaves at most the others' ports held.    *)
LEMMA HeldByOthers ==
  ASSUME IsFiniteSet(Key), NEW m, NEW k \in Key, m[k] = NoPort
  PROVE  /\ IsFiniteSet(Held(m)) /\ Cardinality(Held(m)) \in Nat
         /\ Cardinality(Held(m)) < Cardinality(Key)
PROOF
<1> DEFINE others == {l \in Key : m[l] # NoPort}
           f == [l \in others |-> m[l]]
<1>1. Held(m) = {m[l] : l \in others}
  BY DEF Held
<1>2. f \in Surjection(others, Held(m))
  BY <1>1 DEF Surjection
<1>3. others \subseteq Key \ {k}
  OBVIOUS
<1>4. /\ IsFiniteSet(Key \ {k}) /\ Cardinality(Key \ {k}) = Cardinality(Key) - 1
      /\ Cardinality(Key) \in Nat
  BY FS_RemoveElement, FS_CardinalityType
<1>5. IsFiniteSet(others) /\ Cardinality(others) <= Cardinality(Key \ {k})
  BY <1>3, <1>4, FS_Subset
<1> HIDE DEF f, others
<1>6. IsFiniteSet(Held(m)) /\ Cardinality(Held(m)) <= Cardinality(others)
  BY <1>2, <1>5, FS_Surjection
<1>7. Cardinality(Held(m)) \in Nat /\ Cardinality(others) \in Nat
  BY <1>5, <1>6, FS_CardinalityType
<1> QED
  BY <1>4, <1>5, <1>6, <1>7

LEMMA RoomLeft ==
  ASSUME IsFiniteSet(Key), RoomForAll, Inv, NEW p \in Process,
         reserved[p] \in Reservation, NEW k \in Key, ports[p][k] = NoPort
  PROVE  Allocatable(p)
PROOF
<1> DEFINE H == Held(ports[p])
           R == reserved[p] \cap AutoRange
<1>1. /\ IsFiniteSet(H) /\ Cardinality(H) \in Nat
      /\ Cardinality(H) < Cardinality(Key)
  BY HeldByOthers
<1>2. IsFiniteSet(R) /\ Cardinality(R) \in Nat
  BY AutoFacts, FS_Subset, FS_CardinalityType
<1>3. Cardinality(Key) + Cardinality(R) <= Cardinality(AutoRange)
  BY DEF RoomForAll
<1>4. Cardinality(Key) \in Nat
  BY FS_CardinalityType
<1>5. taken[p] \cap AutoRange \subseteq H \cup R
  BY DEF Inv, StoresSound, Sound
<1> HIDE DEF H, R
<1>6. IsFiniteSet(H \cup R) /\ Cardinality(H \cup R) < Cardinality(AutoRange)
  <2>1. /\ IsFiniteSet(H \cup R)
        /\ Cardinality(H \cup R)
             = Cardinality(H) + Cardinality(R) - Cardinality(H \cap R)
    BY <1>1, <1>2, FS_Union
  <2>2. Cardinality(H \cap R) \in Nat
    BY <1>1, FS_Subset, FS_CardinalityType
  <2> QED
    BY <1>1, <1>2, <1>3, <1>4, <2>1, <2>2, AutoFacts
<1>7. ~(AutoRange \subseteq H \cup R)
  <2> SUFFICES ASSUME AutoRange \in SUBSET (H \cup R) PROVE FALSE
    OBVIOUS
  <2>1. Cardinality(AutoRange) <= Cardinality(H \cup R)
    BY <1>6, FS_Subset
  <2>2. Cardinality(H \cup R) \in Nat
    BY <1>6, FS_CardinalityType
  <2> QED
    BY <1>6, <2>1, <2>2, AutoFacts
<1>8. FreePorts(p) # {} /\ FreePorts(p) \in SUBSET Nat
  BY <1>5, <1>7, AutoFacts DEF FreePorts, AutoRange
<1> QED
  BY <1>8, LeastOf DEF Allocatable

(* A running store was built for a configuration of the gateway.           *)
Configured == \A p \in Process : cmd[p] # "none" => reserved[p] \in Reservation

LEMMA ConfiguredKept ==
  ASSUME Inv, Configured, [Next]_vars PROVE Configured'
PROOF
<1>1. ASSUME NEW p \in Process, NEW c \in Command \ {"none"},
             NEW rsv \in Reservation, NewHostPortStore(p, c, rsv)
      PROVE  Configured'
  BY <1>1 DEF NewHostPortStore, Configured, Inv, TypeOK
<1>2. ASSUME NEW p \in Process, Exit(p) PROVE Configured'
  BY <1>2 DEF Exit, Configured, Inv, TypeOK
<1>3. ASSUME UNCHANGED <<cmd, reserved>> PROVE Configured'
  BY <1>3 DEF Configured
<1>4. ASSUME NEW p \in Process, NEW m, NEW t, NEW b, Save(p, m, t, b)
      PROVE  UNCHANGED <<cmd, reserved>>
  BY <1>4 DEF Save
<1>5. ASSUME NEW p \in Process, NEW k \in Key,
             \/ AllocateHostPort(p, k)
             \/ \E n \in Explicit : ClaimHostPort(p, k, n)
             \/ ReleaseHostPort(p, k)
             \/ \E t \in Team : ReleaseTeamHostPorts(p, t)
      PROVE  UNCHANGED <<cmd, reserved>>
  BY <1>4, <1>5 DEF AllocateHostPort, ClaimHostPort, ReleaseHostPort,
     ReleaseTeamHostPorts, Release
<1>6. ASSUME NEW p \in Process, NEW t \in Team, ReleaseTeamHostPorts(p, t)
      PROVE  UNCHANGED <<cmd, reserved>>
  BY <1>4, <1>6 DEF ReleaseTeamHostPorts, Release
<1> QED
  BY <1>1, <1>2, <1>3, <1>5, <1>6 DEF Next, vars

(* With a port in the range for every application beside the gateway's own *)
(* AllocateHostPort never fails for want of one, whatever was allocated,   *)
(* claimed, moved and released before, however many writes failed and      *)
(* however many invocations overlap: no port of the range is lost.         *)
THEOREM RangeSuffices ==
  ASSUME IsFiniteSet(Key), RoomForAll
  PROVE  Spec => [](\A p \in Process : \A k \in Key :
                      cmd[p] = "deploy" /\ ports[p][k] = NoPort => Allocatable(p))
PROOF
<1>1. Init => Configured
  BY DEF Init, Configured
<1>2. Inv /\ Configured /\ [Next]_vars => Configured'
  BY ConfiguredKept
<1>3. Inv /\ Configured =>
        \A p \in Process : \A k \in Key :
          cmd[p] = "deploy" /\ ports[p][k] = NoPort => Allocatable(p)
  BY RoomLeft DEF Configured
<1> QED
  BY <1>1, <1>2, <1>3, AlwaysInv, PTL DEF Spec
=============================================================================
