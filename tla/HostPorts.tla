----------------------------- MODULE HostPorts -----------------------------
(***************************************************************************)
(* The host-port store of internal/state/local/hostports.go.               *)
(*                                                                         *)
(* hostports.txt maps an application key "team/app" to the host port it    *)
(* publishes.  A process reads the file once, when it builds its store,    *)
(* and from then on answers from memory; every operation that changes the  *)
(* allocations rewrites the whole file (a temporary file and a rename, so  *)
(* a crash leaves the old file or the new one) and undoes its change in    *)
(* memory when that write fails.  Nothing locks the file between           *)
(* processes: Process may hold more than one.  One invocation is a deploy, *)
(* which allocates and claims, or a delete, which releases.                *)
(*                                                                         *)
(* A call that returns without changing anything (an allocation the key    *)
(* already has, a claim of the port already held, a refused claim, an      *)
(* exhausted range, a release of nothing) is a stuttering step.            *)
(***************************************************************************)
EXTENDS Integers

CONSTANTS
  Key,        \* the "team/app" keys
  Team,       \* the teams
  TeamOf,     \* [Key -> Team]
  Port,       \* the ports applications and the gateway can ask for
  Explicit,   \* those a manifest may name: publish.hostPort excludes the range
  Reservation, \* the sets of ports a gateway configuration may occupy
  FirstAuto,  \* manifest.FirstAutoHostPort
  LastAuto,   \* manifest.LastAutoHostPort
  Process     \* shrine invocations that may overlap

NoPort == 0

ASSUME HostPortsAssumption ==
  /\ TeamOf \in [Key -> Team]
  /\ FirstAuto \in Nat \ {0} /\ LastAuto \in Nat
  /\ FirstAuto..LastAuto \subseteq Port
  /\ Reservation \subseteq SUBSET Port
  /\ Explicit \subseteq Port \ (FirstAuto..LastAuto)
  /\ Port \subseteq Nat \ {NoPort}

VARIABLES
  file,       \* hostports.txt, NoPort for an absent key; survives every process
  cmd,        \* per process, the command it runs once its store is built
  ports,      \* per process, the store's ports map
  taken,      \* per process, the store's taken set
  reserved    \* per process, the gateway's own ports when the store was built

vars == <<file, cmd, ports, taken, reserved>>

Command == {"none", "deploy", "delete"}

NoPorts == [k \in Key |-> NoPort]

(* The ports held in an allocation map. *)
Held(m) == {m[k] : k \in Key} \ {NoPort}

Init ==
  /\ file = NoPorts
  /\ cmd = [p \in Process |-> "none"]
  /\ ports = [p \in Process |-> NoPorts]
  /\ taken = [p \in Process |-> {}]
  /\ reserved = [p \in Process |-> {}]

-----------------------------------------------------------------------------
(***************************************************************************)
(* A store is built: the ports of the gateway's current configuration seed *)
(* the taken set, then load adds every persisted allocation.               *)
(***************************************************************************)

(* Mutant: load forgets to mark persisted ports as taken. *)
LoadedTakenDropsFile(rsv) == rsv

LoadedTaken(rsv) == rsv \cup Held(file)

NewHostPortStore(p, c, rsv) ==
  /\ cmd[p] = "none"
  /\ cmd' = [cmd EXCEPT ![p] = c]
  /\ ports' = [ports EXCEPT ![p] = file]
  /\ taken' = [taken EXCEPT ![p] = LoadedTaken(rsv)]
  /\ reserved' = [reserved EXCEPT ![p] = rsv]
  /\ UNCHANGED file

(* The process ends, normally or by a crash: its memory is gone. *)
Exit(p) ==
  /\ cmd[p] # "none"
  /\ cmd' = [cmd EXCEPT ![p] = "none"]
  /\ ports' = [ports EXCEPT ![p] = NoPorts]
  /\ taken' = [taken EXCEPT ![p] = {}]
  /\ reserved' = [reserved EXCEPT ![p] = {}]
  /\ UNCHANGED file

-----------------------------------------------------------------------------
(***************************************************************************)
(* save either replaces the file by this process's map, m with taken set t,*)
(* or fails, and the caller then puts its map back; backT is the taken set *)
(* its rollback leaves.                                                    *)
(***************************************************************************)
(* Mutant: the in-memory map is not put back after a failed write. *)
SaveWithoutRollback(p, m, t, backT) ==
  /\ file' \in {m, file}
  /\ ports' = [ports EXCEPT ![p] = m]
  /\ taken' = [taken EXCEPT ![p] = t]
  /\ UNCHANGED <<cmd, reserved>>

Save(p, m, t, backT) ==
  \/ /\ file' = m
     /\ ports' = [ports EXCEPT ![p] = m]
     /\ taken' = [taken EXCEPT ![p] = t]
     /\ UNCHANGED <<cmd, reserved>>
  \/ /\ taken' = [taken EXCEPT ![p] = backT]
     /\ UNCHANGED <<file, cmd, ports, reserved>>

(* The automatic ports a process believes free. *)
FreePorts(p) == (FirstAuto..LastAuto) \ taken[p]

(* Mutant: the lookup of an existing allocation is dropped. *)
AllocateHostPortAgain(p, k) ==
  /\ cmd[p] = "deploy"
  /\ \E n \in FreePorts(p) :
       /\ \A i \in FreePorts(p) : n <= i
       /\ Save(p, [ports[p] EXCEPT ![k] = n], taken[p] \cup {n},
               (taken[p] \cup {n}) \ {n})

AllocateHostPort(p, k) ==
  /\ cmd[p] = "deploy"
  /\ ports[p][k] = NoPort
  /\ \E n \in FreePorts(p) :
       /\ \A i \in FreePorts(p) : n <= i
       /\ Save(p, [ports[p] EXCEPT ![k] = n], taken[p] \cup {n},
               (taken[p] \cup {n}) \ {n})

(* Mutant: the rollback of a failed claim does not test hadPrevious. *)
ClaimRollbackUntested(t, n, previous) == (t \ {n}) \cup {previous}

(* delete(taken, port), then the previous port is put back. *)
ClaimRollback(t, n, previous) == (t \ {n}) \cup ({previous} \ {NoPort})

ClaimTaken(t, n, previous) == (t \cup {n}) \ {previous}

(* Mutant: a claim does not look for another holder of the port. *)
ClaimableUnchecked(p, n) == n \notin reserved[p]

Claimable(p, n) == n \notin reserved[p] /\ n \notin Held(ports[p])

ClaimHostPort(p, k, n) ==
  /\ cmd[p] = "deploy"
  /\ ports[p][k] # n
  /\ Claimable(p, n)
  /\ LET previous == ports[p][k]
         t == ClaimTaken(taken[p], n, previous)
     IN Save(p, [ports[p] EXCEPT ![k] = n], t, ClaimRollback(t, n, previous))

(***************************************************************************)
(* Releasing one key, or every key of a team: the released ports leave the *)
(* map and the taken set, and a failed write puts both back.               *)
(***************************************************************************)
Release(p, released) ==
  /\ cmd[p] = "delete"
  /\ LET gone == {ports[p][k] : k \in released} \ {NoPort}
     IN /\ gone # {}
        /\ Save(p, [k \in Key |-> IF k \in released THEN NoPort ELSE ports[p][k]],
                taken[p] \ gone, (taken[p] \ gone) \cup gone)

ReleaseHostPort(p, k) == Release(p, {k})

ReleaseTeamHostPorts(p, t) == Release(p, {k \in Key : TeamOf[k] = t})

-----------------------------------------------------------------------------

Next ==
  \E p \in Process :
    \/ \E c \in Command \ {"none"}, rsv \in Reservation :
         NewHostPortStore(p, c, rsv)
    \/ Exit(p)
    \/ \E k \in Key :
         \/ AllocateHostPort(p, k)
         \/ \E n \in Explicit : ClaimHostPort(p, k, n)
         \/ ReleaseHostPort(p, k)
    \/ \E t \in Team : ReleaseTeamHostPorts(p, t)

Spec == Init /\ [][Next]_vars

-----------------------------------------------------------------------------
(***************************************************************************)
(* Properties.                                                             *)
(***************************************************************************)

PortOrNone == Port \cup {NoPort}

TypeOK ==
  /\ file \in [Key -> PortOrNone]
  /\ cmd \in [Process -> Command]
  /\ ports \in [Process -> [Key -> PortOrNone]]
  /\ taken \in [Process -> SUBSET Port]
  /\ reserved \in [Process -> SUBSET Port]

Injective(m) ==
  \A k, l \in Key : (m[k] = m[l] /\ m[k] # NoPort) => k = l

(* No two applications are recorded with one host port, whatever mix of    *)
(* allocations, claims, releases, failed writes, crashes and overlapping   *)
(* invocations led to the file.                                            *)
PortsNeverShared == Injective(file)

(* The two maps of one store agree: a held port is taken, and a taken port *)
(* is held or reserved.  A rollback or a release that broke the first would*)
(* hand a used port out again; one that broke the second would leak ports  *)
(* until the automatic range is exhausted.                                 *)
TakenIsHeldOrReserved ==
  \A p \in Process :
    /\ Held(ports[p]) \subseteq taken[p]
    /\ taken[p] \subseteq Held(ports[p]) \cup reserved[p]

(* A process that runs alone always answers what the file says, after a    *)
(* failed write too.                                                       *)
MemoryIsFile == \A p \in Process : cmd[p] # "none" => ports[p] = file

(* A recorded port changes only when that application, or its team, is     *)
(* released or the application claims another port (spec 023 FR-008,       *)
(* FR-009): never as a side effect of a call made for another key.         *)
PortsStable ==
  [][\A k \in Key :
       (file[k] # NoPort /\ file'[k] # file[k]) =>
         \E p \in Process :
           \/ ReleaseHostPort(p, k)
           \/ ReleaseTeamHostPorts(p, TeamOf[k])
           \/ \E n \in Explicit : ClaimHostPort(p, k, n)]_vars

(* Hostports.go: reserved ports are "never persisted, allocated, or        *)
(* claimable": no call of a running store records a port its gateway       *)
(* reserves.                                                               *)
NoReservedPortRecorded ==
  [][\A p \in Process, k \in Key :
       (cmd[p] = "deploy" /\ ports'[p][k] \notin {NoPort, ports[p][k]}) =>
         ports'[p][k] \notin reserved[p]]_vars

=============================================================================
