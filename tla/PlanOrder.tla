----------------------------- MODULE PlanOrder -----------------------------
(***************************************************************************)
(* From a manifest set to the order its steps run in: the dependencies the *)
(* enrichers infer (internal/planner/enrich.go, enrich_valuefrom.go), the  *)
(* topological sort (planner/order.go, internal/topo/topo.go), the team    *)
(* filter and the engine's loop over the steps.                            *)
(*                                                                         *)
(* A node is a manifest, kind and name together; its number is its place   *)
(* in the order of the strings "Kind:name", which the sort breaks ties by. *)
(***************************************************************************)
EXTENDS Integers, Sequences, FiniteSets

CONSTANTS
  Node,      \* manifests of the set
  Outside,   \* names no manifest of the set has
  Owner,     \* teams
  OwnerOf,   \* the team of each manifest
  MaxReads   \* bound: valueFrom references of one manifest

ASSUME PlanOrderAssumption ==
  /\ Node \subseteq Nat /\ IsFiniteSet(Node)
  /\ OwnerOf \in [Node -> Owner]
  /\ Outside \cap Node = {}

VARIABLES
  declared,  \* spec.dependencies of each manifest, which Resolve has checked
  reads,     \* the manifests its env reads with valueFrom
  deps,      \* the dependencies the sort is given
  indeg,     \* topo.Sort: unresolved dependencies of each node
  queue,     \*   nodes without any
  order,     \*   the result so far
  visiting,  \*   the node taken from the queue, its dependents to visit
  freed,     \*   those that just lost their last dependency
  result,    \* "enrich", "sort", "cycle", "refused", "deploy" or "done"
  team,      \* the filter: a team, or all of them
  steps,     \* steps still to deploy
  deployed   \* manifests deployed, in order

input == <<declared, reads>>
sorting == <<indeg, queue, order, visiting, freed>>
deploying == <<team, steps, deployed>>
vars == <<input, deps, sorting, result, deploying>>

NoTeam == "none"

Init ==
  /\ declared \in [Node -> SUBSET Node]
  /\ reads \in [Node -> {S \in SUBSET (Node \cup Outside) :
                           Cardinality(S) <= MaxReads}]
  /\ deps = [n \in Node |-> {}]
  /\ indeg = [n \in Node |-> 0] /\ queue = <<>> /\ order = <<>>
  /\ visiting = {} /\ freed = {}
  /\ result = "enrich"
  /\ team = NoTeam /\ steps = <<>> /\ deployed = <<>>

-----------------------------------------------------------------------------
(***************************************************************************)
(* Enrichment: a valueFrom reference to a manifest of the same team becomes*)
(* a dependency; one to another team's, or to no manifest, must have been  *)
(* declared.                                                               *)
(***************************************************************************)

Covered(n, m) == m \in declared[n] \/ (m \in Node /\ OwnerOf[m] = OwnerOf[n])

EnrichmentFails ==
  /\ result = "enrich"
  /\ \E n \in Node : \E m \in reads[n] : ~Covered(n, m)
  /\ result' = "refused"
  /\ UNCHANGED <<input, deps, sorting, deploying>>

(* Mutant: references infer nothing.                                       *)
EnrichedWithoutReads(n) == declared[n]

Enriched(n) == declared[n] \cup reads[n]

-----------------------------------------------------------------------------
(***************************************************************************)
(* topo.Sort, Kahn's algorithm.  Dependencies outside the graph are        *)
(* skipped.  SortedSeqs(S) holds the increasing enumeration of S.          *)
(***************************************************************************)

SortedSeqs(S) ==
  {s \in [1 .. Cardinality(S) -> S] :
     \A i, j \in 1 .. Cardinality(S) : i < j => s[i] < s[j]}

StartSort ==
  /\ result = "enrich"
  /\ \A n \in Node : \A m \in reads[n] : Covered(n, m)
  /\ deps' = [n \in Node |-> Enriched(n)]
  /\ indeg' = [n \in Node |-> Cardinality(deps'[n] \cap Node)]
  /\ queue' \in SortedSeqs({n \in Node : indeg'[n] = 0})
  /\ result' = "sort"
  /\ UNCHANGED <<input, order, visiting, freed, deploying>>

TakeNode ==
  /\ result = "sort" /\ visiting = {} /\ freed = {} /\ queue # <<>>
  /\ order' = Append(order, Head(queue))
  /\ queue' = Tail(queue)
  /\ visiting' = {n \in Node : Head(queue) \in deps[n]}
  /\ UNCHANGED <<input, deps, indeg, freed, result, deploying>>

(* Mutant: a dependent is freed by its first dependency.                   *)
LastDependencyFirst(n) == TRUE

(* Mutant: the count is tested before it is decremented.                   *)
LastDependencyLate(n) == indeg[n] = 0

LastDependency(n) == indeg[n] = 1

VisitDependent ==
  /\ \E n \in visiting :
       /\ visiting' = visiting \ {n}
       /\ indeg' = [indeg EXCEPT ![n] = @ - 1]
       /\ freed' = IF LastDependency(n) THEN freed \cup {n} ELSE freed
  /\ UNCHANGED <<input, deps, queue, order, result, deploying>>

EnqueueFreed ==
  /\ visiting = {} /\ freed # {}
  /\ \E s \in SortedSeqs(freed) : queue' = queue \o s
  /\ freed' = {}
  /\ UNCHANGED <<input, deps, indeg, order, visiting, result, deploying>>

SortEnds == result = "sort" /\ visiting = {} /\ freed = {} /\ queue = <<>>

CycleFound ==
  /\ SortEnds
  /\ Len(order) # Cardinality(Node)
  /\ result' = "cycle"
  /\ UNCHANGED <<input, deps, sorting, deploying>>

-----------------------------------------------------------------------------
(***************************************************************************)
(* The steps the filter selects, deployed one after the other.  A step     *)
(* that fails ends the deploy.                                             *)
(***************************************************************************)

Kept(s, t) == {i \in 1 .. Len(s) : t = NoTeam \/ OwnerOf[s[i]] = t}

(* The only member is the sequence of the kept, in the order they had.     *)
Selected(s, t) ==
  {[k \in DOMAIN kept |-> s[kept[k]]] : kept \in SortedSeqs(Kept(s, t))}

StartDeploy ==
  /\ SortEnds
  /\ Len(order) = Cardinality(Node)
  /\ team' \in Owner \cup {NoTeam}
  /\ steps' \in Selected(order, team')
  /\ result' = "deploy"
  /\ UNCHANGED <<input, deps, sorting, deployed>>

DeployStep ==
  /\ result = "deploy" /\ steps # <<>>
  /\ deployed' = Append(deployed, Head(steps))
  /\ steps' = Tail(steps)
  /\ UNCHANGED <<input, deps, sorting, result, team>>

DeployEnds ==
  /\ result = "deploy"
  /\ result' = "done"
  /\ UNCHANGED <<input, deps, sorting, deploying>>

Next ==
  \/ EnrichmentFails \/ StartSort \/ TakeNode \/ VisitDependent
  \/ EnqueueFreed \/ CycleFound
  \/ StartDeploy \/ DeployStep \/ DeployEnds

Spec == Init /\ [][Next]_vars

-----------------------------------------------------------------------------
(***************************************************************************)
(* Properties.                                                             *)
(***************************************************************************)

Elements(s) == {s[i] : i \in 1 .. Len(s)}

TypeOK ==
  /\ declared \in [Node -> SUBSET Node]
  /\ reads \in [Node -> SUBSET (Node \cup Outside)]
  /\ deps \in [Node -> SUBSET (Node \cup Outside)]
  /\ indeg \in [Node -> Nat]
  /\ queue \in Seq(Node) /\ order \in Seq(Node)
  /\ visiting \subseteq Node /\ freed \subseteq Node
  /\ result \in {"enrich", "sort", "cycle", "refused", "deploy", "done"}
  /\ team \in Owner \cup {NoTeam}
  /\ steps \in Seq(Node) /\ deployed \in Seq(Node)

(* Every dependency of a node precedes it in the order: topo.Sort "returns  *)
(* the nodes in an order where each appears after its dependencies".        *)
DependenciesFirst ==
  \A i \in 1 .. Len(order) :
    deps[order[i]] \cap Node \subseteq {order[j] : j \in 1 .. i - 1}

(* No manifest is planned twice.                                            *)
PlannedOnce ==
  \A i, j \in 1 .. Len(order) : order[i] = order[j] => i = j

(* A set is refused for a cycle exactly when it has one: some manifests     *)
(* each of which waits for another of them.                                 *)
Cyclic ==
  \E S \in (SUBSET Node) \ {{}} : \A n \in S : deps[n] \cap S # {}

CycleReported ==
  /\ result = "cycle" => Cyclic
  /\ result \in {"deploy", "done"} => ~Cyclic /\ Elements(order) = Node

(* Whatever team the deploy is narrowed to, and wherever it stops, what a   *)
(* deployed manifest depends on within the selection, by declaration or by  *)
(* a valueFrom reference, was deployed before it.                           *)
DeployedAfterDependencies ==
  \A i \in 1 .. Len(deployed) :
    \A m \in (declared[deployed[i]] \cup reads[deployed[i]]) \cap Node :
      (team = NoTeam \/ OwnerOf[m] = team) =>
        \E j \in 1 .. i - 1 : deployed[j] = m
=============================================================================
