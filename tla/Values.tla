------------------------------- MODULE Values -------------------------------
(***************************************************************************)
(* A deploy from its manifests to the environments its containers get:     *)
(* planner.Plan accepts the set, the engine resolves every resource of it, *)
(* value by value, then takes the steps and resolves each application in   *)
(* its step (internal/engine/engine.go).  Generated secrets come from the  *)
(* secret store (internal/state/local/secrets.go) and vault values from    *)
(* the secrets plugin, which may answer differently or not at all.         *)
(*                                                                         *)
(* Docker's part of a step is in Containers: here a step that succeeds     *)
(* leaves a container with the environment that was resolved for it.       *)
(***************************************************************************)
EXTENDS Resolution

CONSTANTS
  Library,    \* manifest sets a deploy may find, with the default policy
  Edits,      \* those an operator may change to
  SecretKey,  \* <<team, resource, variable>> of every generated entry
  Path,       \* vault paths
  MaxMinted,  \* bound: secrets generated
  MaxVersion  \* bound: versions of a vault value

ASSUME ValuesAssumption ==
  /\ MaxMinted \in Nat /\ MaxVersion \in Nat \ {0}
  /\ \A L \in Library \cup Edits : \A n \in Resources(L.manifests) :
       \A v \in EntriesOf(L.manifests[n], "generated") :
          <<L.manifests[n].owner, n[2], v>> \in SecretKey

VARIABLES
  specs,        \* the manifests on disk and the configured pull policy
  vault,        \* version of each vault value
  secrets,      \* secrets.env of every team: serial of each secret, 0 if none
  minted,       \* secrets generated so far
  pending,      \* a secret generated and not written yet
  phase,        \* "idle", "resources", "steps", "done" or "failed"
  filter,       \* of the last deploy
  cause,        \* why it failed
  target,       \* the manifest whose values are being resolved
  drawn,        \*   those it has so far
  exports,      \* deps.Resources: exports of the resources resolved so far
  resourceEnv,  \* and their environments
  steps,        \* steps still to take
  holds         \* environment of every container <<team, manifest>>

store == <<secrets, minted, pending>>
resolved == <<exports, resourceEnv>>
resolving == <<target, drawn>>
progress == <<phase, filter, cause>>
vars == <<specs, vault, store, progress, resolving, resolved, steps, holds>>

S == specs.manifests

Container(n) == <<S[n].owner, n>>

None == <<>>

Init ==
  /\ specs \in Library
  /\ vault = [p \in Path |-> 1]
  /\ secrets = [k \in SecretKey |-> 0] /\ minted = 0 /\ pending = None
  /\ phase = "idle" /\ filter = All /\ cause = ""
  /\ target = None /\ drawn = None
  /\ exports = None /\ resourceEnv = None
  /\ steps = {} /\ holds = None

Ended == phase \in {"idle", "done", "failed"}

-----------------------------------------------------------------------------
(***************************************************************************)
(* The start of a deploy, and its ends.  What a run has resolved dies with *)
(* it.                                                                     *)
(***************************************************************************)

Cleared ==
  /\ target' = None /\ drawn' = None /\ exports' = None /\ resourceEnv' = None
  /\ steps' = {} /\ pending' = None

Fails(why) ==
  /\ phase' = "failed" /\ cause' = why
  /\ Cleared
  /\ UNCHANGED <<specs, vault, secrets, minted, filter, holds>>

(* The images are resolved before this; that part is in ImagePins.         *)
Deploy(f) ==
  /\ Ended
  /\ Accepted(S, f, specs.policy)
  /\ filter' = f
  /\ IF Cyclic(Resources(S), ResourceGraph(S))
     THEN phase' = "failed" /\ cause' = "order" /\ steps' = {}
     ELSE phase' = "resources" /\ cause' = "" /\ steps' = Selected(S, f)
  /\ UNCHANGED <<specs, vault, store, resolving, resolved, holds>>

(* An error of Docker, of the store or of the operating system, or the end *)
(* of the process.                                                         *)
RunStops == ~Ended /\ Fails("stopped")

DeployDone ==
  /\ phase = "steps" /\ steps = {}
  /\ phase' = "done"
  /\ Cleared
  /\ UNCHANGED <<specs, vault, secrets, minted, filter, cause, holds>>

-----------------------------------------------------------------------------
(***************************************************************************)
(* The values of one manifest, in whatever order it lists them.            *)
(***************************************************************************)

Todo ==
  IF target = None THEN {}
  ELSE {v \in DOMAIN S[target].env : S[target].env[v].kind # "template"}
       \ DOMAIN drawn

Entry(v) == S[target].env[v]

Draw(v, value) == drawn' = With(drawn, v, value)

DrawStatic(v) ==
  /\ pending = None /\ Entry(v).kind = "value"
  /\ Draw(v, {<<"static", Entry(v).text>>})
  /\ UNCHANGED <<specs, vault, store, progress, target, resolved, steps, holds>>

DrawReference(v) ==
  /\ pending = None /\ Entry(v).kind = "read"
  /\ IsKnown(S, exports, Entry(v))
  /\ Draw(v, LookupValueFrom(exports, Entry(v)))
  /\ UNCHANGED <<specs, vault, store, progress, target, resolved, steps, holds>>

UnknownReference(v) ==
  /\ pending = None /\ Entry(v).kind = "read"
  /\ ~IsKnown(S, exports, Entry(v))
  /\ Fails("unknown")

DrawVault(v) ==
  /\ pending = None /\ Entry(v).kind = "vault"
  /\ Draw(v, {<<"vault", Entry(v).path, vault[Entry(v).path]>>})
  /\ UNCHANGED <<specs, vault, store, progress, target, resolved, steps, holds>>

VaultFails(v) ==
  /\ pending = None /\ Entry(v).kind = "vault"
  /\ Fails("vault")

Key(v) == <<S[target].owner, target[2], v>>

(* GetOrGenerate: a secret on file, or a new one that is written first.    *)
ReuseSecret(v) ==
  /\ pending = None /\ Entry(v).kind = "generated"
  /\ secrets[Key(v)] # 0
  /\ Draw(v, {<<"secret", Key(v), secrets[Key(v)]>>})
  /\ UNCHANGED <<specs, vault, store, progress, target, resolved, steps, holds>>

GenerateSecret(v) ==
  /\ pending = None /\ Entry(v).kind = "generated"
  /\ secrets[Key(v)] = 0
  /\ minted < MaxMinted
  /\ minted' = minted + 1
  /\ pending' = [of |-> v, serial |-> minted + 1]
  /\ UNCHANGED <<specs, vault, secrets, progress, resolving, resolved, steps,
                 holds>>

(* Mutant: the file is not written.                                        *)
SaveForgotten(k, serial) == secrets

Saved(k, serial) == [secrets EXCEPT ![k] = serial]

(* One rename replaces the file: it has the secret or it has not.          *)
SaveTeam ==
  /\ pending # None
  /\ secrets' = Saved(Key(pending.of), pending.serial)
  /\ Draw(pending.of, {<<"secret", Key(pending.of), pending.serial>>})
  /\ pending' = None
  /\ UNCHANGED <<specs, vault, minted, progress, target, resolved, steps, holds>>

-----------------------------------------------------------------------------
(***************************************************************************)
(* The pre-pass over every resource of the set, whatever the filter.       *)
(***************************************************************************)

Start(n) ==
  /\ target' = n /\ drawn' = None
  /\ UNCHANGED <<specs, vault, store, progress, resolved, steps, holds>>

StartResource(n) ==
  /\ phase = "resources" /\ target = None
  /\ n \in Resources(S) \ DOMAIN resourceEnv
  /\ ResourceGraph(S)[n] \subseteq DOMAIN resourceEnv
  /\ Start(n)

AllDrawn == target # None /\ pending = None /\ Todo = {}

TargetEnv == EnvOf(target, S[target], drawn)

(* The templates have no order, or one of them cannot be executed on the   *)
(* values it gets.                                                         *)
RenderFails(T) ==
  \/ TemplateCycle(T) /\ Fails("cycle")
  \/ ~TemplateCycle(T) /\ Refuses(T, "live") /\ Fails("execute")

EnvFails == AllDrawn /\ RenderFails(Templates(S[target].env))

EnvRendered == AllDrawn /\ ~TemplateCycle(Templates(S[target].env))

OutputsFail ==
  /\ phase = "resources" /\ EnvRendered
  /\ \/ PortMissing(S[target], TargetEnv) /\ Fails("port")
     \/ /\ ~PortMissing(S[target], TargetEnv)
        /\ RenderFails(Templates(S[target].outputs))

(* Mutant: consumers are given the whole environment.                      *)
ExportsEverything(n, m, env) == env

Exports(n, m, env) == ComputeExports(n, m, env)

ResolveResource ==
  /\ phase = "resources" /\ EnvRendered
  /\ ~PortMissing(S[target], TargetEnv)
  /\ ~TemplateCycle(Templates(S[target].outputs))
  /\ exports' = With(exports, target, Exports(target, S[target], TargetEnv))
  /\ resourceEnv' = With(resourceEnv, target, TargetEnv)
  /\ target' = None /\ drawn' = None
  /\ UNCHANGED <<specs, vault, store, progress, steps, holds>>

AllResolved ==
  /\ phase = "resources" /\ target = None
  /\ Resources(S) = DOMAIN resourceEnv
  /\ phase' = "steps"
  /\ UNCHANGED <<specs, vault, store, filter, cause, resolving, resolved, steps,
                 holds>>

-----------------------------------------------------------------------------
(***************************************************************************)
(* The steps, each after the steps it depends on (the order is PlanOrder's *)
(* subject).  A resource gets what the pre-pass resolved.                  *)
(***************************************************************************)

Ready(n) ==
  /\ phase = "steps" /\ target = None
  /\ n \in steps /\ DependsOn(S)[n] \cap steps \subseteq {n}

TakeStep(n, env) ==
  /\ holds' = With(holds, Container(n), env)
  /\ steps' = steps \ {n}

(* Mutant: vault values are asked for again when the step is taken.        *)
AskedAgain(n) ==
  [v \in DOMAIN resourceEnv[n] |->
     {IF a[1] = "vault" THEN <<"vault", a[2], vault[a[2]]>> ELSE a :
        a \in resourceEnv[n][v]}]

ResolvedEnv(n) == resourceEnv[n]

DeployResource(n) ==
  /\ Ready(n) /\ IsResource(n)
  /\ TakeStep(n, ResolvedEnv(n))
  /\ UNCHANGED <<specs, vault, store, progress, resolving, resolved>>

StartApplication(n) == Ready(n) /\ IsApplication(n) /\ Start(n)

DeployApplication ==
  /\ phase = "steps" /\ EnvRendered
  /\ TakeStep(target, TargetEnv)
  /\ target' = None /\ drawn' = None
  /\ UNCHANGED <<specs, vault, store, progress, resolved>>

-----------------------------------------------------------------------------
(***************************************************************************)
(* Between deploys, and at any time.                                       *)
(***************************************************************************)

EditManifests ==
  /\ Ended
  /\ specs' \in Edits /\ specs' # specs
  /\ phase' = "idle" /\ filter' = All /\ cause' = ""
  /\ UNCHANGED <<vault, store, resolving, resolved, steps, holds>>

(* The containers of a team go, its secrets stay.                          *)
Teardown(team) ==
  /\ Ended
  /\ LET gone == {c \in DOMAIN holds : c[1] = team}
     IN /\ gone # {}
        /\ holds' = [c \in DOMAIN holds \ gone |-> holds[c]]
  /\ phase' = "idle" /\ filter' = All /\ cause' = ""
  /\ UNCHANGED <<specs, vault, store, resolving, resolved, steps>>

VaultChanges(p) ==
  /\ vault[p] < MaxVersion
  /\ vault' = [vault EXCEPT ![p] = @ + 1]
  /\ UNCHANGED <<specs, store, progress, resolving, resolved, steps, holds>>

Next ==
  \/ \E f \in Filters(S) : Deploy(f)
  \/ \E n \in DOMAIN S :
       StartResource(n) \/ DeployResource(n) \/ StartApplication(n)
  \/ \E v \in Todo :
       \/ DrawStatic(v) \/ DrawReference(v) \/ UnknownReference(v)
       \/ DrawVault(v) \/ VaultFails(v) \/ ReuseSecret(v) \/ GenerateSecret(v)
  \/ SaveTeam
  \/ EnvFails \/ OutputsFail \/ ResolveResource \/ AllResolved
  \/ DeployApplication \/ DeployDone \/ RunStops
  \/ EditManifests
  \/ \E team \in DOMAIN Registry : Teardown(team)
  \/ \E p \in Path : VaultChanges(p)

Spec == Init /\ [][Next]_vars

-----------------------------------------------------------------------------
(***************************************************************************)
(* Properties.                                                             *)
(***************************************************************************)

(* The state has its shape.  A resolved resource exports exactly the names *)
(* of its spec.outputs and has exactly the variables of its spec.env.      *)
TypeOK ==
  /\ secrets \in [SecretKey -> 0 .. minted] /\ minted \in 0 .. MaxMinted
  /\ vault \in [Path -> 1 .. MaxVersion]
  /\ phase \in {"idle", "resources", "steps", "done", "failed"}
  /\ cause \in {"", "order", "unknown", "vault", "cycle", "execute", "port",
               "stopped"}
  /\ filter \in Filters(S)
  /\ target # None => target \in DOMAIN S
                      /\ DOMAIN drawn \subseteq DOMAIN S[target].env
  /\ pending # None => pending.of \in Todo /\ pending.serial = minted
  /\ DOMAIN exports = DOMAIN resourceEnv
  /\ \A n \in DOMAIN exports :
       /\ DOMAIN exports[n] = DOMAIN S[n].outputs
       /\ DOMAIN resourceEnv[n] = DOMAIN S[n].env
  /\ steps \subseteq DOMAIN S

OnFile(value) == \A a \in value : a[1] = "secret" => secrets[a[2]] = a[3]

(* A secret any container was given, directly or through exports and       *)
(* templates, is the one on file: no failed write, stopped deploy, edit or *)
(* teardown makes the store forget or replace it.                          *)
SecretsOnFile ==
  \A c \in DOMAIN holds : \A v \in DOMAIN holds[c] : OnFile(holds[c][v])

(* After a complete deploy of everything, what a consumer reads from a     *)
(* variable a resource exports is what the resource's own container has,   *)
(* even when the vault changed between the two steps.                      *)
ConsumersMatch ==
  phase = "done" /\ filter = All =>
    \A c \in DOMAIN S : \A v \in EntriesOf(S[c], "read") :
       LET e == S[c].env[v]
       IN IsResource(e.of) /\ e.output \in BareOutputs(S[e.of])
                           /\ e.output \in DOMAIN S[e.of].env
          => holds[Container(c)][v] = holds[Container(e.of)][e.output]

Grants(n, c) ==
  \/ S[n].owner = S[c].owner
  \/ /\ \E dep \in S[c].needs : dep.on = n /\ dep.owner = S[n].owner
     /\ S[c].owner \in S[n].access
     /\ S[n].exposed

(* In a set that is being deployed, a manifest reads only what the other   *)
(* exports, and another team's only if that team exposes the manifest and  *)
(* lists the reader, who declares the dependency on the right owner.  The  *)
(* references enrichment does not recognise, and so does not check, never  *)
(* get a value.                                                            *)
ReadsGranted ==
  /\ phase # "idle" =>
       \A c \in DOMAIN S : \A v \in EntriesOf(S[c], "read") :
          LET e == S[c].env[v]
          IN Recognised(e) => /\ e.of \in DOMAIN S
                              /\ e.output \in Exported(S, e.of)
                              /\ Grants(e.of, c)
  /\ target # None =>
       \A v \in EntriesOf(S[target], "read") \cap DOMAIN drawn :
          Recognised(Entry(v))

(* Where a template refuses the dry run's placeholders the dry run fails,  *)
(* whatever a deploy would do.  Otherwise resolving a set the planner      *)
(* accepted fails where the dry run fails, or on the vault, a missing port *)
(* or a value a template refuses; a reference is unknown only if it lacks  *)
(* its name or output, and resources have no order only where the plan was *)
(* not sorted.                                                             *)
FailuresForeseen ==
  /\ phase = "done" =>
       \/ DryRunSucceeds(S, filter)
       \/ \E n \in DryRun(S, filter) : ~DryRunExecutes(S, n)
  /\ cause \in {"order", "unknown", "cycle"} => ~DryRunSucceeds(S, filter)
  /\ cause = "unknown" =>
       \E c \in DOMAIN S : \E v \in EntriesOf(S[c], "read") :
          ~Recognised(S[c].env[v])
  /\ cause = "order" => filter.kind = "one"

(* Of the names the planner finds in templates, "<no value>" reaches a      *)
(* container only for the port of a resource that has none and for a       *)
(* template that refers to itself.                                         *)
HolesExplained ==
  \A c \in DOMAIN holds : \A v \in DOMAIN holds[c] : \A a \in holds[c][v] :
     a[1] = "hole" => a[3] = a[4] \/ (IsResource(a[2]) /\ a[4] = "port")

(* In a set that is being deployed an artifact whose policy in force is    *)
(* Pinned names no fixed version, by tag, digest or spec.version, whatever *)
(* manifest, configuration or rule the policy comes from; except that a    *)
(* resource whose image is the default one may have a fixed version in the *)
(* type it is made from, which is not checked.                             *)
PinnedFloats ==
  phase # "idle" =>
    \A n \in DOMAIN S :
       EffectivePolicy(n, S[n], specs.policy) = "Pinned"
         => \/ ~NamesFixedVersion(Image(n, S[n]))
            \/ /\ IsResource(n) /\ NamesFixedVersion(S[n].type)
               /\ Image(n, S[n]) \in {S[n].type, DefaultImage(S[n])}
=============================================================================
