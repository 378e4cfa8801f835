------------------------------ MODULE Planning ------------------------------
(***************************************************************************)
(* What a set of manifests must satisfy before a deploy starts: the checks *)
(* of one manifest when its file is loaded (internal/manifest/validate.go),*)
(* those of planner.Plan on the whole set (planner/resolve.go, policy.go,  *)
(* templates.go), the coverage check of the enrichers and the filter.      *)
(*                                                                         *)
(* A manifest set S is a function from identities <<kind, name>> to        *)
(* manifests.  A manifest has an owner, an access list, exposed            *)
(* (networking.exposeToPlatform), needs (spec.dependencies: [on, owner]),  *)
(* env and outputs (functions from names to entries), port (whether        *)
(* spec.port is set), an image, and for a resource its type and version.   *)
(* An entry is [kind |-> "value"], "generated", "vault" (with its path),   *)
(* "read" (valueFrom: the identity it is of and the output) or "template"; *)
(* an output is "bare" or "template".  An image is [name, tag, digest,     *)
(* alias], the alias that of reg:<alias>/; a type is one, as it is written. *)
(* Of a template, ExtractFieldRefs (manifest/template.go) finds refs, the  *)
(* names in fields like {{.x}}; executing it reads the hidden ones too,    *)
(* like {{$.x}}.  A picky template executes on some values only: it may    *)
(* refuse the placeholders of a dry run ("dry"), or a value of a deploy    *)
(* ("live").                                                               *)
(* Collisions of host ports and of routes are in Publishing and Routing.   *)
(***************************************************************************)
EXTENDS Integers, FiniteSets

CONSTANTS
  Registry,  \* registered teams: [apps, resources] (0: no limit) and types
  Aliases    \* registry aliases of config.yml

Unset == ""  \* a field the manifest leaves out

Kind(n) == n[1]
IsApplication(n) == Kind(n) = "Application"
IsResource(n) == Kind(n) = "Resource"
Named(n) == n[2] # Unset
Resources(S) == {n \in DOMAIN S : IsResource(n)}

-----------------------------------------------------------------------------
(***************************************************************************)
(* Loading one file.                                                       *)
(***************************************************************************)

Builtins(n) == {"team", "name"} \cup (IF IsResource(n) THEN {"host", "port"}
                                      ELSE {})

ValidApplication(m) ==
  /\ m.port
  /\ \A v \in DOMAIN m.env : m.env[v].kind # "generated"

ReservedNames == {"host", "port", "team", "name"}

ValidResource(m) ==
  /\ DOMAIN m.env \cap ReservedNames = {} /\ Unset \notin DOMAIN m.outputs
  /\ \A o \in DOMAIN m.outputs :
       \/ m.outputs[o].kind = "template"
       \/ o \in DOMAIN m.env \cup {"host", "port"}

Valid(S) ==
  \A n \in DOMAIN S :
    /\ Named(n) /\ S[n].owner # Unset
    /\ IF IsResource(n) THEN ValidResource(S[n]) ELSE ValidApplication(S[n])

(* The image a resource gets when its manifest names none: its type as     *)
(* written, which may have a tag itself, or <type>:<version>.              *)
DefaultImage(m) ==
  IF m.version = Unset THEN m.type
  ELSE [name |-> m.type.name, tag |-> m.version,
        digest |-> m.type.digest, alias |-> m.type.alias]

Image(n, m) == IF IsResource(n) /\ m.image.name = Unset THEN DefaultImage(m)
                                                        ELSE m.image

-----------------------------------------------------------------------------
(***************************************************************************)
(* Resolve: dependencies, access, references.                              *)
(***************************************************************************)

(* Mutant: every team has access.                                          *)
HasAccessAlways(consumer, owner, access) == TRUE

HasAccess(consumer, owner, access) == consumer = owner \/ consumer \in access

DependencyOK(S, c, dep) ==
  /\ dep.on \in DOMAIN S
  /\ S[dep.on].owner = dep.owner
  /\ HasAccess(S[c].owner, dep.owner, S[dep.on].access)
  /\ S[c].owner = dep.owner \/ S[dep.on].exposed

Exported(S, n) == IF IsResource(n) THEN DOMAIN S[n].outputs
                                   ELSE {"host", "port"}

EntriesOf(m, kind) == {v \in DOMAIN m.env : m.env[v].kind = kind}

(* A reference to a manifest that is not in the set is left to enrichment. *)
ValueFromOK(S, m) ==
  /\ \A v \in EntriesOf(m, "vault") : m.env[v].path # Unset
  /\ \A v \in EntriesOf(m, "read") :
       m.env[v].of \in DOMAIN S => m.env[v].output \in Exported(S, m.env[v].of)

(* The templates' checks see the names found, not the hidden ones.         *)

(* Mutant: an application's templates may use host and port too.           *)
EnvTemplatesAsResource(n, m) ==
  \A v \in EntriesOf(m, "template") :
     m.env[v].refs \subseteq DOMAIN m.env \cup ReservedNames

EnvTemplatesOK(n, m) ==
  \A v \in EntriesOf(m, "template") :
     m.env[v].refs \subseteq DOMAIN m.env \cup Builtins(n)

TemplateOutputs(m) == {o \in DOMAIN m.outputs : m.outputs[o].kind = "template"}

OutputTemplatesOK(n, m) ==
  \A o \in TemplateOutputs(m) :
     m.outputs[o].refs \subseteq DOMAIN m.env \cup Builtins(n)

-----------------------------------------------------------------------------
(***************************************************************************)
(* Resolve: quotas and registry aliases.                                   *)
(***************************************************************************)

Within(count, limit) == limit = 0 \/ count <= limit

QuotaOK(S) ==
  \A team \in {S[n].owner : n \in DOMAIN S} :
     LET Of(kind) == {n \in DOMAIN S : S[n].owner = team /\ Kind(n) = kind}
     IN /\ team \in DOMAIN Registry
        /\ Within(Cardinality(Of("Application")), Registry[team].apps)
        /\ Within(Cardinality(Of("Resource")), Registry[team].resources)
        /\ \/ Registry[team].types = {}
           \/ \A n \in Of("Resource") : S[n].type \in Registry[team].types

AliasOK(n, m) == Image(n, m).alias \in Aliases \cup {Unset}

-----------------------------------------------------------------------------
(***************************************************************************)
(* Pull policies: the manifest's own, the configured default, or derived.  *)
(***************************************************************************)

EffectivePolicy(n, m, default) ==
  IF m.policy # Unset THEN m.policy
  ELSE IF default # Unset THEN default
  ELSE IF Image(n, m).digest \/ Image(n, m).tag \notin {Unset, "latest"}
       THEN "IfNotPresent" ELSE "Always"

NamesFixedVersion(image) ==
  image.digest \/ image.tag \notin {Unset, "latest"}

(* Neither the type as written nor type:version.                           *)
IsImageOverride(m, image) ==
  image # m.type /\ (m.version = Unset \/ image # DefaultImage(m))

(* Mutant: the default of config.yml is not consulted.                     *)
PolicyByManifest(n, m, default) ==
  LET policy == EffectivePolicy(n, m, Unset)
  IN IF IsResource(n)
     THEN policy = "Pinned" => m.version \in {Unset, "latest"}
     ELSE policy = "Pinned" => ~NamesFixedVersion(m.image)

PolicyOK(n, m, default) ==
  LET policy == EffectivePolicy(n, m, default)
  IN IF IsResource(n)
     THEN /\ policy # "Pinned" => m.version # Unset
          /\ policy = "Pinned" =>
               /\ m.version \in {Unset, "latest"}
               /\ IsImageOverride(m, Image(n, m)) => ~NamesFixedVersion(Image(n, m))
     ELSE policy = "Pinned" => ~NamesFixedVersion(m.image)

-----------------------------------------------------------------------------
(***************************************************************************)
(* Enrichment: every reference must be covered by an explicit dependency,  *)
(* looked up by kind and name alone, or stay inside the team.  A reference *)
(* without a name or an output is not recognised as one.                   *)
(***************************************************************************)

Recognised(e) == Named(e.of) /\ e.output # Unset

ReadsOf(m) ==
  {m.env[v].of : v \in {w \in EntriesOf(m, "read") : Recognised(m.env[w])}}

Explicit(m) == {dep.on : dep \in m.needs}

Covered(S, c, n) ==
  \/ n \in Explicit(S[c])
  \/ n \in DOMAIN S /\ S[n].owner = S[c].owner

EnrichmentOK(S) ==
  \A c \in DOMAIN S : \A n \in ReadsOf(S[c]) : Covered(S, c, n)

DependsOn(S) == [c \in DOMAIN S |-> Explicit(S[c]) \cup ReadsOf(S[c])]

(* A finite graph has a cycle exactly when some part of it has no first.   *)
Cyclic(N, G) == \E C \in (SUBSET N) \ {{}} : \A n \in C : G[n] \cap C # {}

-----------------------------------------------------------------------------
(***************************************************************************)
(* The filter: [kind |-> "all"], a team, or one application or resource.   *)
(***************************************************************************)

All == [kind |-> "all"]

Filters(S) ==
  {All} \cup [kind : {"team"}, name : {S[n].owner : n \in DOMAIN S}]
        \cup [kind : {"one"}, on : DOMAIN S]

Selected(S, filter) ==
  CASE filter.kind = "all"  -> DOMAIN S
    [] filter.kind = "team" -> {n \in DOMAIN S : S[n].owner = filter.name}
    [] filter.kind = "one"  -> {filter.on}

ResolveOK(S, default) ==
  /\ \A n \in DOMAIN S :
       /\ \A dep \in S[n].needs : DependencyOK(S, n, dep)
       /\ ValueFromOK(S, S[n])
       /\ EnvTemplatesOK(n, S[n])
       /\ OutputTemplatesOK(n, S[n])
       /\ AliasOK(n, S[n])
       /\ PolicyOK(n, S[n], default)
  /\ QuotaOK(S)

(* A plan for one artifact is one step: it is not ordered, so a cycle is   *)
(* not noticed.                                                            *)
Accepted(S, filter, default) ==
  /\ Valid(S)
  /\ filter \in Filters(S)
  /\ ResolveOK(S, default)
  /\ EnrichmentOK(S)
  /\ filter.kind # "one" => ~Cyclic(DOMAIN S, DependsOn(S))
=============================================================================
