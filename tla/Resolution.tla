----------------------------- MODULE Resolution -----------------------------
(***************************************************************************)
(* Environments and exports from manifests: internal/resolver/resolver.go, *)
(* and the same question asked of a dry run (dry_run_resolver.go).         *)
(*                                                                         *)
(* A value is the set of what it may be made of: <<"static", text>>,       *)
(* <<"secret", key, serial>>, <<"vault", path, version>>, <<builtin, n>>   *)
(* for a built-in of manifest n, or <<"hole", n, t, x>> for the            *)
(* "<no value>" that template t of n renders where x has no value,         *)
(* <<"unseen", n, t, x>> where x is hidden in it.                          *)
(***************************************************************************)
EXTENDS Planning

(* f with y as its value at x.                                             *)
With(f, x, y) == [z \in DOMAIN f \cup {x} |-> IF z = x THEN y ELSE f[z]]

(* g where it is defined, else f: maps.Copy(f, g).                         *)
Copied(f, g) ==
  [z \in DOMAIN f \cup DOMAIN g |-> IF z \in DOMAIN g THEN g[z] ELSE f[z]]

-----------------------------------------------------------------------------
(***************************************************************************)
(* The templates T of a manifest's env or outputs.  One is rendered after  *)
(* the siblings found in it, itself excepted; a name neither rendered nor  *)
(* in the context leaves a hole.  A sibling hidden in it may be rendered   *)
(* before it or after it.                                                  *)
(***************************************************************************)

Templates(entries) ==
  [t \in {x \in DOMAIN entries : entries[x].kind = "template"} |-> entries[t]]

Siblings(T) == [t \in DOMAIN T |-> (T[t].refs \cap DOMAIN T) \ {t}]

TemplateCycle(T) == Cyclic(DOMAIN T, Siblings(T))

AllRefs(T, t) == T[t].refs \cup T[t].hidden

(* The templates whose text may end up in that of t.                       *)
RenderedInto(T, t) ==
  {u \in DOMAIN T :
     \A C \in SUBSET DOMAIN T :
        /\ t \in C
        /\ \A c \in C : AllRefs(T, c) \cap DOMAIN T \subseteq C
        => u \in C}

Hole(n, T, t, x) == <<IF x \in T[t].refs THEN "hole" ELSE "unseen", n, t, x>>

RenderTemplates(n, T, context) ==
  LET Own(t) == UNION {IF x \in DOMAIN context THEN context[x]
                       ELSE {Hole(n, T, t, x)} :
                         x \in AllRefs(T, t) \ Siblings(T)[t]}
  IN [t \in DOMAIN T |-> UNION {Own(u) : u \in RenderedInto(T, t)}]

(* Execute may fail on the values of a dry run or of a deploy.             *)
Refuses(T, run) == \E t \in DOMAIN T : run \in T[t].picky

-----------------------------------------------------------------------------
(***************************************************************************)
(* One manifest.  drawn holds its values that are not templates.           *)
(***************************************************************************)

(* port has a value only when spec.port is set.                            *)
Context(n, m) ==
  [b \in Builtins(n) \ (IF m.port THEN {} ELSE {"port"}) |-> {<<b, n>>}]

EnvOf(n, m, drawn) ==
  Copied(drawn, RenderTemplates(n, Templates(m.env),
                                Copied(Context(n, m), drawn)))

BareOutputs(m) == DOMAIN m.outputs \ TemplateOutputs(m)

PortMissing(m, env) == "port" \in BareOutputs(m) \ DOMAIN env /\ ~m.port

ComputeExports(n, m, env) ==
  LET context == Copied(Context(n, m), env)
  IN Copied([o \in BareOutputs(m) |-> context[o]],
            RenderTemplates(n, Templates(m.outputs), context))

(* What valueFrom may find: exports of the resources resolved so far, and  *)
(* the built-ins of the applications of the set.                           *)
IsKnown(S, exports, e) ==
  IF IsResource(e.of) THEN e.of \in DOMAIN exports
                           /\ e.output \in DOMAIN exports[e.of]
  ELSE e.of \in DOMAIN S /\ e.output \in {"host", "port"}

LookupValueFrom(exports, e) ==
  IF IsResource(e.of) THEN exports[e.of][e.output] ELSE {<<e.output, e.of>>}

-----------------------------------------------------------------------------
(***************************************************************************)
(* A dry run walks the same steps with placeholders for secrets, vault     *)
(* values and ports: references, templates and the order of the resources  *)
(* are left to fail.                                                       *)
(***************************************************************************)

(* The resources an enriched resource depends on, within the set.          *)
ResourceGraph(S) ==
  [n \in Resources(S) |-> DependsOn(S)[n] \cap Resources(S)]

DryRunResolves(S, n) ==
  /\ \A v \in EntriesOf(S[n], "read") :
       LET e == S[n].env[v]
       IN e.of \in DOMAIN S /\ e.output \in Exported(S, e.of)
  /\ ~TemplateCycle(Templates(S[n].env))
  /\ IsResource(n) => ~TemplateCycle(Templates(S[n].outputs))

DryRunExecutes(S, n) ==
  /\ ~Refuses(Templates(S[n].env), "dry")
  /\ IsResource(n) => ~Refuses(Templates(S[n].outputs), "dry")

(* Every resource of the set is resolved, and the applications selected.   *)
DryRun(S, filter) == Resources(S) \cup Selected(S, filter)

(* Mutant: only what the filter selects is resolved.                       *)
DryRunOfSelected(S, filter) ==
  /\ ~Cyclic(Resources(S), ResourceGraph(S))
  /\ \A n \in Selected(S, filter) : DryRunResolves(S, n) /\ DryRunExecutes(S, n)

DryRunSucceeds(S, filter) ==
  /\ ~Cyclic(Resources(S), ResourceGraph(S))
  /\ \A n \in DryRun(S, filter) : DryRunResolves(S, n) /\ DryRunExecutes(S, n)
=============================================================================
