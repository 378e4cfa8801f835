---------------------------- MODULE ValuesProofs ----------------------------
(***************************************************************************)
(* What values are made of, for all manifests and every interleaving of    *)
(* deploys, failures, edits and vault changes.  The resolver only passes   *)
(* on what its inputs are made of, plus built-ins and holes; so it is      *)
(* enough to look at where a secret or a hole comes from.                  *)
(***************************************************************************)
EXTENDS Values, TLAPS

(* A secret that is on file; a hole that is explained.                     *)
GoodAtom(a, file) ==
  /\ a[1] = "secret" => a[2] \in SecretKey /\ a[3] # 0 /\ file[a[2]] = a[3]
  /\ a[1] = "hole" => a[3] = a[4] \/ (IsResource(a[2]) /\ a[4] = "port")

Good(value, file) == \A a \in value : GoodAtom(a, file)

AllGood(f, file) == \A x \in DOMAIN f : Good(f[x], file)

-----------------------------------------------------------------------------
(***************************************************************************)
(* The operators of the resolver keep values good.                         *)
(***************************************************************************)

LEMMA BuiltinGood ==
  ASSUME NEW file, NEW b \in ReservedNames, NEW n PROVE Good({<<b, n>>}, file)
  BY DEF Good, GoodAtom, ReservedNames

LEMMA HoleGood ==
  ASSUME NEW file, NEW n, NEW t, NEW x, x = t \/ (IsResource(n) /\ x = "port")
  PROVE  Good({<<"hole", n, t, x>>}, file)
  BY DEF Good, GoodAtom

LEMMA EmptyGood ==
  ASSUME NEW file PROVE AllGood(None, file)
  BY DEF AllGood, None

LEMMA WithGood ==
  ASSUME NEW file, NEW f, NEW x, NEW y, AllGood(f, file), Good(y, file)
  PROVE  AllGood(With(f, x, y), file)
  BY DEF AllGood, With

LEMMA CopiedGood ==
  ASSUME NEW file, NEW f, NEW g, AllGood(f, file), AllGood(g, file)
  PROVE  AllGood(Copied(f, g), file)
  BY DEF AllGood, Copied

LEMMA ContextGood ==
  ASSUME NEW file, NEW n, NEW m PROVE AllGood(Context(n, m), file)
PROOF
<1>1. DOMAIN Context(n, m) \subseteq ReservedNames
  BY DEF Context, Builtins, ReservedNames
<1>2. \A b \in DOMAIN Context(n, m) : Context(n, m)[b] = {<<b, n>>}
  BY DEF Context
<1> QED
  BY <1>1, <1>2, BuiltinGood DEF AllGood

(* A name found in a template has a value, or is the template itself, or  *)
(* is the port of a resource.                                              *)
Explained(n, T, context) ==
  \A t \in DOMAIN T : \A x \in T[t].refs \ Siblings(T)[t] :
     \/ x \in DOMAIN context
     \/ x = t \/ (IsResource(n) /\ x = "port")

LEMMA RenderedGood ==
  ASSUME NEW file, NEW n, NEW T, NEW context,
         AllGood(context, file), Explained(n, T, context)
  PROVE  /\ DOMAIN RenderTemplates(n, T, context) = DOMAIN T
         /\ AllGood(RenderTemplates(n, T, context), file)
PROOF
<1> DEFINE Filled(t, x) == IF x \in DOMAIN context THEN context[x]
                           ELSE {Hole(n, T, t, x)}
           Own(t) == UNION {Filled(t, x) : x \in AllRefs(T, t) \ Siblings(T)[t]}
<1>1. RenderTemplates(n, T, context) =
        [t \in DOMAIN T |-> UNION {Own(u) : u \in RenderedInto(T, t)}]
  BY DEF RenderTemplates
<1>2. ASSUME NEW t \in DOMAIN T, NEW a \in Own(t)
      PROVE  GoodAtom(a, file)
  <2>1. PICK x \in AllRefs(T, t) \ Siblings(T)[t] : a \in Filled(t, x)
    BY <1>2
  <2>2. CASE x \in DOMAIN context
    BY <2>1, <2>2 DEF AllGood, Good
  <2>3. CASE x \notin DOMAIN context /\ x \in T[t].refs
    <3>1. x = t \/ (IsResource(n) /\ x = "port")
      BY <2>1, <2>3 DEF Explained
    <3> QED
      BY <2>1, <2>3, <3>1, HoleGood DEF Good, Hole
  <2>4. CASE x \notin DOMAIN context /\ x \notin T[t].refs
    BY <2>1, <2>4 DEF GoodAtom, Hole
  <2> QED
    BY <2>2, <2>3, <2>4
<1>3. \A t \in DOMAIN T : RenderedInto(T, t) \subseteq DOMAIN T
  BY DEF RenderedInto
<1> HIDE DEF Own
<1> QED
  BY <1>1, <1>2, <1>3 DEF AllGood, Good

LEMMA CopiedDomain ==
  ASSUME NEW f, NEW g
  PROVE  DOMAIN Copied(f, g) = DOMAIN f \cup DOMAIN g
  BY DEF Copied

LEMMA TemplatesDomain ==
  ASSUME NEW entries
  PROVE  /\ DOMAIN Templates(entries) =
              {x \in DOMAIN entries : entries[x].kind = "template"}
         /\ \A t \in DOMAIN Templates(entries) :
              Templates(entries)[t] = entries[t]
  BY DEF Templates

(* The names of a manifest that was checked: those of its entries and the  *)
(* built-ins, of which only a resource's port may have no value.           *)
LEMMA BuiltinKnown ==
  ASSUME NEW n, NEW m, NEW x \in Builtins(n), x \notin DOMAIN Context(n, m)
  PROVE  IsResource(n) /\ x = "port"
  BY DEF Context, Builtins

LEMMA EnvGood ==
  ASSUME NEW file, NEW n, NEW m, NEW values, AllGood(values, file), EnvTemplatesOK(n, m),
         {v \in DOMAIN m.env : m.env[v].kind # "template"} \subseteq DOMAIN values
  PROVE  AllGood(EnvOf(n, m, values), file) /\ DOMAIN m.env \subseteq DOMAIN EnvOf(n, m, values)
PROOF
<1> DEFINE context == Copied(Context(n, m), values)
           rendered == RenderTemplates(n, Templates(m.env), context)
<1>1. AllGood(context, file)
  BY ContextGood, CopiedGood
<1>2. DOMAIN context = DOMAIN Context(n, m) \cup DOMAIN values
  BY CopiedDomain
<1>3. Explained(n, Templates(m.env), context)
  <2> SUFFICES ASSUME NEW t \in DOMAIN Templates(m.env),
                      NEW x \in Templates(m.env)[t].refs
                                  \ Siblings(Templates(m.env))[t],
                      x \notin DOMAIN context
               PROVE  x = t \/ (IsResource(n) /\ x = "port")
    BY DEF Explained
  <2>1. x \in DOMAIN m.env \cup Builtins(n)
    BY TemplatesDomain DEF EnvTemplatesOK, EntriesOf
  <2>2. CASE x \in DOMAIN m.env
    <3>1. x \in DOMAIN Templates(m.env)
      BY <1>2, <2>2, TemplatesDomain
    <3> QED
      BY <3>1 DEF Siblings
  <2>3. CASE x \in Builtins(n)
    BY <1>2, <2>3, BuiltinKnown
  <2> QED
    BY <2>1, <2>2, <2>3
<1> HIDE DEF context
<1>4. AllGood(rendered, file) /\ DOMAIN rendered = DOMAIN Templates(m.env)
  BY <1>1, <1>3, RenderedGood
<1>5. EnvOf(n, m, values) = Copied(values, rendered)
  BY DEF EnvOf, context
<1> HIDE DEF rendered
<1> QED
  <2>1. AllGood(EnvOf(n, m, values), file)
    BY <1>4, <1>5, CopiedGood
  <2>2. DOMAIN EnvOf(n, m, values) = DOMAIN values \cup DOMAIN Templates(m.env)
    BY <1>4, <1>5, CopiedDomain
  <2>3. DOMAIN m.env \subseteq DOMAIN values \cup DOMAIN Templates(m.env)
    BY TemplatesDomain
  <2> QED
    BY <2>1, <2>2, <2>3

LEMMA ExportsGood ==
  ASSUME NEW file, NEW n, NEW m, NEW env, IsResource(n), AllGood(env, file),
         ValidResource(m), OutputTemplatesOK(n, m), ~PortMissing(m, env),
         DOMAIN m.env \subseteq DOMAIN env
  PROVE  AllGood(ComputeExports(n, m, env), file)
PROOF
<1> DEFINE context == Copied(Context(n, m), env)
           bare == [o \in BareOutputs(m) |-> context[o]]
           rendered == RenderTemplates(n, Templates(m.outputs), context)
<1>1. AllGood(context, file)
  BY ContextGood, CopiedGood
<1>2. DOMAIN context = DOMAIN Context(n, m) \cup DOMAIN env
  BY CopiedDomain
<1>3. BareOutputs(m) \subseteq DOMAIN context
  <2> SUFFICES ASSUME NEW o \in BareOutputs(m), o \notin DOMAIN env
               PROVE  o \in DOMAIN Context(n, m)
    BY <1>2
  <2>1. o = "host" \/ o = "port"
    BY DEF BareOutputs, TemplateOutputs, ValidResource
  <2>2. o = "port" => m.port
    BY DEF PortMissing
  <2> QED
    BY <2>1, <2>2 DEF Context, Builtins
<1>4. AllGood(bare, file)
  BY <1>1, <1>3 DEF AllGood
<1>5. Explained(n, Templates(m.outputs), context)
  <2> SUFFICES ASSUME NEW t \in DOMAIN Templates(m.outputs),
                      NEW x \in Templates(m.outputs)[t].refs, x \notin DOMAIN context
               PROVE  IsResource(n) /\ x = "port"
    BY DEF Explained
  <2>1. x \in DOMAIN m.env \cup Builtins(n)
    BY TemplatesDomain DEF OutputTemplatesOK, TemplateOutputs
  <2> QED
    BY <1>2, <2>1, BuiltinKnown
<1>6. ComputeExports(n, m, env) = Copied(bare, rendered)
  BY DEF ComputeExports
<1> HIDE DEF context, bare
<1>7. AllGood(rendered, file)
  BY <1>1, <1>5, RenderedGood
<1> HIDE DEF rendered
<1> QED
  BY <1>4, <1>6, <1>7, CopiedGood

-----------------------------------------------------------------------------
(***************************************************************************)
(* The inductive invariant: the set being deployed passed the planner and  *)
(* its steps find every resource resolved, the secret to be written is not *)
(* on file, and all values are good.                                       *)
(***************************************************************************)

Clean(F, file) == \A x \in DOMAIN F : AllGood(F[x], file)

Shape ==
  /\ specs \in Library \cup Edits
  /\ secrets \in [SecretKey -> Nat] /\ minted \in Nat
  /\ phase \in {"idle", "resources", "steps", "done", "failed"}

Checked ==
  /\ phase # "idle" =>
       Valid(S) /\ ResolveOK(S, specs.policy) /\ EnrichmentOK(S)
  /\ phase = "steps" => Resources(S) \subseteq DOMAIN resourceEnv

Targeted ==
  target # None =>
    /\ phase \in {"resources", "steps"}
    /\ target \in DOMAIN S
    /\ phase = "resources" => IsResource(target)

Unwritten ==
  pending # None =>
    /\ target # None
    /\ pending.of \in EntriesOf(S[target], "generated")
    /\ secrets[Key(pending.of)] = 0
    /\ pending.serial \in Nat \ {0}

AllClean ==
  /\ AllGood(drawn, secrets)
  /\ Clean(exports, secrets)
  /\ Clean(resourceEnv, secrets)
  /\ Clean(holds, secrets)

Inv == Shape /\ Checked /\ Targeted /\ Unwritten /\ AllClean

LEMMA WithClean ==
  ASSUME NEW file, NEW F, NEW x, NEW f, Clean(F, file), AllGood(f, file)
  PROVE  Clean(With(F, x, f), file)
  BY DEF Clean, With

LEMMA EmptyClean ==
  ASSUME NEW file PROVE Clean(None, file)
  BY DEF Clean, None

(* A secret written where there was none leaves every value good.          *)
LEMMA WrittenGood ==
  ASSUME NEW file \in [SecretKey -> Nat], NEW k \in SecretKey, NEW serial,
         file[k] = 0, NEW f, AllGood(f, file)
  PROVE  AllGood(f, [file EXCEPT ![k] = serial])
PROOF
<1> DEFINE next == [file EXCEPT ![k] = serial]
<1>1. \A j \in SecretKey : j # k => next[j] = file[j]
  OBVIOUS
<1> HIDE DEF next
<1>2. ASSUME NEW a, GoodAtom(a, file) PROVE GoodAtom(a, next)
  BY <1>1, <1>2 DEF GoodAtom
<1>3. AllGood(f, next)
  BY <1>2 DEF AllGood, Good
<1> QED
  BY <1>3 DEF next

LEMMA WrittenClean ==
  ASSUME NEW file \in [SecretKey -> Nat], NEW k \in SecretKey, NEW serial,
         file[k] = 0, NEW F, Clean(F, file)
  PROVE  Clean(F, [file EXCEPT ![k] = serial])
  BY WrittenGood DEF Clean

(* Only resources have generated entries, and their keys are known.        *)
LEMMA KeyKnown ==
  ASSUME Inv, target # None, NEW v \in EntriesOf(S[target], "generated")
  PROVE  Key(v) \in SecretKey
PROOF
<1>1. target \in DOMAIN S /\ Valid(S)
  BY DEF Inv, Targeted, Checked
<1>2. IsResource(target)
  BY <1>1 DEF Valid, ValidApplication, EntriesOf
<1> QED
  BY <1>1, <1>2, ValuesAssumption DEF Inv, Shape, Key, S, Resources

(* The environment of the manifest that has all its values.                *)
LEMMA TargetGood ==
  ASSUME Inv, AllDrawn
  PROVE  /\ AllGood(TargetEnv, secrets)
         /\ DOMAIN S[target].env \subseteq DOMAIN TargetEnv
PROOF
<1>1. target \in DOMAIN S /\ ResolveOK(S, specs.policy)
  BY DEF Inv, Targeted, Checked, AllDrawn
<1>2. EnvTemplatesOK(target, S[target])
  BY <1>1 DEF ResolveOK
<1>3. {v \in DOMAIN S[target].env : S[target].env[v].kind # "template"}
        \subseteq DOMAIN drawn
  BY DEF AllDrawn, Todo
<1> QED
  BY <1>2, <1>3, EnvGood DEF TargetEnv, Inv, AllClean

-----------------------------------------------------------------------------
(***************************************************************************)
(* Kinds of steps.                                                         *)
(***************************************************************************)

(* A run that ends keeps only what is on disk and in the containers.       *)
LEMMA EndKeeps ==
  ASSUME Inv, phase # "idle", phase' \in {"done", "failed"}, Cleared,
         UNCHANGED <<specs, secrets, minted, holds>>
  PROVE  Inv'
PROOF
<1>1. Shape'
  BY DEF Inv, Shape
<1>2. Checked'
  BY DEF Inv, Checked, S
<1>3. Targeted' /\ Unwritten'
  BY DEF Cleared, Targeted, Unwritten
<1>4. AllClean'
  BY EmptyGood, EmptyClean DEF Inv, AllClean, Cleared
<1> QED
  BY <1>1, <1>2, <1>3, <1>4 DEF Inv

LEMMA DrawKeeps ==
  ASSUME Inv, NEW v, NEW value, Good(value, secrets), Draw(v, value),
         pending = None,
         UNCHANGED <<specs, store, progress, target, resolved, holds>>
  PROVE  Inv'
PROOF
<1> USE DEF store, progress, resolved
<1>1. Shape' /\ Checked' /\ Targeted'
  BY DEF Inv, Shape, Checked, Targeted, S
<1>2. Unwritten'
  BY DEF Unwritten
<1>3. AllClean'
  BY WithGood DEF Inv, AllClean, Draw
<1> QED
  BY <1>1, <1>2, <1>3 DEF Inv

LEMMA StartKeeps ==
  ASSUME Inv, NEW n \in DOMAIN S, phase \in {"resources", "steps"},
         phase = "resources" => IsResource(n), target = None, Start(n)
  PROVE  Inv'
PROOF
<1> USE DEF store, progress, resolved, Start
<1>1. Shape' /\ Checked' /\ Targeted'
  BY DEF Inv, Shape, Checked, Targeted, S
<1>2. Unwritten'
  BY DEF Inv, Unwritten
<1>3. AllClean'
  BY EmptyGood DEF Inv, AllClean
<1> QED
  BY <1>1, <1>2, <1>3 DEF Inv

(* A step that changes neither the phase nor what is being resolved.       *)
LEMMA TakeKeeps ==
  ASSUME Inv, NEW n, NEW env, TakeStep(n, env), AllGood(env, secrets),
         UNCHANGED <<specs, store, progress, resolved>>,
         \/ UNCHANGED resolving
         \/ pending = None /\ target' = None /\ drawn' = None
  PROVE  Inv'
PROOF
<1> USE DEF store, progress, resolved, resolving
<1>1. Shape' /\ Checked' /\ Targeted'
  BY DEF Inv, Shape, Checked, Targeted, S
<1>2. Unwritten'
  BY DEF Inv, Unwritten, Key, S
<1>3. Clean(holds, secrets)'
  BY WithClean DEF Inv, AllClean, TakeStep
<1>4. AllClean'
  BY <1>3, EmptyGood DEF Inv, AllClean
<1> QED
  BY <1>1, <1>2, <1>4 DEF Inv

-----------------------------------------------------------------------------
LEMMA InitInv == ASSUME Init PROVE Inv
PROOF
<1>1. Shape
  BY DEF Init, Shape
<1>2. Checked /\ Targeted /\ Unwritten
  BY DEF Init, Checked, Targeted, Unwritten
<1>3. AllClean
  BY EmptyGood, EmptyClean DEF Init, AllClean
<1> QED
  BY <1>1, <1>2, <1>3 DEF Inv

LEMMA Failing ==
  ASSUME Inv, phase # "idle", NEW why, Fails(why) PROVE Inv'
  BY EndKeeps DEF Fails

LEMMA DeployKeeps ==
  ASSUME Inv, NEW f, Deploy(f) PROVE Inv'
PROOF
<1> USE DEF Deploy, store, resolving, resolved
<1>1. Shape'
  BY DEF Inv, Shape
<1>2. Checked'
  BY DEF Accepted, Checked, S
<1>3. target = None
  BY DEF Inv, Targeted, Ended
<1>4. Targeted'
  BY <1>3 DEF Targeted
<1>5. Unwritten'
  BY DEF Inv, Unwritten, Key, S
<1>6. AllClean'
  BY DEF Inv, AllClean
<1> QED
  BY <1>1, <1>2, <1>4, <1>5, <1>6 DEF Inv

(* Every way of drawing a value draws a good one.                          *)
LEMMA DrawingKeeps ==
  ASSUME Inv, NEW v \in Todo,
         DrawStatic(v) \/ DrawReference(v) \/ DrawVault(v) \/ ReuseSecret(v)
  PROVE  Inv'
PROOF
<1>1. CASE DrawStatic(v)
  <2>1. Good({<<"static", Entry(v).text>>}, secrets)
    BY DEF Good, GoodAtom
  <2> QED
    BY <1>1, <2>1, DrawKeeps DEF DrawStatic
<1>2. CASE DrawReference(v)
  <2>1. CASE IsResource(Entry(v).of)
    <3>1. Good(exports[Entry(v).of][Entry(v).output], secrets)
      BY <1>2, <2>1 DEF DrawReference, IsKnown, Inv, AllClean, Clean, AllGood
    <3> QED
      BY <1>2, <2>1, <3>1, DrawKeeps DEF DrawReference, LookupValueFrom
  <2>2. CASE ~IsResource(Entry(v).of)
    <3>1. Entry(v).output \in ReservedNames
      BY <1>2, <2>2 DEF DrawReference, IsKnown, ReservedNames
    <3>2. Good({<<Entry(v).output, Entry(v).of>>}, secrets)
      BY <3>1, BuiltinGood
    <3> QED
      BY <1>2, <2>2, <3>2, DrawKeeps DEF DrawReference, LookupValueFrom
  <2> QED
    BY <2>1, <2>2
<1>3. CASE DrawVault(v)
  <2>1. Good({<<"vault", Entry(v).path, vault[Entry(v).path]>>}, secrets)
    BY DEF Good, GoodAtom
  <2> QED
    BY <1>3, <2>1, DrawKeeps DEF DrawVault
<1>4. CASE ReuseSecret(v)
  <2>1. target # None /\ v \in EntriesOf(S[target], "generated")
    BY <1>4 DEF Todo, EntriesOf, Entry, ReuseSecret
  <2>2. Key(v) \in SecretKey
    BY <2>1, KeyKnown
  <2>3. Good({<<"secret", Key(v), secrets[Key(v)]>>}, secrets)
    BY <1>4, <2>2 DEF Good, GoodAtom, ReuseSecret
  <2> QED
    BY <1>4, <2>3, DrawKeeps DEF ReuseSecret
<1> QED
  BY <1>1, <1>2, <1>3, <1>4

LEMMA GenerateKeeps ==
  ASSUME Inv, NEW v \in Todo, GenerateSecret(v) PROVE Inv'
PROOF
<1> USE DEF GenerateSecret, progress, resolving, resolved
<1>1. Shape'
  BY DEF Inv, Shape
<1>2. Checked' /\ Targeted'
  BY DEF Inv, Checked, Targeted, S
<1>3. Unwritten'
  <2>1. target # None /\ v \in EntriesOf(S[target], "generated")
    BY DEF Todo, EntriesOf, Entry
  <2>2. pending'.of = v /\ pending'.serial = minted + 1
    OBVIOUS
  <2>3. target' = target /\ S' = S /\ secrets' = secrets
    BY DEF S
  <2>4. Key(pending.of)' = Key(v)
    BY <2>2, <2>3 DEF Key
  <2>5. minted + 1 \in Nat \ {0}
    BY DEF Inv, Shape
  <2> QED
    BY <2>1, <2>2, <2>3, <2>4, <2>5 DEF Unwritten
<1>4. AllClean'
  BY DEF Inv, AllClean
<1> QED
  BY <1>1, <1>2, <1>3, <1>4 DEF Inv

LEMMA SaveKeeps ==
  ASSUME Inv, SaveTeam PROVE Inv'
PROOF
<1> DEFINE k == Key(pending.of)
           value == {<<"secret", k, pending.serial>>}
<1>1. /\ k \in SecretKey /\ secrets[k] = 0 /\ pending.serial \in Nat \ {0}
      /\ secrets \in [SecretKey -> Nat]
  BY KeyKnown DEF SaveTeam, Inv, Unwritten, Shape
<1>2. secrets' = [secrets EXCEPT ![k] = pending.serial]
  BY DEF SaveTeam, Saved
<1>3. Shape'
  <2>1. secrets' \in [SecretKey -> Nat]
    BY <1>1, <1>2
  <2> QED
    BY <2>1 DEF SaveTeam, progress, Inv, Shape
<1>4. Checked' /\ Targeted'
  BY DEF SaveTeam, progress, resolved, Inv, Checked, Targeted, S
<1>5. Unwritten'
  BY DEF SaveTeam, Unwritten
<1>6. drawn' = With(drawn, pending.of, value)
  BY DEF SaveTeam, Draw
<1>7. Good(value, secrets')
  <2>1. secrets'[k] = pending.serial
    BY <1>1, <1>2
  <2> QED
    BY <1>1, <2>1 DEF Good, GoodAtom
<1> HIDE DEF k, value
<1>8. AllGood(drawn, secrets')
  BY <1>1, <1>2, WrittenGood DEF Inv, AllClean
<1>9. AllGood(drawn', secrets')
  BY <1>6, <1>7, <1>8, WithGood
<1>10. /\ Clean(exports, secrets') /\ Clean(resourceEnv, secrets')
       /\ Clean(holds, secrets')
  BY <1>1, <1>2, WrittenClean DEF Inv, AllClean
<1>11. AllClean'
  BY <1>9, <1>10 DEF AllClean, SaveTeam, resolved
<1> QED
  BY <1>3, <1>4, <1>5, <1>11 DEF Inv

LEMMA ResolveKeeps ==
  ASSUME Inv, ResolveResource PROVE Inv'
PROOF
<1> USE DEF ResolveResource, store, progress
<1>1. Shape' /\ Checked' /\ Targeted'
  BY DEF Inv, Shape, Checked, Targeted, S
<1>2. Unwritten'
  BY DEF Unwritten, EnvRendered, AllDrawn
<1>3. /\ AllGood(TargetEnv, secrets)
      /\ DOMAIN S[target].env \subseteq DOMAIN TargetEnv
  BY TargetGood DEF EnvRendered
<1>4. /\ target \in DOMAIN S /\ IsResource(target)
      /\ Valid(S) /\ ResolveOK(S, specs.policy)
  BY DEF Inv, Targeted, Checked, EnvRendered, AllDrawn
<1>5. ValidResource(S[target]) /\ OutputTemplatesOK(target, S[target])
  BY <1>4 DEF Valid, ResolveOK
<1>6. AllGood(Exports(target, S[target], TargetEnv), secrets)
  BY <1>3, <1>4, <1>5, ExportsGood DEF Exports
<1>7. Clean(exports', secrets)
  BY <1>6, WithClean DEF Inv, AllClean
<1>8. Clean(resourceEnv', secrets)
  BY <1>3, WithClean DEF Inv, AllClean
<1>9. AllClean'
  BY <1>7, <1>8, EmptyGood DEF Inv, AllClean
<1> QED
  BY <1>1, <1>2, <1>9 DEF Inv

LEMMA StepsKeep ==
  ASSUME Inv,
         \/ AllResolved
         \/ DeployApplication
         \/ \E n \in DOMAIN S :
              StartResource(n) \/ DeployResource(n) \/ StartApplication(n)
  PROVE  Inv'
PROOF
<1>1. CASE AllResolved
  <2> USE <1>1 DEF AllResolved, store, resolving, resolved
  <2>1. Shape' /\ Checked' /\ Targeted'
    BY DEF Inv, Shape, Checked, Targeted, S
  <2>2. Unwritten' /\ AllClean'
    BY DEF Inv, Unwritten, AllClean
  <2> QED
    BY <2>1, <2>2 DEF Inv
<1>2. CASE DeployApplication
  <2>1. AllGood(TargetEnv, secrets) /\ pending = None
    BY <1>2, TargetGood DEF DeployApplication, EnvRendered, AllDrawn
  <2> QED
    BY <1>2, <2>1, TakeKeeps DEF DeployApplication
<1>3. ASSUME NEW n \in DOMAIN S, StartResource(n) PROVE Inv'
  BY <1>3, StartKeeps DEF StartResource, Resources
<1>4. ASSUME NEW n \in DOMAIN S, StartApplication(n) PROVE Inv'
  BY <1>4, StartKeeps DEF StartApplication, Ready
<1>5. ASSUME NEW n \in DOMAIN S, DeployResource(n) PROVE Inv'
  <2>1. AllGood(ResolvedEnv(n), secrets)
    BY <1>5 DEF DeployResource, Ready, ResolvedEnv, Resources,
                Inv, Checked, AllClean, Clean
  <2> QED
    BY <1>5, <2>1, TakeKeeps DEF DeployResource
<1> QED
  BY <1>1, <1>2, <1>3, <1>4, <1>5

LEMMA StepInv ==
  ASSUME Inv, [Next]_vars PROVE Inv'
PROOF
<1>1. ASSUME NEW f \in Filters(S), Deploy(f) PROVE Inv'
  BY <1>1, DeployKeeps
<1>2. CASE \E n \in DOMAIN S :
              StartResource(n) \/ DeployResource(n) \/ StartApplication(n)
  BY <1>2, StepsKeep
<1>3. ASSUME NEW v \in Todo, UnknownReference(v) \/ VaultFails(v)
      PROVE  Inv'
  <2>1. phase # "idle"
    BY DEF Todo, Inv, Targeted
  <2> QED
    BY <1>3, <2>1, Failing DEF UnknownReference, VaultFails
<1>4. CASE EnvFails
  <2>1. phase # "idle"
    BY <1>4 DEF EnvFails, AllDrawn, Inv, Targeted
  <2> QED
    BY <1>4, <2>1, Failing DEF EnvFails, RenderFails
<1>5. CASE OutputsFail
  BY <1>5, Failing DEF OutputsFail, RenderFails
<1>6. CASE RunStops
  BY <1>6, Failing DEF RunStops, Ended
<1>7. CASE DeployDone
  BY <1>7, EndKeeps DEF DeployDone
<1>8. CASE EditManifests
  <2> USE <1>8 DEF EditManifests, store, resolving, resolved
  <2>1. target = None
    BY DEF Ended, Inv, Targeted
  <2>2. Shape' /\ Checked' /\ Targeted'
    BY <2>1 DEF Inv, Shape, Checked, Targeted
  <2>3. Unwritten' /\ AllClean'
    BY <2>1 DEF Inv, Unwritten, AllClean
  <2> QED
    BY <2>2, <2>3 DEF Inv
<1>9. ASSUME NEW team, Teardown(team) PROVE Inv'
  <2> USE <1>9 DEF Teardown, store, resolving, resolved
  <2>1. target = None
    BY DEF Ended, Inv, Targeted
  <2>2. Shape' /\ Checked' /\ Targeted'
    BY <2>1 DEF Inv, Shape, Checked, Targeted
  <2>3. Unwritten'
    BY <2>1 DEF Inv, Unwritten
  <2>4. Clean(holds', secrets)
    BY DEF Inv, AllClean, Clean
  <2>5. AllClean'
    BY <2>4 DEF Inv, AllClean
  <2> QED
    BY <2>2, <2>3, <2>5 DEF Inv
<1>10. CASE (\E p \in Path : VaultChanges(p)) \/ UNCHANGED vars
  <2> USE <1>10 DEF VaultChanges, vars, store, progress, resolving, resolved
  <2>1. Shape' /\ Checked' /\ Targeted'
    BY DEF Inv, Shape, Checked, Targeted, S
  <2>2. Unwritten' /\ AllClean'
    BY DEF Inv, Unwritten, Key, S, AllClean
  <2> QED
    BY <2>1, <2>2 DEF Inv
<1> QED
  BY <1>1, <1>2, <1>3, <1>4, <1>5, <1>6, <1>7, <1>8, <1>9, <1>10,
     DrawingKeeps, GenerateKeeps, SaveKeeps, ResolveKeeps, StepsKeep DEF Next

THEOREM Inductive == Spec => []Inv
  BY InitInv, StepInv, PTL DEF Spec

-----------------------------------------------------------------------------
(***************************************************************************)
(* The properties.                                                         *)
(***************************************************************************)

(* The store never forgets or replaces a secret that reached a container,  *)
(* by whichever way: SecretStore.GetOrGenerate writes before it returns.   *)
THEOREM SecretsStay == Spec => []SecretsOnFile
PROOF
<1>1. Inv => SecretsOnFile
  BY DEF Inv, AllClean, Clean, AllGood, Good, GoodAtom, SecretsOnFile, OnFile
<1> QED
  BY <1>1, Inductive, PTL

(* The template checks of the planner leave no other hole in what a        *)
(* container gets than a portless resource's or a template's own name.     *)
THEOREM HolesKnown == Spec => []HolesExplained
PROOF
<1>1. Inv => HolesExplained
  BY DEF Inv, AllClean, Clean, AllGood, Good, GoodAtom, HolesExplained
<1> QED
  BY <1>1, Inductive, PTL

(* What Resolve, the enrichers' coverage check and the access list grant.  *)
LEMMA ReadsGrantedNow ==
  ASSUME Inv, phase # "idle", NEW c \in DOMAIN S,
         NEW v \in EntriesOf(S[c], "read"), Recognised(S[c].env[v])
  PROVE  LET e == S[c].env[v]
         IN /\ e.of \in DOMAIN S
            /\ e.output \in Exported(S, e.of)
            /\ Grants(e.of, c)
PROOF
<1> DEFINE n == S[c].env[v].of
<1>1. ResolveOK(S, specs.policy) /\ EnrichmentOK(S)
  BY DEF Inv, Checked
<1>2. Covered(S, c, n)
  BY <1>1 DEF EnrichmentOK, ReadsOf
<1>3. n \in DOMAIN S /\ Grants(n, c)
  <2>1. CASE n \in Explicit(S[c])
    <3>1. PICK dep \in S[c].needs : dep.on = n
      BY <2>1 DEF Explicit
    <3>2. DependencyOK(S, c, dep)
      BY <1>1 DEF ResolveOK
    <3> QED
      BY <3>1, <3>2 DEF DependencyOK, HasAccess, Grants
  <2>2. CASE n \in DOMAIN S /\ S[n].owner = S[c].owner
    BY <2>2 DEF Grants
  <2> QED
    BY <1>2, <2>1, <2>2 DEF Covered
<1>4. S[c].env[v].output \in Exported(S, n)
  BY <1>1, <1>3 DEF ResolveOK, ValueFromOK
<1> QED
  BY <1>3, <1>4

(* What names something the set exports is recognised as a reference.      *)
LEMMA ExportedIsRecognised ==
  ASSUME Inv, phase # "idle", NEW e, e.of \in DOMAIN S,
         e.output \in Exported(S, e.of)
  PROVE  Recognised(e)
PROOF
<1>1. Valid(S)
  BY DEF Inv, Checked
<1>2. Named(e.of)
  BY <1>1 DEF Valid
<1>3. Unset \notin Exported(S, e.of)
  <2>1. CASE IsResource(e.of)
    BY <1>1, <2>1 DEF Valid, ValidResource, Exported
  <2>2. CASE ~IsResource(e.of)
    BY <2>2 DEF Exported, Unset
  <2> QED
    BY <2>1, <2>2
<1> QED
  BY <1>2, <1>3 DEF Recognised

(* validateImagePolicies and validateResourceVersion, wherever the policy  *)
(* in force comes from.                                                    *)
THEOREM PinnedAlwaysFloats == Spec => []PinnedFloats
PROOF
<1>1. ASSUME Inv PROVE PinnedFloats
  <2> SUFFICES ASSUME phase # "idle", NEW n \in DOMAIN S,
                      EffectivePolicy(n, S[n], specs.policy) = "Pinned"
               PROVE  \/ ~NamesFixedVersion(Image(n, S[n]))
                      \/ /\ IsResource(n) /\ NamesFixedVersion(S[n].type)
                         /\ Image(n, S[n]) \in {S[n].type, DefaultImage(S[n])}
    BY DEF PinnedFloats
  <2>1. PolicyOK(n, S[n], specs.policy)
    BY <1>1 DEF Inv, Checked, ResolveOK
  <2>2. CASE ~IsResource(n)
    BY <2>1, <2>2 DEF PolicyOK, Image
  <2>3. CASE IsResource(n)
    <3> DEFINE m == S[n]
               image == Image(n, m)
    <3>1. /\ m.version \in {Unset, "latest"}
          /\ IsImageOverride(m, image) => ~NamesFixedVersion(image)
      BY <2>1, <2>3 DEF PolicyOK
    <3>2. CASE ~IsImageOverride(m, image)
      <4>1. image \in {m.type, DefaultImage(m)}
        BY <3>2 DEF IsImageOverride
      <4>2. NamesFixedVersion(DefaultImage(m)) => NamesFixedVersion(m.type)
        <5>1. CASE m.version = Unset
          BY <5>1 DEF DefaultImage
        <5>2. CASE m.version # Unset
          <6>1. /\ DefaultImage(m).tag = "latest"
                /\ DefaultImage(m).digest = m.type.digest
            BY <3>1, <5>2 DEF DefaultImage
          <6> QED
            BY <6>1 DEF NamesFixedVersion
        <5> QED
          BY <5>1, <5>2
      <4> QED
        BY <2>3, <4>1, <4>2
    <3> QED
      BY <3>1, <3>2
  <2> QED
    BY <2>2, <2>3
<1> QED
  BY <1>1, Inductive, PTL
-----------------------------------------------------------------------------
(***************************************************************************)
(* The second invariant, of a run: what has been drawn, resolved and taken *)
(* so far, and what is left.                                               *)
(***************************************************************************)

Values(m) == {v \in DOMAIN m.env : m.env[v].kind # "template"}

(* What env has for a variable that reads a resource is its export.        *)
ReadsFrom(m, env, X) ==
  \A v \in EntriesOf(m, "read") \cap DOMAIN env :
     LET e == m.env[v]
     IN IsResource(e.of) => e.of \in DOMAIN X /\ env[v] = X[e.of][e.output]

(* The references read so far exist in the set.                            *)
Found(M, m, read) ==
  \A v \in EntriesOf(m, "read") \cap read :
     LET e == m.env[v]
     IN e.of \in DOMAIN M /\ e.output \in Exported(M, e.of)

Bounds ==
  /\ minted \in 0 .. MaxMinted
  /\ secrets \in [SecretKey -> 0 .. minted]
  /\ vault \in [Path -> 1 .. MaxVersion]
  /\ cause \in {"", "order", "unknown", "vault", "cycle", "execute", "port",
               "stopped"}
  /\ filter \in Filters(S)
  /\ steps \subseteq Selected(S, filter)

AtRest ==
  Ended => /\ target = None /\ drawn = None /\ exports = None
           /\ resourceEnv = None /\ steps = {} /\ pending = None

Halfway == pending # None => pending.of \in Todo /\ pending.serial = minted

Drawing ==
  target # None =>
    /\ DOMAIN drawn \subseteq Values(S[target])
    /\ ReadsFrom(S[target], drawn, exports)
    /\ Found(S, S[target], DOMAIN drawn)
    /\ phase = "resources" => /\ target \notin DOMAIN resourceEnv
                              /\ ResourceGraph(S)[target] \subseteq DOMAIN resourceEnv
    /\ phase = "steps" => target \in steps /\ IsApplication(target)

ResolvedAs(M, n, x, env, X) ==
  /\ n \in Resources(M)
  /\ DOMAIN x = DOMAIN M[n].outputs /\ DOMAIN env = DOMAIN M[n].env
  /\ \A o \in BareOutputs(M[n]) \cap DOMAIN M[n].env : x[o] = env[o]
  /\ ReadsFrom(M[n], env, X)
  /\ DryRunResolves(M, n)

Resolved ==
  /\ DOMAIN exports = DOMAIN resourceEnv
  /\ \A n \in DOMAIN exports :
       ResolvedAs(S, n, exports[n], resourceEnv[n], exports)

TakenAs(M, n, env, X, R) ==
  /\ IsResource(n) => env = R[n]
  /\ DOMAIN env = DOMAIN M[n].env
  /\ ReadsFrom(M[n], env, X)
  /\ DryRunResolves(M, n)

Taken ==
  /\ phase = "resources" => steps = Selected(S, filter)
  /\ phase = "steps" =>
       \A n \in Selected(S, filter) \ steps :
         /\ Container(n) \in DOMAIN holds
         /\ TakenAs(S, n, holds[Container(n)], exports, resourceEnv)

Ordered ==
  phase \in {"resources", "steps"} =>
    cause = "" /\ ~Cyclic(Resources(S), ResourceGraph(S))

RunInv ==
  /\ Bounds /\ AtRest /\ Halfway /\ Drawing /\ Resolved /\ Taken /\ Ordered
  /\ ConsumersMatch /\ FailuresForeseen
-----------------------------------------------------------------------------
(***************************************************************************)
(* What the resolver's operators return.                                   *)
(***************************************************************************)

LEMMA NoneIsEmpty == DOMAIN None = {}
  BY DEF None

LEMMA RenderedDomain ==
  ASSUME NEW n, NEW refs, NEW context
  PROVE  DOMAIN RenderTemplates(n, refs, context) = DOMAIN refs
  BY DEF RenderTemplates

(* An environment has a value for every variable; those drawn stay.        *)
LEMMA EnvShape ==
  ASSUME NEW n, NEW m, NEW values, DOMAIN values = Values(m)
  PROVE  /\ DOMAIN EnvOf(n, m, values) = DOMAIN m.env
         /\ \A v \in Values(m) : EnvOf(n, m, values)[v] = values[v]
PROOF
<1> DEFINE rendered == RenderTemplates(n, Templates(m.env), Copied(Context(n, m), values))
<1>1. DOMAIN rendered = {v \in DOMAIN m.env : m.env[v].kind = "template"}
  <2>1. DOMAIN rendered = DOMAIN Templates(m.env)
    BY RenderedDomain
  <2> QED
    BY <2>1, TemplatesDomain
<1>2. EnvOf(n, m, values) = Copied(values, rendered)
  BY DEF EnvOf
<1> HIDE DEF rendered
<1>3. DOMAIN Copied(values, rendered) = DOMAIN m.env
  <2>1. DOMAIN Copied(values, rendered) = Values(m) \cup DOMAIN rendered
    BY CopiedDomain
  <2> QED
    BY <1>1, <2>1 DEF Values
<1>4. \A v \in Values(m) : Copied(values, rendered)[v] = values[v]
  BY <1>1 DEF Copied, Values
<1> QED
  BY <1>2, <1>3, <1>4

(* The exports are the outputs; one that names a variable has its value.   *)
LEMMA ExportsShape ==
  ASSUME NEW n, NEW m, NEW env, DOMAIN m.env \subseteq DOMAIN env
  PROVE  /\ DOMAIN ComputeExports(n, m, env) = DOMAIN m.outputs
         /\ \A o \in BareOutputs(m) \cap DOMAIN m.env :
              ComputeExports(n, m, env)[o] = env[o]
PROOF
<1> DEFINE context == Copied(Context(n, m), env)
           bare == [o \in BareOutputs(m) |-> context[o]]
           rendered == RenderTemplates(n, Templates(m.outputs), context)
<1>1. DOMAIN rendered = TemplateOutputs(m)
  <2>1. DOMAIN rendered = DOMAIN Templates(m.outputs)
    BY RenderedDomain
  <2> QED
    BY <2>1, TemplatesDomain DEF TemplateOutputs
<1>2. \A o \in DOMAIN env : context[o] = env[o]
  BY DEF Copied
<1>3. ComputeExports(n, m, env) = Copied(bare, rendered)
  BY DEF ComputeExports
<1>4. DOMAIN bare = BareOutputs(m)
  OBVIOUS
<1> HIDE DEF rendered
<1>5. DOMAIN Copied(bare, rendered) = DOMAIN m.outputs
  <2>1. DOMAIN Copied(bare, rendered) = BareOutputs(m) \cup TemplateOutputs(m)
    BY <1>1, <1>4, CopiedDomain
  <2> QED
    BY <2>1 DEF BareOutputs, TemplateOutputs
<1>6. ASSUME NEW o \in BareOutputs(m) \cap DOMAIN m.env
      PROVE  Copied(bare, rendered)[o] = env[o]
  <2>1. o \notin DOMAIN rendered
    BY <1>1 DEF BareOutputs
  <2>2. Copied(bare, rendered)[o] = bare[o]
    BY <2>1, <1>4 DEF Copied
  <2> QED
    BY <1>2, <2>2
<1> QED
  BY <1>3, <1>5, <1>6

(* A resource is resolved once: what was read from another stays.          *)
LEMMA ReadsStay ==
  ASSUME NEW m, NEW env, NEW X, NEW n, NEW x, n \notin DOMAIN X,
         ReadsFrom(m, env, X)
  PROVE  ReadsFrom(m, env, With(X, n, x))
PROOF
<1> SUFFICES ASSUME NEW v \in EntriesOf(m, "read") \cap DOMAIN env,
                    IsResource(m.env[v].of)
             PROVE  /\ m.env[v].of \in DOMAIN With(X, n, x)
                    /\ env[v] = With(X, n, x)[m.env[v].of][m.env[v].output]
  BY DEF ReadsFrom
<1>1. m.env[v].of \in DOMAIN X /\ env[v] = X[m.env[v].of][m.env[v].output]
  BY DEF ReadsFrom
<1> QED
  BY <1>1 DEF With

LEMMA OneMoreRead ==
  ASSUME NEW M, NEW m, NEW env, NEW X, NEW v, NEW value,
         ReadsFrom(m, env, X), Found(M, m, DOMAIN env),
         v \in EntriesOf(m, "read") =>
           /\ IsResource(m.env[v].of) =>
                /\ m.env[v].of \in DOMAIN X
                /\ value = X[m.env[v].of][m.env[v].output]
           /\ m.env[v].of \in DOMAIN M
           /\ m.env[v].output \in Exported(M, m.env[v].of)
  PROVE  /\ ReadsFrom(m, With(env, v, value), X)
         /\ Found(M, m, DOMAIN With(env, v, value))
PROOF
<1>1. ASSUME NEW w \in EntriesOf(m, "read") \cap DOMAIN With(env, v, value),
             IsResource(m.env[w].of)
      PROVE  /\ m.env[w].of \in DOMAIN X
             /\ With(env, v, value)[w] = X[m.env[w].of][m.env[w].output]
  <2>1. CASE w = v
    BY <1>1, <2>1 DEF With
  <2>2. CASE w # v
    BY <1>1, <2>2 DEF With, ReadsFrom
  <2> QED
    BY <2>1, <2>2
<1>2. ASSUME NEW w \in EntriesOf(m, "read") \cap DOMAIN With(env, v, value)
      PROVE  m.env[w].of \in DOMAIN M /\ m.env[w].output \in Exported(M, m.env[w].of)
  BY <1>2 DEF With, Found
<1> QED
  BY <1>1, <1>2 DEF ReadsFrom, Found

(* A reference that is found is read from what the resource exports.       *)
LEMMA KnownRead ==
  ASSUME Inv, RunInv, target # None, NEW v \in EntriesOf(S[target], "read"),
         IsKnown(S, exports, Entry(v))
  PROVE  /\ IsResource(Entry(v).of) =>
              /\ Entry(v).of \in DOMAIN exports
              /\ LookupValueFrom(exports, Entry(v))
                   = exports[Entry(v).of][Entry(v).output]
         /\ Entry(v).of \in DOMAIN S
         /\ Entry(v).output \in Exported(S, Entry(v).of)
PROOF
<1>1. CASE IsResource(Entry(v).of)
  <2>1. /\ Entry(v).of \in DOMAIN exports
        /\ Entry(v).output \in DOMAIN exports[Entry(v).of]
    BY <1>1 DEF IsKnown
  <2>2. /\ Entry(v).of \in Resources(S)
        /\ DOMAIN exports[Entry(v).of] = DOMAIN S[Entry(v).of].outputs
    BY <2>1 DEF RunInv, Resolved, ResolvedAs
  <2> QED
    BY <1>1, <2>1, <2>2 DEF LookupValueFrom, Exported, Resources
<1>2. CASE ~IsResource(Entry(v).of)
  BY <1>2 DEF IsKnown, Exported
<1> QED
  BY <1>1, <1>2

LEMMA TargetOf ==
  ASSUME Inv, RunInv, target # None
  PROVE  /\ phase \in {"resources", "steps"} /\ ~Ended
         /\ target \in DOMAIN S
         /\ target \in Resources(S) \cup Selected(S, filter)
         /\ phase = "resources" => target \in Resources(S)
  BY DEF Inv, Targeted, RunInv, Drawing, Bounds, Ended, Resources

LEMMA SelectedInSet ==
  ASSUME NEW M, NEW f \in Filters(M) PROVE Selected(M, f) \subseteq DOMAIN M
PROOF
<1>1. CASE f = All
  BY <1>1 DEF All, Selected
<1>2. CASE f \in [kind : {"team"}, name : {M[n].owner : n \in DOMAIN M}]
  BY <1>2 DEF Selected
<1>3. CASE f \in [kind : {"one"}, on : DOMAIN M]
  BY <1>3 DEF Selected
<1> QED
  BY <1>1, <1>2, <1>3 DEF Filters

-----------------------------------------------------------------------------
(***************************************************************************)
(* Kinds of steps.                                                         *)
(***************************************************************************)

LEMMA RunInitially == Init => RunInv
PROOF
<1> SUFFICES ASSUME Init PROVE RunInv
  OBVIOUS
<1>1. Bounds
  <2>0. 0 \in 0 .. MaxMinted /\ 1 \in 1 .. MaxVersion
    BY ValuesAssumption
  <2>1. /\ minted = 0
        /\ secrets \in [SecretKey -> 0 .. minted]
        /\ vault \in [Path -> 1 .. MaxVersion]
    <3>1. 0 \in 0 .. 0
      OBVIOUS
    <3>2. minted = 0 /\ secrets = [k \in SecretKey |-> 0]
      BY DEF Init
    <3>3. vault = [p \in Path |-> 1]
      BY DEF Init
    <3>4. secrets \in [SecretKey -> 0 .. minted]
      BY <3>1, <3>2
    <3>5. vault \in [Path -> 1 .. MaxVersion]
      BY <2>0, <3>3
    <3> QED
      BY <3>2, <3>4, <3>5
  <2>2. filter \in Filters(S) /\ steps = {} /\ cause = ""
    BY DEF Init, Filters
  <2> QED
    BY <2>0, <2>1, <2>2 DEF Bounds
<1>2. AtRest /\ Halfway /\ Drawing /\ Taken /\ Ordered
  BY DEF Init, AtRest, Halfway, Drawing, Taken, Ordered
<1>3. Resolved
  <2>1. DOMAIN None = {}
    BY NoneIsEmpty
  <2> QED
    BY <2>1 DEF Init, Resolved
<1>4. ConsumersMatch /\ FailuresForeseen
  BY DEF Init, ConsumersMatch, FailuresForeseen
<1> QED
  BY <1>1, <1>2, <1>3, <1>4 DEF RunInv

(* Drawing one value.                                                      *)
LEMMA DrawRun ==
  ASSUME Inv, RunInv, NEW v \in Todo, NEW value, Draw(v, value),
         v \in EntriesOf(S[target], "read") =>
           /\ IsResource(Entry(v).of) =>
                /\ Entry(v).of \in DOMAIN exports
                /\ value = exports[Entry(v).of][Entry(v).output]
           /\ Entry(v).of \in DOMAIN S
           /\ Entry(v).output \in Exported(S, Entry(v).of),
         secrets' \in [SecretKey -> 0 .. minted], pending' = None,
         UNCHANGED <<specs, vault, minted, progress, target, resolved, steps, holds>>
  PROVE  RunInv'
PROOF
<1> USE DEF progress, resolved
<1>1. S' = S
  BY DEF S
<1>2. target # None /\ v \in Values(S[target])
  BY DEF Todo, Values
<1>3. Bounds'
  BY <1>1 DEF RunInv, Bounds
<1>4. AtRest' /\ Halfway'
  BY <1>2, TargetOf DEF AtRest, Halfway, Ended
<1>5. Drawing'
  <2>1. drawn' = With(drawn, v, value)
    BY DEF Draw
  <2>2. /\ DOMAIN drawn \subseteq Values(S[target])
        /\ ReadsFrom(S[target], drawn, exports)
        /\ Found(S, S[target], DOMAIN drawn)
    BY <1>2 DEF RunInv, Drawing
  <2>3. DOMAIN drawn' \subseteq Values(S[target])
    BY <1>2, <2>1, <2>2 DEF With
  <2>4. /\ ReadsFrom(S[target], drawn', exports)
        /\ Found(S, S[target], DOMAIN drawn')
    BY <2>1, <2>2, OneMoreRead DEF Entry
  <2> QED
    BY <1>1, <2>3, <2>4 DEF RunInv, Drawing
<1>6. Resolved' /\ Ordered'
  BY <1>1 DEF RunInv, Resolved, Ordered
<1>7. Taken'
  BY <1>1 DEF RunInv, Taken, Container
<1>8. ConsumersMatch' /\ FailuresForeseen'
  BY <1>1, <1>2, TargetOf DEF RunInv, ConsumersMatch, FailuresForeseen
<1> QED
  BY <1>3, <1>4, <1>5, <1>6, <1>7, <1>8 DEF RunInv

LEMMA DrawsRun ==
  ASSUME Inv, RunInv, NEW v \in Todo,
         DrawStatic(v) \/ DrawReference(v) \/ DrawVault(v) \/ ReuseSecret(v)
  PROVE  RunInv'
PROOF
<1> USE DEF store
<1>1. secrets' \in [SecretKey -> 0 .. minted] /\ pending' = None
  BY DEF DrawStatic, DrawReference, DrawVault, ReuseSecret, RunInv, Bounds
<1>2. v \in EntriesOf(S[target], "read") <=> Entry(v).kind = "read"
  BY DEF Todo, Entry, EntriesOf
<1>3. target # None
  BY DEF Todo
<1>4. CASE DrawStatic(v)
  BY <1>1, <1>2, <1>4, DrawRun DEF DrawStatic
<1>5. CASE DrawReference(v)
  BY <1>1, <1>2, <1>3, <1>5, KnownRead, DrawRun DEF DrawReference
<1>6. CASE DrawVault(v)
  BY <1>1, <1>2, <1>6, DrawRun DEF DrawVault
<1>7. CASE ReuseSecret(v)
  BY <1>1, <1>2, <1>7, DrawRun DEF ReuseSecret
<1> QED
  BY <1>4, <1>5, <1>6, <1>7

LEMMA SaveRun ==
  ASSUME Inv, RunInv, SaveTeam PROVE RunInv'
PROOF
<1> DEFINE k == Key(pending.of)
<1>1. pending.of \in Todo /\ pending.serial = minted /\ minted \in 0 .. MaxMinted
  BY DEF SaveTeam, RunInv, Halfway, Bounds
<1>2. pending.of \notin EntriesOf(S[target], "read")
  BY DEF SaveTeam, Inv, Unwritten, EntriesOf
<1>3. secrets' \in [SecretKey -> 0 .. minted]
  <2>1. secrets' = [secrets EXCEPT ![k] = minted]
    BY <1>1 DEF SaveTeam, Saved
  <2>2. minted \in 0 .. minted
    BY <1>1
  <2>3. secrets \in [SecretKey -> 0 .. minted]
    BY DEF RunInv, Bounds
  <2> QED
    BY <2>1, <2>2, <2>3
<1> QED
  BY <1>1, <1>2, <1>3, DrawRun DEF SaveTeam

LEMMA GenerateRun ==
  ASSUME Inv, RunInv, NEW v \in Todo, GenerateSecret(v) PROVE RunInv'
PROOF
<1> USE DEF GenerateSecret, progress, resolving, resolved
<1>1. S' = S
  BY DEF S
<1>2. Bounds'
  <2>0. minted \in 0 .. MaxMinted /\ minted < MaxMinted /\ minted' = minted + 1
    BY DEF RunInv, Bounds
  <2>1. minted' \in 0 .. MaxMinted /\ 0 .. minted \subseteq 0 .. minted'
    BY <2>0, ValuesAssumption
  <2>2. secrets' \in [SecretKey -> 0 .. minted']
    BY <2>1 DEF RunInv, Bounds
  <2> QED
    BY <1>1, <2>1, <2>2 DEF RunInv, Bounds
<1>3. Todo' = Todo
  BY <1>1 DEF Todo
<1>4. Halfway'
  <2>1. pending'.of = v /\ pending'.serial = minted'
    OBVIOUS
  <2> QED
    BY <1>3, <2>1 DEF Halfway
<1>5. target # None /\ ~Ended
  BY TargetOf DEF Todo
<1>6. AtRest' /\ Drawing'
  BY <1>1, <1>5 DEF RunInv, AtRest, Ended, Drawing
<1>7. Resolved' /\ Ordered'
  BY <1>1 DEF RunInv, Resolved, Ordered
<1>8. Taken'
  BY <1>1 DEF RunInv, Taken, Container
<1>9. ConsumersMatch' /\ FailuresForeseen'
  BY <1>1, <1>5 DEF RunInv, ConsumersMatch, FailuresForeseen, Ended
<1> QED
  BY <1>2, <1>4, <1>6, <1>7, <1>8, <1>9 DEF RunInv

(* A run that ends without success: why was foreseen.                      *)
LEMMA FailRun ==
  ASSUME Inv, RunInv,
         NEW why \in {"unknown", "vault", "cycle", "execute", "port", "stopped"},
         Fails(why),
         why \in {"unknown", "cycle"} => ~DryRunSucceeds(S, filter),
         why = "unknown" =>
           \E c \in DOMAIN S : \E v \in EntriesOf(S[c], "read") :
              ~Recognised(S[c].env[v])
  PROVE  RunInv'
PROOF
<1> USE DEF Fails, Cleared
<1>1. S' = S
  BY DEF S
<1>2. Bounds'
  BY <1>1 DEF RunInv, Bounds
<1>3. AtRest' /\ Halfway' /\ Drawing' /\ Taken' /\ Ordered'
  BY DEF AtRest, Halfway, Drawing, Taken, Ordered
<1>4. Resolved'
  <2>1. DOMAIN None = {}
    BY NoneIsEmpty
  <2> QED
    BY <2>1 DEF Resolved
<1>5. ConsumersMatch' /\ FailuresForeseen'
  BY <1>1 DEF ConsumersMatch, FailuresForeseen
<1> QED
  BY <1>2, <1>3, <1>4, <1>5 DEF RunInv

LEMMA DryRunOfTarget ==
  ASSUME Inv, RunInv, target # None, ~DryRunResolves(S, target)
  PROVE  ~DryRunSucceeds(S, filter)
  BY TargetOf DEF DryRunSucceeds, DryRun

(* What a checked manifest reads by name exists, and is resolved by now.   *)
LEMMA NamedIsKnown ==
  ASSUME Inv, RunInv, target # None, NEW v \in EntriesOf(S[target], "read"),
         Entry(v).of \in DOMAIN S, Entry(v).output \in Exported(S, Entry(v).of)
  PROVE  IsKnown(S, exports, Entry(v))
PROOF
<1> DEFINE n == Entry(v).of
<1>1. CASE ~IsResource(n)
  BY <1>1 DEF Exported, IsKnown
<1>2. CASE IsResource(n)
  <2>1. target \in DOMAIN S /\ phase \in {"resources", "steps"}
    BY TargetOf
  <2>3. Recognised(Entry(v))
    BY <2>1, ExportedIsRecognised
  <2>4. n \in DependsOn(S)[target]
    <3>1. n \in ReadsOf(S[target])
      BY <2>3 DEF ReadsOf, Entry
    <3> QED
      BY <2>1, <2>3, <3>1 DEF DependsOn
  <2>5. n \in Resources(S)
    BY <1>2 DEF Resources
  <2>6. n \in DOMAIN resourceEnv
    <3>1. CASE phase = "steps"
      BY <2>5, <3>1 DEF Inv, Checked
    <3>2. CASE phase = "resources"
      <4>1. target \in Resources(S)
        BY <3>2, TargetOf
      <4>2. n \in ResourceGraph(S)[target]
        BY <2>4, <2>5, <4>1 DEF ResourceGraph
      <4> QED
        BY <3>2, <4>2 DEF RunInv, Drawing
    <3> QED
      BY <2>1, <3>1, <3>2
  <2>7. n \in DOMAIN exports /\ DOMAIN exports[n] = DOMAIN S[n].outputs
    BY <2>6 DEF RunInv, Resolved, ResolvedAs
  <2> QED
    BY <1>2, <2>7 DEF IsKnown, Exported
<1> QED
  BY <1>1, <1>2

LEMMA UnknownRun ==
  ASSUME Inv, RunInv, NEW v \in Todo, UnknownReference(v) PROVE RunInv'
PROOF
<1>1. target # None /\ v \in EntriesOf(S[target], "read")
  BY DEF Todo, UnknownReference, Entry, EntriesOf
<1>2. target \in DOMAIN S /\ phase # "idle"
  BY <1>1, TargetOf
<1>3. ~(/\ Entry(v).of \in DOMAIN S
        /\ Entry(v).output \in Exported(S, Entry(v).of))
  BY <1>1, NamedIsKnown DEF UnknownReference
<1>4. ~DryRunResolves(S, target)
  BY <1>1, <1>3 DEF DryRunResolves, Entry
<1>5. ~DryRunSucceeds(S, filter)
  BY <1>1, <1>4, DryRunOfTarget
<1>6. ~Recognised(Entry(v))
  BY <1>1, <1>2, <1>3, ReadsGrantedNow DEF Entry
<1> QED
  BY <1>1, <1>2, <1>5, <1>6, FailRun DEF UnknownReference, Entry

LEMMA EnvFailsRun ==
  ASSUME Inv, RunInv, EnvFails PROVE RunInv'
PROOF
<1>1. target # None
  BY DEF EnvFails, AllDrawn
<1>2. CASE TemplateCycle(Templates(S[target].env))
  <2>1. ~DryRunSucceeds(S, filter)
    BY <1>1, <1>2, DryRunOfTarget DEF DryRunResolves
  <2> QED
    BY <1>2, <2>1, FailRun DEF EnvFails, RenderFails
<1>3. CASE ~TemplateCycle(Templates(S[target].env))
  BY <1>3, FailRun DEF EnvFails, RenderFails
<1> QED
  BY <1>2, <1>3

LEMMA OutputsFailRun ==
  ASSUME Inv, RunInv, OutputsFail PROVE RunInv'
PROOF
<1>1. target # None /\ IsResource(target)
  BY DEF OutputsFail, EnvRendered, AllDrawn, Inv, Targeted
<1>2. CASE TemplateCycle(Templates(S[target].outputs))
  <2>1. ~DryRunSucceeds(S, filter)
    BY <1>1, <1>2, DryRunOfTarget DEF DryRunResolves
  <2> QED
    BY <1>2, <2>1, FailRun DEF OutputsFail, RenderFails
<1>3. CASE ~TemplateCycle(Templates(S[target].outputs))
  BY <1>3, FailRun DEF OutputsFail, RenderFails
<1> QED
  BY <1>2, <1>3

LEMMA StartRun ==
  ASSUME Inv, RunInv, NEW n \in DOMAIN S, StartResource(n) \/ StartApplication(n)
  PROVE  RunInv'
PROOF
<1>1. /\ target = None /\ Start(n) /\ phase \in {"resources", "steps"}
      /\ phase = "resources" => /\ n \notin DOMAIN resourceEnv
                                /\ ResourceGraph(S)[n] \subseteq DOMAIN resourceEnv
      /\ phase = "steps" => n \in steps /\ IsApplication(n)
  BY DEF StartResource, StartApplication, Ready
<1> USE DEF Start, progress, resolved, store
<1>2. S' = S
  BY <1>1 DEF S
<1>3. Bounds'
  BY <1>1, <1>2 DEF RunInv, Bounds
<1>4. pending = None
  <2> SUFFICES ASSUME pending # None PROVE FALSE
    OBVIOUS
  <2> QED
    BY <1>1 DEF Inv, Unwritten
<1>5. AtRest' /\ Halfway'
  BY <1>1, <1>4 DEF AtRest, Ended, Halfway
<1>6. Drawing'
  <2>1. drawn' = None /\ DOMAIN drawn' = {}
    BY <1>1 DEF None
  <2>2. /\ DOMAIN drawn' \subseteq Values(S[n])
        /\ ReadsFrom(S[n], drawn', exports)
        /\ Found(S, S[n], DOMAIN drawn')
    BY <2>1 DEF ReadsFrom, Found
  <2> QED
    BY <1>1, <1>2, <2>2 DEF Drawing
<1>7. Resolved' /\ Ordered'
  BY <1>1, <1>2 DEF RunInv, Resolved, Ordered
<1>8. Taken'
  BY <1>1, <1>2 DEF RunInv, Taken, Container
<1>9. ConsumersMatch' /\ FailuresForeseen'
  BY <1>1, <1>2 DEF RunInv, ConsumersMatch, FailuresForeseen
<1> QED
  BY <1>3, <1>5, <1>6, <1>7, <1>8, <1>9 DEF RunInv

(* Resolving the last value of a resource.                                 *)
LEMMA ResolveRun ==
  ASSUME Inv, RunInv, ResolveResource PROVE RunInv'
PROOF
<1> DEFINE n == target
           x == Exports(n, S[n], TargetEnv)
           env == TargetEnv
<1>1. /\ phase = "resources" /\ n # None /\ pending = None /\ Todo = {}
      /\ ~TemplateCycle(Templates(S[n].env))
      /\ ~TemplateCycle(Templates(S[n].outputs))
      /\ exports' = With(exports, n, x)
      /\ resourceEnv' = With(resourceEnv, n, env)
      /\ target' = None /\ drawn' = None
      /\ UNCHANGED <<specs, vault, store, progress, steps, holds>>
  BY DEF ResolveResource, EnvRendered, AllDrawn
<1>2. UNCHANGED <<specs, vault, secrets, minted, pending, phase, filter, cause,
                  steps, holds>>
  BY <1>1 DEF store, progress
<1>3. S' = S
  BY <1>2 DEF S
<1>4. n \in Resources(S) /\ n \in DOMAIN S
  BY <1>1, TargetOf
<1>5. /\ DOMAIN drawn \subseteq Values(S[n]) /\ n \notin DOMAIN resourceEnv
      /\ ReadsFrom(S[n], drawn, exports) /\ Found(S, S[n], DOMAIN drawn)
  BY <1>1 DEF RunInv, Drawing
<1>6. DOMAIN drawn = Values(S[n])
  BY <1>1, <1>5 DEF Todo, Values
<1>7. DOMAIN env = DOMAIN S[n].env /\ \A v \in Values(S[n]) : env[v] = drawn[v]
  BY <1>6, EnvShape DEF TargetEnv
<1>8. /\ DOMAIN x = DOMAIN S[n].outputs
      /\ \A o \in BareOutputs(S[n]) \cap DOMAIN S[n].env : x[o] = env[o]
  BY <1>7, ExportsShape DEF Exports
<1>9. EntriesOf(S[n], "read") \subseteq Values(S[n])
  BY DEF EntriesOf, Values
<1>10. ReadsFrom(S[n], env, exports)
  BY <1>5, <1>6, <1>7, <1>9 DEF ReadsFrom
<1>11. DryRunResolves(S, n)
  BY <1>1, <1>5, <1>6, <1>9 DEF DryRunResolves, Found
<1> HIDE DEF n, x, env
<1>12. /\ DOMAIN exports = DOMAIN resourceEnv
       /\ \A k \in DOMAIN exports :
            ResolvedAs(S, k, exports[k], resourceEnv[k], exports)
  BY DEF RunInv, Resolved
<1>13. Resolved'
  <2>1. DOMAIN exports' = DOMAIN resourceEnv'
    BY <1>1, <1>12 DEF With
  <2>2. ASSUME NEW k \in DOMAIN exports'
        PROVE  ResolvedAs(S, k, exports'[k], resourceEnv'[k], exports')
    <3>1. CASE k = n
      <4>1. exports'[k] = x /\ resourceEnv'[k] = env
        BY <1>1, <3>1 DEF With
      <4>2. ReadsFrom(S[n], env, exports')
        BY <1>1, <1>5, <1>10, <1>12, ReadsStay
      <4> QED
        BY <1>4, <1>7, <1>8, <1>11, <3>1, <4>1, <4>2 DEF ResolvedAs
    <3>2. CASE k # n
      <4>1. /\ k \in DOMAIN exports /\ k \in DOMAIN resourceEnv
            /\ exports'[k] = exports[k] /\ resourceEnv'[k] = resourceEnv[k]
        BY <1>1, <1>12, <2>2, <3>2 DEF With
      <4>2. ResolvedAs(S, k, exports[k], resourceEnv[k], exports)
        BY <1>12, <4>1
      <4>3. ReadsFrom(S[k], resourceEnv[k], exports')
        BY <1>1, <1>5, <1>12, <4>2, ReadsStay DEF ResolvedAs
      <4> QED
        BY <4>1, <4>2, <4>3 DEF ResolvedAs
    <3> QED
      BY <3>1, <3>2
  <2> QED
    BY <1>3, <2>1, <2>2 DEF Resolved
<1>14. Bounds'
  BY <1>2, <1>3 DEF RunInv, Bounds
<1>15. AtRest' /\ Halfway' /\ Drawing' /\ Taken'
  BY <1>1, <1>2, <1>3 DEF RunInv, AtRest, Halfway, Drawing, Taken, Ended
<1>16. Ordered'
  BY <1>2, <1>3 DEF RunInv, Ordered
<1>17. ConsumersMatch' /\ FailuresForeseen'
  BY <1>1, <1>2, <1>3 DEF RunInv, ConsumersMatch, FailuresForeseen
<1> QED
  BY <1>13, <1>14, <1>15, <1>16, <1>17 DEF RunInv

LEMMA AllResolvedRun ==
  ASSUME Inv, RunInv, AllResolved PROVE RunInv'
PROOF
<1> USE DEF AllResolved, store, resolving, resolved
<1>1. S' = S
  BY DEF S
<1>2. Bounds'
  BY <1>1 DEF RunInv, Bounds
<1>3. pending = None
  BY DEF Inv, Unwritten
<1>4. AtRest' /\ Halfway' /\ Drawing'
  BY <1>3 DEF AtRest, Ended, Halfway, Drawing
<1>5. Resolved' /\ Ordered'
  BY <1>1 DEF RunInv, Resolved, Ordered
<1>6. Taken'
  <2>1. steps = Selected(S, filter)
    BY DEF RunInv, Taken
  <2> QED
    BY <1>1, <2>1 DEF Taken
<1>7. ConsumersMatch' /\ FailuresForeseen'
  BY <1>1 DEF RunInv, ConsumersMatch, FailuresForeseen
<1> QED
  BY <1>2, <1>4, <1>5, <1>6, <1>7 DEF RunInv

(* Taking a step.                                                          *)
LEMMA TakeRun ==
  ASSUME Inv, RunInv, phase = "steps", NEW n \in steps, NEW env, TakeStep(n, env),
         TakenAs(S, n, env, exports, resourceEnv),
         pending = None, target' = None,
         UNCHANGED <<specs, vault, store, progress, resolved>>
  PROVE  RunInv'
PROOF
<1> USE DEF store, progress, resolved
<1>1. S' = S
  BY DEF S
<1>2. holds' = With(holds, Container(n), env) /\ steps' = steps \ {n}
  BY DEF TakeStep
<1>3. Bounds'
  BY <1>1, <1>2 DEF RunInv, Bounds
<1>4. AtRest' /\ Halfway' /\ Drawing'
  BY DEF AtRest, Ended, Halfway, Drawing
<1>5. Resolved' /\ Ordered'
  BY <1>1 DEF RunInv, Resolved, Ordered
<1>6. Taken'
  <2> SUFFICES ASSUME NEW k \in Selected(S, filter) \ steps'
               PROVE  /\ Container(k) \in DOMAIN holds'
                      /\ TakenAs(S, k, holds'[Container(k)], exports, resourceEnv)
    BY <1>1 DEF Taken, Container
  <2>1. CASE k = n
    BY <1>2, <2>1 DEF With
  <2>2. CASE k # n
    <3>1. Container(k) # Container(n)
      BY <2>2 DEF Container
    <3>2. /\ Container(k) \in DOMAIN holds
          /\ TakenAs(S, k, holds[Container(k)], exports, resourceEnv)
      BY <1>2, <2>2 DEF RunInv, Taken
    <3> QED
      BY <1>2, <3>1, <3>2 DEF With
  <2> QED
    BY <2>1, <2>2
<1>7. ConsumersMatch' /\ FailuresForeseen'
  BY <1>1 DEF RunInv, ConsumersMatch, FailuresForeseen
<1> QED
  BY <1>3, <1>4, <1>5, <1>6, <1>7 DEF RunInv

LEMMA DeployResourceRun ==
  ASSUME Inv, RunInv, NEW n \in DOMAIN S, DeployResource(n) PROVE RunInv'
PROOF
<1>1. /\ phase = "steps" /\ target = None /\ n \in steps /\ IsResource(n)
      /\ TakeStep(n, ResolvedEnv(n))
      /\ UNCHANGED <<specs, vault, store, progress, resolving, resolved>>
  BY DEF DeployResource, Ready
<1>2. pending = None
  BY <1>1 DEF Inv, Unwritten
<1>3. target' = None
  BY <1>1 DEF resolving
<1>4. n \in DOMAIN resourceEnv
  BY <1>1 DEF Inv, Checked, Resources
<1>5. ResolvedAs(S, n, exports[n], resourceEnv[n], exports)
  BY <1>4 DEF RunInv, Resolved
<1>6. TakenAs(S, n, ResolvedEnv(n), exports, resourceEnv)
  BY <1>5 DEF ResolvedAs, TakenAs, ResolvedEnv
<1> QED
  BY <1>1, <1>2, <1>3, <1>6, TakeRun

LEMMA DeployApplicationRun ==
  ASSUME Inv, RunInv, DeployApplication PROVE RunInv'
PROOF
<1> DEFINE n == target
           env == TargetEnv
<1>1. /\ phase = "steps" /\ n # None /\ pending = None /\ Todo = {}
      /\ ~TemplateCycle(Templates(S[n].env)) /\ TakeStep(n, env)
      /\ target' = None /\ drawn' = None
      /\ UNCHANGED <<specs, vault, store, progress, resolved>>
  BY DEF DeployApplication, EnvRendered, AllDrawn
<1>2. /\ DOMAIN drawn \subseteq Values(S[n])
      /\ ReadsFrom(S[n], drawn, exports) /\ Found(S, S[n], DOMAIN drawn)
      /\ n \in steps /\ IsApplication(n)
  BY <1>1 DEF RunInv, Drawing
<1>3. DOMAIN drawn = Values(S[n])
  BY <1>1, <1>2 DEF Todo, Values
<1>4. DOMAIN env = DOMAIN S[n].env /\ \A v \in Values(S[n]) : env[v] = drawn[v]
  BY <1>3, EnvShape DEF TargetEnv
<1>5. EntriesOf(S[n], "read") \subseteq Values(S[n])
  BY DEF EntriesOf, Values
<1>6. ReadsFrom(S[n], env, exports)
  BY <1>2, <1>3, <1>4, <1>5 DEF ReadsFrom
<1>7. ~IsResource(n)
  BY <1>2 DEF IsApplication, IsResource
<1>8. DryRunResolves(S, n)
  BY <1>1, <1>2, <1>3, <1>5, <1>7 DEF DryRunResolves, Found
<1> HIDE DEF n, env
<1>9. TakenAs(S, n, env, exports, resourceEnv)
  BY <1>4, <1>6, <1>7, <1>8 DEF TakenAs
<1> QED
  BY <1>1, <1>2, <1>9, TakeRun

(* The end of a deploy: all that was resolved has reached its container.   *)
LEMMA DoneRun ==
  ASSUME Inv, RunInv, DeployDone PROVE RunInv'
PROOF
<1> USE DEF Cleared
<1>1. /\ phase = "steps" /\ steps = {} /\ phase' = "done" /\ steps' = {}
      /\ target' = None /\ drawn' = None /\ exports' = None
      /\ resourceEnv' = None /\ pending' = None
      /\ UNCHANGED <<specs, vault, secrets, minted, filter, cause, holds>>
  BY DEF DeployDone
<1>2. S' = S
  BY <1>1 DEF S
<1>3. Bounds'
  BY <1>1, <1>2 DEF RunInv, Bounds
<1>4. AtRest' /\ Halfway' /\ Drawing' /\ Taken' /\ Ordered'
  BY <1>1 DEF AtRest, Halfway, Drawing, Taken, Ordered
<1>5. Resolved'
  <2>1. DOMAIN None = {}
    BY NoneIsEmpty
  <2> QED
    BY <1>1, <2>1 DEF Resolved
<1>6. \A n \in Selected(S, filter) :
        /\ Container(n) \in DOMAIN holds
        /\ TakenAs(S, n, holds[Container(n)], exports, resourceEnv)
  BY <1>1 DEF RunInv, Taken
<1>7. FailuresForeseen'
  <2>1. \A n \in Resources(S) : DryRunResolves(S, n)
    <3> SUFFICES ASSUME NEW n \in Resources(S) PROVE DryRunResolves(S, n)
      OBVIOUS
    <3>1. n \in DOMAIN exports
      BY <1>1 DEF Inv, Checked, RunInv, Resolved
    <3> QED
      BY <3>1 DEF RunInv, Resolved, ResolvedAs
  <2>2. \A n \in Selected(S, filter) : DryRunResolves(S, n)
    BY <1>6 DEF TakenAs
  <2>3. ~Cyclic(Resources(S), ResourceGraph(S)) /\ cause = ""
    BY <1>1 DEF RunInv, Ordered
  <2>4. \/ DryRunSucceeds(S, filter)
        \/ \E n \in DryRun(S, filter) : ~DryRunExecutes(S, n)
    BY <2>1, <2>2, <2>3 DEF DryRunSucceeds, DryRun
  <2> QED
    BY <1>1, <1>2, <2>3, <2>4 DEF FailuresForeseen
<1>8. ConsumersMatch'
  <2> SUFFICES ASSUME filter = All, NEW c \in DOMAIN S,
                      NEW v \in EntriesOf(S[c], "read"),
                      IsResource(S[c].env[v].of),
                      S[c].env[v].output \in BareOutputs(S[S[c].env[v].of]),
                      S[c].env[v].output \in DOMAIN S[S[c].env[v].of].env
               PROVE  holds[Container(c)][v]
                        = holds[Container(S[c].env[v].of)][S[c].env[v].output]
    BY <1>1, <1>2 DEF ConsumersMatch, Container
  <2> DEFINE r == S[c].env[v].of
             o == S[c].env[v].output
  <2>1. Selected(S, filter) = DOMAIN S
    BY DEF Selected, All
  <2>2. TakenAs(S, c, holds[Container(c)], exports, resourceEnv)
    BY <1>6, <2>1
  <2>3. v \in DOMAIN holds[Container(c)]
    BY <2>2 DEF TakenAs, EntriesOf
  <2>4. r \in DOMAIN exports /\ holds[Container(c)][v] = exports[r][o]
    BY <2>2, <2>3 DEF TakenAs, ReadsFrom
  <2>5. ResolvedAs(S, r, exports[r], resourceEnv[r], exports)
    BY <2>4 DEF RunInv, Resolved
  <2>6. r \in DOMAIN S /\ exports[r][o] = resourceEnv[r][o]
    BY <2>5 DEF ResolvedAs, Resources
  <2>7. holds[Container(r)] = resourceEnv[r]
    BY <1>6, <2>1, <2>6 DEF TakenAs
  <2> QED
    BY <2>4, <2>6, <2>7
<1> QED
  BY <1>3, <1>4, <1>5, <1>7, <1>8 DEF RunInv

(* A cycle among the resources is one of the whole set.                    *)
LEMMA PartOfCycle ==
  ASSUME NEW M, Cyclic(Resources(M), ResourceGraph(M))
  PROVE  Cyclic(DOMAIN M, DependsOn(M))
PROOF
<1>1. PICK C \in (SUBSET Resources(M)) \ {{}} :
        \A n \in C : ResourceGraph(M)[n] \cap C # {}
  BY DEF Cyclic
<1>2. C \in (SUBSET DOMAIN M) \ {{}}
  BY DEF Resources
<1>3. \A n \in C : ResourceGraph(M)[n] \subseteq DependsOn(M)[n]
  BY DEF ResourceGraph
<1> QED
  BY <1>1, <1>2, <1>3 DEF Cyclic

LEMMA DeployRun ==
  ASSUME Inv, RunInv, NEW f, Deploy(f) PROVE RunInv'
PROOF
<1>1. /\ target = None /\ drawn = None /\ exports = None /\ resourceEnv = None
      /\ steps = {} /\ pending = None
  BY DEF Deploy, RunInv, AtRest
<1>2. /\ UNCHANGED <<specs, vault, secrets, minted, pending, target, drawn,
                     exports, resourceEnv, holds>>
      /\ filter' = f /\ f \in Filters(S)
  BY DEF Deploy, store, resolving, resolved, Accepted
<1>3. S' = S
  BY <1>2 DEF S
<1>4. \/ /\ Cyclic(Resources(S), ResourceGraph(S))
         /\ phase' = "failed" /\ cause' = "order" /\ steps' = {}
      \/ /\ ~Cyclic(Resources(S), ResourceGraph(S))
         /\ phase' = "resources" /\ cause' = "" /\ steps' = Selected(S, f)
  BY DEF Deploy
<1>5. Bounds'
  BY <1>2, <1>3, <1>4 DEF RunInv, Bounds
<1>6. AtRest' /\ Halfway' /\ Drawing'
  BY <1>1, <1>2, <1>4 DEF AtRest, Ended, Halfway, Drawing
<1>7. Resolved'
  <2>1. DOMAIN None = {}
    BY NoneIsEmpty
  <2> QED
    BY <1>1, <1>2, <2>1 DEF Resolved
<1>8. Taken' /\ Ordered'
  BY <1>2, <1>3, <1>4 DEF Taken, Ordered
<1>9. ConsumersMatch'
  BY <1>4 DEF ConsumersMatch
<1>10. FailuresForeseen'
  <2>1. CASE Cyclic(Resources(S), ResourceGraph(S))
    <3>1. f.kind = "one"
      BY <2>1, PartOfCycle DEF Deploy, Accepted
    <3>2. ~DryRunSucceeds(S, f)
      BY <2>1 DEF DryRunSucceeds
    <3> QED
      BY <1>2, <1>3, <1>4, <2>1, <3>1, <3>2 DEF FailuresForeseen
  <2>2. CASE ~Cyclic(Resources(S), ResourceGraph(S))
    BY <1>4, <2>2 DEF FailuresForeseen
  <2> QED
    BY <2>1, <2>2
<1> QED
  BY <1>5, <1>6, <1>7, <1>8, <1>9, <1>10 DEF RunInv

(* Edits and teardowns, between deploys.                                   *)
LEMMA BetweenRun ==
  ASSUME Inv, RunInv, Ended, phase' = "idle", filter' = All, cause' = "",
         UNCHANGED <<vault, store, resolving, resolved, steps>>
  PROVE  RunInv'
PROOF
<1> USE DEF store, resolving, resolved
<1>1. /\ target = None /\ drawn = None /\ exports = None /\ resourceEnv = None
      /\ steps = {} /\ pending = None
  BY DEF RunInv, AtRest
<1>2. Bounds'
  BY <1>1 DEF RunInv, Bounds, Filters
<1>3. AtRest' /\ Halfway' /\ Drawing' /\ Taken' /\ Ordered'
  BY <1>1 DEF AtRest, Halfway, Drawing, Taken, Ordered
<1>4. Resolved'
  <2>1. DOMAIN None = {}
    BY NoneIsEmpty
  <2> QED
    BY <1>1, <2>1 DEF Resolved
<1>5. ConsumersMatch' /\ FailuresForeseen'
  BY DEF ConsumersMatch, FailuresForeseen
<1> QED
  BY <1>2, <1>3, <1>4, <1>5 DEF RunInv

LEMMA VaultRun ==
  ASSUME Inv, RunInv, (\E p \in Path : VaultChanges(p)) \/ UNCHANGED vars
  PROVE  RunInv'
PROOF
<1>1. UNCHANGED <<specs, secrets, minted, pending, phase, filter, cause, target,
                  drawn, exports, resourceEnv, steps, holds>>
  BY DEF VaultChanges, vars, store, progress, resolving, resolved
<1>2. S' = S
  BY <1>1 DEF S
<1>3. vault' \in [Path -> 1 .. MaxVersion]
  <2>1. vault \in [Path -> 1 .. MaxVersion]
    BY DEF RunInv, Bounds
  <2>2. CASE UNCHANGED vars
    BY <2>1, <2>2 DEF vars
  <2>3. ASSUME NEW p \in Path, VaultChanges(p)
        PROVE  vault' \in [Path -> 1 .. MaxVersion]
    <3>1. vault[p] \in 1 .. MaxVersion /\ vault[p] < MaxVersion
      BY <2>1, <2>3 DEF VaultChanges
    <3>2. vault[p] + 1 \in 1 .. MaxVersion
      BY <3>1, ValuesAssumption
    <3> QED
      BY <2>1, <2>3, <3>2 DEF VaultChanges
  <2> QED
    BY <2>2, <2>3
<1>4. Bounds'
  BY <1>1, <1>2, <1>3 DEF RunInv, Bounds
<1>5. AtRest' /\ Halfway' /\ Drawing'
  BY <1>1, <1>2 DEF RunInv, AtRest, Ended, Halfway, Todo, Drawing
<1>6. Resolved' /\ Ordered'
  BY <1>1, <1>2 DEF RunInv, Resolved, Ordered
<1>7. Taken'
  BY <1>1, <1>2 DEF RunInv, Taken, Container
<1>8. ConsumersMatch' /\ FailuresForeseen'
  BY <1>1, <1>2 DEF RunInv, ConsumersMatch, Container, FailuresForeseen
<1> QED
  BY <1>4, <1>5, <1>6, <1>7, <1>8 DEF RunInv

LEMMA RunStep ==
  ASSUME Inv, RunInv, [Next]_vars PROVE RunInv'
PROOF
<1>1. ASSUME NEW f, Deploy(f) PROVE RunInv'
  BY <1>1, DeployRun
<1>2. ASSUME NEW n \in DOMAIN S,
             StartResource(n) \/ DeployResource(n) \/ StartApplication(n)
      PROVE  RunInv'
  BY <1>2, StartRun, DeployResourceRun
<1>3. ASSUME NEW v \in Todo, VaultFails(v) PROVE RunInv'
  BY <1>3, FailRun DEF VaultFails
<1>4. CASE RunStops
  BY <1>4, FailRun DEF RunStops
<1>5. CASE EditManifests \/ (\E team \in DOMAIN Registry : Teardown(team))
  BY <1>5, BetweenRun DEF EditManifests, Teardown
<1> QED
  BY <1>1, <1>2, <1>3, <1>4, <1>5, DrawsRun, UnknownRun, GenerateRun, SaveRun,
     EnvFailsRun, OutputsFailRun, ResolveRun, AllResolvedRun,
     DeployApplicationRun, DoneRun, VaultRun DEF Next

LEMMA AlwaysRun == Spec => [](Inv /\ RunInv)
PROOF
<1>1. Spec => [][Next]_vars /\ RunInv
  BY RunInitially DEF Spec
<1>2. Inv /\ RunInv /\ [Next]_vars => RunInv'
  BY RunStep
<1> QED
  BY <1>1, <1>2, Inductive, PTL

(* The state keeps its shape: a secret's serial is one of those generated, *)
(* the exports of a resource are its spec.outputs, its environment has its *)
(* spec.env, and the secret about to be written is still to be drawn.      *)
THEOREM ValuesTyped == Spec => []TypeOK
PROOF
<1>1. ASSUME Inv, RunInv PROVE TypeOK
  <2>1. /\ steps \subseteq DOMAIN S
    BY <1>1, SelectedInSet DEF RunInv, Bounds
  <2>2. target # None => /\ target \in DOMAIN S
                         /\ DOMAIN drawn \subseteq DOMAIN S[target].env
    BY <1>1 DEF Inv, Targeted, RunInv, Drawing, Values
  <2>3. /\ DOMAIN exports = DOMAIN resourceEnv
        /\ \A n \in DOMAIN exports :
             /\ DOMAIN exports[n] = DOMAIN S[n].outputs
             /\ DOMAIN resourceEnv[n] = DOMAIN S[n].env
    BY <1>1 DEF RunInv, Resolved, ResolvedAs
  <2> QED
    BY <1>1, <2>1, <2>2, <2>3 DEF Inv, Shape, RunInv, Bounds, Halfway, TypeOK
<1> QED
  BY <1>1, AlwaysRun, PTL

(* Resolve, the enrichers' coverage check and the access list together     *)
(* grant every read of a set being deployed, and a reference they skip has *)
(* nothing to find.                                                        *)
THEOREM ReadsAreGranted == Spec => []ReadsGranted
PROOF
<1>1. ASSUME Inv, RunInv PROVE ReadsGranted
  <2>1. ASSUME target # None,
               NEW v \in EntriesOf(S[target], "read") \cap DOMAIN drawn
        PROVE  Recognised(Entry(v))
    <3>1. Entry(v).of \in DOMAIN S /\ Entry(v).output \in Exported(S, Entry(v).of)
      BY <1>1, <2>1 DEF RunInv, Drawing, Found, Entry
    <3>2. phase # "idle"
      BY <1>1, <2>1 DEF Inv, Targeted
    <3> QED
      BY <1>1, <3>1, <3>2, ExportedIsRecognised
  <2> QED
    BY <1>1, <2>1, ReadsGrantedNow DEF ReadsGranted
<1> QED
  BY <1>1, AlwaysRun, PTL

(* resolveResources runs once and before the steps: a consumer and the     *)
(* container of the resource get the same value, even a vault's.           *)
THEOREM ConsumersGetTheSame == Spec => []ConsumersMatch
  BY AlwaysRun, PTL DEF RunInv

(* The live resolver and the dry-run resolver fail on the same sets, but   *)
(* for the vault, a missing port, a template that executes on some values  *)
(* only, and what interrupts a run.                                        *)
THEOREM DryRunForesees == Spec => []FailuresForeseen
  BY AlwaysRun, PTL DEF RunInv
-----------------------------------------------------------------------------
(***************************************************************************)
(* The order of resolution and of the steps always has a next one.         *)
(***************************************************************************)

(* A run of more than one artifact is of a set without cycles.             *)
Sorted ==
  phase \in {"resources", "steps"} /\ filter.kind # "one" =>
    ~Cyclic(DOMAIN S, DependsOn(S))

(* The pre-pass finds a resource all whose resources are resolved, and the *)
(* deploy a step none of whose dependencies is still to be taken.          *)
GoesOn ==
  /\ phase = "resources" /\ target = None /\ Resources(S) # DOMAIN resourceEnv =>
       \E n \in Resources(S) \ DOMAIN resourceEnv :
         ResourceGraph(S)[n] \subseteq DOMAIN resourceEnv
  /\ phase = "steps" /\ target = None /\ steps # {} => \E n \in steps : Ready(n)

LEMMA SortedKept ==
  ASSUME Sorted, [Next]_vars PROVE Sorted'
PROOF
<1>1. ASSUME NEW f, Deploy(f) PROVE Sorted'
  <2>1. S' = S /\ filter' = f
    BY <1>1 DEF Deploy, S
  <2>2. f.kind # "one" => ~Cyclic(DOMAIN S, DependsOn(S))
    BY <1>1 DEF Deploy, Accepted
  <2> QED
    BY <2>1, <2>2 DEF Sorted
<1>2. ASSUME NEW why, Fails(why) PROVE Sorted'
  BY <1>2 DEF Fails, Sorted
<1>3. ASSUME UNCHANGED <<specs, filter>>,
             phase' = phase \/ phase = "resources" \/ phase' = "done"
      PROVE  Sorted'
  <2>1. S' = S
    BY <1>3 DEF S
  <2> QED
    BY <1>3, <2>1 DEF Sorted
<1>4. CASE EditManifests \/ (\E team \in DOMAIN Registry : Teardown(team))
  BY <1>4 DEF EditManifests, Teardown, Sorted
<1>5. ASSUME NEW n \in DOMAIN S,
             StartResource(n) \/ DeployResource(n) \/ StartApplication(n)
      PROVE  UNCHANGED <<specs, filter>> /\ phase' = phase
  BY <1>5 DEF StartResource, DeployResource, StartApplication, Start, TakeStep,
              progress
<1>6. ASSUME NEW v \in Todo,
             \/ DrawStatic(v) \/ DrawReference(v) \/ DrawVault(v)
             \/ ReuseSecret(v) \/ GenerateSecret(v)
      PROVE  UNCHANGED <<specs, filter>> /\ phase' = phase
  BY <1>6 DEF DrawStatic, DrawReference, DrawVault, ReuseSecret, GenerateSecret,
              progress
<1>7. CASE SaveTeam \/ ResolveResource \/ DeployApplication \/ UNCHANGED vars
           \/ (\E p \in Path : VaultChanges(p))
  <2>1. UNCHANGED <<specs, filter>> /\ phase' = phase
    BY <1>7 DEF SaveTeam, ResolveResource, DeployApplication, VaultChanges,
                vars, progress
  <2> QED
    BY <1>3, <2>1
<1>8. CASE AllResolved \/ DeployDone
  <2>1. /\ UNCHANGED <<specs, filter>>
        /\ phase = "resources" \/ phase' = "done"
    BY <1>8 DEF AllResolved, DeployDone
  <2> QED
    BY <1>3, <2>1
<1>9. ASSUME NEW v \in Todo, UnknownReference(v) \/ VaultFails(v)
      PROVE  Sorted'
  BY <1>2, <1>9 DEF UnknownReference, VaultFails
<1>10. CASE EnvFails \/ OutputsFail \/ RunStops
  BY <1>2, <1>10 DEF EnvFails, OutputsFail, RenderFails, RunStops
<1> QED
  BY <1>1, <1>3, <1>4, <1>5, <1>6, <1>7, <1>8, <1>9, <1>10 DEF Next

(* The engine can always go on until all is resolved and taken, whatever   *)
(* the filter: neither the resources nor the steps wait for each other.    *)
THEOREM NeverStuck == Spec => []GoesOn
PROOF
<1>1. ASSUME Inv, RunInv, Sorted PROVE GoesOn
  <2>1. ASSUME phase = "resources", target = None,
               Resources(S) # DOMAIN resourceEnv
        PROVE  \E n \in Resources(S) \ DOMAIN resourceEnv :
                 ResourceGraph(S)[n] \subseteq DOMAIN resourceEnv
    <3> DEFINE C == Resources(S) \ DOMAIN resourceEnv
    <3>1. DOMAIN resourceEnv \subseteq Resources(S)
      BY <1>1 DEF RunInv, Resolved, ResolvedAs
    <3>2. C \in (SUBSET Resources(S)) \ {{}}
      BY <2>1, <3>1
    <3>3. PICK n \in C : ResourceGraph(S)[n] \cap C = {}
      BY <1>1, <2>1, <3>2 DEF RunInv, Ordered, Cyclic
    <3>4. ResourceGraph(S)[n] \subseteq Resources(S)
      BY DEF ResourceGraph
    <3> QED
      BY <3>3, <3>4
  <2>2. ASSUME phase = "steps", target = None, steps # {}
        PROVE  \E n \in steps : Ready(n)
    <3>1. steps \subseteq Selected(S, filter) /\ filter \in Filters(S)
      BY <1>1 DEF RunInv, Bounds
    <3>2. CASE filter.kind = "one"
      <4>1. Selected(S, filter) = {filter.on}
        BY <3>2 DEF Selected
      <4> QED
        BY <2>2, <3>1, <4>1 DEF Ready
    <3>3. CASE filter.kind # "one"
      <4>1. Selected(S, filter) \subseteq DOMAIN S
        BY <3>1, SelectedInSet
      <4>2. steps \in (SUBSET DOMAIN S) \ {{}}
        BY <2>2, <3>1, <4>1
      <4>3. PICK n \in steps : DependsOn(S)[n] \cap steps = {}
        BY <1>1, <2>2, <3>3, <4>2 DEF Sorted, Cyclic
      <4> QED
        BY <2>2, <4>3 DEF Ready
    <3> QED
      BY <3>2, <3>3
  <2> QED
    BY <2>1, <2>2 DEF GoesOn
<1>2. Init => Sorted
  BY DEF Init, Sorted
<1>3. Spec => Sorted /\ [][Next]_vars
  BY <1>2 DEF Spec
<1>4. Sorted /\ [Next]_vars => Sorted'
  BY SortedKept
<1> QED
  BY <1>1, <1>3, <1>4, AlwaysRun, PTL

(* A secret on file is never replaced or forgotten, by any deploy, failed  *)
(* write, stop, edit or teardown: GetOrGenerate writes only where the file *)
(* had nothing, and nothing else writes.                                   *)
THEOREM SecretsNeverReplaced ==
  Spec => [][\A k \in SecretKey : secrets[k] # 0 => secrets'[k] = secrets[k]]_vars
PROOF
<1>1. Inv /\ [Next]_vars =>
        [\A k \in SecretKey : secrets[k] # 0 => secrets'[k] = secrets[k]]_vars
  <2> SUFFICES ASSUME Inv, Next, NEW k \in SecretKey, secrets[k] # 0
               PROVE  secrets'[k] = secrets[k]
    OBVIOUS
  <2>1. CASE SaveTeam
    <3>1. secrets' = [secrets EXCEPT ![Key(pending.of)] = pending.serial]
      BY <2>1 DEF SaveTeam, Saved
    <3>2. k # Key(pending.of)
      BY <2>1 DEF SaveTeam, Inv, Unwritten
    <3>3. secrets \in [SecretKey -> Nat]
      BY DEF Inv, Shape
    <3> QED
      BY <3>1, <3>2, <3>3
  <2>2. CASE ~SaveTeam
    BY <2>2 DEF Next, Deploy, StartResource, DeployResource, StartApplication,
       Start, DrawStatic, DrawReference, UnknownReference, DrawVault, VaultFails,
       ReuseSecret, GenerateSecret, EnvFails, OutputsFail, RenderFails,
       ResolveResource, AllResolved, DeployApplication, DeployDone, RunStops,
       EditManifests, Teardown, VaultChanges, Fails, store
  <2> QED
    BY <2>1, <2>2
<1> QED
  BY <1>1, Inductive, PTL DEF Spec

=============================================================================
