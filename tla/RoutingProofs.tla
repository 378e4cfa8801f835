--------------------------- MODULE RoutingProofs ---------------------------
(***************************************************************************)
(* Every property of the gateway's files, for all manifests, configurations *)
(* and sequences of runs.  What a run promises at its end is carried        *)
(* through its steps by an invariant of the phases.                        *)
(***************************************************************************)
EXTENDS Routing, TLAPS

LEMMA RefIsRef ==
  ASSUME apps \in Library, NEW n \in DOMAIN apps
  PROVE  Ref(n) \in Refs
  BY RoutingAssumption DEF Ref

(* An alias keeps its key when its trailing slashes go.                    *)
LEMMA SameKey == ASSUME NEW a PROVE Key(AliasRule(a)) = Key(a)
PROOF
<1> DEFINE r == AliasRule(a)
<1>1. r.host = a.host /\ r.prefix = TrimRight(a.prefix)
  BY DEF AliasRule
<1>2. TrimRight(TrimRight(a.prefix)) = TrimRight(a.prefix)
  <2>1. TrimRight(a.prefix).path = a.prefix.path
    BY DEF TrimRight
  <2> QED
    BY <2>1 DEF TrimRight
<1> QED
  BY <1>1, <1>2 DEF Key

(* A route file is generated for an application that has a domain.         *)
LEMMA ContentTyped ==
  ASSUME NEW n
  PROVE  /\ Content(n).kind = "route" /\ Content(n).of = Ref(n)
         /\ DOMAIN Content(n).rules = Routes(apps[n])
         /\ Content(n).rules[0].host = apps[n].domain
         /\ \A i \in Routes(apps[n]) :
              Key(Content(n).rules[i]) = Key(RouteOf(apps[n], i))
PROOF
<1>1. /\ Content(n).kind = "route" /\ Content(n).of = Ref(n)
      /\ DOMAIN Content(n).rules = Routes(apps[n])
  BY DEF Content
<1>2. \A i \in Routes(apps[n]) :
         Content(n).rules[i] = IF i = 0 THEN PrimaryRule(apps[n])
                               ELSE AliasRule(apps[n].aliases[i])
  BY DEF Content
<1>3. ASSUME NEW i \in Routes(apps[n])
      PROVE  Key(Content(n).rules[i]) = Key(RouteOf(apps[n], i))
  <2>1. CASE i = 0
    BY <1>2, <2>1 DEF Key, RouteOf, PrimaryRule
  <2>2. CASE i # 0
    <3>1. Content(n).rules[i] = AliasRule(apps[n].aliases[i])
      BY <1>2, <2>2
    <3>2. RouteOf(apps[n], i) = apps[n].aliases[i]
      BY <2>2 DEF RouteOf
    <3> QED
      BY <3>1, <3>2, SameKey
  <2> QED
    BY <2>1, <2>2
<1>4. Content(n).rules[0].host = apps[n].domain
  BY <1>2 DEF PrimaryRule, Routes
<1> QED
  BY <1>1, <1>3, <1>4

-----------------------------------------------------------------------------
(***************************************************************************)
(* The state has its shape.                                                *)
(***************************************************************************)

FilesTyped ==
  /\ DOMAIN files \subseteq RouteFiles \cup {Dashboard}
  /\ \A f \in DOMAIN files :
       files[f].kind = "route" =>
         FileOf[files[f].of] = f /\ files[f].rules[0].host # ""

StaticTyped == static.kind \in {"absent", "torn", "file"}

RunTyped ==
  /\ deployed \cup steps \subseteq Refs
  /\ steps # {} => phase \in {"steps", "teardown"}
  /\ phase \in {"idle", "steps", "dashboard", "done", "teardown",
                "gone", "failed"}

LEMMA Parts ==
  TypeOK <=> /\ apps \in Library /\ config \in Configs
             /\ StaticTyped /\ FilesTyped /\ RunTyped
  BY DEF TypeOK, StaticTyped, FilesTyped, RunTyped

LEMMA FileNames ==
  ASSUME apps \in Library, NEW n \in DOMAIN apps
  PROVE  FileOf[Ref(n)] \in RouteFiles
  BY RefIsRef DEF RouteFiles

LEMMA PutTyped ==
  ASSUME FilesTyped, NEW name \in RouteFiles \cup {Dashboard}, NEW content,
         content.kind = "route" =>
           FileOf[content.of] = name /\ content.rules[0].host # "",
         files' = Put(name, content)
  PROVE  FilesTyped'
PROOF
<1>1. RouteFiles' = RouteFiles
  BY DEF RouteFiles
<1>2. /\ DOMAIN files' = DOMAIN files \cup {name}
      /\ files'[name] = content
      /\ \A f \in DOMAIN files \ {name} : files'[f] = files[f]
  BY DEF Put
<1>3. DOMAIN files' \subseteq RouteFiles \cup {Dashboard}
  BY <1>2 DEF FilesTyped
<1>4. ASSUME NEW f \in DOMAIN files', files'[f].kind = "route"
      PROVE  FileOf[files'[f].of] = f /\ files'[f].rules[0].host # ""
  <2>1. CASE f = name
    BY <1>2, <1>4, <2>1
  <2>2. CASE f # name
    BY <1>2, <1>4, <2>2 DEF FilesTyped
  <2> QED
    BY <2>1, <2>2
<1> QED
  BY <1>1, <1>3, <1>4 DEF FilesTyped

LEMMA DropTyped ==
  ASSUME FilesTyped, NEW name, files' = Drop(name)
  PROVE  FilesTyped'
PROOF
<1>1. RouteFiles' = RouteFiles
  BY DEF RouteFiles
<1>2. DOMAIN files' = DOMAIN files \ {name}
      /\ \A f \in DOMAIN files' : files'[f] = files[f]
  BY DEF Drop
<1> QED
  BY <1>1, <1>2 DEF FilesTyped

LEMMA SameFilesTyped ==
  ASSUME FilesTyped, UNCHANGED files PROVE FilesTyped'
  BY DEF FilesTyped, RouteFiles

LEMMA ForeignIsNoRoute ==
  Foreign.kind # "route" /\ [kind |-> "dashboard"].kind # "route"
  BY DEF Foreign

LEMMA StaticValues ==
  /\ Absent.kind = "absent" /\ Torn.kind = "torn"
  /\ \A b : File(b).kind = "file" /\ File(b).websecure = b
  BY DEF Absent, Torn, File

LEMMA TypedInit == Init => TypeOK
PROOF
<1> SUFFICES ASSUME Init PROVE TypeOK
  OBVIOUS
<1>1. FilesTyped
  BY DEF Init, FilesTyped
<1>2. StaticTyped /\ RunTyped
  BY StaticValues DEF Init, StaticTyped, RunTyped
<1> QED
  BY <1>1, <1>2, Parts DEF Init

LEMMA TypedNext == TypeOK /\ [Next]_vars => TypeOK'
PROOF
<1> SUFFICES ASSUME TypeOK, [Next]_vars
             PROVE  apps' \in Library /\ config' \in Configs
                    /\ StaticTyped' /\ FilesTyped' /\ RunTyped'
  BY Parts DEF TypeOK, StaticTyped, FilesTyped, RunTyped
<1> apps \in Library /\ config \in Configs
    /\ StaticTyped /\ FilesTyped /\ RunTyped
  BY Parts
<1>1. ASSUME NEW f \in Scopes, Deploy(f) \/ DeployNothing(f)
      PROVE  apps' \in Library /\ config' \in Configs
             /\ StaticTyped' /\ FilesTyped' /\ RunTyped'
  <2>1. steps' \subseteq Refs /\ (steps' # {} => phase' = "steps")
    <3>1. CASE Deploy(f)
      BY <3>1, RefIsRef DEF Deploy, Selected
    <3>2. CASE DeployNothing(f)
      BY <3>2 DEF DeployNothing, Accepted, Ended, RunTyped
    <3> QED
      BY <1>1, <3>1, <3>2
  <2> QED
    BY <1>1, <2>1, SameFilesTyped
    DEF Deploy, DeployNothing, inputs, disk, StaticTyped, RunTyped
<1>2. ASSUME NEW n \in DOMAIN apps,
             \/ DeployUnrouted(n) \/ RouteStatError(n) \/ PreserveRoute(n)
             \/ WriteRoute(n) \/ RouteFails(n)
      PROVE  apps' \in Library /\ config' \in Configs
             /\ StaticTyped' /\ FilesTyped' /\ RunTyped'
  <2>1. /\ UNCHANGED <<apps, config, static>>
        /\ deployed' \subseteq Refs
        /\ steps' \subseteq steps
        /\ \/ phase' = phase /\ phase = "steps"
           \/ phase' = "failed" /\ steps' = {}
    <3>1. CASE DeployUnrouted(n)
      BY <3>1, RefIsRef DEF DeployUnrouted, Created, inputs, disk, RunTyped
    <3>2. CASE RouteStatError(n) \/ PreserveRoute(n) \/ WriteRoute(n)
      BY <3>2, RefIsRef
      DEF RouteStatError, PreserveRoute, WriteRoute, RouteStep, Created,
          inputs, RunTyped
    <3>3. CASE RouteFails(n)
      BY <3>3, RefIsRef DEF RouteFails, Failed, Created, inputs, RunTyped
    <3> QED
      BY <1>2, <3>1, <3>2, <3>3
  <2>2. FilesTyped'
    <3>1. CASE UNCHANGED files
      BY <3>1, SameFilesTyped
    <3>2. CASE WriteRoute(n)
      <4>1. files' = Put(FileOf[Ref(n)], Content(n))
        BY <3>2 DEF WriteRoute
      <4>2. apps[n].domain # ""
        BY <3>2 DEF WriteRoute, RouteStep, Routed
      <4> QED
        BY <4>1, <4>2, FileNames, ContentTyped, PutTyped
    <3>3. CASE files' = Put(FileOf[Ref(n)], Foreign)
      BY <3>3, FileNames, ForeignIsNoRoute, PutTyped
    <3> QED
      BY <1>2, <3>1, <3>2, <3>3
      DEF DeployUnrouted, RouteStatError, PreserveRoute, RouteFails, disk
  <2> QED
    BY <2>1, <2>2 DEF RunTyped, StaticTyped
<1>3. ASSUME NoGateway \/ PreserveStatic \/ GenerateStatic \/ StaticFails
      PROVE  apps' \in Library /\ config' \in Configs
             /\ StaticTyped' /\ FilesTyped' /\ RunTyped'
  <2>1. UNCHANGED <<apps, config, files, deployed>>
    BY <1>3 DEF NoGateway, PreserveStatic, GenerateStatic, StaticFails, inputs,
                disk
  <2>2. StaticTyped'
    BY <1>3, StaticValues
    DEF NoGateway, PreserveStatic, GenerateStatic, StaticFails, disk,
        StaticTyped
  <2>3. RunTyped'
    BY <1>3, <2>1
    DEF NoGateway, PreserveStatic, GenerateStatic, StaticFails, Finalizing,
        Failed, RunTyped
  <2> QED
    BY <2>1, <2>2, <2>3, SameFilesTyped
<1>4. ASSUME FinalizeDashboard \/ DashboardFails
      PROVE  apps' \in Library /\ config' \in Configs
             /\ StaticTyped' /\ FilesTyped' /\ RunTyped'
  <2>1. UNCHANGED <<apps, config, static, deployed>>
    BY <1>4 DEF FinalizeDashboard, DashboardFails, inputs
  <2>2. RunTyped'
    BY <1>4, <2>1 DEF FinalizeDashboard, DashboardFails, Failed, RunTyped
  <2>3. \/ files' = Drop(Dashboard) \/ files' = files
        \/ files' = Put(Dashboard, [kind |-> "dashboard"])
        \/ files' = Put(Dashboard, Foreign)
    BY <1>4 DEF FinalizeDashboard, DashboardFails, DashboardFile
  <2>4. FilesTyped'
    BY <2>3, SameFilesTyped, DropTyped, PutTyped, ForeignIsNoRoute
  <2> QED
    BY <2>1, <2>2, <2>4 DEF StaticTyped
<1>5. ASSUME NEW ref \in Refs,
             (\E here \in Here : Teardown(ref[1], here)) \/ TeardownApplication(ref)
      PROVE  apps' \in Library /\ config' \in Configs
             /\ StaticTyped' /\ FilesTyped' /\ RunTyped'
  BY <1>5, SameFilesTyped
  DEF Teardown, TeardownApplication, inputs, disk, StaticTyped, RunTyped
<1>6. ASSUME TeardownDone \/ RunStops
      PROVE  apps' \in Library /\ config' \in Configs
             /\ StaticTyped' /\ FilesTyped' /\ RunTyped'
  BY <1>6, SameFilesTyped
  DEF TeardownDone, RunStops, Failed, inputs, disk, StaticTyped, RunTyped
<1>7. ASSUME Operator
      PROVE  RunTyped'
  BY <1>7 DEF Operator, Ended, RunTyped
<1>8. ASSUME Edit \/ ReplaceStatic
      PROVE  apps' \in Library /\ config' \in Configs
             /\ StaticTyped' /\ FilesTyped' /\ RunTyped'
  <2>1. StaticTyped'
    BY <1>8, StaticValues DEF Edit, ReplaceStatic, disk, StaticTyped
  <2> QED
    BY <1>7, <1>8, <2>1, SameFilesTyped DEF Edit, ReplaceStatic, inputs, disk
<1>9. ASSUME NEW name \in DOMAIN files, RemoveFile(name) \/ WriteFile(name)
      PROVE  apps' \in Library /\ config' \in Configs
             /\ StaticTyped' /\ FilesTyped' /\ RunTyped'
  <2>1. files' = Drop(name) \/ files' = Put(name, Foreign)
    BY <1>9 DEF RemoveFile, WriteFile
  <2>2. name \in RouteFiles \cup {Dashboard}
    BY DEF FilesTyped
  <2>3. FilesTyped'
    BY <2>1, <2>2, DropTyped, PutTyped, ForeignIsNoRoute
  <2> QED
    BY <1>7, <1>9, <2>3 DEF RemoveFile, WriteFile, inputs, StaticTyped
<1>10. CASE UNCHANGED vars
  BY <1>10, SameFilesTyped DEF vars, inputs, disk, StaticTyped, RunTyped
<1> QED
  BY <1>1, <1>2, <1>3, <1>4, <1>5, <1>6, <1>8, <1>9, <1>10 DEF Next

(* The state has its shape; a route file has the name its application's    *)
(* reference gives it and a host for its primary route, and only a run     *)
(* that goes on has steps to take.                                         *)
THEOREM Typed == Spec => []TypeOK
BY TypedInit, TypedNext, PTL DEF Spec

-----------------------------------------------------------------------------
(***************************************************************************)
(* Nothing a run finds in the directory is changed.                        *)
(***************************************************************************)

LEMMA PutKeeps ==
  ASSUME NEW name, NEW content, name \notin DOMAIN files,
         files' = Put(name, content)
  PROVE  \A f \in DOMAIN files : f \in DOMAIN files' /\ files'[f] = files[f]
  BY DEF Put

LEMMA DropKeeps ==
  ASSUME NEW name, files' = Drop(name)
  PROVE  /\ name \notin DOMAIN files'
         /\ \A f \in DOMAIN files \ {name} :
              f \in DOMAIN files' /\ files'[f] = files[f]
  BY DEF Drop

LEMMA Keeps == [Next]_vars => KeepsFiles
PROOF
<1> SUFFICES ASSUME [Next]_vars, ~Ended
             PROVE  /\ static # Absent => static' = static
                    /\ \A f \in DOMAIN files :
                         \/ f \in DOMAIN files' /\ files'[f] = files[f]
                         \/ /\ f = Dashboard /\ f \notin DOMAIN files'
                            /\ phase = "dashboard" /\ ~HasDashboard(config)
  BY DEF KeepsFiles
<1>1. CASE UNCHANGED disk
  BY <1>1 DEF disk
<1>2. CASE \E n \in DOMAIN apps : WriteRoute(n) \/ RouteFails(n)
  <2> PICK n \in DOMAIN apps : WriteRoute(n) \/ RouteFails(n)
    BY <1>2
  <2>1. FileOf[Ref(n)] \notin DOMAIN files /\ UNCHANGED static
    BY DEF WriteRoute, RouteFails, RouteStep, IsPathPresent
  <2>2. \/ files' = Put(FileOf[Ref(n)], Content(n)) \/ files' = files
        \/ files' = Put(FileOf[Ref(n)], Foreign)
    BY DEF WriteRoute, RouteFails
  <2> QED
    BY <2>1, <2>2, PutKeeps
<1>3. CASE GenerateStatic \/ StaticFails
  BY <1>3 DEF GenerateStatic, StaticFails
<1>4. CASE FinalizeDashboard \/ DashboardFails
  <2>1. UNCHANGED static /\ phase = "dashboard"
    BY <1>4 DEF FinalizeDashboard, DashboardFails
  <2>2. \/ files' = files
        \/ ~HasDashboard(config) /\ files' = Drop(Dashboard)
        \/ /\ Dashboard \notin DOMAIN files
           /\ \/ files' = Put(Dashboard, [kind |-> "dashboard"])
              \/ files' = Put(Dashboard, Foreign)
    BY <1>4
    DEF FinalizeDashboard, DashboardFails, DashboardFile, IsPathPresent
  <2> QED
    BY <2>1, <2>2, PutKeeps, DropKeeps
<1> QED
  BY <1>1, <1>2, <1>3, <1>4
  DEF Next, Deploy, DeployNothing, DeployUnrouted, RouteStatError, PreserveRoute, RouteStep,
      NoGateway, PreserveStatic, Teardown, TeardownApplication, TeardownDone,
      RunStops, Edit, ReplaceStatic, RemoveFile, WriteFile, Operator, disk, vars

(* What is in the gateway's directory when a run starts is there, byte for *)
(* byte, whatever the run does and wherever it stops; only the dashboard's *)
(* file may be removed, by a deploy whose configuration has no dashboard.  *)
THEOREM Kept == Spec => FilesKept
PROOF
<1>1. [Next]_vars => [KeepsFiles]_vars
  BY Keeps
<1> QED
  BY <1>1, PTL DEF Spec, FilesKept

-----------------------------------------------------------------------------
(***************************************************************************)
(* What a deploy has done so far.  An application of its scope that is not *)
(* among the steps any more has been served and warned; while traefik.yml  *)
(* is absent its warning speaks of the file Finalize will generate.        *)
(***************************************************************************)

InRun == phase \in {"steps", "dashboard", "done"}

Apart(f) ==
  \A n, k \in DOMAIN apps :
    InScope(f, n) /\ n # k => Claims(n) \cap Claims(k) = {}

Checked ==
  InRun => Apart(scope) /\ \A n \in DOMAIN apps : ValidAliases(apps[n])

Staged ==
  /\ InRun => \A n \in DOMAIN apps : Ref(n) \in steps => InScope(scope, n)
  /\ phase = "dashboard" => scope.here

Served ==
  InRun =>
    \A n \in DOMAIN apps :
      /\ InScope(scope, n) /\ Routed(n) /\ Ref(n) \notin steps =>
           \/ FileOf[Ref(n)] \in DOMAIN files
           \/ <<"stat_error", Ref(n)>> \in events
      /\ <<"generated", Ref(n)>> \in events =>
           InScope(scope, n) /\ Routed(n) /\ Current(n)

Warned ==
  /\ phase = "steps" /\ static # Torn =>
       \A n \in DOMAIN apps : InScope(scope, n) /\ Routed(n) /\ WantsTLS(n) =>
         (<<"tls_no_websecure", Ref(n)>> \in events <=>
            Ref(n) \notin steps /\ ~WillHaveWebsecure(static, config))
  /\ phase \in {"dashboard", "done"} /\ static.kind = "file" =>
       /\ \A n \in DOMAIN apps :
            InScope(scope, n) /\ Routed(n) /\ WantsTLS(n) =>
              (<<"tls_no_websecure", Ref(n)>> \in events <=>
                 ~HasWebsecure(static))
       /\ scope.here /\ config.tls # 0 /\ ~HasWebsecure(static) =>
            <<"tls_port_no_websecure", Gateway>> \in events

DashboardSettled ==
  phase = "done" /\ scope.here =>
    (Dashboard \in DOMAIN files <=> HasDashboard(config))

Announced ==
  phase \in {"teardown", "gone"} /\ scope.here =>
    \A ref \in Refs :
      <<"removed", ref>> \in events /\ FileOf[ref] \in DOMAIN files =>
        {<<"orphan", ref>>, <<"stat_error", ref>>} \cap events # {}

Inv == /\ TypeOK /\ Checked /\ Staged /\ Served /\ Warned
       /\ DashboardSettled /\ Announced

(* The steps a deploy is in the middle of, or at the end of, after.        *)
LEMMA DeploySteps ==
  ASSUME [Next]_vars, InRun'
  PROVE  \/ \E f \in Scopes : Deploy(f)
         \/ \E n \in DOMAIN apps :
              \/ DeployUnrouted(n) \/ RouteStatError(n) \/ PreserveRoute(n)
              \/ WriteRoute(n)
         \/ NoGateway \/ PreserveStatic \/ GenerateStatic
         \/ FinalizeDashboard
         \/ UNCHANGED vars
PROOF
<1>1. \A n \in DOMAIN apps : ~RouteFails(n)
  BY DEF RouteFails, Failed, InRun
<1>2. ~StaticFails /\ ~DashboardFails /\ ~RunStops
  BY DEF StaticFails, DashboardFails, RunStops, Failed, InRun
<1>3. /\ \A ref \in Refs, here \in Here : ~Teardown(ref[1], here)
      /\ \A f \in Scopes : ~DeployNothing(f)
  BY DEF Teardown, DeployNothing, InRun
<1>4. \A ref \in Refs : ~TeardownApplication(ref)
  BY DEF TeardownApplication, InRun
<1>5. ~TeardownDone /\ ~Operator
  BY DEF TeardownDone, Operator, InRun
<1>6. ~Edit /\ ~ReplaceStatic
      /\ \A name \in DOMAIN files : ~(RemoveFile(name) \/ WriteFile(name))
  BY <1>5 DEF Edit, ReplaceStatic, RemoveFile, WriteFile
<1> QED
  BY <1>1, <1>2, <1>3, <1>4, <1>5, <1>6 DEF Next

LEMMA TeardownSteps ==
  ASSUME [Next]_vars, phase' \in {"teardown", "gone"}
  PROVE  \/ \E ref \in Refs, here \in Here : Teardown(ref[1], here)
         \/ \E ref \in Refs : TeardownApplication(ref)
         \/ TeardownDone
         \/ UNCHANGED vars
PROOF
<1>1. \A f \in Scopes : ~Deploy(f) /\ ~DeployNothing(f)
  BY DEF Deploy, DeployNothing
<1>2. \A n \in DOMAIN apps :
        ~(\/ DeployUnrouted(n) \/ RouteStatError(n) \/ PreserveRoute(n)
          \/ WriteRoute(n) \/ RouteFails(n))
  BY DEF DeployUnrouted, RouteStatError, PreserveRoute, WriteRoute, RouteFails,
         RouteStep, Failed
<1>3. ~(NoGateway \/ PreserveStatic \/ GenerateStatic \/ StaticFails)
  BY DEF NoGateway, PreserveStatic, GenerateStatic, StaticFails, Failed
<1>4. ~(FinalizeDashboard \/ DashboardFails \/ RunStops)
  BY DEF FinalizeDashboard, DashboardFails, RunStops, Failed
<1>5. ~(Edit \/ ReplaceStatic)
      /\ \A name \in DOMAIN files : ~(RemoveFile(name) \/ WriteFile(name))
  BY DEF Edit, ReplaceStatic, RemoveFile, WriteFile, Operator
<1> QED
  BY <1>1, <1>2, <1>3, <1>4, <1>5 DEF Next

LEMMA DeployInputs ==
  ASSUME [Next]_vars, InRun'
  PROVE  UNCHANGED <<apps, config>>
PROOF
<1>1. ASSUME NEW f \in Scopes, Deploy(f) PROVE UNCHANGED <<apps, config>>
  BY <1>1 DEF Deploy, inputs
<1>2. ASSUME NEW n \in DOMAIN apps,
             \/ DeployUnrouted(n) \/ RouteStatError(n) \/ PreserveRoute(n)
             \/ WriteRoute(n)
      PROVE  UNCHANGED <<apps, config>>
  BY <1>2 DEF DeployUnrouted, RouteStatError, PreserveRoute, WriteRoute,
              RouteStep, inputs
<1>3. ASSUME NoGateway \/ PreserveStatic \/ GenerateStatic \/ FinalizeDashboard
      PROVE  UNCHANGED <<apps, config>>
  BY <1>3 DEF NoGateway, PreserveStatic, GenerateStatic, FinalizeDashboard,
              inputs
<1> QED
  BY <1>1, <1>2, <1>3, DeploySteps DEF vars, inputs

(* Every claimant is compared with the first one only, and that is enough. *)
LEMMA NoCollision == ASSUME NEW f, ~Collides(f) PROVE Apart(f)
PROOF
<1> SUFFICES ASSUME NEW n \in DOMAIN apps, NEW k \in DOMAIN apps,
                    InScope(f, n), n # k,
                    NEW key \in Claims(n) \cap Claims(k)
             PROVE  FALSE
  BY DEF Apart
<1>1. n \in Claimants(key) /\ k \in Claimants(key)
  BY DEF Claimants
<1>2. CASE n = First(key)
  BY <1>1, <1>2 DEF Collides
<1>3. CASE n # First(key)
  BY <1>1, <1>3 DEF Collides
<1> QED
  BY <1>2, <1>3

LEMMA ApartStays ==
  ASSUME UNCHANGED apps, NEW f, Apart(f), scope' = f
  PROVE  Apart(scope)'
PROOF
<1>1. \A n : Claims(n)' = Claims(n)
  BY DEF Claims
<1>2. \A n : InScope(scope, n)' <=> InScope(f, n)
  BY DEF InScope
<1> QED
  BY <1>1, <1>2 DEF Apart

LEMMA CheckedInv == Checked /\ [Next]_vars => Checked'
PROOF
<1> SUFFICES ASSUME Checked, [Next]_vars, InRun'
             PROVE  /\ Apart(scope)'
                    /\ \A n \in DOMAIN apps' : ValidAliases(apps'[n])
  BY DEF Checked
<1>1. UNCHANGED <<apps, config>>
  BY DeployInputs
<1>2. CASE \E f \in Scopes : Deploy(f)
  <2> PICK f \in Scopes : Deploy(f)
    BY <1>2
  <2>1. Apart(f) /\ scope' = f
        /\ \A n \in DOMAIN apps : ValidAliases(apps[n])
    BY NoCollision DEF Deploy, Accepted
  <2> QED
    BY <1>1, <2>1, ApartStays
<1>3. CASE InRun /\ UNCHANGED scope
  BY <1>1, <1>3, ApartStays DEF Checked
<1> QED
  BY <1>2, <1>3, DeploySteps
  DEF DeployUnrouted, RouteStatError, PreserveRoute, WriteRoute, RouteStep,
      NoGateway, PreserveStatic, GenerateStatic, Finalizing, FinalizeDashboard,
      InRun, vars

LEMMA StagedInv == Staged /\ [Next]_vars => Staged'
PROOF
<1> SUFFICES ASSUME Staged, [Next]_vars, InRun'
             PROVE  /\ \A n \in DOMAIN apps' :
                         Ref(n)' \in steps' => InScope(scope, n)'
                    /\ phase' = "dashboard" => scope'.here
  BY DEF Staged, InRun
<1>1. UNCHANGED <<apps, config>>
  BY DeployInputs
<1>2. CASE \E f \in Scopes : Deploy(f)
  BY <1>1, <1>2 DEF Deploy, Selected, Ref, InScope
<1>3. CASE \E n \in DOMAIN apps :
              \/ DeployUnrouted(n) \/ RouteStatError(n) \/ PreserveRoute(n)
              \/ WriteRoute(n)
  BY <1>1, <1>3
  DEF DeployUnrouted, RouteStatError, PreserveRoute, WriteRoute, RouteStep,
      Staged, InRun, Ref, InScope
<1>4. CASE NoGateway \/ PreserveStatic \/ GenerateStatic \/ FinalizeDashboard
  BY <1>1, <1>4
  DEF NoGateway, PreserveStatic, GenerateStatic, FinalizeDashboard, Finalizing,
      Staged, InRun, Ref, InScope
<1>5. CASE UNCHANGED vars
  BY <1>5 DEF vars, inputs, Staged, InRun, Ref, InScope
<1> QED
  BY <1>2, <1>3, <1>4, <1>5, DeploySteps

-----------------------------------------------------------------------------
(***************************************************************************)
(* The invariant step by step.                                             *)
(***************************************************************************)

(* What is said of an application is said of the manifests and the         *)
(* configuration the run began with.                                       *)
LEMMA SameTerms ==
  ASSUME UNCHANGED <<apps, config>>, NEW n
  PROVE  /\ Ref(n)' = Ref(n) /\ Content(n)' = Content(n)
         /\ (WantsTLS(n)' <=> WantsTLS(n))
         /\ (HasDashboard(config)' <=> HasDashboard(config))
         /\ UNCHANGED scope => /\ (InScope(scope, n)' <=> InScope(scope, n))
                               /\ (Routed(n)' <=> Routed(n))
PROOF
<1>1. Ref(n)' = Ref(n)
  BY DEF Ref
<1>2. Content(n)' = Content(n)
  BY <1>1 DEF Content
<1> QED
  BY <1>1, <1>2 DEF Routed, WantsTLS, HasDashboard, InScope

LEMMA OneRef ==
  ASSUME NEW n, NEW k, Ref(n) = Ref(k) PROVE n = k
  BY DEF Ref

LEMMA ServedInv == Inv /\ [Next]_vars => Served'
PROOF
<1> SUFFICES ASSUME Inv, [Next]_vars, InRun', NEW k \in DOMAIN apps'
    PROVE  /\ InScope(scope, k)' /\ Routed(k)' /\ Ref(k)' \notin steps' =>
                \/ FileOf[Ref(k)'] \in DOMAIN files'
                \/ <<"stat_error", Ref(k)'>> \in events'
           /\ <<"generated", Ref(k)'>> \in events' =>
                InScope(scope, k)' /\ Routed(k)' /\ Current(k)'
  BY DEF Served, InRun
<1>1. UNCHANGED <<apps, config>>
  BY DeployInputs
<1>2. /\ Ref(k)' = Ref(k) /\ Content(k)' = Content(k)
      /\ UNCHANGED scope => /\ (InScope(scope, k)' <=> InScope(scope, k))
                            /\ (Routed(k)' <=> Routed(k))
  BY <1>1, SameTerms
<1>3. k \in DOMAIN apps /\ Ref(k) \in Refs
  BY <1>1, RefIsRef DEF Inv, TypeOK
(* Nothing said so far is taken back while files are only added.           *)
<1>4. ASSUME InRun, UNCHANGED scope,
             \/ <<"generated", Ref(k)>> \in events
             \/ <<"generated", Ref(k)>> \notin events',
             events \subseteq events',
             \/ Ref(k) \in steps' \/ Ref(k) \notin steps \/ ~Routed(k)
             \/ FileOf[Ref(k)] \in DOMAIN files'
             \/ <<"stat_error", Ref(k)>> \in events',
             \A f \in RouteFiles \cap DOMAIN files :
               f \in DOMAIN files' /\ files'[f] = files[f]
      PROVE  /\ InScope(scope, k)' /\ Routed(k)' /\ Ref(k)' \notin steps' =>
                  \/ FileOf[Ref(k)'] \in DOMAIN files'
                  \/ <<"stat_error", Ref(k)'>> \in events'
             /\ <<"generated", Ref(k)'>> \in events' =>
                  InScope(scope, k)' /\ Routed(k)' /\ Current(k)'
  <2>1. FileOf[Ref(k)] \in RouteFiles
    BY <1>3 DEF RouteFiles
  <2>2. Current(k) => Current(k)'
    BY <1>2, <1>4, <2>1 DEF Current
  <2>3. /\ InScope(scope, k) /\ Routed(k) /\ Ref(k) \notin steps =>
             \/ FileOf[Ref(k)] \in DOMAIN files
             \/ <<"stat_error", Ref(k)>> \in events
        /\ <<"generated", Ref(k)>> \in events =>
             InScope(scope, k) /\ Routed(k) /\ Current(k)
    BY <1>3, <1>4 DEF Inv, Served
  <2> QED
    BY <1>2, <1>4, <2>1, <2>2, <2>3
<1>5. CASE \E f \in Scopes : Deploy(f)
  <2> PICK f \in Scopes : Deploy(f)
    BY <1>5
  <2>1. InScope(scope, k)' => Ref(k) \in steps'
    BY <1>1, <1>3 DEF Deploy, Selected, InScope
  <2>2. events' = {}
    BY DEF Deploy
  <2> QED
    BY <1>2, <2>1, <2>2
<1>6. CASE \E n \in DOMAIN apps :
              \/ DeployUnrouted(n) \/ RouteStatError(n) \/ PreserveRoute(n)
              \/ WriteRoute(n)
  <2> PICK n \in DOMAIN apps :
              \/ DeployUnrouted(n) \/ RouteStatError(n) \/ PreserveRoute(n)
              \/ WriteRoute(n)
    BY <1>6
  <2>1. /\ InRun /\ UNCHANGED scope /\ steps' = steps \ {Ref(n)}
        /\ Ref(n) \in steps
    BY DEF DeployUnrouted, RouteStatError, PreserveRoute, WriteRoute, RouteStep,
           InRun
  <2>2. \A r, e : <<e, r>> \in TLSSignal(n) => e # "generated"
    BY DEF TLSSignal
  <2>3. CASE DeployUnrouted(n)
    <3>1. Ref(k) = Ref(n) => ~Routed(k)
      BY <2>3, OneRef DEF DeployUnrouted
    <3> QED
      BY <1>4, <2>1, <2>3, <3>1 DEF DeployUnrouted, disk
  <2>4. CASE RouteStatError(n)
    BY <1>4, <2>1, <2>2, <2>4 DEF RouteStatError
  <2>5. CASE PreserveRoute(n)
    BY <1>4, <2>1, <2>2, <2>5 DEF PreserveRoute, IsPathPresent
  <2>6. CASE WriteRoute(n)
    <3>1. \A f \in RouteFiles \cap DOMAIN files :
             f \in DOMAIN files' /\ files'[f] = files[f]
      BY <2>6, PutKeeps DEF WriteRoute, IsPathPresent
    <3>2. /\ FileOf[Ref(n)] \in DOMAIN files'
          /\ files'[FileOf[Ref(n)]] = Content(n)
      BY <2>6 DEF WriteRoute, Put
    <3>3. CASE k = n
      <4>1. InScope(scope, n) /\ Routed(n)
        BY <2>1, <2>6 DEF WriteRoute, RouteStep, Inv, Staged
      <4> QED
        BY <1>2, <2>1, <3>2, <3>3, <4>1 DEF Current
    <3>4. CASE k # n
      <4>1. Ref(k) # Ref(n)
        BY <3>4, OneRef
      <4> QED
        BY <1>4, <2>1, <2>2, <2>6, <3>1, <4>1 DEF WriteRoute
    <3> QED
      BY <3>3, <3>4
  <2> QED
    BY <2>3, <2>4, <2>5, <2>6
<1>7. CASE NoGateway \/ PreserveStatic \/ GenerateStatic
  <2>1. InRun /\ UNCHANGED <<scope, steps, files>>
    BY <1>7
    DEF NoGateway, PreserveStatic, GenerateStatic, Finalizing, InRun, disk
  <2>2. /\ events \subseteq events'
        /\ \A r : <<"generated", r>> \in events' => <<"generated", r>> \in events
    BY <1>7 DEF NoGateway, PreserveStatic, GenerateStatic, TLSPortSignal
  <2> QED
    BY <1>4, <2>1, <2>2
<1>8. CASE FinalizeDashboard
  <2>1. InRun /\ UNCHANGED <<scope, steps, events>>
    BY <1>8 DEF FinalizeDashboard, InRun
  <2>2. \A f \in RouteFiles \cap DOMAIN files :
           f \in DOMAIN files' /\ files'[f] = files[f]
    <3>1. \A f \in RouteFiles : f # Dashboard
      BY RoutingAssumption DEF RouteFiles
    <3>2. \/ files' = Drop(Dashboard) \/ files' = files
          \/ /\ Dashboard \notin DOMAIN files
             /\ files' = Put(Dashboard, [kind |-> "dashboard"])
      BY <1>8 DEF FinalizeDashboard, DashboardFile, IsPathPresent
    <3> QED
      BY <3>1, <3>2, PutKeeps, DropKeeps
  <2> QED
    BY <1>4, <2>1, <2>2
<1>9. CASE UNCHANGED vars
  <2>1. UNCHANGED <<scope, steps, events, files, phase>>
    BY <1>9 DEF vars, disk
  <2>2. InRun
    BY <2>1 DEF InRun
  <2> QED
    BY <1>4, <2>1, <2>2
<1> QED
  BY <1>5, <1>6, <1>7, <1>8, <1>9, DeploySteps

LEMMA WarnedInSteps ==
  ASSUME Inv, [Next]_vars, phase' = "steps", static' # Torn,
         NEW k \in DOMAIN apps,
         InScope(scope, k)', Routed(k)', WantsTLS(k)
  PROVE  <<"tls_no_websecure", Ref(k)>> \in events' <=>
           Ref(k) \notin steps' /\ ~WillHaveWebsecure(static', config)
PROOF
<1>1. UNCHANGED <<apps, config>>
  BY DeployInputs DEF InRun
<1>2. CASE \E f \in Scopes : Deploy(f)
  <2>1. Ref(k) \in steps' /\ events' = {}
    BY <1>1, <1>2 DEF Deploy, Selected, InScope
  <2> QED
    BY <2>1
<1>3. CASE \E n \in DOMAIN apps :
              \/ DeployUnrouted(n) \/ RouteStatError(n) \/ PreserveRoute(n)
              \/ WriteRoute(n)
  <2> PICK n \in DOMAIN apps :
              \/ DeployUnrouted(n) \/ RouteStatError(n) \/ PreserveRoute(n)
              \/ WriteRoute(n)
    BY <1>3
  <2>1. /\ phase = "steps" /\ UNCHANGED <<scope, static>>
        /\ steps' = steps \ {Ref(n)} /\ Ref(n) \in steps
    BY DEF DeployUnrouted, RouteStatError, PreserveRoute, WriteRoute, RouteStep,
           disk
  <2>2. InScope(scope, k) /\ Routed(k)
    BY <1>1, <2>1, SameTerms
  <2>3. <<"tls_no_websecure", Ref(k)>> \in events <=>
          Ref(k) \notin steps /\ ~WillHaveWebsecure(static, config)
    BY <2>1, <2>2 DEF Inv, Warned
  <2>4. \/ DeployUnrouted(n) /\ events' = events
        \/ events' = events \cup TLSSignal(n) \cup {<<"stat_error", Ref(n)>>}
        \/ events' = events \cup TLSSignal(n)
        \/ events' = events \cup TLSSignal(n) \cup {<<"generated", Ref(n)>>}
    BY DEF DeployUnrouted, RouteStatError, PreserveRoute, WriteRoute
  <2>5. CASE k = n
    <3>1. ~DeployUnrouted(n)
      BY <2>2, <2>5 DEF DeployUnrouted
    <3>2. <<"tls_no_websecure", Ref(n)>> \in TLSSignal(n) <=>
            ~WillHaveWebsecure(static, config)
      BY <2>1, <2>5 DEF TLSSignal
    <3> QED
      BY <2>1, <2>3, <2>4, <2>5, <3>1, <3>2
  <2>6. CASE k # n
    <3>1. Ref(k) # Ref(n)
      BY <2>6, OneRef
    <3>2. <<"tls_no_websecure", Ref(k)>> \notin TLSSignal(n)
      BY <3>1 DEF TLSSignal
    <3> QED
      BY <2>1, <2>3, <2>4, <3>1, <3>2
  <2> QED
    BY <2>5, <2>6
<1>4. CASE UNCHANGED vars
  <2>1. /\ phase = "steps" /\ UNCHANGED <<scope, steps, events, static>>
        /\ InScope(scope, k) /\ Routed(k)
    BY <1>1, <1>4, SameTerms DEF vars, disk
  <2> QED
    BY <2>1 DEF Inv, Warned
<1> QED
  BY <1>2, <1>3, <1>4, DeploySteps
  DEF InRun, NoGateway, PreserveStatic, GenerateStatic, FinalizeDashboard

LEMMA WarnedAtEnd ==
  ASSUME Inv, [Next]_vars, phase' \in {"dashboard", "done"},
         static'.kind = "file"
  PROVE  /\ \A n \in DOMAIN apps :
              InScope(scope, n)' /\ Routed(n)' /\ WantsTLS(n) =>
                (<<"tls_no_websecure", Ref(n)>> \in events' <=>
                   ~HasWebsecure(static'))
         /\ scope'.here /\ config.tls # 0 /\ ~HasWebsecure(static') =>
              <<"tls_port_no_websecure", Gateway>> \in events'
PROOF
<1>1. UNCHANGED <<apps, config>>
  BY DeployInputs DEF InRun
<1>2. \A r : /\ <<"tls_no_websecure", r>> \notin TLSPortSignal
             /\ static.kind = "file" /\ config.tls # 0 /\ ~HasWebsecure(static)
                  => <<"tls_port_no_websecure", Gateway>> \in TLSPortSignal
  BY StaticValues DEF TLSPortSignal
<1>3. CASE NoGateway
  BY <1>1, <1>3 DEF NoGateway, Routed
<1>4. CASE PreserveStatic
  <2>1. /\ UNCHANGED <<scope, steps, static>> /\ phase = "steps" /\ steps = {}
        /\ static # Torn /\ static # Absent
        /\ events' = events \cup TLSPortSignal
    BY <1>4, StaticValues DEF PreserveStatic, Finalizing, disk
  <2>2. \A n : /\ InScope(scope, n)' <=> InScope(scope, n)
               /\ Routed(n)' <=> Routed(n)
    BY <1>1, <2>1, SameTerms
  <2>3. WillHaveWebsecure(static, config) <=> HasWebsecure(static)
    BY <2>1 DEF WillHaveWebsecure
  <2> QED
    BY <1>2, <2>1, <2>2, <2>3 DEF Inv, Warned
<1>5. CASE GenerateStatic
  <2>1. /\ UNCHANGED <<scope, steps, events>> /\ phase = "steps" /\ steps = {}
        /\ static # Torn /\ static = Absent
        /\ static' = File(config.tls > 0)
    BY <1>5, StaticValues DEF GenerateStatic, Finalizing
  <2>2. \A n : /\ InScope(scope, n)' <=> InScope(scope, n)
               /\ Routed(n)' <=> Routed(n)
    BY <1>1, <2>1, SameTerms
  <2>3. HasWebsecure(static') <=> config.tls > 0
    <3>1. CASE config.tls > 0
      <4>1. static' = File(TRUE)
        BY <2>1, <3>1, Zenon
      <4> QED
        BY <3>1, <4>1, StaticValues DEF HasWebsecure
    <3>2. CASE ~(config.tls > 0)
      <4>1. static' = File(FALSE)
        <5>1. (config.tls > 0) = FALSE
          BY <3>2
        <5> QED
          BY <2>1, <5>1
      <4> QED
        BY <3>2, <4>1, StaticValues DEF HasWebsecure
    <3> QED
      BY <3>1, <3>2
  <2>4. WillHaveWebsecure(static, config) <=> config.tls > 0
    BY <2>1 DEF WillHaveWebsecure
  <2>5. config.tls # 0 => config.tls > 0
    <3>1. config \in Configs
      BY DEF Inv, TypeOK
    <3>2. config.tls \in Nat
      BY <3>1, RoutingAssumption
    <3> QED
      BY <3>2
  <2> QED
    BY <2>1, <2>2, <2>3, <2>4, <2>5 DEF Inv, Warned
<1>6. CASE FinalizeDashboard \/ UNCHANGED vars
  <2>1. UNCHANGED <<scope, steps, events, static>> /\ phase \in {"dashboard", "done"}
    BY <1>6 DEF FinalizeDashboard, vars, disk
  <2>2. \A n : /\ InScope(scope, n)' <=> InScope(scope, n)
               /\ Routed(n)' <=> Routed(n)
    BY <1>1, <2>1, SameTerms
  <2> QED
    BY <2>1, <2>2 DEF Inv, Warned
<1> QED
  BY <1>3, <1>4, <1>5, <1>6, DeploySteps
  DEF InRun, Deploy, DeployUnrouted, RouteStatError, PreserveRoute, WriteRoute,
      RouteStep

LEMMA WarnedInv == Inv /\ [Next]_vars => Warned'
PROOF
<1> SUFFICES ASSUME Inv, [Next]_vars, InRun' PROVE Warned'
  BY DEF Warned, InRun
<1>1. UNCHANGED <<apps, config>>
  BY DeployInputs
<1>2. \A n : Ref(n)' = Ref(n) /\ (WantsTLS(n)' <=> WantsTLS(n))
  BY <1>1, SameTerms
<1>3. Gateway' = Gateway
  BY DEF Gateway
<1>4. WillHaveWebsecure(static, config)' <=> WillHaveWebsecure(static', config)
  BY <1>1 DEF WillHaveWebsecure, HasWebsecure, Absent
<1>5. HasWebsecure(static)' <=> HasWebsecure(static')
  OBVIOUS
<1> QED
  BY <1>1, <1>2, <1>3, <1>4, <1>5, WarnedInSteps, WarnedAtEnd DEF Warned, Torn

LEMMA DashboardInv == Inv /\ [Next]_vars => DashboardSettled'
PROOF
<1> SUFFICES ASSUME Inv, [Next]_vars, phase' = "done", scope'.here
             PROVE  (Dashboard \in DOMAIN files' <=> HasDashboard(config)')
  BY DEF DashboardSettled
<1>1. UNCHANGED <<apps, config>>
  BY DeployInputs DEF InRun
<1>2. HasDashboard(config)' <=> HasDashboard(config)
  BY <1>1, SameTerms
<1>3. CASE NoGateway
  BY <1>2, <1>3 DEF NoGateway
<1>4. CASE FinalizeDashboard
  <2>1. CASE ~HasDashboard(config)
    <3>1. files' = Drop(Dashboard)
      BY <1>4, <2>1 DEF FinalizeDashboard, DashboardFile
    <3> QED
      BY <1>2, <2>1, <3>1, DropKeeps
  <2>2. CASE HasDashboard(config) /\ Dashboard \in DOMAIN files
    BY <1>2, <1>4, <2>2 DEF FinalizeDashboard, DashboardFile, IsPathPresent
  <2>3. CASE HasDashboard(config) /\ Dashboard \notin DOMAIN files
    <3>1. files' = Put(Dashboard, [kind |-> "dashboard"])
      BY <1>4, <2>3 DEF FinalizeDashboard, DashboardFile, IsPathPresent
    <3> QED
      BY <1>2, <2>3, <3>1 DEF Put
  <2> QED
    BY <2>1, <2>2, <2>3
<1>5. CASE UNCHANGED vars
  BY <1>2, <1>5 DEF vars, disk, Inv, DashboardSettled
<1> QED
  BY <1>3, <1>4, <1>5, DeploySteps
  DEF InRun, Deploy, DeployUnrouted, RouteStatError, PreserveRoute, WriteRoute,
      RouteStep, PreserveStatic, GenerateStatic

LEMMA AnnouncedInv == Inv /\ [Next]_vars => Announced'
PROOF
<1> SUFFICES ASSUME Inv, [Next]_vars, phase' \in {"teardown", "gone"},
                    scope'.here, NEW r \in Refs,
                    <<"removed", r>> \in events', FileOf[r] \in DOMAIN files'
             PROVE  {<<"orphan", r>>, <<"stat_error", r>>} \cap events' # {}
  BY DEF Announced
<1>1. UNCHANGED files
  BY TeardownSteps
  DEF Teardown, TeardownApplication, TeardownDone, disk, vars
<1>2. FileOf[r] \in DOMAIN files
  BY <1>1
<1>3. CASE \E ref \in Refs, here \in Here : Teardown(ref[1], here)
  BY <1>3 DEF Teardown
<1>4. CASE \E ref \in Refs : TeardownApplication(ref)
  <2> PICK ref \in Refs : TeardownApplication(ref)
    BY <1>4
  <2>1. events \subseteq events' /\ phase = "teardown" /\ scope.here
    BY DEF TeardownApplication
  <2>2. CASE r = ref
    BY <1>2, <2>2 DEF TeardownApplication, IsPathPresent
  <2>3. CASE r # ref
    <3>1. <<"removed", r>> \in events
      BY <2>3 DEF TeardownApplication
    <3>2. {<<"orphan", r>>, <<"stat_error", r>>} \cap events # {}
      BY <1>2, <2>1, <3>1 DEF Inv, Announced
    <3> QED
      BY <2>1, <3>2
  <2> QED
    BY <2>2, <2>3
<1>5. CASE TeardownDone \/ UNCHANGED vars
  <2>1. UNCHANGED <<events, scope>> /\ phase \in {"teardown", "gone"}
    BY <1>5 DEF TeardownDone, vars
  <2> QED
    BY <1>2, <2>1 DEF Inv, Announced
<1> QED
  BY <1>3, <1>4, <1>5, TeardownSteps

-----------------------------------------------------------------------------
(***************************************************************************)
(* The theorems.                                                           *)
(***************************************************************************)

LEMMA InitInv == Init => Inv
PROOF
<1> SUFFICES ASSUME Init PROVE Inv
  OBVIOUS
<1>1. phase = "idle" /\ TypeOK
  BY TypedInit DEF Init
<1> QED
  BY <1>1 DEF Inv, Checked, Staged, Served, Warned, DashboardSettled, Announced,
              InRun

LEMMA AlwaysInv == Spec => []Inv
PROOF
<1>1. Inv /\ [Next]_vars => Inv'
  <2> SUFFICES ASSUME Inv, [Next]_vars PROVE Inv'
    OBVIOUS
  <2>1. TypeOK /\ Checked /\ Staged
    BY DEF Inv
  <2> QED
    BY <2>1, TypedNext, CheckedInv, StagedInv, ServedInv, WarnedInv,
       DashboardInv, AnnouncedInv DEF Inv
<1> QED
  BY <1>1, InitInv, PTL DEF Spec

LEMMA RulesClaimed ==
  ASSUME NEW n, apps[n].domain # "", NEW i \in DOMAIN Content(n).rules
  PROVE  Key(Content(n).rules[i]) \in Claims(n)
  BY ContentTyped DEF Claims

LEMMA CurrentHasDomain ==
  ASSUME TypeOK, NEW n, Current(n)
  PROVE  apps[n].domain # ""
  BY ContentTyped DEF TypeOK, Current

(* After a deploy, an application of its scope shares no route with any    *)
(* application whose file says what its manifest says, in scope or not,    *)
(* and no file claims one route twice; trailing slashes make no difference.*)
THEOREM Distinct == Spec => []ClaimsDistinct
PROOF
<1>1. Inv => ClaimsDistinct
  <2> SUFFICES ASSUME Inv, phase = "done", NEW n \in DOMAIN apps,
                      InScope(scope, n), Current(n)
               PROVE  /\ \A i, j \in DOMAIN RulesOf(n) :
                           i # j => Key(RulesOf(n)[i]) # Key(RulesOf(n)[j])
                      /\ \A k \in DOMAIN apps \ {n} : Current(k) =>
                           \A i \in DOMAIN RulesOf(n), j \in DOMAIN RulesOf(k) :
                              Key(RulesOf(n)[i]) # Key(RulesOf(k)[j])
    BY DEF ClaimsDistinct
  <2>1. Apart(scope) /\ ValidAliases(apps[n]) /\ TypeOK
    BY DEF Inv, Checked, InRun
  <2>2. \A i, j \in DOMAIN RulesOf(n) :
           i # j => Key(RulesOf(n)[i]) # Key(RulesOf(n)[j])
    <3>1. CASE apps[n].aliases # <<>>
      <4>1. \A i, j \in Routes(apps[n]) :
              i # j => Key(RouteOf(apps[n], i)) # Key(RouteOf(apps[n], j))
        BY <2>1, <3>1 DEF ValidAliases
      <4> QED
        BY <4>1, ContentTyped DEF RulesOf
    <3>2. CASE apps[n].aliases = <<>>
      <4>1. Routes(apps[n]) = {0}
        BY <3>2 DEF Routes
      <4> QED
        BY <4>1, ContentTyped DEF RulesOf
    <3> QED
      BY <3>1, <3>2
  <2>3. ASSUME NEW k \in DOMAIN apps \ {n}, Current(k),
               NEW i \in DOMAIN RulesOf(n), NEW j \in DOMAIN RulesOf(k)
        PROVE  Key(RulesOf(n)[i]) # Key(RulesOf(k)[j])
    <3>1. Key(RulesOf(n)[i]) \in Claims(n)
      BY <2>1, CurrentHasDomain, RulesClaimed DEF RulesOf
    <3>2. Key(RulesOf(k)[j]) \in Claims(k)
      BY <2>1, <2>3, CurrentHasDomain, RulesClaimed DEF RulesOf
    <3>3. Claims(n) \cap Claims(k) = {}
      BY <2>1, <2>3 DEF Apart
    <3> QED
      BY <3>1, <3>2, <3>3
  <2> QED
    BY <2>2, <2>3
<1> QED
  BY <1>1, AlwaysInv, PTL

(* After a deploy, an application it routed that has a TLS alias has had   *)
(* its warning exactly if the traefik.yml the gateway now reads has no     *)
(* websecure entry point, though that file may have been generated after   *)
(* the warning was due; and a configured TLS port without one is reported. *)
THEOREM WarningsTrue == Spec => []TLSWarned
PROOF
<1>1. Inv => TLSWarned
  BY DEF Inv, Warned, TLSWarned
<1> QED
  BY <1>1, AlwaysInv, PTL

(* After a deploy whose gateway has this directory, every routed           *)
(* application of its scope has a file under its name, unless that could   *)
(* not be looked at; a file this deploy generated is the one its           *)
(* application's manifest describes; the dashboard has a file exactly if   *)
(* one is configured.  After a teardown that looked here every route file  *)
(* left behind has been announced.                                         *)
THEOREM AllDelivered == Spec => []Delivered
PROOF
<1>1. Inv => Delivered
  <2> SUFFICES ASSUME Inv PROVE Delivered
    OBVIOUS
  <2>1. ASSUME phase = "done", NEW n \in DOMAIN apps
        PROVE  Ref(n) \notin steps
    BY <2>1 DEF Inv, TypeOK
  <2>2. ASSUME phase = "done", NEW n \in DOMAIN apps
        PROVE  /\ InScope(scope, n) /\ Routed(n) =>
                    \/ FileOf[Ref(n)] \in DOMAIN files
                    \/ <<"stat_error", Ref(n)>> \in events
               /\ <<"generated", Ref(n)>> \in events =>
                    InScope(scope, n) /\ Routed(n) /\ Current(n)
    BY <2>1, <2>2 DEF Inv, Served, InRun
  <2>3. phase = "done" /\ scope.here =>
           (Dashboard \in DOMAIN files <=> HasDashboard(config))
    BY DEF Inv, DashboardSettled
  <2>4. phase = "gone" /\ scope.here =>
           \A ref \in Refs :
             <<"removed", ref>> \in events /\ FileOf[ref] \in DOMAIN files =>
               {<<"orphan", ref>>, <<"stat_error", ref>>} \cap events # {}
    BY DEF Inv, Announced
  <2> QED
    BY <2>2, <2>3, <2>4 DEF Delivered
<1> QED
  BY <1>1, AlwaysInv, PTL
=============================================================================
