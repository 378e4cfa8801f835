------------------------------ MODULE Routing ------------------------------
(***************************************************************************)
(* The traefik plugin and what the planner and the engine do for it: the   *)
(* routes of the manifests are checked against one another, a deploy       *)
(* writes a route file for every routed application and at its end the     *)
(* gateway's own files (internal/plugins/gateway/traefik,                  *)
(* internal/planner/collisions.go, internal/engine/engine.go).  The ports  *)
(* of the gateway's container are in HostPorts.                            *)
(*                                                                         *)
(* A generated file is never written again, so a directory holds files of  *)
(* many deploys, and what an operator made of them.  The module is about   *)
(* one directory: a run may have another (deploy --path without routing-dir *)
(* in config.yml, and then teardown looks in a third), or no gateway at all *)
(* (apply --file).                                                         *)
(***************************************************************************)
EXTENDS Naturals, Sequences

CONSTANTS
  Library,    \* manifest sets: application -> its manifest
  Configs,    \* plugin configurations
  Rank,       \* of every reference <<team, application>> in sorted order
  FileOf      \* reference -> name of its route file

Refs == DOMAIN Rank

Dashboard == "__shrine-dashboard.yml"

(* No team is called __shrine with an application dashboard: no check of   *)
(* the planner refuses one, and its route file would be the dashboard's.   *)
ASSUME RoutingAssumption ==
  /\ Rank \in [Refs -> Nat]
  /\ \A A \in Library : \A n \in DOMAIN A : <<A[n].team, n>> \in Refs
  /\ \A ref \in Refs : FileOf[ref] # Dashboard
  /\ \A c \in Configs : c.tls \in Nat

VARIABLES
  apps,      \* the manifests on disk
  config,    \* the plugin's configuration
  static,    \* traefik.yml
  files,     \* the directory dynamic/: name -> content
  deployed,  \* applications that have a container
  phase,     \* of the run
  scope,     \* filter of the last deploy, and whether the run, which may be
             \* a teardown, has a gateway with this directory
  steps,     \* applications still to take
  events     \* what the observer was told in this run

disk == <<static, files>>
inputs == <<apps, config>>
vars == <<inputs, disk, deployed, phase, scope, steps, events>>

Absent == [kind |-> "absent"]
Torn == [kind |-> "torn"]        \* traefik.yml is no YAML
Foreign == [kind |-> "foreign"]  \* cut short, or an operator's own
Gateway == <<"platform", "traefik">>
Ended == phase \in {"idle", "done", "gone", "failed"}

-----------------------------------------------------------------------------
(***************************************************************************)
(* Manifests.  A prefix is its path and the slashes after it.              *)
(***************************************************************************)

TrimRight(prefix) == [path |-> prefix.path, slashes |-> 0]

Key(route) == <<route.host, TrimRight(route.prefix)>>

Ref(n) == <<apps[n].team, n>>

(* Route 0 is the primary one, the others are the aliases.                 *)
RouteOf(m, i) ==
  IF i = 0 THEN [host |-> m.domain, prefix |-> m.prefix] ELSE m.aliases[i]

Routes(m) == 0 .. Len(m.aliases)

(* validateRoutingAliases, for a manifest that has any.                    *)
ValidAliases(m) ==
  m.aliases # <<>> =>
    /\ m.domain # ""
    /\ \A i \in 1 .. Len(m.aliases) :
         /\ m.aliases[i].host # ""
         /\ m.aliases[i].prefix.path = "" => m.aliases[i].prefix.slashes = 0
    /\ \A i, j \in Routes(m) : i # j => Key(RouteOf(m, i)) # Key(RouteOf(m, j))

InScope(f, n) ==
  \/ f.kind = "all"
  \/ f.kind = "team" /\ apps[n].team = f.name
  \/ f.kind = "app" /\ n = f.name

Claims(n) ==
  {Key(RouteOf(apps[n], i)) :
     i \in {j \in Routes(apps[n]) : j = 0 => apps[n].domain # ""}}

Claimants(key) == {n \in DOMAIN apps : key \in Claims(n)}

(* Applications are taken in the order of their references: the first that *)
(* claims a route is the one every other is compared with.                 *)
First(key) ==
  CHOOSE n \in Claimants(key) :
    \A k \in Claimants(key) : Rank[Ref(n)] <= Rank[Ref(k)]

(* Mutant: an application outside the scope is skipped.                    *)
CollidesInside(f) ==
  \E key \in UNION {Claims(n) : n \in DOMAIN apps} :
     \E n \in Claimants(key) \ {First(key)} :
        InScope(f, First(key)) /\ InScope(f, n)

Collides(f) ==
  \E key \in UNION {Claims(n) : n \in DOMAIN apps} :
     \E n \in Claimants(key) \ {First(key)} :
        InScope(f, First(key)) \/ InScope(f, n)

-----------------------------------------------------------------------------
(***************************************************************************)
(* Configuration.  A port is 0 where the field is left out.                *)
(***************************************************************************)

DefaultPort == 80
Port(c) == IF c.port = 0 THEN DefaultPort ELSE c.port
NoDashboard == [kind |-> "none"]

HasDashboard(c) == c.dashboard # NoDashboard /\ c.dashboard.port > 0

IsActive(c) == c.named \/ c.port # 0 \/ c.tls # 0 \/ c.dashboard # NoDashboard

(* A run of an engine with a routing backend may have it for this          *)
(* directory.                                                              *)
Here == IF IsActive(config) THEN BOOLEAN ELSE {FALSE}

Unfiltered(here) == [kind |-> "all", here |-> here]

(* apply --file deploys one application, by an engine without a gateway;   *)
(* of a resource it touches nothing that is here.                          *)
Scopes ==
  [kind : {"all"}, here : Here]
    \cup [kind : {"team"}, name : {ref[1] : ref \in Refs}, here : Here]
    \cup [kind : {"app"}, name : DOMAIN apps, here : {FALSE}]

Valid(c) ==
  IsActive(c) =>
    /\ HasDashboard(c) => c.dashboard.credentials
    /\ c.tls # 0 => /\ c.tls # Port(c)
                    /\ HasDashboard(c) => c.tls # c.dashboard.port

(* traefik.yml, as far as its entry points matter here.                    *)
File(websecure) == [kind |-> "file", websecure |-> websecure]

HasWebsecure(s) == s.kind = "file" /\ s.websecure

(* Mutant: the file on disk decides, whether it is there or not.           *)
HasWebsecureNow(s, c) == HasWebsecure(s)

(* What Finalize leaves: a file that is there, or the one it generates.    *)
WillHaveWebsecure(s, c) == IF s = Absent THEN c.tls > 0 ELSE HasWebsecure(s)

-----------------------------------------------------------------------------
(***************************************************************************)
(* The content of a route file.                                            *)
(***************************************************************************)

(* An alias loses its trailing slashes, the primary route does not.        *)
AliasRule(alias) ==
  [host   |-> alias.host,
   prefix |-> TrimRight(alias.prefix),
   strip  |-> alias.prefix.path # "" /\ alias.strip # "no",
   tls    |-> alias.tls]

PrimaryRule(m) ==
  [host |-> m.domain, prefix |-> m.prefix, strip |-> FALSE, tls |-> FALSE]

Content(n) ==
  LET m == apps[n]
  IN [kind |-> "route", of |-> Ref(n),
      rules |-> [i \in Routes(m) |->
                   IF i = 0 THEN PrimaryRule(m) ELSE AliasRule(m.aliases[i])]]

Put(name, content) ==
  [f \in DOMAIN files \cup {name} |-> IF f = name THEN content ELSE files[f]]

Drop(name) == [f \in DOMAIN files \ {name} |-> files[f]]

Routed(n) == apps[n].domain # "" /\ apps[n].exposed /\ scope.here

WantsTLS(n) == \E i \in 1 .. Len(apps[n].aliases) : apps[n].aliases[i].tls

-----------------------------------------------------------------------------
(***************************************************************************)
(* A run: the steps in any order, then Finalize.                           *)
(***************************************************************************)

Init ==
  /\ apps \in Library /\ config \in Configs
  /\ static = Absent /\ files = <<>>
  /\ deployed = {}
  /\ phase = "idle" /\ scope = Unfiltered(FALSE) /\ steps = {} /\ events = {}

Over == scope' = Unfiltered(FALSE) /\ events' = {}

(* A deploy the planner or the plugin refuses changes nothing; apply --file *)
(* has no plugin to refuse its configuration.                              *)
Accepted(f) ==
  /\ Ended
  /\ f.kind # "app" => Valid(config)
  /\ \A n \in DOMAIN apps : ValidAliases(apps[n])
  /\ ~Collides(f)

Selected(f) == {Ref(n) : n \in {k \in DOMAIN apps : InScope(f, k)}}

(* Only resources are planned, if it selects no application.               *)
Deploy(f) ==
  /\ Accepted(f)
  /\ phase' = "steps" /\ scope' = f /\ events' = {}
  /\ steps' = Selected(f)
  /\ UNCHANGED <<inputs, disk, deployed>>

(* Nothing is planned: the deploy ends without a call of the engine.       *)
DeployNothing(f) ==
  /\ Accepted(f) /\ Selected(f) = {}
  /\ phase' = "idle" /\ Over
  /\ UNCHANGED <<inputs, disk, deployed, steps>>

(* Mutant: the steps of a run that stopped are still to be taken.          *)
FailedMidway == phase' = "failed" /\ steps' = steps /\ Over

Failed == phase' = "failed" /\ steps' = {} /\ Over

(* An error of Docker or of the file system, or the end of the process.    *)
RunStops ==
  /\ ~Ended
  /\ Failed
  /\ UNCHANGED <<inputs, disk, deployed>>

(* CreateContainer, before the route is written (Containers has the rest). *)
Created(n) == deployed' = deployed \cup {Ref(n)}

DeployUnrouted(n) ==
  /\ phase = "steps" /\ Ref(n) \in steps /\ ~Routed(n)
  /\ Created(n) /\ steps' = steps \ {Ref(n)}
  /\ UNCHANGED <<inputs, disk, phase, scope, events>>

(* The warning about the TLS aliases of an application is given before its *)
(* file is looked at.                                                      *)
TLSSignal(n) ==
  IF ~WantsTLS(n) THEN {}
  ELSE IF static = Torn THEN {<<"probe_error", Ref(n)>>}
  ELSE IF WillHaveWebsecure(static, config) THEN {}
  ELSE {<<"tls_no_websecure", Ref(n)>>}

RouteStep(n) ==
  /\ phase = "steps" /\ Ref(n) \in steps /\ Routed(n)
  /\ Created(n) /\ steps' = steps \ {Ref(n)}
  /\ UNCHANGED <<inputs, static, phase, scope>>

(* The file cannot be looked at: a warning, no file, and the deploy goes on. *)
RouteStatError(n) ==
  /\ RouteStep(n)
  /\ events' = events \cup TLSSignal(n) \cup {<<"stat_error", Ref(n)>>}
  /\ UNCHANGED files

(* Mutant: a file that is there is written again.                          *)
AlwaysAbsent(name) == FALSE

IsPathPresent(name) == name \in DOMAIN files

PreserveRoute(n) ==
  /\ IsPathPresent(FileOf[Ref(n)])
  /\ RouteStep(n)
  /\ events' = events \cup TLSSignal(n)
  /\ UNCHANGED files

WriteRoute(n) ==
  /\ ~IsPathPresent(FileOf[Ref(n)])
  /\ RouteStep(n)
  /\ events' = events \cup TLSSignal(n) \cup {<<"generated", Ref(n)>>}
  /\ files' = Put(FileOf[Ref(n)], Content(n))

(* The run ends after the container is there, before the file or half way. *)
RouteFails(n) ==
  /\ phase = "steps" /\ Ref(n) \in steps /\ Routed(n)
  /\ ~IsPathPresent(FileOf[Ref(n)])
  /\ Created(n)
  /\ files' \in {files, Put(FileOf[Ref(n)], Foreign)}
  /\ Failed
  /\ UNCHANGED <<inputs, static>>

-----------------------------------------------------------------------------
(***************************************************************************)
(* Finalize.                                                               *)
(***************************************************************************)

NoGateway ==
  /\ phase = "steps" /\ steps = {} /\ ~scope.here
  /\ phase' = "done"
  /\ UNCHANGED <<inputs, disk, deployed, scope, steps, events>>

TLSPortSignal ==
  IF config.tls = 0 THEN {}
  ELSE IF static = Torn THEN {<<"probe_error", Gateway>>}
  ELSE IF HasWebsecure(static) THEN {}
  ELSE {<<"tls_port_no_websecure", Gateway>>}

Finalizing == phase = "steps" /\ steps = {} /\ scope.here

PreserveStatic ==
  /\ Finalizing /\ static # Absent
  /\ events' = events \cup TLSPortSignal
  /\ phase' = "dashboard"
  /\ UNCHANGED <<inputs, disk, deployed, scope, steps>>

GenerateStatic ==
  /\ Finalizing /\ static = Absent
  /\ static' = File(config.tls > 0)
  /\ phase' = "dashboard"
  /\ UNCHANGED <<inputs, files, deployed, scope, steps, events>>

(* An empty file is YAML without entry points.                             *)
StaticFails ==
  /\ Finalizing /\ static = Absent
  /\ static' \in {Torn, File(FALSE)}
  /\ Failed
  /\ UNCHANGED <<inputs, files, deployed>>

(* Mutant: a dashboard that is not configured is left alone.               *)
DashboardLeft ==
  IF HasDashboard(config) /\ ~IsPathPresent(Dashboard)
  THEN Put(Dashboard, [kind |-> "dashboard"]) ELSE files

DashboardFile ==
  IF ~HasDashboard(config) THEN Drop(Dashboard)
  ELSE IF IsPathPresent(Dashboard) THEN files
  ELSE Put(Dashboard, [kind |-> "dashboard"])

FinalizeDashboard ==
  /\ phase = "dashboard"
  /\ files' = DashboardFile
  /\ phase' = "done"
  /\ UNCHANGED <<inputs, static, deployed, scope, steps, events>>

DashboardFails ==
  /\ phase = "dashboard" /\ HasDashboard(config) /\ ~IsPathPresent(Dashboard)
  /\ files' = Put(Dashboard, Foreign)
  /\ Failed
  /\ UNCHANGED <<inputs, static, deployed>>

-----------------------------------------------------------------------------
(***************************************************************************)
(* A teardown: routes stay, and so does the gateway, for the backend of a  *)
(* teardown is built without containers and its Finalize does nothing.     *)
(***************************************************************************)

Teardown(team, here) ==
  /\ Ended
  /\ Valid(config)
  /\ phase' = "teardown" /\ scope' = Unfiltered(here)
  /\ steps' = {ref \in deployed : ref[1] = team} /\ events' = {}
  /\ UNCHANGED <<inputs, disk, deployed>>

(* RemoveContainer, then RemoveRoute: the file stays and is announced.     *)
TeardownApplication(ref) ==
  /\ phase = "teardown" /\ ref \in steps
  /\ steps' = steps \ {ref} /\ deployed' = deployed \ {ref}
  /\ \/ /\ scope.here /\ IsPathPresent(FileOf[ref])
        /\ events' = events \cup {<<"removed", ref>>, <<"orphan", ref>>}
     \/ /\ ~(scope.here /\ IsPathPresent(FileOf[ref]))
        /\ events' = events \cup {<<"removed", ref>>}
     \/ /\ scope.here
        /\ events' = events \cup {<<"removed", ref>>, <<"stat_error", ref>>}
  /\ UNCHANGED <<inputs, disk, phase, scope>>

TeardownDone ==
  /\ phase = "teardown" /\ steps = {}
  /\ phase' = "gone"
  /\ UNCHANGED <<inputs, disk, deployed, scope, steps, events>>

-----------------------------------------------------------------------------
(***************************************************************************)
(* The operator, between two runs.                                         *)
(***************************************************************************)

Operator ==
  /\ Ended
  /\ phase' = "idle" /\ Over
  /\ UNCHANGED <<deployed, steps>>

Edit ==
  /\ Operator
  /\ \/ apps' \in Library \ {apps} /\ UNCHANGED config
     \/ config' \in Configs \ {config} /\ UNCHANGED apps
  /\ UNCHANGED disk

RemoveFile(name) ==
  /\ Operator
  /\ files' = Drop(name)
  /\ UNCHANGED <<inputs, static>>

WriteFile(name) ==
  /\ Operator
  /\ files' = Put(name, Foreign)
  /\ UNCHANGED <<inputs, static>>

ReplaceStatic ==
  /\ Operator
  /\ static' \in {Absent, File(TRUE), File(FALSE)}
  /\ UNCHANGED <<inputs, files>>

Next ==
  \/ \E f \in Scopes : Deploy(f) \/ DeployNothing(f)
  \/ \E n \in DOMAIN apps :
       \/ DeployUnrouted(n) \/ RouteStatError(n) \/ PreserveRoute(n)
       \/ WriteRoute(n) \/ RouteFails(n)
  \/ NoGateway \/ PreserveStatic \/ GenerateStatic \/ StaticFails
  \/ FinalizeDashboard \/ DashboardFails
  \/ \E ref \in Refs, here \in Here : Teardown(ref[1], here)
  \/ \E ref \in Refs : TeardownApplication(ref)
  \/ TeardownDone \/ RunStops
  \/ Edit \/ ReplaceStatic
  \/ \E name \in DOMAIN files : RemoveFile(name) \/ WriteFile(name)

Spec == Init /\ [][Next]_vars

-----------------------------------------------------------------------------
(***************************************************************************)
(* Properties.                                                             *)
(***************************************************************************)

RouteFiles == {FileOf[ref] : ref \in Refs}

(* The state has its shape; a route file has the name its application's    *)
(* reference gives it and a host for its primary route, and only a run     *)
(* that goes on has steps to take.                                         *)
TypeOK ==
  /\ apps \in Library /\ config \in Configs
  /\ static.kind \in {"absent", "torn", "file"}
  /\ DOMAIN files \subseteq RouteFiles \cup {Dashboard}
  /\ \A f \in DOMAIN files :
       files[f].kind = "route" =>
         FileOf[files[f].of] = f /\ files[f].rules[0].host # ""
  /\ deployed \cup steps \subseteq Refs
  /\ steps # {} => phase \in {"steps", "teardown"}
  /\ phase \in {"idle", "steps", "dashboard", "done", "teardown",
                "gone", "failed"}

KeepsFiles ==
  ~Ended =>
    /\ static # Absent => static' = static
    /\ \A f \in DOMAIN files :
         \/ f \in DOMAIN files' /\ files'[f] = files[f]
         \/ /\ f = Dashboard /\ f \notin DOMAIN files'
            /\ phase = "dashboard" /\ ~HasDashboard(config)

(* What is in the gateway's directory when a run starts is there, byte for *)
(* byte, whatever the run does and wherever it stops; only the dashboard's *)
(* file may be removed, by a deploy whose configuration has no dashboard.  *)
FilesKept == [][KeepsFiles]_vars

Current(n) ==
  /\ FileOf[Ref(n)] \in DOMAIN files
  /\ files[FileOf[Ref(n)]] = Content(n)

RulesOf(n) == Content(n).rules

(* After a deploy, an application of its scope shares no route with any    *)
(* application whose file says what its manifest says, in scope or not,    *)
(* and no file claims one route twice; trailing slashes make no difference.*)
ClaimsDistinct ==
  phase = "done" =>
    \A n \in DOMAIN apps : InScope(scope, n) /\ Current(n) =>
       /\ \A i, j \in DOMAIN RulesOf(n) :
            i # j => Key(RulesOf(n)[i]) # Key(RulesOf(n)[j])
       /\ \A k \in DOMAIN apps \ {n} : Current(k) =>
            \A i \in DOMAIN RulesOf(n), j \in DOMAIN RulesOf(k) :
               Key(RulesOf(n)[i]) # Key(RulesOf(k)[j])

(* After a deploy, an application it routed that has a TLS alias has had   *)
(* its warning exactly if the traefik.yml the gateway now reads has no     *)
(* websecure entry point, though that file may have been generated after   *)
(* the warning was due; and a configured TLS port without one is reported. *)
TLSWarned ==
  phase = "done" /\ static.kind = "file" =>
    /\ \A n \in DOMAIN apps :
         InScope(scope, n) /\ Routed(n) /\ WantsTLS(n) =>
           (<<"tls_no_websecure", Ref(n)>> \in events <=> ~HasWebsecure(static))
    /\ scope.here /\ config.tls # 0 /\ ~HasWebsecure(static) =>
         <<"tls_port_no_websecure", Gateway>> \in events

(* After a deploy whose gateway has this directory, every routed           *)
(* application of its scope has a file under its name, unless that could   *)
(* not be looked at; a file this deploy generated is the one its           *)
(* application's manifest describes; the dashboard has a file exactly if   *)
(* one is configured.  After a teardown that looked here every route file  *)
(* left behind has been announced.                                         *)
Delivered ==
  /\ phase = "done" /\ scope.here =>
       /\ \A n \in DOMAIN apps : InScope(scope, n) /\ Routed(n) =>
            \/ FileOf[Ref(n)] \in DOMAIN files
            \/ <<"stat_error", Ref(n)>> \in events
       /\ \A n \in DOMAIN apps : <<"generated", Ref(n)>> \in events =>
            InScope(scope, n) /\ Routed(n) /\ Current(n)
       /\ Dashboard \in DOMAIN files <=> HasDashboard(config)
  /\ phase = "gone" /\ scope.here =>
       \A ref \in Refs :
          <<"removed", ref>> \in events /\ FileOf[ref] \in DOMAIN files =>
            {<<"orphan", ref>>, <<"stat_error", ref>>} \cap events # {}
=============================================================================
