------------------------------ MODULE MCValues ------------------------------
(***************************************************************************)
(* A resource db of team ops, a resource cache and an application api of   *)
(* team web, in the combinations that take the checks of the planner and   *)
(* the branches of the resolver one way and the other.                     *)
(***************************************************************************)
EXTENDS Values, TLC

Img(name, tag, digest, alias) ==
  [name |-> name, tag |-> tag, digest |-> digest, alias |-> alias]
Type(name, tag) == Img(name, tag, FALSE, "")

MCRegistry == [t \in {"ops", "web"} |->
                 [apps |-> 1, resources |-> 0,
                  types |-> IF t = "ops" THEN {Type("pg", ""), Type("pg", "7")}
                            ELSE {}]]

db == <<"Resource", "db">>
cache == <<"Resource", "cache">>
api == <<"Application", "api">>
blank == <<"Resource", "">>
gone == <<"Resource", "gone">>

Val(x) == [kind |-> "value", text |-> x]
Gen == [kind |-> "generated"]
Vault(p) == [kind |-> "vault", path |-> p]
Read(n, o) == [kind |-> "read", of |-> n, output |-> o]
Tmpl(R) == [kind |-> "template", refs |-> R, hidden |-> {}, picky |-> {}]
Hidden(R, H) == [Tmpl(R) EXCEPT !.hidden = H]
Picky(R, P) == [Tmpl(R) EXCEPT !.picky = P]
Bare == [kind |-> "bare"]
Needs(n, t) == {[on |-> n, owner |-> t]}

Res(team, env, outputs) ==
  [owner |-> team, access |-> {}, exposed |-> FALSE, needs |-> {},
   env |-> env, port |-> TRUE, outputs |-> outputs, type |-> Type("pg", ""),
   version |-> "16", image |-> Img("", "", FALSE, ""), policy |-> ""]

App(team, env, needs) ==
  [owner |-> team, access |-> {}, exposed |-> FALSE, needs |-> needs,
   env |-> env, port |-> TRUE, outputs |-> <<>>,
   image |-> Img("api", "1", FALSE, ""), policy |-> ""]

Open(m) == [m EXCEPT !.access = {"web"}, !.exposed = TRUE]
Portless(m) == [m EXCEPT !.port = FALSE]

Plain == Res("ops", "pass" :> Gen, "pass" :> Bare)
Vaulted == Res("ops", "pass" :> Vault("p"),
               "pass" :> Bare @@ "url" :> Tmpl({"pass", "port"}))

Databases ==
  {Plain, Vaulted, Portless(Vaulted),
   Res("ops", "pass" :> Gen @@ "url" :> Tmpl({"pass", "host"}),
       "url" :> Bare @@ "host" :> Bare),
   Res("ops", "url" :> Tmpl({"url"}), "url" :> Bare),
   Res("ops", "url" :> Tmpl({"dsn"}) @@ "dsn" :> Tmpl({"url"}), "url" :> Bare),
   Res("ops", "url" :> Val("u") @@ "dsn" :> Val("d"),
       "url" :> Tmpl({"dsn"}) @@ "dsn" :> Tmpl({"url"})),
   Portless(Res("ops", "pass" :> Gen, "pass" :> Bare @@ "port" :> Bare)),
   Res("ops", "host" :> Val("h"), "host" :> Bare),
   Res("ops", "pass" :> Gen, "other" :> Bare),
   Res("ops", "pass" :> Gen @@ "url" :> Tmpl({"other"}), "url" :> Bare),
   Portless(Res("ops", "url" :> Hidden({"port"}, {"other", "dsn"})
                       @@ "dsn" :> Hidden({}, {"port", "dsn"}),
                "url" :> Bare @@ "pass" :> Hidden({"dsn"}, {"url"}))),
   Res("ops", "pass" :> Gen @@ "url" :> Picky({"pass"}, {"dry"}),
       "pass" :> Bare @@ "url" :> Picky({"url"}, {"live"})),
   [Res("ops", "pass" :> Read(cache, "pass"), "pass" :> Bare) EXCEPT
      !.needs = Needs(cache, "web")]}

OwnCache == Res("web", "pass" :> Gen, "pass" :> Bare)

(* A consumer of each output of each database.                             *)
Reading ==
  {db :> Open(m) @@ cache :> [OwnCache EXCEPT !.access = {"ops"}, !.exposed = TRUE]
   @@ api :> App("web", "pass" :> Read(db, o) @@ "x" :> Tmpl({"pass", "name"}),
                 Needs(db, "ops")) :
     m \in Databases, o \in {"pass", "url", "port"}}

Guarded(access, exposed) ==
  [Vaulted EXCEPT !.access = access, !.exposed = exposed]

(* Every way of being granted a read, or not.                              *)
Granted ==
  {db :> Guarded(access, exposed)
   @@ cache :> [Res("web", "pass" :> e, "pass" :> Bare) EXCEPT !.needs = needs]
   @@ api :> App("web", "pass" :> f, {}) :
     access \in {{}, {"web"}}, exposed \in BOOLEAN,
     e \in {Gen, Read(db, "pass"), Read(db, "nope"), Read(cache, "pass"),
            Read(api, "host")},
     needs \in {{}, Needs(db, "ops"), Needs(db, "web")},
     f \in {Read(cache, "pass"), Read(db, "pass"), Read(blank, "pass"),
            Read(gone, ""), Read(cache, ""), Vault("p"), Vault(""),
            Tmpl({"name"}), Tmpl({"host"}), Hidden({}, {"host"}),
            Picky({"name"}, {"live"}), Gen}}

(* Policies, versions and images.                                          *)
Floating ==
  {[manifests |->
      db :> [Plain EXCEPT !.version = v, !.image = i, !.policy = p,
                          !.type = t],
    policy |-> d] :
     v \in {"", "latest", "16"},
     t \in {Type("pg", ""), Type("pg", "7"), Type("mongo", "")},
     i \in {Img("", "", FALSE, ""), Img("pg", "", FALSE, ""),
            Img("pg", "16", FALSE, ""), Img("pg", "7", FALSE, ""),
            Img("own", "1", FALSE, ""),
            Img("own", "", TRUE, "hub"), Img("own", "", FALSE, "gone")},
     p \in {"", "Pinned", "Always"}, d \in {"", "Pinned"}}
  \cup
  {[manifests |->
      api :> [App("web", <<>>, {}) EXCEPT !.image = i, !.policy = p],
    policy |-> d] :
     i \in {Img("api", "", FALSE, ""), Img("api", "latest", FALSE, "hub"),
            Img("api", "1", FALSE, ""), Img("api", "", TRUE, "")},
     p \in {"", "Pinned", "IfNotPresent"}, d \in {"", "Pinned"}}

TwoApplications ==
  api :> App("web", <<>>, {}) @@ <<"Application", "job">> :> App("web", <<>>, {})

Unregistered == api :> App("lab", <<>>, {})

MCEdits ==
  {[manifests |-> m, policy |-> ""] :
     m \in {db :> Open(Plain)
            @@ api :> App("web", "pass" :> Read(db, "pass"), Needs(db, "ops")),
            db :> Open(Res("ops", "pass" :> Gen @@ "key" :> Gen,
                           "pass" :> Bare @@ "key" :> Tmpl({"key", "pass"})))
            @@ api :> App("web", "pass" :> Read(db, "key"), Needs(db, "ops"))}}

MCLibrary ==
  {[manifests |-> m, policy |-> ""] :
     m \in Reading \cup Granted \cup {TwoApplications, Unregistered}}
  \cup Floating \cup MCEdits

MCSecretKey ==
  {<<"ops", "db", "pass">>, <<"ops", "db", "key">>, <<"web", "cache", "pass">>}
=============================================================================
