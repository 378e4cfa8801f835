----------------------------- MODULE MCRouting -----------------------------
(***************************************************************************)
(* Three applications, two of which get the same file name: c of team a-b  *)
(* and b-c of team a.                                                      *)
(***************************************************************************)
EXTENDS Routing, TLC

MCRank == <<"a-b", "c">> :> 1 @@ <<"a", "b-c">> :> 2 @@ <<"a", "web">> :> 3

MCFileOf == <<"a-b", "c">> :> "a-b-c.yml" @@ <<"a", "b-c">> :> "a-b-c.yml"
              @@ <<"a", "web">> :> "a-web.yml"

P(path, slashes) == [path |-> path, slashes |-> slashes]

App(team, domain, prefix, aliases) ==
  [team |-> team, domain |-> domain, prefix |-> prefix, exposed |-> TRUE,
   aliases |-> aliases]

Alias(host, prefix, strip, tls) ==
  [host |-> host, prefix |-> prefix, strip |-> strip, tls |-> tls]

Hidden(m) == [m EXCEPT !.exposed = FALSE]

MCLibrary ==
  {<<>>,
   \* two applications apart, one with a TLS alias
   "c" :> App("a-b", "x", P("", 0), <<>>)
     @@ "web" :> App("a", "y", P("", 0), <<Alias("x", P("/p", 1), "yes", TRUE)>>),
   \* the same route once the slashes are gone
   "c" :> App("a-b", "x", P("", 1), <<>>)
     @@ "web" :> App("a", "y", P("", 0), <<Alias("x", P("", 0), "default", FALSE)>>),
   \* the hosts of the first set exchanged
   "c" :> App("a-b", "y", P("/p", 1), <<>>)
     @@ "web" :> App("a", "x", P("/p", 0), <<Alias("y", P("", 0), "no", TRUE)>>),
   \* one file name for two applications
   "c" :> App("a-b", "x", P("", 0), <<>>)
     @@ "b-c" :> App("a", "x", P("/p", 1), <<>>),
   \* an application no gateway serves, and one without a domain
   "c" :> App("a-b", "", P("", 0), <<>>)
     @@ "web" :> Hidden(App("a", "x", P("", 0), <<>>)),
   \* refused: a second claim of its own route; a bare slash
   "web" :> App("a", "x", P("/p", 0), <<Alias("x", P("/p", 1), "yes", FALSE)>>),
   "web" :> App("a", "x", P("/p", 0), <<Alias("x", P("", 1), "yes", FALSE)>>)}

Board(port, credentials) ==
  [kind |-> "dashboard", port |-> port, credentials |-> credentials]

Conf(named, port, tls, dashboard) ==
  [named |-> named, port |-> port, tls |-> tls, dashboard |-> dashboard]

MCConfigs ==
  {Conf(FALSE, 0, 0, NoDashboard),
   Conf(TRUE, 0, 0, NoDashboard),
   Conf(FALSE, 8080, 443, Board(9000, TRUE)),
   Conf(FALSE, 80, 80, Board(0, FALSE))}
=============================================================================
