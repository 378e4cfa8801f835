---------------------------- MODULE MCHostPorts ----------------------------
(***************************************************************************)
(* Two teams, three applications, two automatic ports and two explicit     *)
(* ports: the automatic range can be exhausted, an explicit port can be    *)
(* contended and an application can move from one explicit port to another.*)
(***************************************************************************)
EXTENDS HostPorts

MCKey == {"t1/a", "t1/b", "t2/c"}
MCTeam == {"t1", "t2"}
MCTeamOf == [k \in MCKey |-> IF k = "t2/c" THEN "t2" ELSE "t1"]
MCPort == {8080, 8443, 30000, 30001}
MCExplicit == {8080, 8443}

(* The gateway is off, on an ordinary port, or moved into the range. *)
MCReservation == {{}, {8080}, {30000}}

=============================================================================
