------------------------------ MODULE Rollout ------------------------------
(***************************************************************************)
(* What deploys and teardowns promise, without Docker calls, records or    *)
(* hashes.  A run works through a set of pending names.  A deploy takes a  *)
(* container away only when its configuration is not the wanted one, puts  *)
(* only wanted configurations in place, and completes a name only when     *)
(* no unwanted configuration is left there; a teardown completes a name    *)
(* only when nothing is left there.  A run ends when nothing is pending,   *)
(* or stops early.  A disturbance (a container removed by hand, a run that *)
(* is stopped) may come at any time, and the behaviour has finitely many:  *)
(* a container that vanishes from under a run is one of them, one that a   *)
(* deploy takes away is not.                                               *)
(*                                                                         *)
(* A deploy that is stopped may leave a container it placed loose, and so  *)
(* may a disturbance between runs.  While that container is there, the     *)
(* promise of deploys does not hold for it: a deploy may replace it        *)
(* without need, or complete its name with what is there.                  *)
(***************************************************************************)
EXTENDS Naturals

CONSTANTS Name, Config, None

VARIABLES wanted, actual, phase, pending,
          loose,     \* the names a stopped run or a disturbance left loose
          storms     \* the disturbances still to come

vars == <<wanted, actual, phase, pending, loose, storms>>

Init ==
  /\ wanted \in [Name -> Config]
  /\ actual = [n \in Name |-> None]
  /\ phase = "none"
  /\ pending = {}
  /\ loose = {}
  /\ storms \in Nat

Edit(n) ==
  /\ phase = "none"
  /\ \E c \in Config \cup {None} : wanted' = [wanted EXCEPT ![n] = c]
  /\ UNCHANGED <<actual, phase, pending, loose, storms>>

Begin(c) ==
  /\ phase = "none" /\ phase' = c
  /\ pending' \in SUBSET Name
  /\ c = "deploy" => pending' = {n \in Name : wanted[n] # None}
  /\ UNCHANGED <<wanted, actual, loose, storms>>

Gone(n) ==
  /\ actual' = [actual EXCEPT ![n] = None]
  /\ loose' = loose \ {n}

Replace(n) ==
  /\ phase = "deploy" /\ n \in pending
  /\ actual[n] # wanted[n] \/ n \in loose
  /\ Gone(n)
  /\ UNCHANGED <<wanted, phase, pending, storms>>

Place(n) ==
  /\ phase = "deploy" /\ n \in pending
  /\ actual[n] = None
  /\ actual' = [actual EXCEPT ![n] = wanted[n]]
  /\ UNCHANGED <<wanted, phase, pending, loose, storms>>

Remove(n) ==
  /\ phase = "teardown" /\ n \in pending
  /\ Gone(n)
  /\ UNCHANGED <<wanted, phase, pending, storms>>

Disturbed == storms' \in Nat /\ storms' < storms

Vanish(n) ==
  /\ Disturbed
  /\ Gone(n)
  /\ UNCHANGED <<wanted, phase, pending>>

Complete(n) ==
  /\ n \in pending
  /\ IF phase = "deploy" THEN actual[n] \in {wanted[n], None} \/ n \in loose
                         ELSE actual[n] = None
  /\ pending' = pending \ {n}
  /\ UNCHANGED <<wanted, actual, phase, loose, storms>>

End ==
  /\ phase # "none" /\ phase' = "none"
  /\ pending' = {}
  /\ Disturbed \/ UNCHANGED storms
  /\ UNCHANGED <<wanted, actual, loose>>

Loosen(n) ==
  /\ Disturbed
  /\ actual[n] # None
  /\ \/ phase = "none" /\ UNCHANGED pending
     \/ /\ phase = "deploy" /\ n \in pending
        /\ actual[n] = wanted[n]
        /\ pending' = {}
  /\ phase' = "none"
  /\ loose' = loose \cup {n}
  /\ UNCHANGED <<wanted, actual>>

Disturbance == Disturbed /\ UNCHANGED <<wanted, actual, phase, pending, loose>>

Next ==
  \/ \E c \in {"deploy", "teardown"} : Begin(c)
  \/ \E n \in Name :
       \/ Edit(n) \/ Replace(n) \/ Place(n) \/ Remove(n) \/ Complete(n)
       \/ Vanish(n) \/ Loosen(n)
  \/ End \/ Disturbance

Spec == Init /\ [][Next]_vars

=============================================================================
