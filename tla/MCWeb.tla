------------------------------- MODULE MCWeb -------------------------------
(***************************************************************************)
(* One instance for TLC of the two halves of the web interface, which      *)
(* share no variable: the way of a request to its handler (module Access)  *)
(* and the accounts and sessions the handlers keep (module Sessions).      *)
(* A behaviour has the steps of one of them (part); the other rests.       *)
(***************************************************************************)
EXTENDS Access, Sessions, TLC

CONSTANTS
  listed, stranger, here, local, edge, rogue,     (* access   *)
  t1, t2, admin, other                            (* sessions *)

VARIABLE part

-----------------------------------------------------------------------------
(* A client that is listed and one that is not, the agent's own host, and  *)
(* three proxies, of which a configuration trusts none, the local one and  *)
(* another, or the local one and the agent's host.                         *)
Lists(trusted, allow, deny) == [trusted |-> trusted, allow |-> allow, deny |-> deny]

Configs ==
  { Lists({}, {}, {}), Lists({}, {listed}, {}), Lists({local, edge}, {listed}, {}),
    Lists({local, edge}, {}, {stranger}), Lists({here, local}, {listed, rogue}, {rogue}) }

Asks(role, csrf, needs, write) ==
  [role |-> role, csrf |-> csrf, route |-> [role |-> needs, write |-> write]]

Claims ==
  { Asks("none", FALSE, "viewer", FALSE), Asks("admin", TRUE, "admin", TRUE),
    Asks("admin", FALSE, "technician", TRUE), Asks("viewer", TRUE, "technician", TRUE),
    Asks("viewer", TRUE, "viewer", FALSE) }

(* No property tells the two requests of Sessions apart. *)
Symmetric == Permutations({t1, t2})

-----------------------------------------------------------------------------
Init ==
  /\ AccessInit /\ SessionsInit
  /\ part \in {"access", "sessions"}
  /\ part = "sessions" => config = Lists({}, {}, {})

Next ==
  \/ part = "access" /\ AccessNext /\ UNCHANGED <<part, sessionsVars>>
  \/ part = "sessions" /\ SessionsNext /\ UNCHANGED <<part, accessVars>>

Spec == Init /\ [][Next]_<<part, accessVars, sessionsVars>>

=============================================================================
