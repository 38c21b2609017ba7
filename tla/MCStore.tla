------------------------------ MODULE MCStore -------------------------------
(* The instance of Store that TLC checks: the service with two goroutines  *)
(* and a root command beside it.  A state is the number of changes made to *)
(* it; agent.json may be damaged to begin with.                            *)
EXTENDS Store, Integers, TLC

CONSTANTS service, command, handler, loop, main, agent, root, damaged, MaxChanges

Processes == {service, command}
Tasks == {handler, loop, main}
TaskProcess == (handler :> service) @@ (loop :> service) @@ (main :> command)
User == (service :> agent) @@ (command :> root)

Counts == 0 .. MaxChanges
Fresh == {0}
(* The state 1 lacks the collectors' defaults. *)
Complete == [n \in Counts |-> IF n = 1 THEN 2 ELSE n]

Changes == {<<n, n + 1>> : n \in 0 .. MaxChanges - 1} \cup {<<damaged, 0>>}
=============================================================================
