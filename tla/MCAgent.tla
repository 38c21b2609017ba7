------------------------------ MODULE MCAgent ------------------------------
(***************************************************************************)
(* Instances of Agent for TLC: the tasks, the process of each and the      *)
(* operations of each.                                                     *)
(***************************************************************************)
EXTENDS Agent

CONSTANTS service, cli, loop, web, command, p1, p2

(* The service with its delivery loop alone. *)
LoopProcessOf == loop :> service

(* With one web handler. *)
WebProcessOf == loop :> service @@ web :> service

(* With a web handler and a CLI command beside it. *)
CliProcessOf == loop :> service @@ web :> service @@ command :> cli

(* The web handler pairs again. *)
RepairOperations == web :> {"request", "poll"}

(* The web handler unpairs and saves settings. *)
UnpairOperations == web :> {"unpair", "save"}

(* The CLI command pairs; the service saves settings. *)
SaveOperations == web :> {"save"} @@ command :> {"request", "poll"}

(* The service resets and reloads; the CLI command pairs and rotates. *)
CliOperations ==
  web :> {"reset", "refresh"} @@ command :> {"request", "poll", "rotate"}

(* All of it together is too much: a behaviour is not followed beyond a    *)
(* state in which a handler is reloading the file and a CLI command        *)
(* rotates, has rotated, or has opened the file of a paired agent, where   *)
(* it could go on to rotate.                                               *)
ReloadOrRotate ==
  (\E t \in Task : pc[t] = "refreshing") =>
    \A t \in Task, r \in Requests :
      /\ issued[r] <= 1
      /\ pc[t] \notin {"rotating", "rotated"}
      /\ pc[t] = "opened" => issued[r] = 0
=============================================================================
