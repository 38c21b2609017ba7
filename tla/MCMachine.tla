----------------------------- MODULE MCMachine -----------------------------
(***************************************************************************)
(* One instance for TLC of four parts of the agent that share no variable: *)
(* the data directory, the listener and its unit, the first administrator  *)
(* and the reset command.                                                  *)
(* A behaviour has the steps of one of them (part), from every state that  *)
(* one may begin in; the others rest.  As no step of a part reads or       *)
(* changes another's variables, nothing is lost by it.                     *)
(***************************************************************************)
EXTENDS DataDir, UnitConfig, FirstRun, Recovery, TLC

CONSTANTS
  install1, install2, safe, unsafe, old, other,   (* data directory *)
  local, public, p7335, p9000,                    (* listener       *)
  r1, r2,                                         (* first setup    *)
  agentUser, another                              (* reset          *)

VARIABLE part

-----------------------------------------------------------------------------
EnvFile(says, expose, mode) == [says |-> says, expose |-> expose, safe |-> mode]
Says(host, port, listen) == [host |-> host, port |-> port, listen |-> listen]
Listener(host, port, padded) == [host |-> host, port |-> port, padded |-> padded]
PublicListener == Listener(public, p9000, FALSE)
Silent == Nothing

(* Environment files: one that says nothing, one that exposes, ones that   *)
(* select another listener in both forms, and one anybody may write.       *)
Files ==
  { EnvFile(Silent, FALSE, TRUE),
    EnvFile(Silent, TRUE, TRUE),
    EnvFile(Says(public, p9000, Absent), TRUE, TRUE),
    EnvFile(Says(Absent, Absent, PublicListener), TRUE, TRUE),
    EnvFile(Says(Absent, Absent, PublicListener), TRUE, FALSE) }

WrittenAddresses ==
  {Listener(local, p9000, TRUE), Listener(local, p7335, FALSE), PublicListener}

ListenerRests == unit = Missing /\ envFile = EnvFile(Silent, FALSE, TRUE) /\ UnitConfigInit

-----------------------------------------------------------------------------
ASSUME PartsAssumption ==
  /\ DataDirAssumption /\ FirstRunAssumption /\ RecoveryAssumption
  /\ UnitConfigAssumption /\ UnitAssumption

(* The data directory rests in one of the states it may begin in.          *)
DirectoryRests ==
  /\ home = None /\ account = FALSE
  /\ entry = [p \in Parent |-> None]
  /\ node = [n \in Node |-> [kind |-> "dir", owner |-> "root", mode |-> "private"]]
  /\ DataDirInit

Init ==
  /\ FirstRunInit /\ RecoveryInit
  /\ \/ part = "directory" /\ DataDirInit /\ ListenerRests
     \/ part = "listener" /\ DirectoryRests /\ UnitConfigInit
     \/ part \in {"setup", "reset"} /\ DirectoryRests /\ ListenerRests

Next ==
  \/ /\ part = "directory" /\ DataDirNext
     /\ UNCHANGED <<part, unitConfigVars, firstRunVars, recoveryVars>>
  \/ /\ part = "listener" /\ UnitConfigNext
     /\ UNCHANGED <<part, dataDirVars, firstRunVars, recoveryVars>>
  \/ /\ part = "setup" /\ FirstRunNext
     /\ UNCHANGED <<part, dataDirVars, unitConfigVars, recoveryVars>>
  \/ /\ part = "reset" /\ RecoveryNext
     /\ UNCHANGED <<part, dataDirVars, unitConfigVars, firstRunVars>>

Spec == Init /\ [][Next]_<<part, dataDirVars, unitConfigVars, firstRunVars, recoveryVars>>

(* Installations are interchangeable, and so are the objects there were    *)
(* before them, and requests.                                              *)
Symmetric ==
  Permutations({install1, install2}) \cup Permutations({old, other}) \cup Permutations({r1, r2})

(* Every variable of every part has its type. *)
TypeOK ==
  DataDirTypeOK /\ UnitConfigTypeOK /\ FirstRunTypeOK /\ RecoveryTypeOK

=============================================================================
