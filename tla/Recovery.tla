------------------------------ MODULE Recovery ------------------------------
(***************************************************************************)
(* `watchpost-agent reset --auth` and `--all` (resetLocalState in          *)
(* cmd/watchpost-agent/main.go): the way back from a state that may be     *)
(* damaged.  The service is stopped, as README.md asks.  The save inside   *)
(* RecoverFile is one step that happens or fails (module Store); the other *)
(* files are written in place, and a write that fails or is interrupted    *)
(* leaves a part of them.                                                  *)
(***************************************************************************)
EXTENDS Integers, FiniteSets

CONSTANTS
  Service, Other,  (* the owner of the data directory, and another user     *)
  Nobody,          (* the owner of no file                                  *)
  MaxRecoveries,   (* bound: resets                                         *)
  MaxEdits         (* bound: how often something else changes the file      *)

RecoveryAssumption ==
  /\ Service # Other /\ Nobody \notin {Service, Other}
  /\ MaxRecoveries \in Nat /\ MaxEdits \in Nat

VARIABLES
  file,     (* agent.json: what it says and whose it is                     *)
  backups,  (* the timestamped backups                                      *)
  resetPc,  (* where the command is                                         *)
  scope,    (* "auth" or "all"                                              *)
  original, (* what it has read: the bytes and the owner                    *)
  faults,   (* how many of its calls have failed                            *)
  outcome,  (* what the last command reported                               *)
  recoveries, edits,
  had       (* what the files said that resets began with                   *)

progress == <<resetPc, scope, original, faults>>
bounds == <<recoveries, edits>>
recoveryVars == <<file, backups, progress, outcome, bounds, had>>

(* The installation is a number, 0 when the envelope cannot be read; the   *)
(* local accounts are valid, default or not valid; the rest is everything  *)
(* else.  A part of a file says nothing.                                   *)
Content ==
  [installation : 0 .. MaxEdits + MaxRecoveries, auth : {"set", "default", "invalid"},
   rest : {"set", "default"}]
Part == [installation |-> 0, auth |-> "invalid", rest |-> "default"]

File == [says : Content, owner : {Service, Other}]
NoFile == [says |-> Part, owner |-> Nobody]
Exists(f) == f.owner # Nobody

RecoveryInit ==
  /\ file = NoFile /\ backups = {}
  /\ resetPc = "idle" /\ scope = "all" /\ original = NoFile /\ faults = 0
  /\ outcome = "none" /\ recoveries = 0 /\ edits = 0 /\ had = {}

AtCall(label) == resetPc = label
GotoCall(label) == resetPc' = label

Report(result) ==
  /\ GotoCall("idle") /\ outcome' = result
  /\ UNCHANGED <<scope, original>>

Fault == faults' = faults + 1

(* The service, an operator or a disk makes the file what it is: what it   *)
(* overwrites is not for the command to keep.                              *)
Edit ==
  /\ AtCall("idle") /\ edits < MaxEdits
  /\ edits' = edits + 1
  /\ \E auth \in {"set", "invalid"}, rest \in {"set", "default"},
        number \in {0, edits + 1}, owner \in {Service, Other} :
       file' = [says |-> [installation |-> number, auth |-> auth, rest |-> rest],
                owner |-> owner]
  /\ outcome' = "none" /\ had' = had \cap backups
  /\ UNCHANGED <<backups, progress, recoveries>>

-----------------------------------------------------------------------------
(* The confirmation was given; the file is read, and may be missing. *)
Begin(which) ==
  /\ AtCall("idle") /\ recoveries < MaxRecoveries
  /\ recoveries' = recoveries + 1
  /\ scope' = which /\ original' = file /\ faults' = 0
  /\ outcome' = "none"
  /\ had' = IF Exists(file) THEN had \cup {file.says} ELSE had
  /\ GotoCall(IF Exists(file) THEN "backup" ELSE "recover")
  /\ UNCHANGED <<file, backups, edits>>

(* Mistake: the backup is written after the file was replaced. *)
BackupLater ==
  /\ AtCall("backup")
  /\ GotoCall("recover")
  /\ UNCHANGED <<file, backups, scope, original, faults, outcome, bounds, had>>

Backup ==
  /\ AtCall("backup")
  /\ backups' = backups \cup {original.says}
  /\ GotoCall("recover")
  /\ UNCHANGED <<file, scope, original, faults, outcome, bounds, had>>

BackupFails ==
  /\ AtCall("backup")
  /\ backups' \in {backups, backups \cup {Part}}
  /\ Fault /\ Report("failed")
  /\ UNCHANGED <<file, bounds, had>>

Envelope(f) == Exists(f) /\ f.says.installation # 0

(* Mistake: the whole state goes with the accounts. *)
ClearsAll(f) ==
  [installation |-> f.says.installation, auth |-> "default", rest |-> "default"]

AuthReset(f) == [f.says EXCEPT !.auth = "default"]

(* A readable envelope keeps its installation; another gets a new one. *)
FullReset(f) ==
  [installation |-> IF Envelope(f) THEN f.says.installation ELSE MaxEdits + recoveries,
   auth |-> "default", rest |-> "default"]

(* RecoverFile: a save, which gives the file to the directory's owner. *)
Recover ==
  /\ AtCall("recover") /\ (scope = "auth" => Envelope(file))
  /\ file' = [says |-> IF scope = "auth" THEN AuthReset(file) ELSE FullReset(file),
              owner |-> Service]
  /\ GotoCall("owner")
  /\ UNCHANGED <<backups, scope, original, faults, outcome, bounds, had>>

RecoverFails ==
  /\ AtCall("recover")
  /\ Fault /\ Report("failed")
  /\ UNCHANGED <<file, backups, bounds, had>>

RecoverRefuses ==
  /\ AtCall("recover") /\ scope = "auth" /\ ~Envelope(file)
  /\ Report("failed")
  /\ UNCHANGED <<file, backups, faults, bounds, had>>

(* Mistake: the owner of a file that was not there. *)
FileOwner == original.owner

(* Whose the file was, or the data directory. *)
PriorOwner == IF Exists(original) THEN original.owner ELSE Service

RestoreOwner ==
  /\ AtCall("owner")
  /\ file' = [file EXCEPT !.owner = PriorOwner]
  /\ Report("ok")
  /\ UNCHANGED <<backups, faults, bounds, had>>

(* Mistake: the failure is only reported. *)
OwnerOnlyFails ==
  /\ AtCall("owner")
  /\ Fault /\ Report("failed")
  /\ UNCHANGED <<file, backups, bounds, had>>

OwnerFails ==
  /\ AtCall("owner")
  /\ Fault
  /\ GotoCall(IF Exists(original) THEN "rollback" ELSE "remove")
  /\ UNCHANGED <<file, backups, scope, original, outcome, bounds, had>>

(* os.WriteFile empties the file before it writes it; then the owner is    *)
(* tried again, and whether that works is not looked at.                   *)
TruncateFile ==
  /\ AtCall("rollback")
  /\ file' = [file EXCEPT !.says = Part]
  /\ GotoCall("rewrite")
  /\ UNCHANGED <<backups, scope, original, faults, outcome, bounds, had>>

Rewrite ==
  /\ AtCall("rewrite")
  /\ \E owner \in {file.owner, PriorOwner} : file' = [says |-> original.says, owner |-> owner]
  /\ Report("failed")
  /\ UNCHANGED <<backups, faults, bounds, had>>

RewriteFails ==
  /\ resetPc \in {"rollback", "rewrite"}
  /\ Fault /\ Report("failed")
  /\ UNCHANGED <<file, backups, bounds, had>>

Remove ==
  /\ AtCall("remove")
  /\ \/ file' = NoFile /\ UNCHANGED faults
     \/ UNCHANGED file /\ Fault
  /\ Report("failed")
  /\ UNCHANGED <<backups, bounds, had>>

(* The command is killed: in a write, a part of the backup may be there.   *)
Killed ==
  /\ ~AtCall("idle")
  /\ backups' \in {backups} \cup (IF AtCall("backup") THEN {backups \cup {Part}} ELSE {})
  /\ Report("none")
  /\ UNCHANGED <<file, faults, bounds, had>>

RecoveryNext ==
  \/ Edit
  \/ \E which \in {"auth", "all"} : Begin(which)
  \/ Backup \/ BackupFails \/ Recover \/ RecoverFails \/ RecoverRefuses
  \/ RestoreOwner \/ OwnerFails \/ TruncateFile \/ Rewrite \/ RewriteFails \/ Remove
  \/ Killed

RecoverySpec == RecoveryInit /\ [][RecoveryNext]_recoveryVars

-----------------------------------------------------------------------------
(* Every variable has its type. *)
RecoveryTypeOK ==
  /\ file \in File \cup {NoFile} /\ original \in File \cup {NoFile}
  /\ backups \subseteq Content
  /\ resetPc \in {"idle", "backup", "recover", "owner", "rollback", "rewrite", "remove"}
  /\ scope \in {"auth", "all"}
  /\ faults \in 0 .. 2 /\ outcome \in {"none", "ok", "failed"}
  /\ recoveries \in 0 .. MaxRecoveries /\ edits \in 0 .. MaxEdits
  /\ had \subseteq Content

(* "Both modes retain timestamped backups" (README.md): whatever fails and *)
(* wherever the command is killed, what agent.json said is in a whole      *)
(* backup, unless agent.json still says it.                                *)
OriginalRetained ==
  \A c \in had : c \in backups \/ (Exists(file) /\ file.says = c)

(* A reset that reports a failure has changed nothing that is said, unless *)
(* what was to put it back failed as well.                                 *)
FailureRestores ==
  outcome = "failed" /\ faults < 2 =>
    /\ Exists(file) = Exists(original)
    /\ file.says = original.says

(* "preserving valid pairing, collector and installation state ... and     *)
(* preserve service ownership of the active state file" (README.md).       *)
SuccessPreserves ==
  outcome = "ok" =>
    /\ file.owner = PriorOwner
    /\ file.says.auth = "default"
    /\ Envelope(original) => file.says.installation = original.says.installation
    /\ scope = "auth" => file.says.rest = original.says.rest

=============================================================================
