----------------------------- MODULE Lifecycle ------------------------------
(***************************************************************************)
(* The systemd service of the agent and the commands that manage it        *)
(* (internal/service/service.go): install and upgrade, update, rollback,   *)
(* uninstall, start, stop, restart, enable and disable.                    *)
(*                                                                         *)
(* A command is a list of calls (copies of files and systemctl calls) that *)
(* depends on what it found when it started; each call may succeed or      *)
(* fail, and what a failure leads to depends on the command.  One operator *)
(* runs one command at a time and may interrupt it; the service itself may *)
(* crash when its version is a bad one.                                    *)
(***************************************************************************)
EXTENDS Integers, Sequences

CONSTANTS
  Version,        (* the executables there are                              *)
  Healthy,        (* those that start and answer the health check           *)
  Unit,           (* the unit files install may write                       *)
  None,           (* no file, no process                                    *)
  MaxInterrupts   (* bound: commands killed half way                        *)

ASSUME LifecycleAssumption ==
  /\ Healthy \subseteq Version
  /\ None \notin Version \cup Unit
  /\ MaxInterrupts \in Nat

VARIABLES
  machine,     (* the files of the service and what systemd makes of them   *)
  op,          (* the command that runs                                     *)
  phase,       (* "forward", or "recovery" after a failure                  *)
  todo,        (* the calls it still has to make                            *)
  prior,       (* the machine as the command found it                       *)
  wanted,      (* the executable and the unit it was given                  *)
  flawed,      (* whether a call of its recovery failed                     *)
  outcome,     (* what the last command reported                            *)
  interrupts

vars == <<machine, op, phase, todo, prior, wanted, flawed, outcome, interrupts>>
argVars == <<prior, wanted>>

(* unit and loaded: the unit file, and the one systemd has read.  rollback *)
(* and marker: the executable and the is-active word update keeps for      *)
(* rollback; preinstall: the executable install keeps until it is done.    *)
Machine ==
  [ unit : Unit \cup {None}, loaded : Unit \cup {None},
    binary : Version \cup {None}, preinstall : Version \cup {None},
    rollback : Version \cup {None}, marker : {"active", "inactive", "failed", None},
    enabled : {"enabled", "enabled-runtime", "disabled"},
    active : {"active", "inactive", "failed"},
    running : Version \cup {None} ]

Bare ==
  [ unit |-> None, loaded |-> None, binary |-> None, preinstall |-> None,
    rollback |-> None, marker |-> None, enabled |-> "disabled",
    active |-> "inactive", running |-> None ]

Nothing == [version |-> None, unit |-> None]

Init ==
  /\ machine = Bare /\ prior = Bare /\ wanted = Nothing
  /\ op = "none" /\ phase = "forward" /\ todo = <<>>
  /\ flawed = FALSE /\ outcome = "none"
  /\ interrupts = 0

-----------------------------------------------------------------------------
(* The calls. *)

Call ==
  { "keep preinstall", "drop preinstall", "restore binary", "write binary", "write unit",
    "restore unit", "remove unit", "keep rollback", "write marker", "copy rollback",
    "set aside", "swap in", "forget", "daemon-reload", "enable", "enable --runtime",
    "disable", "neutralize disable", "disable --now", "stop", "neutralize stop",
    "reset-failed", "start", "restart", "verify" }

Up(m) == m.active = "active" /\ m.running \in Healthy

Running(m) == [m EXCEPT !.active = "active", !.running = m.binary]
Stopped(m) ==
  [m EXCEPT !.running = None, !.active = IF m.active = "failed" THEN "failed" ELSE "inactive"]

(* What a call that succeeds makes of the machine m. *)
Effect(m, call) ==
  CASE call = "keep preinstall"  -> [m EXCEPT !.preinstall = m.binary]
    [] call = "drop preinstall"  -> [m EXCEPT !.preinstall = None]
    [] call = "restore binary"   ->
         [m EXCEPT !.binary = IF prior.binary = None THEN None ELSE m.preinstall]
    [] call = "write binary"     -> [m EXCEPT !.binary = wanted.version]
    [] call = "write unit"       -> [m EXCEPT !.unit = wanted.unit]
    [] call = "restore unit"     -> [m EXCEPT !.unit = prior.unit]
    [] call = "remove unit"      -> [m EXCEPT !.unit = None]
    [] call = "keep rollback"    -> [m EXCEPT !.rollback = m.binary]
    [] call = "write marker"     -> [m EXCEPT !.marker = prior.active]
    [] call = "copy rollback"    -> [m EXCEPT !.binary = m.rollback]
    [] call = "set aside"        -> [m EXCEPT !.binary = None]
    [] call = "swap in"          -> [m EXCEPT !.binary = m.rollback, !.rollback = None]
    [] call = "forget"           -> [m EXCEPT !.marker = None, !.rollback = None]
    [] call = "daemon-reload"    -> [m EXCEPT !.loaded = m.unit]
    [] call = "enable"           -> [m EXCEPT !.enabled = "enabled"]
    [] call = "enable --runtime" -> [m EXCEPT !.enabled = "enabled-runtime"]
    [] call \in {"disable", "neutralize disable"} -> [m EXCEPT !.enabled = "disabled"]
    [] call = "disable --now"    -> [Stopped(m) EXCEPT !.enabled = "disabled"]
    [] call \in {"stop", "neutralize stop"} -> Stopped(m)
    [] call = "reset-failed"     ->
         IF m.active = "failed" THEN [m EXCEPT !.active = "inactive"] ELSE m
    [] call = "start"            -> IF m.active = "active" THEN m ELSE Running(m)
    [] call = "restart"          -> Running(m)
    [] call = "verify"           -> m

(* What a call needs to succeed. *)
Possible(m, call) ==
  /\ call \in {"start", "restart"} => m.loaded # None /\ m.binary # None
  /\ call \in {"stop", "neutralize stop"} => m.loaded # None
  /\ call = "set aside" => m.binary # None
  /\ call = "copy rollback" => m.rollback # None
  /\ call = "verify" => Up(m)

(* Mistake: an executable written in place instead of beside it. *)
FailureInPlace(m, call) ==
  IF call = "write binary" THEN {[m EXCEPT !.binary = "half"]} ELSE {m}

(* What a call that fails may leave behind: copies and unit files are      *)
(* written beside their target and renamed.                                *)
Failure(m, call) ==
  CASE call \in {"start", "restart"} ->
         {m, [m EXCEPT !.active = "failed", !.running = None]}
    [] call = "disable --now"        -> {m, [m EXCEPT !.enabled = "disabled"]}
    [] call = "write marker"         -> {[m EXCEPT !.rollback = None]}
    [] call = "swap in"              -> {m, [m EXCEPT !.binary = prior.binary]}
    [] OTHER                         -> {m}

(* Errors of these are ignored: they only remove files. *)
CannotFail(call) ==
  \/ call \in {"drop preinstall", "forget"}
  \/ call = "restore binary" /\ prior.binary = None
  \/ call = "restore unit" /\ prior.unit = None

-----------------------------------------------------------------------------
(* The lists of calls. *)

When(condition, calls) == IF condition THEN calls ELSE <<>>

(* enableRestoreSteps and activeRestoreArgs, with the reset-failed that    *)
(* goes before a restart.                                                  *)
EnableSteps(word) ==
  <<"disable">> \o When(word = "enabled", <<"enable">>)
                \o When(word = "enabled-runtime", <<"enable --runtime">>)
ActiveSteps(word) == IF word = "active" THEN <<"reset-failed", "restart">> ELSE <<"stop">>

Install(m, u) ==
  When(m.binary # None, <<"keep preinstall">>)
    \o <<"write unit", "write binary">>
    \o When(u # m.unit, <<"daemon-reload">>)
    \o (IF m.unit = None THEN <<"enable", "reset-failed", "restart">>
                         ELSE EnableSteps(m.enabled) \o ActiveSteps(m.active))
    \o <<"drop preinstall">>

(* Mistake: systemd is not told of the unit that was put back. *)
RestoreInstallUnread(m) ==
  <<"neutralize stop", "neutralize disable", "restore binary", "drop preinstall",
    "restore unit">>
    \o When(m.unit # None, EnableSteps(m.enabled) \o ActiveSteps(m.active))

(* The restore closure of InstallOptions. *)
RestoreInstall(m) ==
  <<"neutralize stop", "neutralize disable", "restore binary", "drop preinstall",
    "restore unit", "daemon-reload">>
    \o When(m.unit # None, EnableSteps(m.enabled) \o ActiveSteps(m.active))

Update(m) ==
  When(m.binary # None, <<"keep rollback", "write marker">>)
    \o <<"write binary">>
    \o When(m.active = "active", <<"reset-failed", "restart", "verify">>)

(* restoreAfterFailedUpdate. *)
RestoreUpdate(m) ==
  <<"stop", "copy rollback">>
    \o When(m.marker = "active", <<"reset-failed", "restart", "verify">>)
    \o <<"forget">>

(* Mistake: what was put back is not started. *)
RollbackUnstarted(m) ==
  When(m.marker = "active", <<"reset-failed">>) \o <<"set aside", "swap in", "forget">>

Rollback(m) ==
  When(m.marker = "active", <<"reset-failed">>)
    \o <<"set aside", "swap in">>
    \o When(m.marker = "active", <<"restart", "verify">>)
    \o <<"forget">>

Uninstall == <<"disable --now", "remove unit", "daemon-reload">>

Verbs == {"start", "stop", "restart", "enable", "disable"}
Lifecycle(verb) == When(verb \in {"start", "restart"}, <<"reset-failed">>) \o <<verb>>

-----------------------------------------------------------------------------
(* Commands. *)

Installed(m) == m.unit # None

Begin(command, calls) ==
  /\ op = "none"
  /\ op' = command /\ todo' = calls
  /\ outcome' = "none"
  /\ prior' = machine
  /\ UNCHANGED <<machine, phase, flawed, interrupts>>

(* The command returns and what it held is gone. *)
Return(result) ==
  /\ op' = "none" /\ todo' = <<>> /\ outcome' = result
  /\ phase' = "forward" /\ flawed' = FALSE
  /\ prior' = Bare /\ wanted' = Nothing

End(result) == Return(result) /\ UNCHANGED interrupts

(* The unit and the executable are those installed already: nothing to do. *)
Same(m, v, u) == m.unit = u /\ m.binary = v

(* InstallOptions refuses a prior state that cannot be restored exactly:   *)
(* of those here, a failed service.                                        *)
BeginInstall(v, u) ==
  /\ Installed(machine) => machine.active # "failed"
  /\ wanted' = [version |-> v, unit |-> u]
  /\ Begin("install", IF Same(machine, v, u) THEN <<>> ELSE Install(machine, u))

BeginUpdate(v) ==
  /\ Installed(machine)
  /\ wanted' = [version |-> v, unit |-> None]
  /\ Begin("update", Update(machine))

BeginRollback ==
  /\ Installed(machine)
  /\ machine.rollback # None /\ machine.marker # None
  /\ UNCHANGED wanted
  /\ Begin("rollback", Rollback(machine))

BeginUninstall ==
  /\ Installed(machine)
  /\ UNCHANGED wanted
  /\ Begin("uninstall", Uninstall)

BeginVerb(verb) ==
  /\ Installed(machine)
  /\ UNCHANGED wanted
  /\ Begin(verb, Lifecycle(verb))

-----------------------------------------------------------------------------
(* The calls of the running command. *)

Busy == op # "none" /\ todo # <<>>

Succeed ==
  /\ Busy
  /\ Possible(machine, Head(todo))
  /\ machine' = Effect(machine, Head(todo))
  /\ todo' = Tail(todo)
  /\ UNCHANGED <<op, phase, argVars, flawed, outcome, interrupts>>

Fails == Busy /\ ~CannotFail(Head(todo)) /\ machine' \in Failure(machine, Head(todo))

Recover(calls) ==
  /\ phase' = "recovery" /\ todo' = calls
  /\ UNCHANGED <<op, argVars, flawed, outcome, interrupts>>

(* A failed install puts everything back, once something was changed. *)
InstallFails ==
  /\ Fails /\ op = "install" /\ phase = "forward"
  /\ IF Head(todo) = "keep preinstall" THEN End("failed")
                                       ELSE Recover(RestoreInstall(prior))

(* Its restore goes on after a failure, but does not enable what it could  *)
(* not disable.                                                            *)
RestoreFails ==
  /\ Fails /\ op = "install" /\ phase = "recovery"
  /\ flawed' = TRUE
  /\ todo' = LET rest == Tail(todo)
             IN  IF Head(todo) = "disable" /\ prior.enabled # "disabled"
                 THEN Tail(rest) ELSE rest
  /\ UNCHANGED <<op, phase, argVars, outcome, interrupts>>

(* Mistake: a failed restart of the new version is only reported. *)
UpdateOnlyFails == Fails /\ op = "update" /\ phase = "forward" /\ End("failed")

(* A failed update recovers once it has tried to start the new version. *)
UpdateFails ==
  /\ Fails /\ op = "update" /\ phase = "forward"
  /\ IF Head(todo) \in {"keep rollback", "write marker", "write binary"} THEN End("failed")
     ELSE IF machine.marker = None THEN End("incomplete")
     ELSE Recover(RestoreUpdate(machine))

(* Any other command stops at its first failure. *)
CommandFails ==
  /\ Fails
  /\ op # "install"
  /\ op = "update" => phase = "recovery"
  /\ End(IF op = "update" THEN "incomplete" ELSE "failed")

Finish ==
  /\ op # "none" /\ todo = <<>>
  /\ End(IF phase = "forward" THEN "ok" ELSE IF flawed THEN "incomplete" ELSE "restored")
  /\ UNCHANGED machine

(* The operator or a signal ends the command between two calls. *)
Interrupt ==
  /\ Busy /\ interrupts < MaxInterrupts
  /\ Return("interrupted")
  /\ interrupts' = interrupts + 1
  /\ UNCHANGED machine

(* A version that is not healthy may crash at any time. *)
ServiceCrashes ==
  /\ machine.active = "active" /\ machine.running \notin Healthy
  /\ machine' = [machine EXCEPT !.active = "failed", !.running = None]
  /\ UNCHANGED <<op, phase, todo, prior, wanted, flawed, outcome, interrupts>>

Next ==
  \/ \E v \in Version, u \in Unit : BeginInstall(v, u)
  \/ \E v \in Version : BeginUpdate(v)
  \/ BeginRollback \/ BeginUninstall
  \/ \E verb \in Verbs : BeginVerb(verb)
  \/ Succeed \/ InstallFails \/ RestoreFails \/ UpdateFails \/ CommandFails \/ Finish
  \/ Interrupt \/ ServiceCrashes

Spec == Init /\ [][Next]_vars

-----------------------------------------------------------------------------
Ends(command, result) == op = command /\ op' = "none" /\ outcome' = result

(* The service was running the installed version, or not running. *)
Steady(m) ==
  m.active = "active" => m.running = m.binary /\ m.binary \in Healthy

SameService(m, n) ==
  /\ m.unit = n.unit /\ m.binary = n.binary
  /\ Installed(n) => m.enabled = n.enabled /\ m.active = n.active /\ m.running = n.running

(* InstallOptions is a transaction: an install that reports a failure and  *)
(* no incomplete rollback has put back unit, executable, enablement and    *)
(* activity, and systemd has read the unit; one that reports success left  *)
(* enablement and activity of an existing service as they were.            *)
InstallTransactional ==
  [][ /\ Ends("install", "restored") /\ Steady(prior) =>
           SameService(machine', prior) /\ machine'.loaded = prior.unit
      /\ Ends("install", "ok") =>
           /\ Same(machine', wanted.version, wanted.unit)
           /\ Installed(prior) => machine'.enabled = prior.enabled
           /\ Installed(prior) /\ Steady(prior) /\ wanted.version \in Healthy =>
                machine'.active = prior.active /\ Steady(machine') ]_vars

(* Update: whatever call fails, and whether the new version comes up or    *)
(* not, the service is afterwards what it was, with the new version or     *)
(* with the old one, unless the recovery itself is reported to have        *)
(* failed.                                                                 *)
UpdateAllOrNothing ==
  [][ /\ Ends("update", "ok") /\ Steady(prior) =>
           /\ machine'.binary = wanted.version
           /\ prior.active = "active" /\ wanted.version \in Healthy => Up(machine')
           /\ prior.active # "active" => machine'.active = prior.active
      /\ (Ends("update", "failed") \/ Ends("update", "restored")) /\ Steady(prior) =>
           SameService(machine', prior) ]_vars

(* A rollback to a version that ran brings that version up; one to a       *)
(* version that did not leaves the service's enablement alone.             *)
RollbackRestarts ==
  [][ Ends("rollback", "ok") =>
        /\ machine'.binary = prior.rollback
        /\ machine'.enabled = prior.enabled
        /\ prior.marker = "active" /\ prior.rollback \in Healthy =>
             Up(machine') /\ machine'.running = prior.rollback ]_vars

(* "Rollback restores the previous version and its operational state":     *)
(* after a rollback that reports success, a service that runs runs the     *)
(* version that was put back.  False of a rollback of an update that was   *)
(* made while the service was stopped, once the service was started again: *)
(* the executable is exchanged under the running one.                      *)
RollbackRestores ==
  [][ Ends("rollback", "ok") /\ machine'.active = "active" =>
        machine'.running = prior.rollback ]_vars

(* The type of the machine and of what a command holds: in particular, no  *)
(* executable and no unit file is ever half written.                       *)
TypeOK ==
  /\ machine \in Machine /\ prior \in Machine
  /\ op \in {"none", "install", "update", "rollback", "uninstall"} \cup Verbs
  /\ phase \in {"forward", "recovery"} /\ flawed \in BOOLEAN
  /\ todo \in Seq(Call) /\ interrupts \in 0..MaxInterrupts
  /\ wanted \in [version : Version \cup {None}, unit : Unit \cup {None}]

=============================================================================
