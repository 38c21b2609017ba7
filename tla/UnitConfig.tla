----------------------------- MODULE UnitConfig -----------------------------
(***************************************************************************)
(* The listener of the agent, from what the operator selects to what the   *)
(* service binds: flags and environment (cmd/watchpost-agent/listen.go),   *)
(* the unit that `service install` records them in and reads them back     *)
(* from (main.go, internal/service/service.go), and the start of the       *)
(* process from that unit under its environment file.                      *)
(*                                                                         *)
(* Here every systemctl call and every copy succeeds, and the executable   *)
(* does not change: module Lifecycle has their failures.  An address is a  *)
(* host and a port, and whether blanks surround it.                        *)
(***************************************************************************)
EXTENDS Integers, FiniteSets

CONSTANTS
  Host, Port,                (* the hosts and ports there are               *)
  DefaultHost, DefaultPort,  (* 127.0.0.1 and 7335                          *)
  Loopback,                  (* the hosts appOptions does not ask to expose *)
  Written,                   (* the addresses operators write as one value  *)
  Bad,                       (* an empty host, a port that is not one       *)
  Absent,                    (* a flag or a variable that is not given      *)
  Refused,                   (* no address: the command reports an error    *)
  Missing,                   (* no unit, no process, no environment file    *)
  Contents                   (* what the environment file may say           *)

Address == [host : Host, port : Port, padded : BOOLEAN]

UnitConfigAssumption ==
  /\ Written \subseteq Address
  /\ DefaultHost \in Host /\ DefaultPort \in Port /\ Loopback \subseteq Host
  /\ Bad \notin Host \cup Port /\ Absent \notin Host \cup Port /\ Absent # Bad
  /\ {Bad, Absent, Refused, Missing} \cap Address = {}

VARIABLES
  shell,   (* the WATCHPOST_AGENT_ variables of the operator's shell        *)
  unit,    (* the unit file                                                 *)
  envFile, (* the environment file: what it says, whether it is safe        *)
  running  (* the address the service listens at                            *)

unitConfigVars == <<shell, unit, envFile, running>>

Join(host, port) == [host |-> host, port |-> port, padded |-> FALSE]

(* What flags, or variables, can select. *)
Selection ==
  [host : Host \cup {Absent, Bad}, port : Port \cup {Absent, Bad},
   listen : Written \cup {Absent, Bad}]

Nothing == [host |-> Absent, port |-> Absent, listen |-> Absent]
Given(s) == {field \in DOMAIN s : s[field] # Absent}

-----------------------------------------------------------------------------
(* listen.go *)

(* Of each field: the flag, else the variable, else the default. *)
First(flag, variable, default) ==
  IF flag # Absent THEN flag ELSE IF variable # Absent THEN variable ELSE default

ResolveHostPort(flags, env) ==
  LET host == First(flags.host, env.host, DefaultHost)
      port == First(flags.port, env.port, DefaultPort)
  IN IF Bad \in {host, port} THEN Refused ELSE Join(host, port)

(* Mistake: the legacy variable wins over a flag. *)
LegacyFirst(flags, env) ==
  IF env.listen \notin {Absent, Bad} THEN env.listen
  ELSE IF flags.listen \notin {Absent, Bad} THEN flags.listen
  ELSE ResolveHostPort(flags, env)

(* Mistake: two forms in the environment, and one of them is taken. *)
NoConflict(flags, env) ==
  IF flags.listen # Absent THEN IF flags.listen = Bad THEN Refused ELSE flags.listen
  ELSE IF env.listen \in {Absent, Bad} THEN ResolveHostPort(flags, env) ELSE env.listen

(* resolveListener: the two forms exclude each other among the flags, and  *)
(* among the variables when there is no flag; host and port flags override *)
(* the legacy variable.                                                    *)
ResolveListener(flags, env) ==
  CASE flags.listen # Absent ->
         IF flags.listen = Bad \/ Given(flags) # {"listen"} THEN Refused ELSE flags.listen
    [] flags.listen = Absent /\ (Given(flags) # {} \/ env.listen = Absent) ->
         ResolveHostPort(flags, env)
    [] OTHER ->
         IF env.listen = Bad \/ Given(env) # {"listen"} THEN Refused ELSE env.listen

-----------------------------------------------------------------------------
(* The unit.  form is how ExecStart spells the address; mode is the        *)
(* marker, which units of older versions do not have; a unit that was      *)
(* edited or is another's is not managed.                                  *)
Unit ==
  [form : {"host/port", "listen"}, address : Address, envfile : {Missing, "env"},
   mode : {"explicit", "bootstrap", Absent}, managed : BOOLEAN]

UnitAssumption == Missing \notin Unit

BuildUnit(options) ==
  [form |-> options.form, address |-> options.address, envfile |-> options.envfile,
   mode |-> IF options.form = "listen" THEN "bootstrap" ELSE "explicit",
   managed |-> TRUE]

(* The metadata is trimmed when it is read. *)
Trimmed(address) == Join(address.host, address.port)
Recorded(u) == Trimmed(u.address)

Options(form, address, envfile) ==
  [form |-> form, address |-> address, envfile |-> envfile]

InstallOptions(address, legacy, envfile) ==
  Options(IF legacy THEN "listen" ELSE "host/port", address, envfile)

OptionsFromMeta(u, envfile) ==
  Options(IF u.mode = "explicit" THEN "host/port" ELSE "listen", Recorded(u), envfile)

-----------------------------------------------------------------------------
(* The service: its flags, its variables, and what it makes of them. *)

(* Mistake: the port is not recorded. *)
HostOnly(u) ==
  IF u.form = "listen" THEN [Nothing EXCEPT !.listen = u.address]
  ELSE [Nothing EXCEPT !.host = u.address.host]

ExecStart(u) ==
  IF u.form = "listen" THEN [Nothing EXCEPT !.listen = u.address]
  ELSE [Nothing EXCEPT !.host = u.address.host, !.port = u.address.port]

(* The variables systemd gives to the process. *)
ServiceEnv(u) == IF u.envfile = Missing THEN Nothing ELSE envFile.says
Exposed(u) == u.envfile # Missing /\ envFile.expose

(* run resolves its listener from its flags and variables, and listens;    *)
(* blanks make a host that is not loopback and that cannot be bound.       *)
Listens(u) ==
  LET address == ResolveListener(ExecStart(u), ServiceEnv(u))
  IN IF address = Refused \/ address.padded \/ ~(address.host \in Loopback \/ Exposed(u))
     THEN Missing ELSE address

-----------------------------------------------------------------------------
(* Commands. *)

Installed == unit # Missing

(* Any unit that is there has to be one of ours: ExistingMeta and the      *)
(* preflight of InstallOptions, and requireManaged.                        *)
Manageable == Installed => unit.managed

(* Install publishes the unit; a service that ran is started again from    *)
(* it, a new one for the first time, and one that was stopped stays so.    *)
(* Type=simple: the call succeeds whether the process then listens or not. *)
Publish(options) ==
  LET u == BuildUnit(options) IN
    /\ Manageable
    /\ options.envfile # Missing => envFile.safe
    /\ unit' = u
    /\ running' = IF unit = u THEN running
                  ELSE IF Installed /\ running = Missing THEN Missing
                  ELSE Listens(u)
    /\ UNCHANGED <<shell, envFile>>

Legacy(flags) ==
  flags.listen # Absent \/ (shell.listen # Absent /\ Given(flags) = {})

(* A listener was selected, by a flag or by a variable: the rest of the    *)
(* recorded configuration is not looked at.                                *)
InstallSelected(flags, envfile) ==
  LET address == ResolveListener(flags, shell) IN
    /\ Given(flags) \cup Given(shell) # {}
    /\ address # Refused
    /\ Publish(InstallOptions(address, Legacy(flags), envfile))

(* Nothing was: the recorded listener and, unless --env-file says          *)
(* otherwise, the recorded environment file are kept.                      *)
InstallBare(envfile) ==
  /\ Installed /\ unit.managed
  /\ Given(shell) = {}
  /\ Publish(OptionsFromMeta(unit, IF envfile = Absent THEN unit.envfile ELSE envfile))

InstallFirst(envfile) ==
  /\ ~Installed /\ Given(shell) = {}
  /\ Publish(InstallOptions(Join(DefaultHost, DefaultPort), FALSE, envfile))

(* lifecycle, verbs start and restart.                                     *)
StartUnit ==
  /\ Installed /\ unit.managed
  /\ running' = IF running # Missing THEN running ELSE Listens(unit)
  /\ UNCHANGED <<shell, unit, envFile>>

Restart ==
  /\ Installed /\ unit.managed
  /\ running' = Listens(unit)
  /\ UNCHANGED <<shell, unit, envFile>>

StopUnit ==
  /\ Installed /\ unit.managed
  /\ running' = Missing
  /\ UNCHANGED <<shell, unit, envFile>>

Uninstall ==
  /\ Installed /\ unit.managed
  /\ running' = Missing /\ unit' = Missing
  /\ UNCHANGED <<shell, envFile>>

-----------------------------------------------------------------------------
(* What others do: a shell with other variables, and one without; an       *)
(* edited environment file; a unit that somebody edits, and puts back.     *)
OtherShell ==
  /\ shell' \in IF shell = Nothing THEN Selection ELSE {Nothing}
  /\ UNCHANGED <<unit, envFile, running>>

EditFile ==
  /\ envFile' \in Contents
  /\ UNCHANGED <<shell, unit, running>>

EditUnit ==
  /\ Installed
  /\ unit' = [unit EXCEPT !.managed = ~@]
  /\ UNCHANGED <<shell, envFile, running>>

(* A machine may have a unit of an older version. *)
OldUnit ==
  [form : {"listen"}, address : Written, envfile : {Missing}, mode : {Absent}, managed : {TRUE}]

UnitConfigInit ==
  /\ shell = Nothing
  /\ unit \in {Missing} \cup OldUnit
  /\ envFile \in Contents
  /\ running = Missing

UnitConfigNext ==
  \/ \E flags \in Selection, envfile \in {Missing, "env"} : InstallSelected(flags, envfile)
  \/ \E envfile \in {Absent, Missing, "env"} : InstallBare(envfile)
  \/ \E envfile \in {Missing, "env"} : InstallFirst(envfile)
  \/ StartUnit \/ Restart \/ StopUnit \/ Uninstall
  \/ OtherShell \/ EditFile \/ EditUnit

UnitConfigSpec == UnitConfigInit /\ [][UnitConfigNext]_unitConfigVars

-----------------------------------------------------------------------------
(* Every variable has its type. *)
UnitConfigTypeOK ==
  /\ shell \in Selection
  /\ unit \in Unit \cup {Missing}
  /\ envFile \in Contents
  /\ running \in Address \cup {Missing}

(* "the recorded listener is the runtime listener across restart and       *)
(* reboot" (README.md), which Status reports: whatever the environment     *)
(* file says, now or when the service was started.                         *)
RuntimeIsRecorded == running # Missing => Installed /\ running = Recorded(unit)

(* What the flags and these variables select is not silently dropped: an   *)
(* accepted listener is the one of every flag, and of every variable whose *)
(* field no flag gives, but for the legacy variable, which host and port   *)
(* flags override.  Blanks around an address are not compared.             *)
Honours(env) ==
  \A flags \in Selection :
    LET address == ResolveListener(flags, env)
        Agrees(s, field) == IF field = "listen" THEN Trimmed(address) = Trimmed(s.listen)
                                                ELSE address[field] = s[field]
    IN address # Refused =>
         /\ \A field \in Given(flags) : Agrees(flags, field)
         /\ flags.listen = Absent =>
              \A field \in Given(env) \ Given(flags) :
                (field = "listen" /\ Given(flags) # {}) \/ Agrees(env, field)

(* Whatever shell the operator comes to, nothing that was selected in it   *)
(* is silently dropped; selections that contradict each other are refused. *)
SelectionHonoured == [][shell' # shell => Honours(shell')]_unitConfigVars

(* A service whose unit records a loopback address listens there whenever  *)
(* it is installed for the first time, started or restarted, and, if it    *)
(* runs, after every other change of its unit: nothing the environment     *)
(* file says, then or later, makes it refuse its listener or ask for       *)
(* WATCHPOST_AGENT_EXPOSE.  Nothing is said of an address with blanks      *)
(* around it.                                                              *)
LoopbackComesUp ==
  [][LET due == ~Installed \/ StartUnit \/ Restart \/ (running # Missing /\ unit' # unit)
     IN /\ due
        /\ unit' # Missing /\ unit'.address.host \in Loopback /\ ~unit'.address.padded
        => running' = Recorded(unit')]_unitConfigVars

=============================================================================
