------------------------------ MODULE FirstRun ------------------------------
(***************************************************************************)
(* The first administrator: the bootstrap token that the start of the      *)
(* service provisions (main.go), the setup by the web interface that it    *)
(* gates, the setup by the command line that needs none, and the resets    *)
(* that lead back to the first run, with requests that overlap, saves that *)
(* fail and processes that are killed.  Sessions and further accounts are  *)
(* in module Sessions.                                                     *)
(***************************************************************************)
EXTENDS Integers, FiniteSets

CONSTANTS
  Request,   (* the goroutines that serve requests                          *)
  MaxIssues, (* bound: tokens provisioned                                   *)
  MaxAdmins, (* bound: first administrators created                         *)
  MaxResets  (* bound: resets                                               *)

FirstRunAssumption ==
  /\ IsFiniteSet(Request)
  /\ MaxIssues \in Nat /\ MaxAdmins \in Nat /\ MaxResets \in Nat

VARIABLES
  disk,     (* the local authentication in agent.json                       *)
  mem,      (* that in the memory of the service                            *)
  model,    (* the administrator gantry-core's model has loaded             *)
  up,       (* whether the service runs                                     *)
  required, (* Options.SetupTokenRequired of this start                     *)
  setupPc,  (* where each request is                                        *)
  held,     (* what its Reload has read                                     *)
  with,     (* the issue whose token its setup has passed with              *)
  cli, own, (* where the `setup` command is, and its memory                 *)
  issued,   (* the number of tokens provisioned                             *)
  admins,   (* the number of administrators created                         *)
  resets,   (* the number of resets                                         *)
  locked,   (* whether this service was reset by its web interface          *)
  uses,     (* which administrator was created with which issue             *)
  raced     (* which of the races below have happened                       *)

service == <<mem, model, up, required, locked>>
requests == <<setupPc, held, with>>
command == <<cli, own>>
history == <<issued, admins, resets, uses, raced>>
firstRunVars == <<disk, service, requests, command, history>>

(* BootstrapToken: its hash and its ExpiresAt are the number of the issue, *)
(* 0 when there is none.  The operator's own token is a new issue whenever *)
(* it is stored.                                                           *)
Bootstrap == [issue : 0 .. MaxIssues, consumed : BOOLEAN]
NoBootstrap == [issue |-> 0, consumed |-> FALSE]

(* Administrators are numbered; 0 stands for none. *)
LocalAuth == [admin : 0 .. MaxAdmins, bootstrap : Bootstrap]
FirstRunState == [admin |-> 0, bootstrap |-> NoBootstrap]

(* The races of the code: a Reload has published what was the file's no    *)
(* longer ("reload"); a reset has fallen into a setup ("reset"); a save    *)
(* was made from a copy that was not the file's ("save").                  *)
Races == {"reload", "reset", "save"}

FirstRunInit ==
  /\ disk = FirstRunState /\ mem = FirstRunState /\ model = 0
  /\ up = FALSE /\ required = FALSE /\ locked = FALSE
  /\ setupPc = [r \in Request |-> "idle"]
  /\ held = [r \in Request |-> FirstRunState]
  /\ with = [r \in Request |-> 0]
  /\ cli = "idle" /\ own = FirstRunState
  /\ issued = 0 /\ admins = 0 /\ resets = 0 /\ uses = {}
  /\ raced = {}

At(r, label) == setupPc[r] = label
Goto(r, label) == setupPc' = [setupPc EXCEPT ![r] = label]

(* Store.Update of the service: from its own memory, and to both or, when  *)
(* the save fails, to neither.                                             *)
Save(value) == disk' = value /\ mem' = value
SaveFails == UNCHANGED <<disk, mem>>

Marks(race, happens) == raced' = IF happens THEN raced \cup {race} ELSE raced

-----------------------------------------------------------------------------
(* The start of the service. *)

(* Mistake: a token that is still stored is left in effect, whatever was   *)
(* done with it.                                                           *)
KeepsOld(old) ==
  IF old.issue # 0 THEN old ELSE [issue |-> issued + 1, consumed |-> FALSE]

(* What StoreBootstrapToken puts in the place of the last token. *)
Issue(old) == [issue |-> issued + 1, consumed |-> FALSE]

(* run opens the file; provisionSetupToken looks whether a setup is due.   *)
Boot(needs) ==
  /\ ~up
  /\ up' = TRUE /\ required' = needs /\ locked' = FALSE
  /\ model' = disk.admin

Start ==
  \E needs \in BOOLEAN :
    /\ needs => disk.admin # 0
    /\ Boot(needs)
    /\ mem' = disk
    /\ UNCHANGED <<disk, requests, command, history>>

(* The token is printed, and new at each start, or the operator's. *)
StartWithToken ==
  /\ disk.admin = 0 /\ issued < MaxIssues
  /\ Boot(TRUE)
  /\ Save([disk EXCEPT !.bootstrap = Issue(disk.bootstrap)])
  /\ issued' = issued + 1
  /\ UNCHANGED <<requests, command, admins, resets, uses, raced>>

(* Mistake: the service serves although no token could be stored. *)
ServesWithoutToken ==
  /\ disk.admin = 0
  /\ Boot(TRUE)
  /\ mem' = disk
  /\ UNCHANGED <<disk, requests, command, history>>

(* When the token cannot be stored run returns the error: nothing listens. *)
StartFails == disk.admin = 0 /\ ~up /\ UNCHANGED firstRunVars

(* The process ends, by a signal or a crash: what its requests were doing  *)
(* is lost.                                                                *)
Stop ==
  /\ up
  /\ up' = FALSE
  /\ mem' = FirstRunState /\ model' = 0 /\ required' = FALSE /\ locked' = FALSE
  /\ setupPc' = [r \in Request |-> "idle"]
  /\ held' = [r \in Request |-> FirstRunState]
  /\ with' = [r \in Request |-> 0]
  /\ UNCHANGED <<disk, command, history>>

-----------------------------------------------------------------------------
(* SetupRequired, which every page asks for: Reload reads the file, which  *)
(* may fail, and publishes under Store.mu what it has read; then the model *)
(* is loaded from the memory.                                              *)
ReloadRead(r) ==
  /\ up /\ At(r, "idle")
  /\ \/ Goto(r, "reloading") /\ held' = [held EXCEPT ![r] = disk]
     \/ Goto(r, "loading") /\ UNCHANGED held
  /\ UNCHANGED <<disk, service, with, command, history>>

ReloadPublish(r) ==
  /\ At(r, "reloading")
  /\ mem' = held[r]
  /\ Marks("reload", held[r] # disk)
  /\ Goto(r, "loading")
  /\ held' = [held EXCEPT ![r] = FirstRunState]
  /\ UNCHANGED <<disk, model, up, required, locked, with, command,
                 issued, admins, resets, uses>>

ReloadModel(r) ==
  /\ At(r, "loading")
  /\ model' = mem.admin
  /\ Goto(r, "idle")
  /\ UNCHANGED <<disk, mem, up, required, locked, held, with, command, history>>

-----------------------------------------------------------------------------
(* Setup, which holds Manager.mu from its beginning to its end; the model  *)
(* is loaded from the memory, not from the file.                           *)
InSetup(r) == setupPc[r] \in {"checking", "creating", "consuming"}

Setup(r) ==
  /\ up /\ At(r, "idle")
  /\ \A other \in Request : ~InSetup(other)
  /\ model' = mem.admin
  /\ Goto(r, "checking")
  /\ UNCHANGED <<disk, mem, up, required, locked, held, with, command, history>>

(* A token that was consumed is refused, and so is any when none is        *)
(* stored: its ExpiresAt is zero then.                                     *)
Acceptable(token) == ~token.consumed /\ token.issue # 0

(* The stored token is presented. *)
Check(r) ==
  /\ At(r, "checking")
  /\ required => Acceptable(mem.bootstrap)
  /\ Goto(r, "creating")
  /\ with' = [with EXCEPT ![r] = IF required THEN mem.bootstrap.issue ELSE 0]
  /\ UNCHANGED <<disk, service, held, command, history>>

(* Another is, or its time is over, which it may be whenever it is         *)
(* presented: time is left out.                                            *)
CheckRefused(r) ==
  /\ At(r, "checking") /\ required
  /\ Goto(r, "idle")
  /\ UNCHANGED <<disk, service, held, with, command, history>>

(* CreateInitialAdministrator refuses when the model has an account. *)
Free(loaded) == loaded = 0

CreateAdministrator(r) ==
  /\ At(r, "creating") /\ Free(model) /\ admins < MaxAdmins
  /\ Marks("save", mem # disk \/ model # mem.admin)
  /\ Save([mem EXCEPT !.admin = admins + 1])
  /\ model' = admins + 1
  /\ admins' = admins + 1
  /\ uses' = uses \cup {[admin |-> admins + 1, issue |-> with[r]]}
  /\ Goto(r, "consuming")
  /\ with' = [with EXCEPT ![r] = 0]
  /\ UNCHANGED <<up, required, locked, held, command, issued, resets>>

CreateRefused(r) ==
  /\ At(r, "creating")
  /\ Goto(r, "idle")
  /\ with' = [with EXCEPT ![r] = 0]
  /\ UNCHANGED <<disk, service, held, command, history>>

(* The second save: the token is consumed, the event recorded. *)
Consume(r) ==
  /\ At(r, "consuming")
  /\ \/ /\ Save([mem EXCEPT !.bootstrap.consumed = @ \/ required])
        /\ Marks("save", mem # disk)
     \/ SaveFails /\ UNCHANGED raced
  /\ Goto(r, "idle")
  /\ UNCHANGED <<model, up, required, locked, held, with, command,
                 issued, admins, resets, uses>>

-----------------------------------------------------------------------------
(* Resets. *)

(* Mistake: the accounts are removed and the token is kept. *)
ResetAccountsOnly(value) == [value EXCEPT !.admin = 0]

(* defaultLocalAuth: no account, and no token. *)
ResetLocalAuth(value) == FirstRunState

(* POST /api/v1/reset, by an administrator who is signed in. *)
Reset ==
  /\ up /\ model # 0 /\ resets < MaxResets
  /\ Marks("reset", \E r \in Request : InSetup(r))
  /\ Save(ResetLocalAuth(mem))
  /\ locked' = TRUE
  /\ resets' = resets + 1
  /\ UNCHANGED <<model, up, required, requests, command, issued, admins, uses>>

(* `reset --auth` or `reset --all`: README.md asks to stop the service;    *)
(* nobody runs it beside the command `setup`.                              *)
RecoverFile ==
  /\ ~up /\ cli = "idle" /\ resets < MaxResets
  /\ disk' = ResetLocalAuth(disk)
  /\ resets' = resets + 1
  /\ UNCHANGED <<service, requests, command, issued, admins, uses, raced>>

-----------------------------------------------------------------------------
(* `watchpost-agent setup`: a process with a memory of its own, which has  *)
(* to prove no token, and saves twice.                                     *)

(* Mistake: it does not look whether there is an account. *)
CliOpenAnyway ==
  /\ cli = "idle"
  /\ own' = disk
  /\ cli' = "creating"
  /\ UNCHANGED <<disk, service, requests, history>>

CliOpen ==
  /\ cli = "idle"
  /\ own' = disk
  /\ cli' = IF disk.admin = 0 THEN "creating" ELSE "idle"
  /\ UNCHANGED <<disk, service, requests, history>>

CliCreate ==
  /\ cli = "creating" /\ admins < MaxAdmins
  /\ Marks("save", own # disk)
  /\ own' = [own EXCEPT !.admin = admins + 1]
  /\ disk' = own'
  /\ admins' = admins + 1
  /\ uses' = uses \cup {[admin |-> admins + 1, issue |-> 0]}
  /\ cli' = "recording"
  /\ UNCHANGED <<service, requests, issued, resets>>

CliRecord ==
  /\ cli = "recording"
  /\ Marks("save", own # disk)
  /\ disk' = own
  /\ cli' = "idle" /\ own' = FirstRunState
  /\ UNCHANGED <<service, requests, issued, admins, resets, uses>>

(* A save failed, or the process was killed. *)
CliEnds ==
  /\ cli # "idle"
  /\ cli' = "idle" /\ own' = FirstRunState
  /\ UNCHANGED <<disk, service, requests, history>>

-----------------------------------------------------------------------------
FirstRunNext ==
  \/ Start \/ StartWithToken \/ StartFails \/ Stop
  \/ Reset \/ RecoverFile
  \/ CliOpen \/ CliCreate \/ CliRecord \/ CliEnds
  \/ \E r \in Request :
       \/ ReloadRead(r) \/ ReloadPublish(r) \/ ReloadModel(r)
       \/ Setup(r) \/ Check(r) \/ CheckRefused(r)
       \/ CreateAdministrator(r) \/ CreateRefused(r) \/ Consume(r)

FirstRunSpec == FirstRunInit /\ [][FirstRunNext]_firstRunVars

-----------------------------------------------------------------------------
(* Every variable has its type. *)
FirstRunTypeOK ==
  /\ disk \in LocalAuth /\ mem \in LocalAuth /\ own \in LocalAuth
  /\ model \in 0 .. MaxAdmins
  /\ up \in BOOLEAN /\ required \in BOOLEAN /\ locked \in BOOLEAN
  /\ setupPc \in [Request -> {"idle", "reloading", "loading", "checking", "creating", "consuming"}]
  /\ held \in [Request -> LocalAuth]
  /\ with \in [Request -> 0 .. MaxIssues]
  /\ cli \in {"idle", "creating", "recording"}
  /\ issued \in 0 .. MaxIssues
  /\ admins \in 0 .. MaxAdmins /\ resets \in 0 .. MaxResets
  /\ uses \subseteq [admin : 1 .. MaxAdmins, issue : 0 .. MaxIssues]
  /\ raced \subseteq Races

(* "a short-lived, single-use bootstrap token", "consumed atomically with  *)
(* the first administrator's creation" (README.md): no two administrators  *)
(* come from one token that was issued.  The code does not keep it: what a *)
(* page has read before a setup, and publishes after it, brings the token  *)
(* back (run TokenReused).                                                 *)
SingleUse ==
  \A u, v \in uses : u.issue # 0 /\ u.issue = v.issue => u = v

(* It keeps it as long as none of the three races has happened, whichever  *)
(* save fails and wherever a process is killed, and although the creation  *)
(* and the consumption are two saves, the command `setup` runs beside the  *)
(* service, and the service is reset.  An issue is one storing of a token: *)
(* the operator's own is stored anew, and good anew, at every start that   *)
(* finds no administrator.                                                 *)
TokenUsedOnce == raced = {} => SingleUse

(* The service, or the command, would save from a copy that is not the     *)
(* file's.                                                                 *)
ServiceStale == up /\ (mem # disk \/ model # mem.admin)
CommandStale == cli # "idle" /\ own # disk

(* The first administrator stays until a reset removes him, or a save from *)
(* a copy that is not the file's replaces him: neither another setup, nor  *)
(* the command `setup`, nor a Reload between their checks and saves does.  *)
FirstAdministratorKept ==
  [][disk.admin # 0 /\ disk'.admin # disk.admin =>
       resets' # resets \/ ServiceStale \/ CommandStale]_firstRunVars

(* As long as a first setup is due and a token is asked for, the one that  *)
(* was provisioned last is stored and not consumed, whoever saves from     *)
(* whatever copy and whichever save fails, unless a Reload has published   *)
(* an old file: published between the two saves of a setup it takes the    *)
(* administrator away and leaves his token consumed.  Nothing is said of a *)
(* service that was reset by its web interface, nor of the time of the     *)
(* token: when it is over the service has to be started again.             *)
KeyForTheDoor ==
  LET closed == up /\ required /\ ~locked /\ disk.admin = 0
      token == disk.bootstrap
  IN closed /\ "reload" \notin raced =>
       token.issue # 0 /\ token.issue = issued /\ ~token.consumed

(* An administrator created by the web interface while a token is required *)
(* had the one that was provisioned last, and no reset has withdrawn it,   *)
(* unless one of the races has happened.                                   *)
LastTokenOnly ==
  [][\A u \in uses' \ uses : u.issue # 0 =>
       raced' # {} \/ (u.issue = issued /\ ~locked)]_firstRunVars

=============================================================================
