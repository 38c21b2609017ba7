------------------------------ MODULE Sessions ------------------------------
(***************************************************************************)
(* The local accounts and sessions of the web interface                    *)
(* (internal/auth/auth.go): setup, login with its throttle, logout,        *)
(* revocation, password change, account creation and reset, by concurrent  *)
(* requests of one service process.  Two locks: Manager.mu, over the       *)
(* sessions and failures in memory, and state.Store.mu, over a save.       *)
(* Accounts are kept by the model of gantry-core, which has a copy of its  *)
(* own; how a password is hashed, and what the audit says, is left out: an *)
(* event is part of the save that records it.                              *)
(***************************************************************************)
EXTENDS Integers, FiniteSets

CONSTANTS
  Task,           (* the goroutines that serve requests                     *)
  Account, Admin, (* the accounts there may be, and the first one           *)
  Limit,          (* failed logins that block further ones                  *)
  NoTask,         (* no task                                                *)
  MaxLogins,      (* bound: sessions ever created                           *)
  MaxPasswords    (* bound: passwords an account ever has                   *)

ASSUME SessionsAssumption ==
  /\ IsFiniteSet(Task) /\ Task # {} /\ NoTask \notin Task
  /\ Admin \in Account
  /\ Limit \in Nat \ {0}
  /\ MaxLogins \in Nat /\ MaxPasswords \in Nat \ {0}

VARIABLES
  disk,      (* the accounts and sessions in agent.json                     *)
  mem,       (* those in Store.data                                         *)
  model,     (* the passwords gantry-core's model has loaded                *)
  sessions,  (* Manager.sessions: the sessions that are accepted            *)
  failures,  (* the number of Manager.failures                              *)
  aged,      (* how many of them are more than five minutes old             *)
  expired,   (* the sessions whose 24 hours are over                        *)
  issued,    (* the number of sessions created                              *)
  mu, smu,   (* the holders of Manager.mu and of Store.mu                   *)
  pc, job,   (* where each task is, and what it does there                  *)
  req,       (* the arguments of its request and what it has read           *)
  saved      (* whether a save of its request has succeeded                 *)

stores == <<disk, mem, model>>
throttle == <<failures, aged>>
locks == <<mu, smu>>
task == <<pc, job, req, saved>>
bounds == <<issued, expired>>
sessionsVars == <<stores, sessions, throttle, locks, task, bounds>>

Session == [id : 1 .. MaxLogins, account : Account]

(* A password is a number; 0 stands for no account. *)
Passwords == [Account -> 0 .. MaxPasswords]
LocalAuth == [password : Passwords, sessions : SUBSET Session]

FirstRun == [password |-> [a \in Account |-> 0], sessions |-> {}]

NoRequest ==
  [account |-> Admin, password |-> 0, session |-> 0, read |-> FirstRun]

Labels == {"idle", "reading", "publishing", "reloading", "checking", "refused",
           "save", "saving", "clearing", "apply"}
Jobs == {"none", "login", "bootstrap", "setup", "create", "audit", "logout",
         "forget", "revoke", "password", "end", "reset", "clear"}

Idle(t) == pc[t] = "idle"

SessionsInit ==
  /\ disk = FirstRun /\ mem = FirstRun /\ model = FirstRun.password
  /\ sessions = {} /\ failures = 0 /\ aged = 0
  /\ expired = {} /\ issued = 0
  /\ mu = NoTask /\ smu = NoTask
  /\ pc = [t \in Task |-> "idle"]
  /\ job = [t \in Task |-> "none"]
  /\ req = [t \in Task |-> NoRequest]
  /\ saved = [t \in Task |-> FALSE]

-----------------------------------------------------------------------------
(* Steps of a request. *)

Goto(t, label) == pc' = [pc EXCEPT ![t] = label]
At(t, label) == pc[t] = label

Begin(t, kind, label, request) ==
  /\ Idle(t)
  /\ Goto(t, label)
  /\ job' = [job EXCEPT ![t] = kind]
  /\ req' = [req EXCEPT ![t] = request]
  /\ UNCHANGED saved

(* The second part of a request. *)
Then(t, kind, label) ==
  /\ Goto(t, label)
  /\ job' = [job EXCEPT ![t] = kind]
  /\ UNCHANGED req

Stay(t, label) == Goto(t, label) /\ UNCHANGED <<job, req, saved>>

(* The handler returns. *)
Return(t) ==
  /\ Goto(t, "idle")
  /\ job' = [job EXCEPT ![t] = "none"]
  /\ req' = [req EXCEPT ![t] = NoRequest]
  /\ saved' = [saved EXCEPT ![t] = FALSE]

Acquire(t) == mu = NoTask /\ mu' = t

(* Mistake: a return that keeps the lock. *)
KeepLock(t) == UNCHANGED mu

(* The deferred Unlock of the methods that hold the lock to their end. *)
Unlock(t) == mu' = IF mu = t THEN NoTask ELSE mu

-----------------------------------------------------------------------------
(* The requests. *)

Of(a, p, s) == [NoRequest EXCEPT !.account = a, !.password = p, !.session = s]

(* Mistake: one failure more than the limit. *)
BlocksBeyond(n) == n > Limit

Blocks(n) == n >= Limit

(* Login drops the failures that are too old and counts the others; the    *)
(* lock is given up before the password is checked.                        *)
Login(t, a, p) ==
  /\ Idle(t) /\ mu = NoTask
  /\ failures' = failures - aged /\ aged' = 0
  /\ IF Blocks(failures - aged) THEN UNCHANGED task
                                ELSE Begin(t, "login", "reading", Of(a, p, 0))
  /\ UNCHANGED <<stores, sessions, locks, bounds>>

(* SetupRequired. *)
SetupRequired(t) ==
  /\ Begin(t, "bootstrap", "reading", NoRequest)
  /\ UNCHANGED <<stores, sessions, throttle, locks, bounds>>

Setup(t) ==
  /\ Acquire(t)
  /\ Begin(t, "setup", "reloading", Of(Admin, 1, 0))
  /\ UNCHANGED <<stores, sessions, throttle, smu, bounds>>

CreateAccount(t, a) ==
  /\ Begin(t, "create", "reloading", Of(a, 1, 0))
  /\ UNCHANGED <<stores, sessions, throttle, locks, bounds>>

Accepted(s) == \E session \in sessions : session.id = s

Logout(t, s) ==
  /\ Accepted(s)
  /\ Acquire(t)
  /\ Begin(t, "logout", "save", Of(Admin, 0, s))
  /\ UNCHANGED <<stores, sessions, throttle, smu, bounds>>

Except(set, s) == {session \in set : session.id # s}

(* Authenticate forgets a session that has expired or is not known, and    *)
(* saves; any other it accepts without a change.                           *)
Authenticate(t, s) ==
  /\ ~Accepted(s) \/ s \in expired
  /\ Acquire(t)
  /\ sessions' = Except(sessions, s)
  /\ Begin(t, "forget", "save", Of(Admin, 0, s))
  /\ UNCHANGED <<stores, throttle, smu, bounds>>

RevokeUserSessions(t, a) ==
  /\ Acquire(t)
  /\ Begin(t, "revoke", "save", Of(a, 0, 0))
  /\ UNCHANGED <<stores, sessions, throttle, smu, bounds>>

(* ChangePassword of the account a, that keeps the session s. *)
ChangePassword(t, a, p, s) ==
  /\ model[a] # 0 /\ model[a] = p /\ p < MaxPasswords
  /\ Begin(t, "password", "save", Of(a, p + 1, s))
  /\ UNCHANGED <<stores, sessions, throttle, locks, bounds>>

(* The reset handler: Store.Reset, then ClearSessions. *)
Reset(t) ==
  /\ Begin(t, "reset", "save", NoRequest)
  /\ UNCHANGED <<stores, sessions, throttle, locks, bounds>>

-----------------------------------------------------------------------------
(* Reload, of the store (which may fail, and is then passed over) and of   *)
(* gantry-core's model.                                                    *)

ReloadRead(t) ==
  /\ At(t, "reading")
  /\ \/ /\ req' = [req EXCEPT ![t].read = disk]
        /\ Goto(t, "publishing")
     \/ UNCHANGED req /\ Goto(t, "reloading")
  /\ UNCHANGED <<stores, sessions, throttle, locks, job, saved, bounds>>

ReloadPublish(t) ==
  /\ At(t, "publishing") /\ smu = NoTask
  /\ mem' = req[t].read
  /\ req' = [req EXCEPT ![t].read = FirstRun]
  /\ Goto(t, "reloading")
  /\ UNCHANGED <<disk, model, sessions, throttle, locks, job, saved, bounds>>

Empty(passwords) == \A a \in Account : passwords[a] = 0

(* What the request does with the model it has loaded. *)
ReloadModel(t) ==
  /\ At(t, "reloading") /\ smu = NoTask
  /\ model' = mem.password
  /\ \/ job[t] = "bootstrap" /\ Return(t) /\ UNCHANGED mu
     \/ job[t] = "login" /\ Stay(t, "checking") /\ UNCHANGED mu
     \/ /\ job[t] = "create"
        /\ IF model'[req[t].account] = 0 THEN Stay(t, "save") ELSE Return(t)
        /\ UNCHANGED mu
     \/ job[t] = "setup" /\ IF Empty(model')
                            THEN Stay(t, "save") /\ UNCHANGED mu
                            ELSE Return(t) /\ Unlock(t)
  /\ UNCHANGED <<disk, mem, sessions, throttle, smu, bounds>>

Valid(t) == req[t].password # 0 /\ model[req[t].account] = req[t].password

WrongPassword(t) ==
  /\ At(t, "checking") /\ ~Valid(t)
  /\ Stay(t, "refused")
  /\ UNCHANGED <<stores, sessions, throttle, locks, bounds>>

(* A token for the session is drawn, which may fail. *)
DrawToken(t) ==
  /\ At(t, "checking") /\ Valid(t)
  /\ issued < MaxLogins /\ issued' = issued + 1
  /\ req' = [req EXCEPT ![t].session = issued + 1]
  /\ Goto(t, "save")
  /\ UNCHANGED <<stores, sessions, throttle, locks, job, saved, expired>>

DrawFails(t) ==
  /\ At(t, "checking") /\ Valid(t)
  /\ Return(t)
  /\ UNCHANGED <<stores, sessions, throttle, locks, bounds>>

LoginRefused(t) ==
  /\ At(t, "refused") /\ mu = NoTask
  /\ failures' = failures + 1
  /\ Return(t)
  /\ UNCHANGED <<stores, sessions, aged, locks, bounds>>

-----------------------------------------------------------------------------
(* The save of a request, under Store.mu. *)

New(t) == [id |-> req[t].session, account |-> req[t].account]

EndedBy(session, t) == session.account = req[t].account /\ session.id # req[t].session

(* What the Update of the request makes of the accounts and sessions v.    *)
(* gantry-core saves all accounts, as its model has them.                  *)
Changed(t, v) ==
  CASE job[t] = "login" -> [v EXCEPT !.sessions = @ \cup {New(t)}]
    [] job[t] \in {"logout", "forget"} -> [v EXCEPT !.sessions = Except(@, req[t].session)]
    [] job[t] \in {"revoke", "end"} ->
         [v EXCEPT !.sessions = {session \in @ : ~EndedBy(session, t)}]
    [] job[t] \in {"setup", "create", "password"} ->
         [v EXCEPT !.password = [model EXCEPT ![req[t].account] = req[t].password]]
    [] job[t] = "reset" -> FirstRun
    [] job[t] = "clear" -> [v EXCEPT !.sessions = {}]
    [] job[t] = "audit" -> v

LockStore(t) ==
  /\ At(t, "save") /\ smu = NoTask
  /\ smu' = t
  /\ Stay(t, "saving")
  /\ UNCHANGED <<stores, sessions, throttle, mu, bounds>>

Written(t) ==
  /\ At(t, "saving")
  /\ disk' = Changed(t, mem) /\ mem' = Changed(t, mem)
  /\ smu' = NoTask
  /\ saved' = [saved EXCEPT ![t] = TRUE]

(* A save that leaves something to do in memory, which a task that does    *)
(* not hold Manager.mu first has to acquire.                               *)
SaveSession(t) ==
  /\ job[t] \in {"login", "logout", "forget", "revoke", "end", "clear"}
  /\ Written(t)
  /\ Goto(t, "apply")
  /\ UNCHANGED <<model, sessions, throttle, mu, job, req, bounds>>

(* The save of gantry-core, after which the event is recorded in another   *)
(* one: the sessions of the old password end with it.                      *)
SaveAccount(t) ==
  /\ job[t] \in {"setup", "create", "password"}
  /\ Written(t)
  /\ model' = Changed(t, mem).password
  /\ Then(t, IF job[t] = "password" THEN "end" ELSE "audit", "save")
  /\ UNCHANGED <<sessions, throttle, mu, bounds>>

SaveAudit(t) ==
  /\ job[t] = "audit"
  /\ At(t, "saving")
  /\ disk' = mem /\ UNCHANGED <<mem, model>>
  /\ smu' = NoTask /\ Unlock(t)
  /\ Return(t)
  /\ UNCHANGED <<sessions, throttle, bounds>>

SaveReset(t) ==
  /\ job[t] = "reset"
  /\ Written(t)
  /\ Then(t, "clear", "clearing")
  /\ UNCHANGED <<model, sessions, throttle, mu, bounds>>

ClearSessions(t) ==
  /\ At(t, "clearing")
  /\ Acquire(t)
  /\ Stay(t, "save")
  /\ UNCHANGED <<stores, sessions, throttle, smu, bounds>>

(* Mistake: a login that could not be recorded goes on. *)
IgnoresLogin(t) == job[t] \in {"login", "forget", "clear"}

(* Authenticate and ClearSessions go on without their save; the error of   *)
(* any other ends the request.                                             *)
Ignores(t) == job[t] \in {"forget", "clear"}

SaveFails(t) ==
  /\ At(t, "saving")
  /\ smu' = NoTask
  /\ IF Ignores(t) THEN Stay(t, "apply") /\ UNCHANGED mu
                   ELSE Return(t) /\ Unlock(t)
  /\ UNCHANGED <<stores, sessions, throttle, bounds>>

(* The change of Manager.sessions and the return. *)
Apply(t) ==
  /\ At(t, "apply") /\ mu \in {NoTask, t}
  /\ \/ job[t] = "login" /\ sessions' = sessions \cup {New(t)}
     \/ job[t] \in {"logout", "forget"} /\ sessions' = Except(sessions, req[t].session)
     \/ job[t] \in {"revoke", "end"} /\ sessions' = {s \in sessions : ~EndedBy(s, t)}
     \/ job[t] = "clear" /\ sessions' = {}
  /\ IF job[t] \in {"login", "clear"} THEN failures' = 0 /\ aged' = 0
                                      ELSE UNCHANGED throttle
  /\ Unlock(t)
  /\ Return(t)
  /\ UNCHANGED <<stores, smu, bounds>>

-----------------------------------------------------------------------------
(* What happens around the requests. *)

FailuresAge ==
  /\ aged < failures
  /\ aged' \in aged + 1 .. failures
  /\ UNCHANGED <<stores, sessions, failures, locks, task, bounds>>

Expire(s) ==
  /\ s \notin expired
  /\ expired' = expired \cup {s}
  /\ UNCHANGED <<stores, sessions, throttle, locks, task, issued>>

(* The process dies and is started again: New keeps the stored sessions of *)
(* accounts that are there, as long as they have not expired.              *)
Restart ==
  /\ mem' = disk /\ model' = disk.password
  /\ sessions' = {s \in disk.sessions : s.id \notin expired /\ disk.password[s.account] # 0}
  /\ failures' = 0 /\ aged' = 0
  /\ mu' = NoTask /\ smu' = NoTask
  /\ pc' = [t \in Task |-> "idle"]
  /\ job' = [t \in Task |-> "none"]
  /\ req' = [t \in Task |-> NoRequest]
  /\ saved' = [t \in Task |-> FALSE]
  /\ UNCHANGED <<disk, issued, expired>>

(* App.require: who may ask for what. *)
Start(t) ==
  \/ \E a \in Account, p \in 1 .. MaxPasswords : Login(t, a, p)
  \/ SetupRequired(t) \/ Setup(t)
  \/ \E s \in sessions : \/ ChangePassword(t, s.account, model[s.account], s.id)
                          \/ Logout(t, s.id)
  \/ \E s \in 1 .. issued : Authenticate(t, s)
  \/ /\ \E s \in sessions : s.account = Admin
     /\ Reset(t) \/ \E a \in Account : CreateAccount(t, a) \/ RevokeUserSessions(t, a)

Continue(t) ==
  \/ ReloadRead(t) \/ ReloadPublish(t) \/ ReloadModel(t)
  \/ WrongPassword(t) \/ DrawToken(t) \/ DrawFails(t) \/ LoginRefused(t)
  \/ LockStore(t) \/ SaveSession(t) \/ SaveAccount(t) \/ SaveAudit(t) \/ SaveReset(t)
  \/ ClearSessions(t) \/ SaveFails(t) \/ Apply(t)

SessionsNext ==
  \/ \E t \in Task : Start(t) \/ Continue(t)
  \/ \E s \in 1 .. issued : Expire(s)
  \/ FailuresAge \/ Restart

SessionsSpec == SessionsInit /\ [][SessionsNext]_sessionsVars

-----------------------------------------------------------------------------
(* Every variable has its type. *)
SessionsTypeOK ==
  /\ disk \in LocalAuth /\ mem \in LocalAuth /\ model \in Passwords
  /\ sessions \in SUBSET Session
  /\ failures \in Nat /\ aged \in 0 .. failures
  /\ issued \in 0 .. MaxLogins /\ expired \subseteq 1 .. MaxLogins
  /\ mu \in Task \cup {NoTask} /\ smu \in Task \cup {NoTask}
  /\ pc \in [Task -> Labels] /\ job \in [Task -> Jobs]
  /\ req \in [Task -> [account : Account, password : 0 .. MaxPasswords + 1,
                       session : 0 .. MaxLogins, read : LocalAuth]]
  /\ saved \in [Task -> BOOLEAN]

(* "login throttling": the lock is not held while a password is checked,   *)
(* so that logins which passed the limit together may fail together; the   *)
(* excess is at most one login for each request beyond the first.          *)
FailuresBounded == failures <= Limit - 1 + Cardinality(Task)

(* "the attributed audit entry is persisted before the non-failing         *)
(* in-memory session mutation" (README.md): a session begins to be         *)
(* accepted, or ends, by a request whose save has succeeded, because it    *)
(* has expired, or with the process.                                       *)
SessionsChange ==
  \/ sessions' = sessions
  \/ Restart
  \/ sessions' \subseteq sessions /\ \A s \in sessions \ sessions' : s.id \in expired
  \/ \E t \in Task : At(t, "apply") /\ saved[t] /\ pc'[t] = "idle"

SavedFirst == [][SessionsChange]_sessionsVars

(* "No code path takes the state lock and then the session lock, so this   *)
(* single-direction ordering cannot deadlock" (RevokeUserSessions): who    *)
(* holds Store.mu, and nobody else, is in a save and waits for nothing;    *)
(* who holds Manager.mu waits for Store.mu at most, and never keeps it     *)
(* after the return, whatever save failed.                                 *)
LockOrder ==
  /\ \A t \in Task : smu = t <=> At(t, "saving")
  /\ \A t \in Task : mu = t => pc[t] \in {"reloading", "save", "saving", "apply"}

=============================================================================
