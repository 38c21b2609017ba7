--------------------------- MODULE SessionsProofs ---------------------------
(***************************************************************************)
(* The throttle and the locks of Sessions, for every number of requests    *)
(* and every limit.                                                        *)
(***************************************************************************)
EXTENDS Sessions, FiniteSetTheorems, TLAPS

LoggingIn == {t \in Task : job[t] = "login"}

(* The counts of failures, and the tasks. *)
CountsOK ==
  /\ failures \in Nat /\ aged \in 0 .. failures
  /\ pc \in [Task -> Labels] /\ job \in [Task -> Jobs]

(* A login that may still fail was let in with the failures below the      *)
(* limit, or has seen them reset: it takes one of the places of the bound. *)
Throttled ==
  /\ failures + Cardinality(LoggingIn) <= Limit - 1 + Cardinality(Task)
  /\ \A t \in Task : pc[t] \in {"checking", "refused"} => job[t] = "login"

(* LockOrder, and which requests may hold Manager.mu where. *)
LocksOK ==
  /\ mu \in Task \cup {NoTask} /\ smu \in Task \cup {NoTask}
  /\ LockOrder
  /\ \A t \in Task : pc[t] = "clearing" \/ mu = t => job[t] # "reset"
  /\ \A t \in Task : mu = t /\ pc[t] = "reloading" => job[t] = "setup"

-----------------------------------------------------------------------------
(* Fewer logins in progress are fewer places taken. *)
LEMMA Places ==
  ASSUME NEW A, A \subseteq Task, NEW B, B \subseteq A
  PROVE  /\ Cardinality(A) \in Nat /\ Cardinality(B) \in Nat
         /\ Cardinality(B) <= Cardinality(A)
         /\ Cardinality(A) <= Cardinality(Task) /\ Cardinality(Task) \in Nat
<1>1. IsFiniteSet(A)
  BY SessionsAssumption, FS_Subset
<1>2. IsFiniteSet(Task)
  BY SessionsAssumption
<1>3. QED
  BY <1>1, <1>2, FS_Subset, FS_CardinalityType

(* The bound follows from the places taken. *)
LEMMA PlacesBound == ASSUME CountsOK, Throttled PROVE FailuresBounded
<1>1. Cardinality(LoggingIn) \in Nat /\ Cardinality(Task) \in Nat
  BY Places DEF LoggingIn
<1>2. QED
  BY <1>1, SessionsAssumption DEF CountsOK, Throttled, FailuresBounded

LEMMA InitThrottled == SessionsInit => CountsOK /\ Throttled
<1> SUFFICES ASSUME SessionsInit PROVE CountsOK /\ Throttled
  OBVIOUS
<1>1. CountsOK
  BY DEF SessionsInit, CountsOK, Labels, Jobs
<1>2. LoggingIn = {} /\ Cardinality({}) = 0
  BY FS_EmptySet DEF SessionsInit, LoggingIn
<1>3. Cardinality(Task) \in Nat
  BY Places
<1>4. QED
  BY <1>1, <1>2, <1>3, SessionsAssumption DEF SessionsInit, Throttled

(* Every step but the start of a login and its refusal leaves the count of *)
(* failures, or lowers it, and starts no login.                            *)
Calm ==
  /\ failures' \in Nat /\ aged' \in 0 .. failures' /\ failures' <= failures
  /\ pc' \in [Task -> Labels] /\ job' \in [Task -> Jobs]
  /\ \A t \in Task :
       /\ job'[t] = "login" => job[t] = "login"
       /\ pc'[t] \in {"checking", "refused"} => job'[t] = "login"

LEMMA CalmKeeps == ASSUME CountsOK, Throttled, Calm PROVE CountsOK' /\ Throttled'
<1>1. LoggingIn' \subseteq LoggingIn
  BY DEF Calm, LoggingIn
<1>2. /\ Cardinality(LoggingIn) \in Nat /\ Cardinality(LoggingIn') \in Nat
      /\ Cardinality(LoggingIn') <= Cardinality(LoggingIn)
      /\ Cardinality(Task) \in Nat
  BY <1>1, Places DEF LoggingIn
<1>3. QED
  BY <1>2, SessionsAssumption DEF Calm, CountsOK, Throttled

LEMMA LoginKeeps ==
  ASSUME CountsOK, Throttled, NEW t \in Task, NEW a, NEW p, Login(t, a, p)
  PROVE  CountsOK' /\ Throttled'
<1>1. CountsOK'
  BY DEF CountsOK, Login, Begin, Goto, task, Labels, Jobs
<1>2. \A u \in Task : pc'[u] \in {"checking", "refused"} => job'[u] = "login"
  BY DEF CountsOK, Throttled, Login, Begin, Goto, task
<1>3. CASE Blocks(failures - aged)
  <2>1. LoggingIn' = LoggingIn /\ Cardinality(LoggingIn) \in Nat /\ Cardinality(Task) \in Nat
    BY <1>3, Places DEF Login, LoggingIn, task
  <2>2. failures' <= failures
    BY DEF CountsOK, Login
  <2>3. QED
    BY <1>1, <1>2, <2>1, <2>2, SessionsAssumption DEF CountsOK, Throttled
<1>4. CASE ~Blocks(failures - aged)
  <2>1. /\ Cardinality(LoggingIn') \in Nat /\ Cardinality(Task) \in Nat
        /\ Cardinality(LoggingIn') <= Cardinality(Task)
    BY Places DEF LoggingIn
  <2>2. failures' <= Limit - 1
    BY <1>4, SessionsAssumption DEF CountsOK, Login, Blocks
  <2>3. QED
    BY <1>1, <1>2, <2>1, <2>2, SessionsAssumption DEF CountsOK, Throttled
<1>5. QED
  BY <1>3, <1>4

LEMMA RefusalKeeps ==
  ASSUME CountsOK, Throttled, NEW t \in Task, LoginRefused(t)
  PROVE  CountsOK' /\ Throttled'
<1>1. CountsOK'
  BY DEF CountsOK, LoginRefused, Return, Goto, Labels, Jobs
<1>2. \A u \in Task : pc'[u] \in {"checking", "refused"} => job'[u] = "login"
  BY DEF CountsOK, Throttled, LoginRefused, Return, Goto
<1>3. t \in LoggingIn /\ LoggingIn' = LoggingIn \ {t}
  BY DEF CountsOK, Throttled, LoggingIn, LoginRefused, Return, Goto, At
<1>4. IsFiniteSet(LoggingIn)
  BY SessionsAssumption, FS_Subset DEF LoggingIn
<1>5. Cardinality(LoggingIn') = Cardinality(LoggingIn) - 1
  BY <1>3, <1>4, FS_RemoveElement
<1>6. Cardinality(LoggingIn) \in Nat /\ Cardinality(Task) \in Nat
  BY Places DEF LoggingIn
<1>7. failures' = failures + 1
  BY DEF LoginRefused
<1>8. QED
  BY <1>1, <1>2, <1>5, <1>6, <1>7, SessionsAssumption DEF CountsOK, Throttled

(* The steps of requests that start no login and count no failure. *)
LEMMA RequestsAreCalm ==
  ASSUME CountsOK, Throttled, NEW t \in Task, Start(t) \/ Continue(t)
  PROVE  \/ Calm
         \/ \E a \in Account, p \in 1 .. MaxPasswords : Login(t, a, p)
         \/ LoginRefused(t)
<1> USE DEF CountsOK, Throttled, Calm, Goto, Labels, Jobs
<1>1. ASSUME SetupRequired(t) PROVE Calm
  BY <1>1 DEF SetupRequired, Begin, throttle
<1>2. ASSUME Setup(t) PROVE Calm
  BY <1>2 DEF Setup, Begin, throttle
<1>3. ASSUME Reset(t) PROVE Calm
  BY <1>3 DEF Reset, Begin, throttle
<1>4. ASSUME NEW a, CreateAccount(t, a) PROVE Calm
  BY <1>4 DEF CreateAccount, Begin, throttle
<1>5. ASSUME NEW a, RevokeUserSessions(t, a) PROVE Calm
  BY <1>5 DEF RevokeUserSessions, Begin, throttle
<1>6. ASSUME NEW s, Logout(t, s) PROVE Calm
  BY <1>6 DEF Logout, Begin, throttle
<1>7. ASSUME NEW s, Authenticate(t, s) PROVE Calm
  BY <1>7 DEF Authenticate, Begin, throttle
<1>8. ASSUME ReloadRead(t) PROVE Calm
  BY <1>8 DEF ReloadRead, throttle
<1>9. ASSUME ReloadPublish(t) PROVE Calm
  BY <1>9 DEF ReloadPublish, throttle
<1>10. ASSUME ReloadModel(t) PROVE Calm
  BY <1>10 DEF ReloadModel, Return, Stay, throttle, At
<1>11. ASSUME WrongPassword(t) PROVE Calm
  BY <1>11 DEF WrongPassword, Stay, throttle, At
<1>12. ASSUME DrawToken(t) PROVE Calm
  BY <1>12 DEF DrawToken, throttle
<1>13. ASSUME DrawFails(t) PROVE Calm
  BY <1>13 DEF DrawFails, Return, throttle
<1>14. ASSUME LockStore(t) PROVE Calm
  BY <1>14 DEF LockStore, Stay, throttle
<1>15. ASSUME SaveSession(t) PROVE Calm
  BY <1>15 DEF SaveSession, Written, throttle
<1>16. ASSUME SaveAccount(t) PROVE Calm
  BY <1>16 DEF SaveAccount, Written, Then, throttle
<1>17. ASSUME SaveAudit(t) PROVE Calm
  BY <1>17 DEF SaveAudit, Return, throttle
<1>18. ASSUME SaveReset(t) PROVE Calm
  BY <1>18 DEF SaveReset, Written, Then, throttle
<1>19. ASSUME ClearSessions(t) PROVE Calm
  BY <1>19 DEF ClearSessions, Stay, throttle
<1>20. ASSUME SaveFails(t) PROVE Calm
  BY <1>20 DEF SaveFails, Stay, Return, throttle
<1>21. ASSUME Apply(t) PROVE Calm
  BY <1>21 DEF Apply, Return, throttle
<1>22. ASSUME NEW a, NEW p, NEW s, ChangePassword(t, a, p, s) PROVE Calm
  BY <1>22 DEF ChangePassword, Begin, throttle
<1>23. QED
  BY <1>1, <1>2, <1>3, <1>4, <1>5, <1>6, <1>7, <1>8, <1>9, <1>10, <1>11, <1>12,
     <1>13, <1>14, <1>15, <1>16, <1>17, <1>18, <1>19, <1>20, <1>21, <1>22 DEF
     Start, Continue

LEMMA StepThrottled ==
  ASSUME CountsOK, Throttled, [SessionsNext]_sessionsVars
  PROVE  CountsOK' /\ Throttled'
<1>1. ASSUME NEW t \in Task, Start(t) \/ Continue(t) PROVE CountsOK' /\ Throttled'
  BY <1>1, RequestsAreCalm, CalmKeeps, LoginKeeps, RefusalKeeps
<1>2. ASSUME NEW s, Expire(s) PROVE Calm
  BY <1>2 DEF CountsOK, Throttled, Calm, Expire, throttle, task
<1>3. ASSUME FailuresAge PROVE Calm
  BY <1>3 DEF CountsOK, Throttled, Calm, FailuresAge, task
<1>4. ASSUME Restart PROVE Calm
  BY <1>4 DEF CountsOK, Calm, Restart, Labels, Jobs
<1>5. ASSUME UNCHANGED sessionsVars PROVE Calm
  BY <1>5 DEF CountsOK, Throttled, Calm, sessionsVars, throttle, task
<1>6. QED
  BY <1>1, <1>2, <1>3, <1>4, <1>5, CalmKeeps DEF SessionsNext

(* Whatever the number of requests in progress and the order in which they *)
(* are throttled, checked and counted (Login, auth.go): failures never     *)
(* exceed the limit by more than the requests beyond the first.            *)
THEOREM FailuresAreBounded == SessionsSpec => []FailuresBounded
<1>1. SessionsInit => CountsOK /\ Throttled
  BY InitThrottled
<1>2. CountsOK /\ Throttled /\ [SessionsNext]_sessionsVars => CountsOK' /\ Throttled'
  BY StepThrottled
<1>3. CountsOK /\ Throttled => FailuresBounded
  BY PlacesBound
<1>4. QED
  BY <1>1, <1>2, <1>3, PTL DEF SessionsSpec

-----------------------------------------------------------------------------
(* Who holds which lock where. *)

LocksInv == CountsOK /\ LocksOK

LEMMA RequestsKeepLocks ==
  ASSUME LocksInv, NEW t \in Task, Start(t) \/ Continue(t)
  PROVE  LocksOK'
<1> USE SessionsAssumption DEF LocksInv, CountsOK, LocksOK, LockOrder, Goto, At, Labels, Jobs
<1>1. ASSUME SetupRequired(t) PROVE LocksOK'
  BY <1>1 DEF SetupRequired, Begin, Idle, locks
<1>2. ASSUME Setup(t) PROVE LocksOK'
  BY <1>2 DEF Setup, Begin, Idle, Acquire
<1>3. ASSUME Reset(t) PROVE LocksOK'
  BY <1>3 DEF Reset, Begin, Idle, locks
<1>4. ASSUME NEW a, CreateAccount(t, a) PROVE LocksOK'
  BY <1>4 DEF CreateAccount, Begin, Idle, locks
<1>5. ASSUME NEW a, RevokeUserSessions(t, a) PROVE LocksOK'
  BY <1>5 DEF RevokeUserSessions, Begin, Idle, Acquire
<1>6. ASSUME NEW s, Logout(t, s) PROVE LocksOK'
  BY <1>6 DEF Logout, Begin, Idle, Acquire
<1>7. ASSUME NEW s, Authenticate(t, s) PROVE LocksOK'
  BY <1>7 DEF Authenticate, Begin, Idle, Acquire
<1>8. ASSUME ReloadRead(t) PROVE LocksOK'
  BY <1>8 DEF ReloadRead, locks
<1>9. ASSUME ReloadPublish(t) PROVE LocksOK'
  BY <1>9 DEF ReloadPublish, locks
<1>10. ASSUME ReloadModel(t) PROVE LocksOK'
  BY <1>10 DEF ReloadModel, Return, Stay, Unlock
<1>11. ASSUME WrongPassword(t) PROVE LocksOK'
  BY <1>11 DEF WrongPassword, Stay, locks
<1>12. ASSUME DrawToken(t) PROVE LocksOK'
  BY <1>12 DEF DrawToken, locks
<1>13. ASSUME DrawFails(t) PROVE LocksOK'
  BY <1>13 DEF DrawFails, Return, locks
<1>14. ASSUME LoginRefused(t) PROVE LocksOK'
  BY <1>14 DEF LoginRefused, Return, locks
<1>15. ASSUME LockStore(t) PROVE LocksOK'
  BY <1>15 DEF LockStore, Stay
<1>16. ASSUME SaveSession(t) PROVE LocksOK'
  BY <1>16 DEF SaveSession, Written
<1>17. ASSUME SaveAccount(t) PROVE LocksOK'
  BY <1>17 DEF SaveAccount, Written, Then
<1>18. ASSUME SaveAudit(t) PROVE LocksOK'
  BY <1>18 DEF SaveAudit, Return, Unlock
<1>19. ASSUME SaveReset(t) PROVE LocksOK'
  BY <1>19 DEF SaveReset, Written, Then
<1>20. ASSUME ClearSessions(t) PROVE LocksOK'
  BY <1>20 DEF ClearSessions, Stay, Acquire
<1>21. ASSUME SaveFails(t) PROVE LocksOK'
  BY <1>21 DEF SaveFails, Stay, Return, Unlock
<1>22. ASSUME Apply(t) PROVE LocksOK'
  BY <1>22 DEF Apply, Return, Unlock
<1>23. ASSUME NEW a, NEW p, NEW s, ChangePassword(t, a, p, s) PROVE LocksOK'
  BY <1>23 DEF ChangePassword, Begin, Idle, locks
<1>24. ASSUME NEW a, NEW p, Login(t, a, p) PROVE LocksOK'
  BY <1>24 DEF Login, Begin, Idle, locks, task
<1>25. QED
  BY <1>1, <1>2, <1>3, <1>4, <1>5, <1>6, <1>7, <1>8, <1>9, <1>10, <1>11, <1>12,
     <1>13, <1>14, <1>15, <1>16, <1>17, <1>18, <1>19, <1>20, <1>21, <1>22,
     <1>23, <1>24 DEF Start, Continue

LEMMA StepKeepsLocks == ASSUME LocksInv, [SessionsNext]_sessionsVars PROVE LocksOK'
<1> USE DEF LocksInv, CountsOK, LocksOK, LockOrder, At
<1>1. ASSUME NEW t \in Task, Start(t) \/ Continue(t) PROVE LocksOK'
  BY <1>1, RequestsKeepLocks
<1>2. ASSUME NEW s, Expire(s) PROVE LocksOK'
  BY <1>2 DEF Expire, locks, task
<1>3. ASSUME FailuresAge PROVE LocksOK'
  BY <1>3 DEF FailuresAge, locks, task
<1>4. ASSUME Restart PROVE LocksOK'
  BY <1>4, SessionsAssumption DEF Restart
<1>5. ASSUME UNCHANGED sessionsVars PROVE LocksOK'
  BY <1>5 DEF sessionsVars, locks, task
<1>6. QED
  BY <1>1, <1>2, <1>3, <1>4, <1>5 DEF SessionsNext

(* The two locks are taken in one order only and are never left behind, by *)
(* any number of requests and whatever saves fail: no request waits for    *)
(* one that waits for it.                                                  *)
THEOREM LocksAreOrdered == SessionsSpec => []LockOrder
<1>1. SessionsInit => CountsOK /\ Throttled /\ LocksOK
  <2>1. SessionsInit => LocksOK
    BY SessionsAssumption DEF SessionsInit, LocksOK, LockOrder, At
  <2>2. QED
    BY <2>1, InitThrottled
<1>2. CountsOK /\ Throttled /\ LocksOK /\ [SessionsNext]_sessionsVars
        => CountsOK' /\ Throttled' /\ LocksOK'
  BY StepThrottled, StepKeepsLocks DEF LocksInv
<1>3. LocksOK => LockOrder
  BY DEF LocksOK
<1>4. QED
  BY <1>1, <1>2, <1>3, PTL DEF SessionsSpec

-----------------------------------------------------------------------------
(* What a request that changes the sessions has done before: its save, but *)
(* for a session that Authenticate has dropped already, and that nobody    *)
(* can bring back as long as it holds the lock.                            *)
SavedInv ==
  /\ pc \in [Task -> Labels] /\ job \in [Task -> Jobs]
  /\ saved \in [Task -> BOOLEAN] /\ req = [t \in Task |-> req[t]]
  /\ \A t \in Task :
       /\ job[t] = "clear" => saved[t]
       /\ pc[t] = "apply" => saved[t] \/ job[t] = "forget"
       /\ job[t] = "forget" => /\ pc[t] \in {"save", "saving", "apply"} /\ mu = t
                               /\ Except(sessions, req[t].session) = sessions

LEMMA RequestsSave ==
  ASSUME SavedInv, NEW t \in Task, Start(t) \/ Continue(t)
  PROVE  SavedInv'
<1> USE SessionsAssumption DEF SavedInv, Goto, At, Labels, Jobs
<1>1. ASSUME SetupRequired(t) PROVE SavedInv'
  BY <1>1 DEF SetupRequired, Begin, Idle, locks
<1>2. ASSUME Setup(t) PROVE SavedInv'
  BY <1>2 DEF Setup, Begin, Idle, Acquire
<1>3. ASSUME Reset(t) PROVE SavedInv'
  BY <1>3 DEF Reset, Begin, Idle, locks
<1>4. ASSUME NEW a, CreateAccount(t, a) PROVE SavedInv'
  BY <1>4 DEF CreateAccount, Begin, Idle, locks
<1>5. ASSUME NEW a, RevokeUserSessions(t, a) PROVE SavedInv'
  BY <1>5 DEF RevokeUserSessions, Begin, Idle, Acquire
<1>6. ASSUME NEW s, Logout(t, s) PROVE SavedInv'
  BY <1>6 DEF Logout, Begin, Idle, Acquire
<1>7. ASSUME NEW s, Authenticate(t, s) PROVE SavedInv'
  BY <1>7 DEF Authenticate, Begin, Idle, Acquire, Of, Except, NoRequest
<1>8. ASSUME ReloadRead(t) PROVE SavedInv'
  BY <1>8 DEF ReloadRead, locks
<1>9. ASSUME ReloadPublish(t) PROVE SavedInv'
  BY <1>9 DEF ReloadPublish, locks
<1>10. ASSUME ReloadModel(t) PROVE SavedInv'
  <2>1. job[t] # "forget"
    BY <1>10 DEF ReloadModel
  <2>2. CASE Stay(t, "checking") /\ UNCHANGED mu
    BY <1>10, <2>1, <2>2 DEF ReloadModel, Stay
  <2>3. CASE Stay(t, "save") /\ UNCHANGED mu
    BY <1>10, <2>1, <2>3 DEF ReloadModel, Stay
  <2>4. CASE Return(t) /\ (UNCHANGED mu \/ Unlock(t))
    BY <1>10, <2>1, <2>4 DEF ReloadModel, Return, Unlock
  <2>5. QED
    BY <1>10, <2>2, <2>3, <2>4 DEF ReloadModel
<1>11. ASSUME WrongPassword(t) PROVE SavedInv'
  BY <1>11 DEF WrongPassword, Stay, locks
<1>12. ASSUME DrawToken(t) PROVE SavedInv'
  BY <1>12 DEF DrawToken, locks
<1>13. ASSUME DrawFails(t) PROVE SavedInv'
  BY <1>13 DEF DrawFails, Return, locks
<1>14. ASSUME LoginRefused(t) PROVE SavedInv'
  BY <1>14 DEF LoginRefused, Return, locks
<1>15. ASSUME LockStore(t) PROVE SavedInv'
  BY <1>15 DEF LockStore, Stay
<1>16. ASSUME SaveSession(t) PROVE SavedInv'
  BY <1>16 DEF SaveSession, Written
<1>17. ASSUME SaveAccount(t) PROVE SavedInv'
  BY <1>17 DEF SaveAccount, Written, Then
<1>18. ASSUME SaveAudit(t) PROVE SavedInv'
  BY <1>18 DEF SaveAudit, Return, Unlock
<1>19. ASSUME SaveReset(t) PROVE SavedInv'
  BY <1>19 DEF SaveReset, Written, Then
<1>20. ASSUME ClearSessions(t) PROVE SavedInv'
  BY <1>20 DEF ClearSessions, Stay, Acquire
<1>21. ASSUME SaveFails(t) PROVE SavedInv'
  <2>1. CASE Ignores(t)
    BY <1>21, <2>1 DEF SaveFails, Stay, Ignores
  <2>2. CASE ~Ignores(t)
    <3>1. /\ pc' = [pc EXCEPT ![t] = "idle"] /\ job' = [job EXCEPT ![t] = "none"]
          /\ req' = [req EXCEPT ![t] = NoRequest] /\ saved' = [saved EXCEPT ![t] = FALSE]
          /\ sessions' = sessions /\ \A u \in Task \ {t} : mu = u => mu' = u
      BY <1>21, <2>2 DEF SaveFails, Return, Unlock
    <3>2. QED
      BY <3>1
  <2>3. QED
    BY <2>1, <2>2
<1>22. ASSUME Apply(t) PROVE SavedInv'
  BY <1>22 DEF Apply, Return, Unlock
<1>23. ASSUME NEW a, NEW p, NEW s, ChangePassword(t, a, p, s) PROVE SavedInv'
  BY <1>23 DEF ChangePassword, Begin, Idle, locks
<1>24. ASSUME NEW a, NEW p, Login(t, a, p) PROVE SavedInv'
  BY <1>24 DEF Login, Begin, Idle, locks, task
<1>25. QED
  BY <1>1, <1>2, <1>3, <1>4, <1>5, <1>6, <1>7, <1>8, <1>9, <1>10, <1>11, <1>12,
     <1>13, <1>14, <1>15, <1>16, <1>17, <1>18, <1>19, <1>20, <1>21, <1>22,
     <1>23, <1>24 DEF Start, Continue

LEMMA StepSaves == ASSUME SavedInv, [SessionsNext]_sessionsVars PROVE SavedInv'
<1> USE DEF SavedInv
<1>1. ASSUME NEW t \in Task, Start(t) \/ Continue(t) PROVE SavedInv'
  BY <1>1, RequestsSave
<1>2. ASSUME NEW s, Expire(s) PROVE SavedInv'
  BY <1>2 DEF Expire, locks, task
<1>3. ASSUME FailuresAge PROVE SavedInv'
  BY <1>3 DEF FailuresAge, locks, task
<1>4. ASSUME Restart PROVE SavedInv'
  BY <1>4 DEF Restart, Labels, Jobs
<1>5. ASSUME UNCHANGED sessionsVars PROVE SavedInv'
  BY <1>5 DEF sessionsVars, locks, task
<1>6. QED
  BY <1>1, <1>2, <1>3, <1>4, <1>5 DEF SessionsNext

(* What Authenticate drops has expired. *)
LEMMA DroppedExpired ==
  ASSUME NEW t, NEW s, Authenticate(t, s)
  PROVE  SessionsChange
<1>1. CASE s \in expired
  BY <1>1 DEF Authenticate, SessionsChange, Except
<1>2. CASE ~Accepted(s)
  BY <1>2 DEF Authenticate, SessionsChange, Except, Accepted
<1>3. QED
  BY <1>1, <1>2 DEF Authenticate

LEMMA AppliedSaved ==
  ASSUME SavedInv, NEW t \in Task, Apply(t)
  PROVE  SessionsChange
<1>1. CASE job[t] = "forget"
  BY <1>1 DEF SavedInv, Apply, SessionsChange
<1>2. CASE job[t] # "forget"
  BY <1>2 DEF SavedInv, Apply, SessionsChange, At, Return, Goto
<1>3. QED
  BY <1>1, <1>2

LEMMA SessionsChangeSaved ==
  ASSUME SavedInv, [SessionsNext]_sessionsVars
  PROVE  [SessionsChange]_sessionsVars
<1>1. ASSUME NEW t \in Task, Start(t) PROVE SessionsChange
  <2>1. CASE \E s \in 1 .. issued : Authenticate(t, s)
    BY <2>1, DroppedExpired
  <2>2. CASE sessions' = sessions
    BY <2>2 DEF SessionsChange
  <2>3. QED
    BY <1>1, <2>1, <2>2
       DEF Start, Login, SetupRequired, Setup, ChangePassword, Logout, Reset,
           CreateAccount, RevokeUserSessions
<1>2. ASSUME NEW t \in Task, Continue(t) PROVE SessionsChange
  <2>1. CASE Apply(t)
    BY <2>1, AppliedSaved
  <2>2. CASE sessions' = sessions
    BY <2>2 DEF SessionsChange
  <2>3. QED
    BY <1>2, <2>1, <2>2
       DEF Continue, ReloadRead, ReloadPublish, ReloadModel, WrongPassword,
           DrawToken, DrawFails, LoginRefused, LockStore, SaveSession,
           SaveAccount, SaveAudit, SaveReset, ClearSessions, SaveFails
<1>3. ASSUME Restart PROVE SessionsChange
  BY <1>3 DEF SessionsChange
<1>4. ASSUME NEW s, Expire(s) \/ FailuresAge PROVE SessionsChange
  BY <1>4 DEF Expire, FailuresAge, SessionsChange
<1>5. QED
  BY <1>1, <1>2, <1>3, <1>4 DEF SessionsNext

(* No session is accepted, revoked or logged out before the save that      *)
(* records it has succeeded, for every number of concurrent requests.      *)
THEOREM SavesComeFirst == SessionsSpec => SavedFirst
<1>1. SessionsInit => SavedInv
  BY DEF SessionsInit, SavedInv, Labels, Jobs
<1>2. SavedInv /\ [SessionsNext]_sessionsVars => SavedInv'
  BY StepSaves
<1>3. SavedInv /\ [SessionsNext]_sessionsVars => [SessionsChange]_sessionsVars
  BY SessionsChangeSaved
<1>4. QED
  BY <1>1, <1>2, <1>3, PTL DEF SessionsSpec, SavedFirst
=============================================================================
