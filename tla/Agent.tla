-------------------------------- MODULE Agent --------------------------------
(***************************************************************************)
(* The running agent: the delivery loop of the service                     *)
(* (cmd/watchpost-agent/main.go), the web handlers of the same process and *)
(* the CLI commands beside it, which all pair, rotate and unpair through   *)
(* the pairing client and deliver through telemetry.Send.                  *)
(***************************************************************************)
EXTENDS Pairing

CONSTANTS
  Loop,         (* the task of the delivery loop                           *)
  Operations,   (* what each of the other tasks does: names of operations   *)
  Events,       (* what happens outside the agent: names of the events     *)
  StartPaired,  (* whether the agent is paired to begin with               *)
  MaxCrashes    (* bound: process deaths                                   *)

ASSUME AgentAssumption ==
  /\ Loop \in Task
  /\ ProcessOf[Loop] = Service
  /\ StartPaired => MaxRequests >= 1 /\ MaxCredentials >= 2
  /\ MaxCrashes \in Nat

VARIABLE crashes

vars == <<disk, mem, pc, snap, reply, clock, horizon, crashes,
          request, issued, live, lastSeq, received>>

Handlers == Task \ {Loop}

-----------------------------------------------------------------------------
(* A first run, or an agent that was paired, and perhaps rotated or left   *)
(* with a revocation pending, by CLI commands while the service was down.  *)

InitWith(s, n, posts) ==
  /\ disk = s
  /\ request = [r \in Requests |-> IF r = 1 THEN posts ELSE Unused]
  /\ issued = [r \in Requests |-> IF r = 1 THEN n ELSE 0]
  /\ live = {<<1, k>> : k \in 1 .. n}

Init ==
  /\ IF StartPaired
       THEN \E p \in Posts, revoking \in BOOLEAN :
              LET s == [Connected(FirstRun, p, <<1, 1>>)
                          EXCEPT !.revoking = revoking]
              IN InitWith(s, 1, p) \/ InitWith(Rotated(s, <<1, 2>>), 2, p)
       ELSE InitWith(FirstRun, 0, Unused)
  /\ mem = [p \in Process |-> disk]
  /\ pc = [t \in Task |-> "idle"]
  /\ snap = [t \in Task |-> NoSnapshot]
  /\ reply = [t \in Task |-> None]
  /\ clock = 0
  /\ horizon = 0
  /\ crashes = 0
  /\ lastSeq = [r \in Requests |-> 0]
  /\ received = {}

-----------------------------------------------------------------------------
(* The delivery loop: wait, Reload, then retry a pending revocation or     *)
(* Send.                                                                   *)

(* The timer fires and Reload reads the file. *)
Wake ==
  /\ pc[Loop] = "idle"
  /\ ReloadRead(Loop)
  /\ Goto(Loop, "reading")
  /\ UNCHANGED <<reply, crashes, stateVars, pairingFrame>>

(* The loop ignores the error of a Reload that could not read the file. *)
WakeWithoutReload ==
  /\ DiskFaults
  /\ pc[Loop] = "idle"
  /\ Goto(Loop, "awake")
  /\ UNCHANGED <<snap, reply, crashes, stateVars, pairingFrame>>

Reloaded ==
  /\ pc[Loop] = "reading"
  /\ ReloadPublish(Loop)
  /\ Continue(Loop, "awake")
  /\ UNCHANGED <<reply, crashes, pairingFrame>>

Cycle ==
  /\ pc[Loop] = "awake"
  /\ \/ RetryStart(Loop)
     \/ /\ ~RetryPending(Memory(Loop))
        /\ Goto(Loop, "start")
        /\ UNCHANGED <<snap, reply, stateVars, pairingFrame>>
  /\ UNCHANGED crashes

LoopStep == Wake \/ WakeWithoutReload \/ Reloaded \/ Cycle

-----------------------------------------------------------------------------
(* The other tasks. *)

Ready(t) ==
  /\ t \in Handlers
  /\ pc[t] = IF ProcessOf[t] = Service THEN "idle" ELSE "opened"

(* A CLI command opens agent.json for itself. *)
OpenCommand(t) ==
  /\ t \in Handlers
  /\ ProcessOf[t] # Service
  /\ pc[t] = "idle"
  /\ Open(ProcessOf[t])
  /\ Goto(t, "opened")
  /\ UNCHANGED <<snap, reply, crashes, pairingFrame>>

(* Store.Reset, from the web handler: the installation keeps only its id. *)
ResetState(t) ==
  /\ Update(t, Cleared(Memory(t))) \/ SaveFails
  /\ UNCHANGED <<taskVars, reply, pairingFrame>>

(* The rest of the service's handlers (settings, accounts, sessions, the   *)
(* launcher) and the command `configure` leave the connection and the      *)
(* queue as they are in the memory, and save it.                           *)
SaveSettings(t) ==
  /\ Update(t, Memory(t)) \/ SaveFails
  /\ Finish(t)
  /\ UNCHANGED <<reply, pairingFrame>>

(* SetupRequired and Login reload the file as well. *)
Refresh(t) ==
  /\ ReloadRead(t)
  /\ Goto(t, "refreshing")
  /\ UNCHANGED <<reply, stateVars, pairingFrame>>

Refreshed(t) ==
  /\ pc[t] = "refreshing"
  /\ ReloadPublish(t)
  /\ Finish(t)
  /\ UNCHANGED <<reply, pairingFrame>>

Operate(t) ==
  /\ Ready(t)
  /\ \/ "request" \in Operations[t] /\ RequestPairing(t)
     \/ "poll" \in Operations[t] /\ PollStart(t)
     \/ "unpair" \in Operations[t] /\ UnpairStart(t)
     \/ "rotate" \in Operations[t] /\ RotateStart(t)
     \/ "save" \in Operations[t] /\ SaveSettings(t)
     \/ /\ ProcessOf[t] = Service
        /\ \/ "reset" \in Operations[t] /\ ResetState(t)
           \/ "refresh" \in Operations[t] /\ Refresh(t)
  /\ UNCHANGED crashes

-----------------------------------------------------------------------------
(* What happens around the tasks. *)

(* A process dies between two steps; the service is started again and     *)
(* opens the file.                                                         *)
Crash(p) ==
  /\ crashes < MaxCrashes
  /\ crashes' = crashes + 1
  /\ pc' = [t \in Task |-> IF ProcessOf[t] = p THEN "idle" ELSE pc[t]]
  /\ snap' = [t \in Task |-> IF ProcessOf[t] = p THEN NoSnapshot ELSE snap[t]]
  /\ reply' = [t \in Task |-> IF ProcessOf[t] = p THEN None ELSE reply[t]]
  /\ Open(p)
  /\ UNCHANGED pairingFrame

Outside ==
  \/ /\ \/ "approve" \in Events /\ Approve
        \/ "lapse" \in Events /\ Lapse
        \/ "revoke" \in Events /\ OwnerRevokes
     /\ UNCHANGED <<taskVars, reply, crashes, stateVars, timeVars>>
  \/ "age" \in Events /\ DayPasses /\ UNCHANGED <<reply, crashes>>

TaskStep(t) ==
  \/ SendStep(t) /\ UNCHANGED <<reply, crashes>>
  \/ PairingStep(t) /\ UNCHANGED crashes
  \/ Refreshed(t) /\ UNCHANGED crashes

Next ==
  \/ LoopStep
  \/ \E t \in Task : TaskStep(t) \/ OpenCommand(t) \/ Operate(t)
  \/ \E p \in Process : Crash(p)
  \/ Outside

Spec == Init /\ [][Next]_vars

-----------------------------------------------------------------------------
(* Invariants. *)

Labels ==
  { "idle", "reading", "awake", "opened", "refreshing",
    "start", "collecting", "enqueued", "flush", "stale",
    "posting", "postingPrevious", "accepted", "acceptedPrevious", "failed",
    "polling", "approved",
    "unpairing", "retrying", "revoked", "unreachable",
    "rotating", "rotated" }

(* Every variable has its type: the states in the file, in the memories    *)
(* and in the snapshots are states of the program, and what Watchpost      *)
(* keeps is well formed.                                                   *)
TypeOK ==
  /\ disk \in State
  /\ mem \in [Process -> State]
  /\ pc \in [Task -> Labels]
  /\ snap \in [Task -> State]
  /\ reply \in [Task -> Credentials \cup {None}]
  /\ clock \in Nat /\ horizon \in Nat /\ crashes \in Nat
  /\ request \in [Requests -> Posts \cup {Unused, Waiting}]
  /\ issued \in [Requests -> 0 .. MaxCredentials]
  /\ live \subseteq Credentials
  /\ lastSeq \in [Requests -> Nat]
  /\ received \subseteq Nat

(* The queue of state s holds consecutive, non-overlapping ranges of       *)
(* sequences that end where the next batch will begin.                     *)
Contiguous(s) ==
  /\ \A i \in 1 .. Len(s.queue) : s.queue[i].first <= s.queue[i].last
  /\ \A i \in 1 .. Len(s.queue) - 1 :
       s.queue[i + 1].first = s.queue[i].last + 1
  /\ s.queue # <<>> => s.nextSequence = s.queue[Len(s.queue)].last + 1

(* Whatever is saved, reloaded, re-paired or popped concurrently, the file *)
(* and the memory of every process hold a contiguous queue: "every queued  *)
(* batch must occupy a distinct, non-overlapping sequence range"           *)
(* (telemetry_test.go).                                                    *)
SequencesDisjoint ==
  Contiguous(disk) /\ \A p \in Process : Contiguous(mem[p])

(* The queue is never longer than its bound, in batches and in bytes.      *)
QueueBounded ==
  \A s \in {disk} \cup {mem[p] : p \in Process} :
    Len(s.queue) <= MaxQueue /\ Bytes(s.queue) <= MaxBytes

(* With the loop, alone or beside an unpairing: the batch at the head is   *)
(* one that Watchpost still takes from the credential in use, so the queue *)
(* never waits behind a batch that is rejected forever.                    *)
HeadAcceptable ==
  disk.queue # <<>> /\ disk.credential \in live
    => Accepts(disk.credential, Head(disk.queue))

(* Replay is oldest first: when a queued batch has been accepted, so has   *)
(* every batch before it.                                                  *)
OldestFirst ==
  \A i, j \in 1 .. Len(disk.queue) :
    i < j /\ disk.queue[j].id \in received => disk.queue[i].id \in received

(* A connection with a post has a credential, and the other way round.     *)
ConnectionWhole == (disk.postID = None) <=> (disk.credential = None)

-----------------------------------------------------------------------------
(* Action properties. *)

Repaired == disk'.queue = <<>> /\ disk'.nextSequence = 1

(* A batch leaves the file only when Watchpost has accepted it, when it is *)
(* older than 24 hours and counted as dropped, or with the connection.     *)
NoSilentLoss ==
  [][\A i \in 1 .. Len(disk.queue) :
       \/ disk.queue[i].id \in received
       \/ \E j \in 1 .. Len(disk'.queue) : disk'.queue[j] = disk.queue[i]
       \/ disk.queue[i].id <= horizon /\ disk'.dropped = disk.dropped + 1
       \/ Repaired]_disk

(* The previous credential of an overlap is kept as long as Watchpost has  *)
(* not seen the replacement (which would retire the previous one).         *)
OverlapKept ==
  [][disk.previous \in live /\ disk'.credential = disk.credential
       => disk'.previous = disk.previous]_disk

(* The last replacement issued was never used and lapsed. *)
Lapsed == \E c \in live : <<c[1], issued[c[1]]>> \notin live

(* The agent does not forget its connection while Watchpost still accepts  *)
(* one of the credentials it holds: "authority is never silently discarded *)
(* locally" (Unpair, pairing.go).  One case apart: the replacement lapsed, *)
(* the 401 it gets is taken for a revocation, and the previous credential  *)
(* is still accepted.                                                      *)
AuthorityRetained ==
  [][(disk.credential \in live \/ disk.previous \in live) /\ ~Lapsed
       => disk'.credential # None]_disk

Durable ==
  INSTANCE Channel WITH
    open <- disk.credential # None,
    pending <- [k \in 1 .. Len(disk.queue) |-> disk.queue[k].id],
    dropped <- disk.dropped

(* With the delivery loop alone, what the file and Watchpost hold is a      *)
(* channel (module Channel): the loop delivers at least once and oldest     *)
(* first, loses nothing but what is too old, and counts that, whatever      *)
(* fails, is lost or dies in between.                                       *)
ImplementsChannel == Durable!Spec

-----------------------------------------------------------------------------
(* Liveness. *)

(* The loop keeps running, the disk and the network work again and again,  *)
(* and every backoff ends before one of the cycles that follow.            *)
Fairness ==
  /\ WF_vars(LoopStep \/ TaskStep(Loop))
  /\ SF_vars(Reloaded)
  /\ SF_vars((Enqueue(Loop) \/ EnqueueBeyondBound(Loop))
               /\ UNCHANGED <<reply, crashes>>)
  /\ SF_vars(BackoffOver(Loop) /\ UNCHANGED <<reply, crashes>>)
  /\ SF_vars(PostAccepted(Loop) /\ UNCHANGED <<reply, crashes>>)
  /\ SF_vars(PostRefused(Loop) /\ UNCHANGED <<reply, crashes>>)
  /\ SF_vars(SaveDelivered(Loop) /\ UNCHANGED <<reply, crashes>>)
  /\ SF_vars(DropStale(Loop) /\ disk' # disk /\ UNCHANGED <<reply, crashes>>)
  /\ SF_vars(UnpairAnswered(Loop) /\ UNCHANGED crashes)
  /\ SF_vars(SaveCleared(Loop) /\ disk' # disk /\ UNCHANGED crashes)

FairSpec == Spec /\ Fairness

Queued(id) == \E i \in 1 .. Len(disk.queue) : disk.queue[i].id = id

(* Every queued batch leaves the queue, as long as the agent has           *)
(* authority: delivery is repeated until it succeeds.                      *)
QueueDrains ==
  \A id \in 1 .. MaxClock : Queued(id) ~> (~Queued(id) \/ live = {})

(* A pending revocation is retried until Watchpost has revoked the         *)
(* authority, but for a credential that outlived its lapsed replacement,   *)
(* and the agent has forgotten it.                                         *)
RevocationCompletes ==
  disk.revoking ~> (disk.credential = None /\ (live = {} \/ Lapsed))

=============================================================================
