----------------------------- MODULE AgentState -----------------------------
(***************************************************************************)
(* The durable state of the agent (internal/state/state.go) as the other   *)
(* packages use it: one agent.json shared by every process, and in each    *)
(* process one Store that holds a copy of it in memory.  Goroutines of the *)
(* service and the main functions of CLI commands are tasks; each works on *)
(* the Store of its process.                                               *)
(*                                                                         *)
(* Store.tla refines the atomic save assumed here into its steps.          *)
(***************************************************************************)
EXTENDS Integers, Sequences

CONSTANTS
  Process,         (* the OS processes that open agent.json                *)
  Service,         (* the process of the installed service                 *)
  Task,            (* the goroutines and CLI mains that use a Store        *)
  ProcessOf,       (* the process each task runs in                        *)
  Posts,           (* the posts a Watchpost owner can pair the agent with  *)
  None,            (* Go's zero value of a string                          *)
  MaxRequests,     (* bound: pairing requests ever made                    *)
  MaxCredentials,  (* bound: credentials issued per pairing                *)
  DiskFaults       (* whether a save may fail                              *)

ASSUME StateAssumption ==
  /\ Service \in Process
  /\ ProcessOf \in [Task -> Process]
  /\ None \notin Posts
  /\ MaxRequests \in Nat
  /\ MaxCredentials \in Nat \ {0}
  /\ DiskFaults \in BOOLEAN
  /\ None \notin (1 .. MaxRequests) \X (1 .. MaxCredentials)

VARIABLES
  disk,   (* the state agent.json holds                                     *)
  mem,    (* Store.data of each process                                     *)
  pc,     (* where each task is                                             *)
  snap    (* the snapshot a task works from (Reload: the file it has read)  *)

stateVars == <<disk, mem>>
taskVars == <<pc, snap>>

Requests == 1 .. MaxRequests

(* The n-th credential Watchpost issued for the pairing of request r is    *)
(* the pair <<r, n>>; None is none of them.                                *)
Credentials == Requests \X (1 .. MaxCredentials)

(* A queued batch: the instant it was collected (BatchID and SentAt), the  *)
(* post it names and the range of sample sequences it holds.               *)
Batch == [id: Nat, post: Posts \cup {None}, first: Nat, last: Nat]

(* The fields of state.State that pairing and delivery read and write.     *)
(* backoff abstracts NextRetryAt # 0 (with ConsecutiveFailures, which only *)
(* sets the length of the delay).                                          *)
State ==
  [ postID       : Posts \cup {None},
    credential   : Credentials \cup {None},
    previous     : Credentials \cup {None},
    revoking     : BOOLEAN,
    pending      : Requests \cup {None},
    queue        : Seq(Batch),
    nextSequence : Nat,
    backoff      : BOOLEAN,
    dropped      : Nat ]

(* What Open writes when there is no agent.json. *)
FirstRun ==
  [ postID |-> None, credential |-> None, previous |-> None,
    revoking |-> FALSE, pending |-> None,
    queue |-> <<>>, nextSequence |-> 0, backoff |-> FALSE, dropped |-> 0 ]

-----------------------------------------------------------------------------
(* Changes of the state: each is what one Update callback does to the copy *)
(* it is given.                                                            *)

(* Mistake: the queue outlives the connection. *)
EmptyDeliveryButQueue(s) == [s EXCEPT !.backoff = FALSE, !.dropped = 0]

EmptyDelivery(s) ==
  [s EXCEPT !.queue = <<>>, !.backoff = FALSE, !.dropped = 0]

(* A connection with post p and credential c, and nothing left of the      *)
(* delivery state or the pending request of the one before.                *)
Connected(s, p, c) ==
  [EmptyDelivery(s) EXCEPT
     !.postID = p, !.credential = c, !.previous = None, !.revoking = FALSE,
     !.pending = None, !.nextSequence = 1]

(* Mistake: the post stays behind. *)
ClearedButPost(s) ==
  [EmptyDelivery(s) EXCEPT !.credential = None, !.previous = None,
     !.revoking = FALSE, !.pending = None, !.nextSequence = 1]

Cleared(s) == Connected(s, None, None)

-----------------------------------------------------------------------------
(* Steps on a Store. *)

Goto(t, label) == pc' = [pc EXCEPT ![t] = label]

NoSnapshot == FirstRun

(* The task goes on, and will not read its snapshot again. *)
Continue(t, label) ==
  /\ Goto(t, label)
  /\ snap' = [snap EXCEPT ![t] = NoSnapshot]

Finish(t) == Continue(t, "idle")

Memory(t) == mem[ProcessOf[t]]

(* Snapshot: of the copy it returns, the task keeps the part it reads      *)
(* later on.                                                               *)
Keep(t, part) == snap' = [snap EXCEPT ![t] = part]

(* Update: the callback turned a copy of the memory into next; the file is *)
(* replaced and then the memory.                                           *)
Update(t, next) ==
  /\ disk' = next
  /\ mem' = [mem EXCEPT ![ProcessOf[t]] = next]

(* Update whose save failed leaves the file and the memory as they were.   *)
SaveFails ==
  /\ DiskFaults
  /\ UNCHANGED stateVars

(* Reload reads the file before it takes the lock... *)
ReloadRead(t) == snap' = [snap EXCEPT ![t] = disk]

(* ...and replaces the memory with what it read once it holds the lock.    *)
ReloadPublish(t) ==
  /\ mem' = [mem EXCEPT ![ProcessOf[t]] = snap[t]]
  /\ UNCHANGED disk

(* Open: the memory of a new process is the file. *)
Open(p) ==
  /\ mem' = [mem EXCEPT ![p] = disk]
  /\ UNCHANGED disk

=============================================================================
