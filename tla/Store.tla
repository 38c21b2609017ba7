------------------------------- MODULE Store --------------------------------
(***************************************************************************)
(* The steps of internal/state/state.go: Open, Reload, Snapshot, Update    *)
(* (with Unpair, ResetAuth and Reset, which save under the same lock) and  *)
(* RecoverFile, and in each of them saveState: a temporary file beside     *)
(* agent.json, its content, its owner, the rename.  Every step of a save   *)
(* may fail and a process may die between two.  Only the death of a        *)
(* process is modelled, not a power failure: the code does not sync the    *)
(* file, and nothing here says what the disk then holds.                   *)
(***************************************************************************)
CONSTANTS
  Process, Task, ProcessOf, Valid, Damaged, First, Change, Completed, None,
  UserOf,   (* the user each process runs as                                *)
  Owner,    (* the owner of the data directory: the service's account       *)
  Root      (* the user that may give files away                            *)

Users == {UserOf[p] : p \in Process} \cup {Owner}

(* A file that is being written has no content yet. *)
File == [value : Valid \cup Damaged \cup {None}, owner : Users]

ASSUME StoreAssumption ==
  /\ ProcessOf \in [Task -> Process]
  /\ First \subseteq Valid
  /\ Change \subseteq (Valid \cup Damaged) \X Valid
  /\ Completed \in [Valid -> Valid]
  /\ None \notin Valid \cup Damaged
  /\ None \notin Task
  /\ None \notin File

VARIABLES
  file,     (* agent.json: its content and its owner                        *)
  mem,      (* Store.data of each process                                   *)
  seen,     (* the last snapshot a task of each process was given           *)
  read,     (* what each task has read from the file and not yet used       *)
  lock,     (* the task that holds Store.mu of each process for writing     *)
  job,      (* the method each task is in                                   *)
  pc,       (* and where it is in it                                        *)
  next,     (* the state each task is saving                                *)
  temp      (* the temporary file each task has created                     *)

vars == <<file, mem, seen, read, lock, job, pc, next, temp>>

(* A task between the rename of its file and the assignment to Store.data. *)
Renamed(t) == pc[t] = "renamed"

RenamedIn(p) == {t \in Task : ProcessOf[t] = p /\ Renamed(t)}

(* What the rest of the agent can tell: a save happens at its rename,      *)
(* although the memory follows a step later, under the lock.               *)
MemoryBar ==
  [p \in Process |->
     IF RenamedIn(p) = {} THEN mem[p] ELSE next[CHOOSE t \in RenamedIn(p) : TRUE]]

ContentBar == IF file = None THEN None ELSE file.value

Atomic == INSTANCE AtomicStore WITH file <- ContentBar, mem <- MemoryBar

Init ==
  /\ file \in {None} \cup [value : Valid \cup Damaged, owner : {Owner}]
  /\ mem = [p \in Process |-> None]
  /\ seen = [p \in Process |-> None]
  /\ read = [t \in Task |-> None]
  /\ lock = [p \in Process |-> None]
  /\ job = [t \in Task |-> "none"]
  /\ pc = [t \in Task |-> "idle"]
  /\ next = [t \in Task |-> None]
  /\ temp = [t \in Task |-> None]

-----------------------------------------------------------------------------
(* Steps of a method. *)

Memory(t) == mem[ProcessOf[t]]
IsOpen(t) == Memory(t) # None
Unlocked(t) == lock[ProcessOf[t]] = None
Idle(t) == pc[t] = "idle"

(* Until Open returns there is no Store for another task of the process. *)
Alone(t) == \A u \in Task : ProcessOf[u] = ProcessOf[t] => Idle(u)

Goto(t, label) == pc' = [pc EXCEPT ![t] = label]
Begin(t, method, label) == job' = [job EXCEPT ![t] = method] /\ Goto(t, label)

(* The variables of the method go with it. *)
Return(t) ==
  /\ Begin(t, "none", "idle")
  /\ read' = [read EXCEPT ![t] = None]
  /\ next' = [next EXCEPT ![t] = None]

Remember(t, s) == mem' = [mem EXCEPT ![ProcessOf[t]] = s]

(* Mistake: the memory is copied without the lock. *)
TakeNothing(t) == UNCHANGED lock

Take(t) == Unlocked(t) /\ lock' = [lock EXCEPT ![ProcessOf[t]] = t]

(* Only Update and Reset hold the lock; a deferred call gives it up. *)
Release(t) ==
  lock' = IF job[t] = "update" THEN [lock EXCEPT ![ProcessOf[t]] = None] ELSE lock

(* Snapshot. *)
Snapshot(t) ==
  /\ Idle(t) /\ IsOpen(t) /\ Unlocked(t)
  /\ seen' = [seen EXCEPT ![ProcessOf[t]] = Memory(t)]
  /\ UNCHANGED <<file, mem, read, lock, job, pc, next, temp>>

ReadFile(t) == read' = [read EXCEPT ![t] = ContentBar]

(* Reload: the file is read and validated without the lock (a missing or   *)
(* damaged file is an error and leaves the memory alone)...                *)
ReloadRead(t) ==
  /\ Idle(t) /\ IsOpen(t)
  /\ ContentBar \in Valid
  /\ ReadFile(t)
  /\ Begin(t, "reload", "loaded")
  /\ UNCHANGED <<file, mem, seen, lock, next, temp>>

(* ...and published under it, with defaults that it lacks. *)
ReloadPublish(t) ==
  /\ job[t] = "reload" /\ Unlocked(t)
  /\ Remember(t, Completed[read[t]])
  /\ Return(t)
  /\ UNCHANGED <<file, seen, lock, temp>>

(* Update and Reset: the lock, then the change of a copy of the memory.    *)
(* A callback that returns an error leaves no trace.                       *)
UpdateStart(t) ==
  /\ Idle(t) /\ IsOpen(t)
  /\ Take(t)
  /\ \E w \in Atomic!Replaces(Memory(t)) : next' = [next EXCEPT ![t] = w]
  /\ Begin(t, "update", "saving")
  /\ UNCHANGED <<file, mem, seen, read, temp>>

(* Open: a complete file is taken as it is... *)
Open(t) ==
  /\ ~IsOpen(t) /\ Alone(t)
  /\ ContentBar \in Valid /\ Completed[ContentBar] = ContentBar
  /\ Remember(t, ContentBar)
  /\ UNCHANGED <<file, seen, read, lock, job, pc, next, temp>>

(* ...of one that lacks the collectors' defaults the completed state is    *)
(* saved before Open returns, and for a missing one a first-run state.  A  *)
(* damaged file is refused, which changes nothing.                         *)
OpenSaving(t) ==
  /\ ~IsOpen(t) /\ Alone(t)
  /\ \/ ContentBar = None
     \/ ContentBar \in Valid /\ Completed[ContentBar] # ContentBar
  /\ ReadFile(t)
  /\ \E w \in Atomic!Initial(ContentBar) : next' = [next EXCEPT ![t] = w]
  /\ Begin(t, "open", "saving")
  /\ UNCHANGED <<file, mem, seen, lock, temp>>

(* RecoverFile, in a process of its own: whatever the file holds is        *)
(* replaced by a first-run state (--all), or, if its envelope can be read, *)
(* by one with the local accounts reset (--auth).                          *)
RecoverStart(t) ==
  /\ ~IsOpen(t) /\ Alone(t)
  /\ ReadFile(t)
  /\ \E w \in First \cup Atomic!Replaces(ContentBar) : next' = [next EXCEPT ![t] = w]
  /\ Begin(t, "recover", "saving")
  /\ UNCHANGED <<file, mem, seen, lock, temp>>

-----------------------------------------------------------------------------
(* saveState. *)

CreateTemp(t) ==
  /\ pc[t] = "saving"
  /\ temp' = [temp EXCEPT ![t] = [value |-> None, owner |-> UserOf[ProcessOf[t]]]]
  /\ Goto(t, "created")
  /\ UNCHANGED <<file, mem, seen, read, lock, job, next>>

WriteTemp(t) ==
  /\ pc[t] = "created"
  /\ temp' = [temp EXCEPT ![t].value = next[t]]
  /\ Goto(t, "written")
  /\ UNCHANGED <<file, mem, seen, read, lock, job, next>>

(* Mistake: the owner is left as it is. *)
PreserveNothing(t) ==
  /\ pc[t] = "written"
  /\ Goto(t, "owned")
  /\ UNCHANGED <<file, mem, seen, read, lock, job, next, temp>>

(* preserveFileOwnership: another user's file is given to the owner of the *)
(* directory, which only root may do.                                      *)
PreserveOwner(t) ==
  /\ pc[t] = "written"
  /\ temp[t].owner \in {Owner, Root}
  /\ temp' = [temp EXCEPT ![t].owner = Owner]
  /\ Goto(t, "owned")
  /\ UNCHANGED <<file, mem, seen, read, lock, job, next>>

(* The rename; RecoverFile has no memory to update and is done. *)
Rename(t) ==
  /\ pc[t] = "owned"
  /\ file' = temp[t]
  /\ temp' = [temp EXCEPT ![t] = None]
  /\ IF job[t] = "recover" THEN Return(t)
                            ELSE Goto(t, "renamed") /\ UNCHANGED <<read, job, next>>
  /\ UNCHANGED <<mem, seen, lock>>

(* The assignment to Store.data and the return from Update, Reset or Open. *)
Assign(t) ==
  /\ Renamed(t)
  /\ Remember(t, next[t])
  /\ Release(t)
  /\ Return(t)
  /\ UNCHANGED <<file, seen, temp>>

(* Any step up to the rename may fail: the temporary file is removed and   *)
(* the error returned.                                                     *)
SaveFails(t) ==
  /\ pc[t] \in {"saving", "created", "written", "owned"}
  /\ temp' = [temp EXCEPT ![t] = None]
  /\ Release(t)
  /\ Return(t)
  /\ UNCHANGED <<file, mem, seen>>

Save(t) ==
  \/ CreateTemp(t) \/ WriteTemp(t) \/ PreserveOwner(t) \/ Rename(t)
  \/ Assign(t) \/ SaveFails(t)

(* A process ends or dies, and its memory and its locks with it.  A        *)
(* temporary file it leaves behind has a random name and is not used again.*)
Exit(p) ==
  /\ mem' = [mem EXCEPT ![p] = None]
  /\ lock' = [lock EXCEPT ![p] = None]
  /\ job' = [t \in Task |-> IF ProcessOf[t] = p THEN "none" ELSE job[t]]
  /\ pc' = [t \in Task |-> IF ProcessOf[t] = p THEN "idle" ELSE pc[t]]
  /\ read' = [t \in Task |-> IF ProcessOf[t] = p THEN None ELSE read[t]]
  /\ next' = [t \in Task |-> IF ProcessOf[t] = p THEN None ELSE next[t]]
  /\ temp' = [t \in Task |-> IF ProcessOf[t] = p THEN None ELSE temp[t]]
  /\ UNCHANGED <<file, seen>>

TaskStep(t) ==
  \/ Snapshot(t) \/ ReloadRead(t) \/ ReloadPublish(t) \/ UpdateStart(t)
  \/ Open(t) \/ OpenSaving(t) \/ RecoverStart(t) \/ Save(t)

Next == (\E t \in Task : TaskStep(t)) \/ (\E p \in Process : Exit(p))

Spec == Init /\ [][Next]_vars

-----------------------------------------------------------------------------
(* Every variable has its type. *)
TypeOK ==
  /\ file \in {None} \cup File
  /\ mem \in [Process -> Valid \cup {None}]
  /\ seen \in [Process -> Valid \cup {None}]
  /\ read \in [Task -> Valid \cup Damaged \cup {None}]
  /\ lock \in [Process -> Task \cup {None}]
  /\ job \in [Task -> {"none", "reload", "update", "open", "recover"}]
  /\ pc \in [Task -> {"idle", "loaded", "saving", "created", "written", "owned", "renamed"}]
  /\ next \in [Task -> Valid \cup {None}]
  /\ temp \in [Task -> {None} \cup File]

(* Whatever fails or dies, and whoever saves: agent.json never holds a     *)
(* partly written state, and the service's account never loses it to the   *)
(* user that ran a command.                                                *)
FileWhole == file # None => file.value # None /\ file.owner = Owner

(* state.go keeps the promise the packages above it are written for: an    *)
(* Update, an Open or a RecoverFile is one step for every reader, nothing  *)
(* of a failed save is ever seen, and updates of one process do not undo   *)
(* each other.                                                             *)
ImplementsAtomicStore == Atomic!Spec

=============================================================================
