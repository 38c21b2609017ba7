----------------------------- MODULE StoreProofs -----------------------------
(***************************************************************************)
(* Store implements AtomicStore, for every number of processes, tasks and  *)
(* states.  The argument: between its rename and the assignment to the     *)
(* memory a task holds the lock of its process or is alone in it, so no    *)
(* task of the process can tell the two steps apart; and what a task saves *)
(* was made from a memory that cannot change until it is done.             *)
(***************************************************************************)
EXTENDS Store, TLAPS

(* What holds of a task inside a method. *)
Reloading(t) == job[t] = "reload" => IsOpen(t) /\ read[t] \in Valid

Updating(t) ==
  job[t] = "update" =>
    /\ IsOpen(t) /\ lock[ProcessOf[t]] = t
    /\ ~Renamed(t) => next[t] \in Atomic!Replaces(Memory(t))

Opening(t) ==
  job[t] = "open" =>
    /\ ~IsOpen(t) /\ read[t] \in Valid \cup {None}
    /\ ~Renamed(t) => next[t] \in Atomic!Initial(read[t])

Recovering(t) ==
  job[t] = "recover" =>
    /\ ~IsOpen(t) /\ ~Renamed(t)
    /\ next[t] \in First \cup Atomic!Replaces(read[t])

(* Open and RecoverFile have the process for themselves. *)
OpeningAlone(t) ==
  job[t] \in {"open", "recover"} =>
    \A u \in Task : ProcessOf[u] = ProcessOf[t] /\ u # t => job[u] = "none"

Saving(t) ==
  /\ job[t] = "none" <=> pc[t] = "idle"
  /\ job[t] = "reload" <=> pc[t] = "loaded"
  /\ pc[t] \notin {"idle", "loaded"} => next[t] \in Valid
  /\ pc[t] \in {"created", "written", "owned"} => temp[t] \in File
  /\ pc[t] \in {"written", "owned"} => temp[t].value = next[t]
  /\ pc[t] = "owned" => temp[t].owner = Owner

JobOK(t) ==
  /\ Reloading(t) /\ Updating(t) /\ Opening(t)
  /\ Recovering(t) /\ OpeningAlone(t) /\ Saving(t)

JobInv == \A t \in Task : JobOK(t)

LockInv ==
  \A p \in Process :
    lock[p] # None => ProcessOf[lock[p]] = p /\ job[lock[p]] = "update"

IInv == TypeOK /\ FileWhole /\ JobInv /\ LockInv

-----------------------------------------------------------------------------
LEMMA ReplacesValid ==
  ASSUME NEW v
  PROVE  /\ Atomic!Replaces(v) \subseteq Valid
         /\ v \in Valid \cup {None} => Atomic!Initial(v) \subseteq Valid
  BY StoreAssumption DEF Atomic!Replaces, Atomic!Initial

LEMMA InitInv == Init => IInv
<1> SUFFICES ASSUME Init PROVE IInv
  OBVIOUS
<1>1. TypeOK
  BY StoreAssumption DEF Init, TypeOK, File, Users
<1>2. FileWhole
  BY StoreAssumption DEF Init, FileWhole
<1>3. JobInv /\ LockInv
  BY StoreAssumption DEF Init, JobInv, JobOK, LockInv, Reloading, Updating,
     Opening, Recovering, OpeningAlone, Saving
<1>4. QED
  BY <1>1, <1>2, <1>3 DEF IInv

LEMMA SnapshotInv ==
  ASSUME IInv, NEW t \in Task, Snapshot(t)
  PROVE  IInv'
<1> USE StoreAssumption, ReplacesValid
<1>1. TypeOK' /\ FileWhole'
  BY DEF IInv, TypeOK, FileWhole, JobInv, JobOK, Reloading, Updating, Opening,
     Recovering, OpeningAlone, Saving, File, ContentBar, IsOpen, Memory,
     Renamed, Snapshot, Idle, Unlocked
<1>2. JobOK(t)'
  BY DEF IInv, TypeOK, JobInv, JobOK, Reloading, Updating, Opening, Recovering,
     OpeningAlone, Saving, LockInv, File, ContentBar, IsOpen, Memory, Renamed,
     Snapshot, Idle, Unlocked
<1>3. ASSUME NEW u \in Task, u # t
      PROVE  JobOK(u)'
  BY <1>3 DEF IInv, TypeOK, JobInv, JobOK, Reloading, Updating, Opening,
     Recovering, OpeningAlone, Saving, LockInv, IsOpen, Memory, Renamed,
     Snapshot, Idle, Unlocked
<1>4. LockInv'
  BY DEF IInv, TypeOK, LockInv, JobInv, JobOK, Reloading, Updating, Opening,
     Recovering, OpeningAlone, Saving, Snapshot, Idle, Unlocked
<1>5. QED
  BY <1>1, <1>2, <1>3, <1>4 DEF IInv, JobInv

LEMMA ReloadReadInv ==
  ASSUME IInv, NEW t \in Task, ReloadRead(t)
  PROVE  IInv'
<1> USE StoreAssumption, ReplacesValid
<1>1. TypeOK' /\ FileWhole'
  BY DEF IInv, TypeOK, FileWhole, JobInv, JobOK, Reloading, Updating, Opening,
     Recovering, OpeningAlone, Saving, File, ContentBar, IsOpen, Memory,
     Renamed, ReloadRead, Idle, ReadFile, Begin, Goto
<1>2. JobOK(t)'
  BY DEF IInv, TypeOK, JobInv, JobOK, Reloading, Updating, Opening, Recovering,
     OpeningAlone, Saving, LockInv, File, ContentBar, IsOpen, Memory, Renamed,
     ReloadRead, Idle, ReadFile, Begin, Goto
<1>3. ASSUME NEW u \in Task, u # t
      PROVE  JobOK(u)'
  BY <1>3 DEF IInv, TypeOK, JobInv, JobOK, Reloading, Updating, Opening,
     Recovering, OpeningAlone, Saving, LockInv, IsOpen, Memory, Renamed,
     ReloadRead, Idle, ReadFile, Begin, Goto
<1>4. LockInv'
  BY DEF IInv, TypeOK, LockInv, JobInv, JobOK, Reloading, Updating, Opening,
     Recovering, OpeningAlone, Saving, ReloadRead, Idle, ReadFile, Begin, Goto
<1>5. QED
  BY <1>1, <1>2, <1>3, <1>4 DEF IInv, JobInv

LEMMA ReloadPublishInv ==
  ASSUME IInv, NEW t \in Task, ReloadPublish(t)
  PROVE  IInv'
<1> USE StoreAssumption, ReplacesValid
<1>0. read[t] \in Valid /\ Completed[read[t]] \in Valid
  BY DEF IInv, JobInv, JobOK, Reloading, ReloadPublish
<1>1. TypeOK' /\ FileWhole'
  BY <1>0 DEF IInv, TypeOK, FileWhole, JobInv, JobOK, Reloading, Updating,
     Opening, Recovering, OpeningAlone, Saving, File, ContentBar, IsOpen,
     Memory, Renamed, ReloadPublish, Unlocked, Remember, Return, Begin, Goto
<1>2. JobOK(t)'
  BY <1>0 DEF IInv, TypeOK, JobInv, JobOK, Reloading, Updating, Opening,
     Recovering, OpeningAlone, Saving, LockInv, File, ContentBar, IsOpen,
     Memory, Renamed, ReloadPublish, Unlocked, Remember, Return, Begin, Goto
<1>3. ASSUME NEW u \in Task, u # t
      PROVE  JobOK(u)'
  BY <1>3 DEF IInv, TypeOK, JobInv, JobOK, Reloading, Updating, Opening,
     Recovering, OpeningAlone, Saving, LockInv, IsOpen, Memory, Renamed,
     ReloadPublish, Unlocked, Remember, Return, Begin, Goto
<1>4. LockInv'
  BY DEF IInv, TypeOK, LockInv, JobInv, JobOK, Reloading, Updating, Opening,
     Recovering, OpeningAlone, Saving, ReloadPublish, Unlocked, Remember,
     Return, Begin, Goto
<1>5. QED
  BY <1>1, <1>2, <1>3, <1>4 DEF IInv, JobInv

LEMMA UpdateStartInv ==
  ASSUME IInv, NEW t \in Task, UpdateStart(t)
  PROVE  IInv'
<1> USE StoreAssumption, ReplacesValid
<1>0. PICK w \in Atomic!Replaces(Memory(t)) : next' = [next EXCEPT ![t] = w]
  BY DEF UpdateStart
<1>1. TypeOK' /\ FileWhole'
  BY <1>0 DEF IInv, TypeOK, FileWhole, JobInv, JobOK, Reloading, Updating,
     Opening, Recovering, OpeningAlone, Saving, File, ContentBar, IsOpen,
     Memory, Renamed, UpdateStart, Idle, Take, Unlocked, Begin, Goto
<1>2. JobOK(t)'
  <2>1. /\ next'[t] = w /\ w \in Valid
        /\ job'[t] = "update" /\ pc'[t] = "saving"
        /\ lock'[ProcessOf[t]] = t /\ IsOpen(t) /\ mem' = mem
    BY <1>0 DEF IInv, TypeOK, UpdateStart, Take, Begin, Goto
  <2>2. w \in Atomic!Replaces(Memory(t))'
    BY <2>1 DEF Memory, Atomic!Replaces
  <2>3. QED
    BY <2>1, <2>2 DEF JobOK, Reloading, Updating, Opening, Recovering,
       OpeningAlone, Saving, IsOpen, Memory
<1>3. ASSUME NEW u \in Task, u # t
      PROVE  JobOK(u)'
  BY <1>3 DEF IInv, TypeOK, JobInv, JobOK, Reloading, Updating, Opening,
     Recovering, OpeningAlone, Saving, LockInv, IsOpen, Memory, Renamed,
     UpdateStart, Idle, Take, Unlocked, Begin, Goto
<1>4. LockInv'
  BY DEF IInv, TypeOK, LockInv, JobInv, JobOK, Reloading, Updating, Opening,
     Recovering, OpeningAlone, Saving, UpdateStart, Idle, Take, Unlocked,
     Begin, Goto
<1>5. QED
  BY <1>1, <1>2, <1>3, <1>4 DEF IInv, JobInv

LEMMA OpenInv ==
  ASSUME IInv, NEW t \in Task, Open(t)
  PROVE  IInv'
<1> USE StoreAssumption, ReplacesValid
<1>1. TypeOK' /\ FileWhole'
  BY DEF IInv, TypeOK, FileWhole, JobInv, JobOK, Reloading, Updating, Opening,
     Recovering, OpeningAlone, Saving, File, ContentBar, IsOpen, Memory,
     Renamed, Open, Idle, Alone, Remember
<1>2. JobOK(t)'
  BY DEF IInv, TypeOK, JobInv, JobOK, Reloading, Updating, Opening, Recovering,
     OpeningAlone, Saving, LockInv, File, ContentBar, IsOpen, Memory, Renamed,
     Open, Idle, Alone, Remember
<1>3. ASSUME NEW u \in Task, u # t
      PROVE  JobOK(u)'
  BY <1>3 DEF IInv, TypeOK, JobInv, JobOK, Reloading, Updating, Opening,
     Recovering, OpeningAlone, Saving, LockInv, IsOpen, Memory, Renamed, Open,
     Idle, Alone, Remember
<1>4. LockInv'
  BY DEF IInv, TypeOK, LockInv, JobInv, JobOK, Reloading, Updating, Opening,
     Recovering, OpeningAlone, Saving, Open, Idle, Alone, Remember
<1>5. QED
  BY <1>1, <1>2, <1>3, <1>4 DEF IInv, JobInv

LEMMA OpenSavingInv ==
  ASSUME IInv, NEW t \in Task, OpenSaving(t)
  PROVE  IInv'
<1> USE StoreAssumption, ReplacesValid
<1>1. TypeOK' /\ FileWhole'
  BY DEF IInv, TypeOK, FileWhole, JobInv, JobOK, Reloading, Updating, Opening,
     Recovering, OpeningAlone, Saving, File, ContentBar, IsOpen, Memory,
     Renamed, OpenSaving, Idle, Alone, ReadFile, Begin, Goto
<1>2. JobOK(t)'
  BY DEF IInv, TypeOK, JobInv, JobOK, Reloading, Updating, Opening, Recovering,
     OpeningAlone, Saving, LockInv, File, ContentBar, IsOpen, Memory, Renamed,
     OpenSaving, Idle, Alone, ReadFile, Begin, Goto
<1>3. ASSUME NEW u \in Task, u # t
      PROVE  JobOK(u)'
  BY <1>3 DEF IInv, TypeOK, JobInv, JobOK, Reloading, Updating, Opening,
     Recovering, OpeningAlone, Saving, LockInv, IsOpen, Memory, Renamed,
     OpenSaving, Idle, Alone, ReadFile, Begin, Goto
<1>4. LockInv'
  BY DEF IInv, TypeOK, LockInv, JobInv, JobOK, Reloading, Updating, Opening,
     Recovering, OpeningAlone, Saving, OpenSaving, Idle, Alone, ReadFile,
     Begin, Goto
<1>5. QED
  BY <1>1, <1>2, <1>3, <1>4 DEF IInv, JobInv

LEMMA RecoverStartInv ==
  ASSUME IInv, NEW t \in Task, RecoverStart(t)
  PROVE  IInv'
<1> USE StoreAssumption, ReplacesValid
<1>1. TypeOK' /\ FileWhole'
  BY DEF IInv, TypeOK, FileWhole, JobInv, JobOK, Reloading, Updating, Opening,
     Recovering, OpeningAlone, Saving, File, ContentBar, IsOpen, Memory,
     Renamed, RecoverStart, Idle, Alone, ReadFile, Begin, Goto
<1>2. JobOK(t)'
  BY DEF IInv, TypeOK, JobInv, JobOK, Reloading, Updating, Opening, Recovering,
     OpeningAlone, Saving, LockInv, File, ContentBar, IsOpen, Memory, Renamed,
     RecoverStart, Idle, Alone, ReadFile, Begin, Goto
<1>3. ASSUME NEW u \in Task, u # t
      PROVE  JobOK(u)'
  BY <1>3 DEF IInv, TypeOK, JobInv, JobOK, Reloading, Updating, Opening,
     Recovering, OpeningAlone, Saving, LockInv, IsOpen, Memory, Renamed,
     RecoverStart, Idle, Alone, ReadFile, Begin, Goto
<1>4. LockInv'
  BY DEF IInv, TypeOK, LockInv, JobInv, JobOK, Reloading, Updating, Opening,
     Recovering, OpeningAlone, Saving, RecoverStart, Idle, Alone, ReadFile,
     Begin, Goto
<1>5. QED
  BY <1>1, <1>2, <1>3, <1>4 DEF IInv, JobInv

LEMMA CreateTempInv ==
  ASSUME IInv, NEW t \in Task, CreateTemp(t)
  PROVE  IInv'
<1> USE StoreAssumption, ReplacesValid
<1>0. [value |-> None, owner |-> UserOf[ProcessOf[t]]] \in File
  BY DEF File, Users
<1>1. TypeOK' /\ FileWhole'
  BY <1>0 DEF IInv, TypeOK, FileWhole, JobInv, JobOK, Reloading, Updating,
     Opening, Recovering, OpeningAlone, Saving, ContentBar, IsOpen, Memory,
     Renamed, CreateTemp, Goto
<1>2. JobOK(t)'
  BY <1>0 DEF IInv, TypeOK, JobInv, JobOK, Reloading, Updating, Opening,
     Recovering, OpeningAlone, Saving, LockInv, ContentBar, IsOpen, Memory,
     Renamed, CreateTemp, Goto
<1>3. ASSUME NEW u \in Task, u # t
      PROVE  JobOK(u)'
  BY <1>3 DEF IInv, TypeOK, JobInv, JobOK, Reloading, Updating, Opening,
     Recovering, OpeningAlone, Saving, LockInv, IsOpen, Memory, Renamed,
     CreateTemp, Goto
<1>4. LockInv'
  BY DEF IInv, TypeOK, LockInv, JobInv, JobOK, Reloading, Updating, Opening,
     Recovering, OpeningAlone, Saving, CreateTemp, Goto
<1>5. QED
  BY <1>1, <1>2, <1>3, <1>4 DEF IInv, JobInv

LEMMA WriteTempInv ==
  ASSUME IInv, NEW t \in Task, WriteTemp(t)
  PROVE  IInv'
<1> USE StoreAssumption, ReplacesValid
<1>1. TypeOK' /\ FileWhole'
  BY DEF IInv, TypeOK, FileWhole, JobInv, JobOK, Reloading, Updating, Opening,
     Recovering, OpeningAlone, Saving, File, ContentBar, IsOpen, Memory,
     Renamed, WriteTemp, Goto
<1>2. JobOK(t)'
  BY DEF IInv, TypeOK, JobInv, JobOK, Reloading, Updating, Opening, Recovering,
     OpeningAlone, Saving, LockInv, File, ContentBar, IsOpen, Memory, Renamed,
     WriteTemp, Goto
<1>3. ASSUME NEW u \in Task, u # t
      PROVE  JobOK(u)'
  BY <1>3 DEF IInv, TypeOK, JobInv, JobOK, Reloading, Updating, Opening,
     Recovering, OpeningAlone, Saving, LockInv, IsOpen, Memory, Renamed,
     WriteTemp, Goto
<1>4. LockInv'
  BY DEF IInv, TypeOK, LockInv, JobInv, JobOK, Reloading, Updating, Opening,
     Recovering, OpeningAlone, Saving, WriteTemp, Goto
<1>5. QED
  BY <1>1, <1>2, <1>3, <1>4 DEF IInv, JobInv

LEMMA PreserveOwnerInv ==
  ASSUME IInv, NEW t \in Task, PreserveOwner(t)
  PROVE  IInv'
<1> USE StoreAssumption, ReplacesValid
<1>0. /\ temp[t] \in File /\ temp[t].value = next[t]
      /\ temp'[t] = [temp[t] EXCEPT !.owner = Owner]
  BY DEF IInv, TypeOK, JobInv, JobOK, Saving, PreserveOwner
<1>01. /\ temp'[t] \in File /\ temp'[t].value = next[t]
       /\ temp'[t].owner = Owner
  BY <1>0 DEF File, Users
<1>1. TypeOK' /\ FileWhole'
  BY <1>01 DEF IInv, TypeOK, FileWhole, JobInv, JobOK, Reloading, Updating,
     Opening, Recovering, OpeningAlone, Saving, ContentBar, IsOpen, Memory,
     Renamed, PreserveOwner, Goto
<1>2. JobOK(t)'
  BY <1>01 DEF IInv, TypeOK, JobInv, JobOK, Reloading, Updating, Opening,
     Recovering, OpeningAlone, Saving, LockInv, ContentBar, IsOpen, Memory,
     Renamed, PreserveOwner, Goto
<1>3. ASSUME NEW u \in Task, u # t
      PROVE  JobOK(u)'
  BY <1>3 DEF IInv, TypeOK, JobInv, JobOK, Reloading, Updating, Opening,
     Recovering, OpeningAlone, Saving, LockInv, IsOpen, Memory, Renamed,
     PreserveOwner, Goto
<1>4. LockInv'
  BY DEF IInv, TypeOK, LockInv, JobInv, JobOK, Reloading, Updating, Opening,
     Recovering, OpeningAlone, Saving, PreserveOwner, Goto
<1>5. QED
  BY <1>1, <1>2, <1>3, <1>4 DEF IInv, JobInv

LEMMA RenameInv ==
  ASSUME IInv, NEW t \in Task, Rename(t)
  PROVE  IInv'
<1> USE StoreAssumption, ReplacesValid
<1>0. /\ temp[t] \in File /\ temp[t].value = next[t] /\ temp[t].owner = Owner
      /\ next[t] \in Valid /\ pc[t] = "owned" /\ file' = temp[t]
  BY DEF IInv, JobInv, JobOK, Saving, Rename
<1>1. TypeOK' /\ FileWhole'
  BY <1>0 DEF IInv, TypeOK, FileWhole, Rename, Return, Begin, Goto
<1>2. JobOK(t)'
  BY DEF IInv, TypeOK, JobInv, JobOK, Reloading, Updating, Opening, Recovering,
     OpeningAlone, Saving, LockInv, File, ContentBar, IsOpen, Memory, Renamed,
     Rename, Return, Begin, Goto
<1>3. ASSUME NEW u \in Task, u # t
      PROVE  JobOK(u)'
  BY <1>3 DEF IInv, TypeOK, JobInv, JobOK, Reloading, Updating, Opening,
     Recovering, OpeningAlone, Saving, LockInv, IsOpen, Memory, Renamed,
     Rename, Return, Begin, Goto
<1>4. LockInv'
  BY DEF IInv, TypeOK, LockInv, JobInv, JobOK, Reloading, Updating, Opening,
     Recovering, OpeningAlone, Saving, Rename, Return, Begin, Goto
<1>5. QED
  BY <1>1, <1>2, <1>3, <1>4 DEF IInv, JobInv

LEMMA AssignInv ==
  ASSUME IInv, NEW t \in Task, Assign(t)
  PROVE  IInv'
<1> USE StoreAssumption, ReplacesValid
<1>1. TypeOK' /\ FileWhole'
  BY DEF IInv, TypeOK, FileWhole, JobInv, JobOK, Reloading, Updating, Opening,
     Recovering, OpeningAlone, Saving, File, ContentBar, IsOpen, Memory,
     Renamed, Assign, Remember, Release, Return, Begin, Goto
<1>2. JobOK(t)'
  BY DEF IInv, TypeOK, JobInv, JobOK, Reloading, Updating, Opening, Recovering,
     OpeningAlone, Saving, LockInv, File, ContentBar, IsOpen, Memory, Renamed,
     Assign, Remember, Release, Return, Begin, Goto
<1>3. ASSUME NEW u \in Task, u # t
      PROVE  JobOK(u)'
  BY <1>3 DEF IInv, TypeOK, JobInv, JobOK, Reloading, Updating, Opening,
     Recovering, OpeningAlone, Saving, LockInv, IsOpen, Memory, Renamed,
     Assign, Remember, Release, Return, Begin, Goto
<1>4. LockInv'
  BY DEF IInv, TypeOK, LockInv, JobInv, JobOK, Reloading, Updating, Opening,
     Recovering, OpeningAlone, Saving, Assign, Remember, Release, Return,
     Begin, Goto
<1>5. QED
  BY <1>1, <1>2, <1>3, <1>4 DEF IInv, JobInv

LEMMA SaveFailsInv ==
  ASSUME IInv, NEW t \in Task, SaveFails(t)
  PROVE  IInv'
<1> USE StoreAssumption, ReplacesValid
<1>1. TypeOK' /\ FileWhole'
  BY DEF IInv, TypeOK, FileWhole, JobInv, JobOK, Reloading, Updating, Opening,
     Recovering, OpeningAlone, Saving, File, ContentBar, IsOpen, Memory,
     Renamed, SaveFails, Release, Return, Begin, Goto
<1>2. JobOK(t)'
  BY DEF IInv, TypeOK, JobInv, JobOK, Reloading, Updating, Opening, Recovering,
     OpeningAlone, Saving, LockInv, File, ContentBar, IsOpen, Memory, Renamed,
     SaveFails, Release, Return, Begin, Goto
<1>3. ASSUME NEW u \in Task, u # t
      PROVE  JobOK(u)'
  BY <1>3 DEF IInv, TypeOK, JobInv, JobOK, Reloading, Updating, Opening,
     Recovering, OpeningAlone, Saving, LockInv, IsOpen, Memory, Renamed,
     SaveFails, Release, Return, Begin, Goto
<1>4. LockInv'
  BY DEF IInv, TypeOK, LockInv, JobInv, JobOK, Reloading, Updating, Opening,
     Recovering, OpeningAlone, Saving, SaveFails, Release, Return, Begin, Goto
<1>5. QED
  BY <1>1, <1>2, <1>3, <1>4 DEF IInv, JobInv

LEMMA ExitInv ==
  ASSUME IInv, NEW p \in Process, Exit(p)
  PROVE  IInv'
<1> USE StoreAssumption
<1>1. TypeOK' /\ FileWhole'
  BY DEF IInv, TypeOK, FileWhole, Exit
<1>2. ASSUME NEW u \in Task
      PROVE  JobOK(u)'
  BY <1>2 DEF IInv, TypeOK, JobInv, JobOK, Reloading, Updating, Opening,
     Recovering, OpeningAlone, Saving, IsOpen, Memory, Renamed, Exit
<1>3. LockInv'
  BY DEF IInv, TypeOK, LockInv, Exit
<1>4. QED
  BY <1>1, <1>2, <1>3 DEF IInv, JobInv

(* Every step keeps the invariant. *)
LEMMA StepInv == IInv /\ [Next]_vars => IInv'
<1> SUFFICES ASSUME IInv, [Next]_vars PROVE IInv'
  OBVIOUS
<1>1. ASSUME NEW t \in Task, TaskStep(t)
      PROVE  IInv'
  BY <1>1, SnapshotInv, ReloadReadInv, ReloadPublishInv, UpdateStartInv,
     OpenInv, OpenSavingInv, RecoverStartInv, CreateTempInv, WriteTempInv,
     PreserveOwnerInv, RenameInv, AssignInv, SaveFailsInv DEF TaskStep, Save
<1>2. CASE UNCHANGED vars
  BY <1>2 DEF vars, IInv, TypeOK, FileWhole, JobInv, JobOK, LockInv, Reloading,
     Updating, Opening, Recovering, OpeningAlone, Saving, IsOpen, Memory,
     Renamed, Atomic!Replaces, Atomic!Initial
<1>3. QED
  BY <1>1, <1>2, ExitInv DEF Next

(* Every variable keeps its type, and agent.json is never torn and never   *)
(* lost to another user (FileWhole): saveState.                            *)
THEOREM StoreInvariant == Spec => []IInv
  BY InitInv, StepInv, PTL DEF Spec

THEOREM FileAlwaysWhole == Spec => []FileWhole
<1>1. IInv => FileWhole
  BY DEF IInv
<1>2. QED
  BY <1>1, StoreInvariant, PTL

-----------------------------------------------------------------------------
(* The memory that the rest of the agent sees. *)

LEMMA OneRenamed ==
  ASSUME IInv, NEW t \in Task, Renamed(t),
         NEW u \in Task, ProcessOf[u] = ProcessOf[t], u # t
  PROVE  ~Renamed(u)
  BY StoreAssumption DEF IInv, TypeOK, JobInv, JobOK, Updating, Recovering,
     OpeningAlone, Saving, Renamed

LEMMA BarRenamed ==
  ASSUME IInv, NEW t \in Task, Renamed(t)
  PROVE  MemoryBar[ProcessOf[t]] = next[t]
<1>1. RenamedIn(ProcessOf[t]) = {t}
  BY OneRenamed DEF RenamedIn
<1>2. QED
  BY <1>1, StoreAssumption DEF MemoryBar

LEMMA BarElse ==
  ASSUME NEW p \in Process, \A t \in Task : ProcessOf[t] = p => ~Renamed(t)
  PROVE  MemoryBar[p] = mem[p]
  BY DEF MemoryBar, RenamedIn

LEMMA BarElseNext ==
  ASSUME NEW p \in Process, \A t \in Task : ProcessOf[t] = p => ~Renamed(t)'
  PROVE  MemoryBar'[p] = mem'[p]
  BY DEF MemoryBar, RenamedIn

(* A step of t that is no part of a rename, in a process of which it does  *)
(* not change the memory, is not seen.                                     *)
LEMMA BarKept ==
  ASSUME NEW t \in Task, mem' = mem,
         ~Renamed(t), ~Renamed(t)',
         \A u \in Task : u # t => pc'[u] = pc[u] /\ next'[u] = next[u]
  PROVE  MemoryBar' = MemoryBar
<1>1. ASSUME NEW p \in Process
      PROVE  RenamedIn(p)' = RenamedIn(p) /\ t \notin RenamedIn(p)
  BY DEF RenamedIn, Renamed
<1>2. ASSUME NEW p \in Process, RenamedIn(p) # {}
      PROVE  next'[CHOOSE u \in RenamedIn(p) : TRUE] = next[CHOOSE u \in RenamedIn(p) : TRUE]
  <2>1. (CHOOSE u \in RenamedIn(p) : TRUE) \in RenamedIn(p)
    BY <1>2
  <2>2. QED
    BY <2>1, <1>1 DEF RenamedIn
<1>3. QED
  BY <1>1, <1>2 DEF MemoryBar

(* A step of t that changes the memory of its process as seen from outside *)
(* to s, and no other.                                                     *)
LEMMA BarChanged ==
  ASSUME NEW t \in Task, NEW s,
         MemoryBar'[ProcessOf[t]] = s,
         \A p \in Process : p # ProcessOf[t] => mem'[p] = mem[p],
         \A u \in Task : ProcessOf[u] # ProcessOf[t] => pc'[u] = pc[u] /\ next'[u] = next[u]
  PROVE  MemoryBar' = [MemoryBar EXCEPT ![ProcessOf[t]] = s]
<1>1. ASSUME NEW p \in Process, p # ProcessOf[t]
      PROVE  RenamedIn(p)' = RenamedIn(p)
  BY <1>1 DEF RenamedIn, Renamed
<1>2. ASSUME NEW p \in Process, p # ProcessOf[t], RenamedIn(p) # {}
      PROVE  next'[CHOOSE u \in RenamedIn(p) : TRUE] = next[CHOOSE u \in RenamedIn(p) : TRUE]
  <2>1. (CHOOSE u \in RenamedIn(p) : TRUE) \in RenamedIn(p)
    BY <1>2
  <2>2. QED
    BY <2>1, <1>2 DEF RenamedIn
<1>3. ASSUME NEW p \in Process, p # ProcessOf[t]
      PROVE  MemoryBar'[p] = MemoryBar[p]
  BY <1>1, <1>2, <1>3 DEF MemoryBar
<1>4. MemoryBar = [p \in Process |-> MemoryBar[p]] /\ MemoryBar' = [p \in Process |-> MemoryBar'[p]]
  BY DEF MemoryBar
<1>5. QED
  BY <1>3, <1>4

-----------------------------------------------------------------------------
(* The steps of Store as steps of AtomicStore. *)

LEMMA InitAtomic == Init => Atomic!Init
  BY StoreAssumption DEF Init, Atomic!Init, Atomic!Content, ContentBar,
     MemoryBar, RenamedIn, Renamed

(* Steps the rest of the agent cannot see. *)
LEMMA QuietStep ==
  ASSUME IInv, NEW t \in Task,
         CreateTemp(t) \/ WriteTemp(t) \/ PreserveOwner(t) \/ UpdateStart(t)
  PROVE  UNCHANGED Atomic!vars
<1>1. /\ mem' = mem /\ file' = file /\ seen' = seen /\ read' = read
      /\ ~Renamed(t) /\ ~Renamed(t)'
      /\ \A u \in Task : u # t => pc'[u] = pc[u] /\ next'[u] = next[u]
  BY DEF IInv, TypeOK, CreateTemp, WriteTemp, PreserveOwner, UpdateStart, Idle,
     Renamed, Begin, Goto
<1>2. MemoryBar' = MemoryBar
  BY <1>1, BarKept
<1>3. QED
  BY <1>1, <1>2 DEF Atomic!vars, ContentBar

LEMMA SnapshotAtomic ==
  ASSUME IInv, NEW t \in Task, Snapshot(t)
  PROVE  Atomic!Snapshot(t)
<1>1. MemoryBar[ProcessOf[t]] = mem[ProcessOf[t]]
  <2>1. ProcessOf[t] \in Process
    BY StoreAssumption
  <2>2. ASSUME NEW u \in Task, ProcessOf[u] = ProcessOf[t]
        PROVE  ~Renamed(u)
    BY <2>2, StoreAssumption DEF IInv, TypeOK, JobInv, JobOK, Updating,
       Opening, Recovering, OpeningAlone, Saving, Snapshot, Idle, Unlocked,
       Renamed, IsOpen, Memory
  <2>3. QED
    BY <2>1, <2>2, BarElse
<1>2. MemoryBar' = MemoryBar
  BY DEF Snapshot, MemoryBar, RenamedIn, Renamed
<1>3. QED
  BY <1>1, <1>2 DEF Snapshot, Atomic!Snapshot, Atomic!IsOpen, IsOpen, Memory,
     ContentBar

LEMMA ReadAtomic ==
  ASSUME IInv, NEW t \in Task, ReloadRead(t) \/ OpenSaving(t) \/ RecoverStart(t)
  PROVE  Atomic!ReadFile(t)
<1>1. /\ mem' = mem /\ file' = file /\ seen' = seen
      /\ read' = [read EXCEPT ![t] = ContentBar]
      /\ ~Renamed(t) /\ ~Renamed(t)'
      /\ \A u \in Task : u # t => pc'[u] = pc[u] /\ next'[u] = next[u]
  BY DEF IInv, TypeOK, ReloadRead, OpenSaving, RecoverStart, ReadFile, Idle,
     Alone, Renamed, Begin, Goto
<1>2. MemoryBar' = MemoryBar
  BY <1>1, BarKept
<1>3. QED
  BY <1>1, <1>2 DEF Atomic!ReadFile, ContentBar

LEMMA SaveFailsAtomic ==
  ASSUME IInv, NEW t \in Task, SaveFails(t)
  PROVE  Atomic!Forget(t)
<1>1. /\ mem' = mem /\ file' = file /\ seen' = seen
      /\ read' = [read EXCEPT ![t] = None]
      /\ ~Renamed(t) /\ ~Renamed(t)'
      /\ \A u \in Task : u # t => pc'[u] = pc[u] /\ next'[u] = next[u]
  BY DEF IInv, TypeOK, SaveFails, Return, Renamed, Begin, Goto
<1>2. MemoryBar' = MemoryBar
  BY <1>1, BarKept
<1>3. QED
  BY <1>1, <1>2 DEF Atomic!Forget, Atomic!Forgets, ContentBar

(* A process whose store is being changed at once has no task between a    *)
(* rename and its assignment.                                              *)
LEMMA NoneRenamed ==
  ASSUME IInv, NEW t \in Task,
         ReloadPublish(t) \/ Open(t),
         NEW u \in Task, ProcessOf[u] = ProcessOf[t]
  PROVE  ~Renamed(u) /\ ~Renamed(u)'
  BY StoreAssumption DEF IInv, TypeOK, JobInv, JobOK, Reloading, Updating,
     Opening, Recovering, OpeningAlone, Saving, ReloadPublish, Open, Alone,
     Idle, Unlocked, Renamed, IsOpen, Memory, Return, Begin, Goto

LEMMA PublishAtomic ==
  ASSUME IInv, NEW t \in Task, ReloadPublish(t)
  PROVE  Atomic!Published(t)
<1>1. ProcessOf[t] \in Process
  BY StoreAssumption
<1>2. /\ MemoryBar[ProcessOf[t]] = mem[ProcessOf[t]]
      /\ MemoryBar'[ProcessOf[t]] = mem'[ProcessOf[t]]
  BY <1>1, NoneRenamed, BarElse, BarElseNext
<1>3. /\ mem'[ProcessOf[t]] = Completed[read[t]] /\ read[t] \in Valid /\ IsOpen(t)
      /\ \A p \in Process : p # ProcessOf[t] => mem'[p] = mem[p]
      /\ \A u \in Task : u # t => pc'[u] = pc[u] /\ next'[u] = next[u]
      /\ file' = file /\ seen' = seen /\ read' = [read EXCEPT ![t] = None]
  BY <1>1 DEF IInv, TypeOK, JobInv, JobOK, Reloading, ReloadPublish, Remember,
     Return, Begin, Goto
<1>4. MemoryBar' = [MemoryBar EXCEPT ![ProcessOf[t]] = Completed[read[t]]]
  BY <1>2, <1>3, BarChanged
<1>5. QED
  BY <1>2, <1>3, <1>4 DEF Atomic!Published, Atomic!IsOpen, Atomic!Forgets,
     ContentBar, IsOpen, Memory

LEMMA OpenAtomic ==
  ASSUME IInv, NEW t \in Task, Open(t)
  PROVE  Atomic!Opened(t)
<1>1. ProcessOf[t] \in Process
  BY StoreAssumption
<1>2. /\ MemoryBar[ProcessOf[t]] = mem[ProcessOf[t]]
      /\ MemoryBar'[ProcessOf[t]] = mem'[ProcessOf[t]]
  BY <1>1, NoneRenamed, BarElse, BarElseNext
<1>3. /\ mem'[ProcessOf[t]] = ContentBar /\ ContentBar \in Valid /\ Completed[ContentBar] = ContentBar /\ ~IsOpen(t)
      /\ \A p \in Process : p # ProcessOf[t] => mem'[p] = mem[p]
      /\ pc' = pc /\ next' = next /\ file' = file /\ seen' = seen /\ read' = read
  BY <1>1 DEF IInv, TypeOK, Open, Remember
<1>4. MemoryBar' = [MemoryBar EXCEPT ![ProcessOf[t]] = ContentBar]
  BY <1>2, <1>3, BarChanged
<1>5. QED
  BY <1>2, <1>3, <1>4 DEF Atomic!Opened, Atomic!IsOpen, ContentBar, IsOpen,
     Memory

(* A task that is about to rename, or has renamed, keeps the others of its *)
(* process from doing so.                                                  *)
LEMMA OthersNotRenamed ==
  ASSUME IInv, NEW t \in Task, pc[t] \in {"owned", "renamed"}, job[t] # "recover",
         NEW u \in Task, ProcessOf[u] = ProcessOf[t], u # t
  PROVE  ~Renamed(u)
  BY StoreAssumption DEF IInv, TypeOK, JobInv, JobOK, Updating, Opening,
     Recovering, OpeningAlone, Saving, Renamed

LEMMA RecoverAlone ==
  ASSUME IInv, NEW t \in Task, job[t] = "recover",
         NEW u \in Task, ProcessOf[u] = ProcessOf[t]
  PROVE  ~Renamed(u)
  BY StoreAssumption DEF IInv, TypeOK, JobInv, JobOK, Recovering, OpeningAlone,
     Saving, Renamed

(* The rename of an Update or an Open is its save. *)
LEMMA RenameAtomic ==
  ASSUME IInv, NEW t \in Task, Rename(t), job[t] # "recover"
  PROVE  Atomic!Updated(t) \/ Atomic!OpenedAnew(t)
<1>1. ProcessOf[t] \in Process
  BY StoreAssumption
<1>2. /\ pc[t] = "owned" /\ pc' = [pc EXCEPT ![t] = "renamed"]
      /\ mem' = mem /\ seen' = seen /\ read' = read /\ next' = next
      /\ file' = temp[t] /\ temp[t] \in File /\ temp[t].value = next[t]
  BY DEF IInv, TypeOK, JobInv, JobOK, Saving, Rename, Goto
<1>3. MemoryBar[ProcessOf[t]] = mem[ProcessOf[t]]
  BY <1>1, <1>2, OthersNotRenamed, BarElse DEF Renamed
<1>4. MemoryBar'[ProcessOf[t]] = next[t]
  <2>1. RenamedIn(ProcessOf[t])' = {t}
    BY <1>2, OthersNotRenamed DEF RenamedIn, Renamed, IInv, TypeOK
  <2>2. QED
    BY <2>1, <1>1, <1>2 DEF MemoryBar
<1>5. MemoryBar' = [MemoryBar EXCEPT ![ProcessOf[t]] = next[t]]
  BY <1>2, <1>4, BarChanged DEF IInv, TypeOK
<1>6. ContentBar' = next[t]
  BY <1>2, StoreAssumption DEF ContentBar
<1>7. Atomic!Replaced(t, next[t])
  BY <1>2, <1>5, <1>6 DEF Atomic!Replaced
<1>8. CASE job[t] = "update"
  <2>1. IsOpen(t) /\ next[t] \in Atomic!Replaces(mem[ProcessOf[t]])
    BY <1>2, <1>8 DEF IInv, JobInv, JobOK, Updating, Renamed, Memory
  <2>2. QED
    BY <2>1, <1>3, <1>7 DEF Atomic!Updated, Atomic!IsOpen, IsOpen, Memory
<1>9. CASE job[t] = "open"
  <2>1. /\ ~IsOpen(t) /\ read[t] \in Valid \cup {None}
        /\ next[t] \in Atomic!Initial(read[t])
    BY <1>2, <1>9 DEF IInv, JobInv, JobOK, Opening, Renamed
  <2>2. QED
    BY <2>1, <1>3, <1>7 DEF Atomic!OpenedAnew, Atomic!IsOpen, IsOpen, Memory
<1>10. QED
  BY <1>2, <1>8, <1>9 DEF IInv, TypeOK, JobInv, JobOK, Saving

(* The rename of a RecoverFile is all the others see of it. *)
LEMMA RecoverAtomic ==
  ASSUME IInv, NEW t \in Task, Rename(t), job[t] = "recover"
  PROVE  Atomic!Recovered(t)
<1>1. ProcessOf[t] \in Process
  BY StoreAssumption
<1>2. /\ ~Renamed(t) /\ ~Renamed(t)'
      /\ \A u \in Task : u # t => pc'[u] = pc[u] /\ next'[u] = next[u]
      /\ mem' = mem /\ seen' = seen /\ read' = [read EXCEPT ![t] = None]
      /\ file' = temp[t] /\ temp[t] \in File /\ temp[t].value = next[t]
  BY DEF IInv, TypeOK, JobInv, JobOK, Saving, Rename, Return, Begin, Goto,
     Renamed
<1>3. MemoryBar' = MemoryBar
  BY <1>2, BarKept
<1>4. MemoryBar[ProcessOf[t]] = mem[ProcessOf[t]]
  BY <1>1, RecoverAlone, BarElse
<1>5. ContentBar' = next[t]
  BY <1>2, StoreAssumption DEF ContentBar
<1>6. ~IsOpen(t) /\ next[t] \in First \cup Atomic!Replaces(read[t])
  BY DEF IInv, JobInv, JobOK, Recovering
<1>7. QED
  BY <1>2, <1>3, <1>4, <1>5, <1>6 DEF Atomic!Recovered, Atomic!IsOpen,
     Atomic!Forgets, IsOpen, Memory

(* The assignment to the memory shows nothing new. *)
LEMMA AssignAtomic ==
  ASSUME IInv, NEW t \in Task, Assign(t)
  PROVE  Atomic!Forget(t)
<1>1. ProcessOf[t] \in Process
  BY StoreAssumption
<1>2. /\ Renamed(t) /\ job[t] # "recover"
      /\ pc' = [pc EXCEPT ![t] = "idle"] /\ next' = [next EXCEPT ![t] = None]
      /\ mem' = [mem EXCEPT ![ProcessOf[t]] = next[t]]
      /\ file' = file /\ seen' = seen /\ read' = [read EXCEPT ![t] = None]
  BY DEF IInv, JobInv, JobOK, Recovering, Assign, Remember, Return, Begin, Goto
<1>3. MemoryBar[ProcessOf[t]] = next[t]
  BY <1>2, BarRenamed
<1>4. \A u \in Task : ProcessOf[u] = ProcessOf[t] => ~Renamed(u)'
  BY <1>2, OneRenamed DEF Renamed, IInv, TypeOK
<1>5. MemoryBar'[ProcessOf[t]] = next[t]
  BY <1>1, <1>2, <1>4, BarElseNext DEF IInv, TypeOK
<1>6. MemoryBar' = [MemoryBar EXCEPT ![ProcessOf[t]] = next[t]]
  BY <1>2, <1>5, BarChanged DEF IInv, TypeOK
<1>7. MemoryBar' = MemoryBar
  BY <1>3, <1>6 DEF MemoryBar
<1>8. QED
  BY <1>2, <1>7 DEF Atomic!Forget, Atomic!Forgets, ContentBar

LEMMA ExitAtomic ==
  ASSUME IInv, NEW p \in Process, Exit(p)
  PROVE  Atomic!Exit(p)
<1>1. MemoryBar'[p] = None
  BY BarElseNext DEF Exit, IInv, TypeOK, Renamed
<1>2. ASSUME NEW q \in Process, q # p
      PROVE  MemoryBar'[q] = MemoryBar[q]
  <2>1. /\ RenamedIn(q)' = RenamedIn(q) /\ mem'[q] = mem[q]
        /\ \A u \in RenamedIn(q) : next'[u] = next[u]
    BY <1>2 DEF Exit, RenamedIn, Renamed, IInv, TypeOK
  <2>2. CASE RenamedIn(q) = {}
    BY <2>1, <2>2 DEF MemoryBar
  <2>3. CASE RenamedIn(q) # {}
    <3>1. (CHOOSE u \in RenamedIn(q) : TRUE) \in RenamedIn(q)
      BY <2>3
    <3>2. QED
      BY <2>1, <2>3, <3>1 DEF MemoryBar
  <2>4. QED
    BY <2>2, <2>3
<1>3. MemoryBar' = [MemoryBar EXCEPT ![p] = None]
  <2>1. /\ MemoryBar = [q \in Process |-> MemoryBar[q]]
        /\ MemoryBar' = [q \in Process |-> MemoryBar'[q]]
    BY DEF MemoryBar
  <2>2. QED
    BY <2>1, <1>1, <1>2
<1>4. QED
  BY <1>3 DEF Exit, Atomic!Exit, ContentBar

LEMMA StepAtomic == IInv /\ [Next]_vars => [Atomic!Next]_(Atomic!vars)
<1> SUFFICES ASSUME IInv, [Next]_vars PROVE [Atomic!Next]_(Atomic!vars)
  OBVIOUS
<1>1. ASSUME NEW t \in Task, TaskStep(t)
      PROVE  [Atomic!Next]_(Atomic!vars)
  <2>1. CASE Snapshot(t)
    BY <2>1, SnapshotAtomic DEF Atomic!Next
  <2>2. CASE ReloadRead(t) \/ OpenSaving(t) \/ RecoverStart(t)
    BY <2>2, ReadAtomic DEF Atomic!Next
  <2>3. CASE ReloadPublish(t)
    BY <2>3, PublishAtomic DEF Atomic!Next
  <2>4. CASE Open(t)
    BY <2>4, OpenAtomic DEF Atomic!Next
  <2>5. CASE UpdateStart(t) \/ CreateTemp(t) \/ WriteTemp(t) \/ PreserveOwner(t)
    BY <2>5, QuietStep
  <2>6. CASE Rename(t)
    BY <2>6, RenameAtomic, RecoverAtomic DEF Atomic!Next
  <2>7. CASE Assign(t)
    BY <2>7, AssignAtomic DEF Atomic!Next
  <2>8. CASE SaveFails(t)
    BY <2>8, SaveFailsAtomic DEF Atomic!Next
  <2>9. QED
    BY <1>1, <2>1, <2>2, <2>3, <2>4, <2>5, <2>6, <2>7, <2>8 DEF TaskStep, Save
<1>2. ASSUME NEW p \in Process, Exit(p)
      PROVE  [Atomic!Next]_(Atomic!vars)
  BY <1>2, ExitAtomic DEF Atomic!Next
<1>3. CASE UNCHANGED vars
  BY <1>3 DEF vars, Atomic!vars, ContentBar, MemoryBar, RenamedIn, Renamed
<1>4. QED
  BY <1>1, <1>2, <1>3 DEF Next

(* state.go implements the atomic store the other modules are written for: *)
(* Open, Update, Reset, Reload, Snapshot and RecoverFile with all steps of *)
(* saveState, whatever fails and whichever process dies.                   *)
THEOREM StoreIsAtomic == Spec => ImplementsAtomicStore
  BY InitAtomic, StepAtomic, StoreInvariant, PTL DEF Spec,
     ImplementsAtomicStore, Atomic!Spec

=============================================================================
