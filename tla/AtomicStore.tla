----------------------------- MODULE AtomicStore ----------------------------
(***************************************************************************)
(* What the rest of the agent relies on when it uses a state.Store: an     *)
(* Update replaces the file and the memory of its process in one step, or  *)
(* nothing at all; a Snapshot is the memory; a Reload publishes the file   *)
(* it has read some time before.  AgentState and the modules above it are  *)
(* written in these steps, and Store is shown to implement them.           *)
(***************************************************************************)
CONSTANTS
  Process,    (* the OS processes that open agent.json                      *)
  Task,       (* the goroutines and CLI mains that use a Store              *)
  ProcessOf,  (* the process each task runs in                              *)
  Valid,      (* the states Open and Reload accept                          *)
  Damaged,    (* the contents they refuse                                   *)
  First,      (* the first-run states                                       *)
  Change,     (* the pairs of a content and the state an update makes of it *)
  Completed,  (* each state with the defaults it may lack filled in         *)
  None        (* no file; no open store                                     *)

VARIABLES
  file,  (* what agent.json holds                                           *)
  mem,   (* Store.data of each process that has opened the file             *)
  seen,  (* the last snapshot a task of each process was given              *)
  read   (* what each task has read from the file and not yet used          *)

vars == <<file, mem, seen, read>>

Content == Valid \cup Damaged

(* The states an update may make of v, and those Open may save for a       *)
(* missing or incomplete file.                                             *)
Replaces(v) == {w \in Valid : <<v, w>> \in Change}
Initial(v) == IF v = None THEN First ELSE {Completed[v]}

Init ==
  /\ file \in Content \cup {None}
  /\ mem = [p \in Process |-> None]
  /\ seen = [p \in Process |-> None]
  /\ read = [t \in Task |-> None]

IsOpen(t) == mem[ProcessOf[t]] # None

Snapshot(t) ==
  /\ IsOpen(t)
  /\ seen' = [seen EXCEPT ![ProcessOf[t]] = mem[ProcessOf[t]]]
  /\ UNCHANGED <<file, mem, read>>

ReadFile(t) ==
  /\ read' = [read EXCEPT ![t] = file]
  /\ UNCHANGED <<file, mem, seen>>

Forgets(t) == read' = [read EXCEPT ![t] = None]

Forget(t) == Forgets(t) /\ UNCHANGED <<file, mem, seen>>

(* Open takes a complete file as it is; Reload publishes what it has read. *)
Opened(t) ==
  /\ ~IsOpen(t)
  /\ file \in Valid /\ Completed[file] = file
  /\ mem' = [mem EXCEPT ![ProcessOf[t]] = file]
  /\ UNCHANGED <<file, seen, read>>

Published(t) ==
  /\ IsOpen(t)
  /\ read[t] \in Valid
  /\ mem' = [mem EXCEPT ![ProcessOf[t]] = Completed[read[t]]]
  /\ Forgets(t)
  /\ UNCHANGED <<file, seen>>

(* The state w replaces the file, and the memory of an open store with it. *)
Replaced(t, w) ==
  /\ file' = w
  /\ mem' = [mem EXCEPT ![ProcessOf[t]] = w]
  /\ UNCHANGED <<seen, read>>

Updated(t) == IsOpen(t) /\ \E w \in Replaces(mem[ProcessOf[t]]) : Replaced(t, w)

OpenedAnew(t) ==
  /\ ~IsOpen(t)
  /\ read[t] \in Valid \cup {None}
  /\ \E w \in Initial(read[t]) : Replaced(t, w)

Recovered(t) ==
  /\ ~IsOpen(t)
  /\ \E w \in First \cup Replaces(read[t]) : file' = w
  /\ Forgets(t)
  /\ UNCHANGED <<mem, seen>>

Exit(p) ==
  /\ mem' = [mem EXCEPT ![p] = None]
  /\ read' = [t \in Task |-> IF ProcessOf[t] = p THEN None ELSE read[t]]
  /\ UNCHANGED <<file, seen>>

Next ==
  \/ \E t \in Task : \/ Snapshot(t) \/ ReadFile(t) \/ Forget(t) \/ Opened(t)
                     \/ Published(t) \/ Updated(t) \/ OpenedAnew(t) \/ Recovered(t)
  \/ \E p \in Process : Exit(p)

Spec == Init /\ [][Next]_vars

=============================================================================
