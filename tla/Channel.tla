------------------------------ MODULE Channel -------------------------------
(***************************************************************************)
(* What delivery promises of the batches of one connection, without the    *)
(* store, the loop, the credentials and the network it is made of: batches *)
(* wait in the order they were collected, Watchpost receives the oldest    *)
(* one (perhaps more than once), and a batch stops waiting when it was     *)
(* received, when it was too old, which is counted, or with the            *)
(* connection.                                                             *)
(***************************************************************************)
EXTENDS Integers, SequencesExt

VARIABLES
  open,      (* whether there is a connection                              *)
  pending,   (* the batches that wait, by their ids                        *)
  received,  (* those Watchpost has                                        *)
  dropped,   (* how many were dropped for their age                        *)
  horizon    (* the last id that is too old                                *)

vars == <<open, pending, received, dropped, horizon>>

Init ==
  /\ open \in BOOLEAN
  /\ pending = <<>> /\ received = {} /\ dropped = 0 /\ horizon = 0

(* A batch never seen before joins the others. *)
Collect ==
  /\ open
  /\ pending' # <<>> /\ Front(pending') = pending
  /\ Last(pending') \notin received
  /\ \A k \in 1 .. Len(pending) : pending[k] < Last(pending')
  /\ UNCHANGED <<open, received, dropped, horizon>>

(* Watchpost takes the oldest one, whether the agent learns of it or not. *)
Receive ==
  /\ open /\ pending # <<>>
  /\ received' = received \cup {Head(pending)}
  /\ UNCHANGED <<open, pending, dropped, horizon>>

Release ==
  /\ pending # <<>> /\ Head(pending) \in received
  /\ pending' = Tail(pending)
  /\ UNCHANGED <<open, received, dropped, horizon>>

Drop ==
  /\ pending # <<>> /\ Head(pending) <= horizon
  /\ pending' = Tail(pending) /\ dropped' = dropped + 1
  /\ UNCHANGED <<open, received, horizon>>

Age ==
  /\ horizon' = horizon + 1
  /\ UNCHANGED <<open, pending, received, dropped>>

(* The connection ends, and what waits with it. *)
Close ==
  /\ open /\ open' = FALSE
  /\ pending' = <<>> /\ dropped' = 0
  /\ UNCHANGED <<received, horizon>>

Next == Collect \/ Receive \/ Release \/ Drop \/ Age \/ Close

Spec == Init /\ [][Next]_vars

=============================================================================
