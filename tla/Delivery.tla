------------------------------ MODULE Delivery ------------------------------
(***************************************************************************)
(* Collection and delivery of telemetry (internal/telemetry): Send, which  *)
(* the delivery loop calls once per interval and Poll calls after an       *)
(* approval.  Send collects one batch, appends it to the durable queue and *)
(* then posts the head of the queue until the queue is empty, a delivery   *)
(* fails or the deadline of an earlier failure has not passed.             *)
(*                                                                         *)
(* Time is a count of collections: a batch is stamped with the value of    *)
(* clock, and horizon is the last stamp older than 24 hours.               *)
(***************************************************************************)
EXTENDS Watchpost, SequencesExt

CONSTANTS
  MaxQueue,     (* batches the queue holds at most (256)                   *)
  MaxBytes,     (* bytes the queue holds at most (8 MiB), in samples       *)
  Widths,       (* how many samples a batch may have                       *)
  MaxClock,     (* bound: collections ever appended to the queue           *)
  MaxDropped    (* bound: the loss counter                                 *)

ASSUME DeliveryAssumption ==
  /\ MaxQueue \in Nat
  /\ MaxBytes \in Nat
  /\ Widths \subseteq Nat \ {0}
  /\ MaxClock \in Nat
  /\ MaxDropped \in Nat

VARIABLES
  clock,     (* the stamp of the last batch collected                      *)
  horizon    (* every batch stamped up to here is older than 24 hours      *)

timeVars == <<clock, horizon>>

-----------------------------------------------------------------------------
(* The Update callbacks of enqueue and flush. *)

FirstSequence(s) == IF s.nextSequence < 1 THEN 1 ELSE s.nextSequence

(* The batch enqueue builds: its post is the one of the snapshot Send took *)
(* before it collected, its sequences are those of the state it updates.   *)
NewBatch(s, post, width) ==
  [ id |-> clock + 1, post |-> post,
    first |-> FirstSequence(s), last |-> FirstSequence(s) + width - 1 ]

Size(b) == b.last - b.first + 1

Bytes(q) ==
  LET sum[k \in 0 .. Len(q)] == IF k = 0 THEN 0 ELSE sum[k - 1] + Size(q[k])
  IN sum[Len(q)]

QueueFull(s) == Len(s.queue) >= MaxQueue

(* Mistake: the size of the new batch is left out. *)
OverBytesBefore(s, b) == Bytes(s.queue) > MaxBytes

OverBytes(s, b) == Bytes(s.queue) + Size(b) > MaxBytes

(* Mistake: the sequence does not move on. *)
EnqueuedInPlace(s, b) == [s EXCEPT !.queue = Append(@, b)]

Enqueued(s, b) ==
  [s EXCEPT !.queue = Append(@, b), !.nextSequence = b.last + 1]

(* The head goes by its position, whatever batch it is by now. *)
Popped(s) == IF s.queue = <<>> THEN s ELSE [s EXCEPT !.queue = Tail(@)]

(* Mistake: the loss is not counted. *)
StaleForgotten(s) == Popped(s)

StaleDropped(s) == [Popped(s) EXCEPT !.dropped = @ + 1]

(* 202 for the credential of the snapshot: the overlap, if any, is over.   *)
DeliveredWithCurrent(s) ==
  [Popped(s) EXCEPT !.backoff = FALSE, !.previous = None]

(* 202 for the previous credential of the snapshot: it is restored.        *)
DeliveredWithPrevious(s) ==
  [Popped(s) EXCEPT !.backoff = FALSE,
                    !.credential = s.previous, !.previous = None]

(* Mistakes: a failure ends the overlap; a failed batch is not retried. *)
FailedOverlap(s) == [s EXCEPT !.backoff = TRUE, !.previous = None]
FailedForGood(s) == [Popped(s) EXCEPT !.backoff = TRUE]

Failed(s) == [s EXCEPT !.backoff = TRUE]

-----------------------------------------------------------------------------
(* Send and enqueue. *)

(* Send takes its snapshot and starts collecting, unless not paired.       *)
SendStart(t) ==
  /\ pc[t] = "start"
  /\ IF Memory(t).credential = None
       THEN Finish(t)
       ELSE /\ Goto(t, "collecting")
            /\ Keep(t, [NoSnapshot EXCEPT !.postID = Memory(t).postID])
  /\ UNCHANGED <<stateVars, serverVars, timeVars>>

(* A metric cannot be read: Send returns. *)
CollectFails(t) ==
  /\ pc[t] = "collecting"
  /\ Finish(t)
  /\ UNCHANGED <<stateVars, serverVars, timeVars>>

(* The queue is full, by batches or by bytes.  The callback counts the     *)
(* loss on its copy and returns an error, so Update keeps nothing of it,   *)
(* and Send returns before it flushes.                                     *)
EnqueueRefused(t) ==
  /\ pc[t] = "collecting"
  /\ \E width \in Widths :
       LET s == Memory(t)
       IN QueueFull(s) \/ OverBytes(s, NewBatch(s, snap[t].postID, width))
  /\ Finish(t)
  /\ UNCHANGED <<stateVars, serverVars, timeVars>>

Enqueue(t) ==
  /\ pc[t] = "collecting"
  /\ clock < MaxClock
  /\ \E width \in Widths :
       LET s == Memory(t)
           b == NewBatch(s, snap[t].postID, width)
       IN /\ ~QueueFull(s)
          /\ ~OverBytes(s, b)
          /\ Update(t, Enqueued(s, b))
  /\ clock' = clock + 1
  /\ Continue(t, "enqueued")
  /\ UNCHANGED <<serverVars, horizon>>

EnqueueSaveFails(t) ==
  /\ pc[t] = "collecting"
  /\ SaveFails
  /\ Finish(t)
  /\ UNCHANGED <<serverVars, timeVars>>

(* The bound on the exploration: after MaxClock collections a cycle goes   *)
(* on without a new batch.                                                 *)
EnqueueBeyondBound(t) ==
  /\ pc[t] = "collecting"
  /\ clock = MaxClock
  /\ ~QueueFull(Memory(t))
  /\ Continue(t, "enqueued")
  /\ UNCHANGED <<stateVars, serverVars, timeVars>>

(* The deadline of the last failure has not passed: nothing is sent.       *)
StillBackingOff(t) ==
  /\ pc[t] = "enqueued"
  /\ Memory(t).backoff
  /\ Finish(t)
  /\ UNCHANGED <<stateVars, serverVars, timeVars>>

(* Mistake: the deadline never passes. *)
BackoffForever(t) ==
  /\ pc[t] = "enqueued"
  /\ ~Memory(t).backoff
  /\ Goto(t, "flush")
  /\ UNCHANGED <<snap, stateVars, serverVars, timeVars>>

(* There is no deadline, or it has passed. *)
BackoffOver(t) ==
  /\ pc[t] = "enqueued"
  /\ Goto(t, "flush")
  /\ UNCHANGED <<snap, stateVars, serverVars, timeVars>>

-----------------------------------------------------------------------------
(* flush. *)

(* Mistake: the newest batch goes first. *)
FlushNewest(s) ==
  [NoSnapshot EXCEPT !.queue = <<Last(s.queue)>>,
                     !.credential = s.credential, !.previous = s.previous]

(* What flush keeps of its snapshot: the head and the credentials. *)
FlushView(s) ==
  [NoSnapshot EXCEPT !.queue = <<Head(s.queue)>>,
                     !.credential = s.credential, !.previous = s.previous]

InHand(t) == Head(snap[t].queue)

(* The top of the loop: a new snapshot decides about its head. *)
FlushHead(t) ==
  /\ pc[t] = "flush"
  /\ IF Memory(t).queue = <<>>
       THEN Finish(t)
       ELSE /\ Keep(t, FlushView(Memory(t)))
            /\ Goto(t, IF Head(Memory(t).queue).id <= horizon
                         THEN "stale" ELSE "posting")
  /\ UNCHANGED <<stateVars, serverVars, timeVars>>

DropStale(t) ==
  /\ pc[t] = "stale"
  /\ \/ /\ Memory(t).dropped < MaxDropped
        /\ Update(t, StaleDropped(Memory(t)))
     \/ SaveFails
  /\ Continue(t, "flush")
  /\ UNCHANGED <<serverVars, timeVars>>

(* The credential a request in flight carries. *)
Bearer(t) ==
  IF pc[t] = "posting" THEN snap[t].credential ELSE snap[t].previous

InFlight(t) == pc[t] \in {"posting", "postingPrevious"}

(* 202 reaches the agent. *)
PostAccepted(t) ==
  /\ InFlight(t)
  /\ Accepts(Bearer(t), InHand(t))
  /\ Observe(Bearer(t), InHand(t))
  /\ Continue(t, IF pc[t] = "posting" THEN "accepted" ELSE "acceptedPrevious")
  /\ UNCHANGED <<stateVars, timeVars>>

(* The batch was accepted, and the answer is lost. *)
PostAnswerLost(t) ==
  /\ InFlight(t)
  /\ Accepts(Bearer(t), InHand(t))
  /\ Observe(Bearer(t), InHand(t))
  /\ Continue(t, "failed")
  /\ UNCHANGED <<stateVars, timeVars>>

(* The request is lost, or answered 507 or by another failure. *)
PostFails(t) ==
  /\ InFlight(t)
  /\ Continue(t, "failed")
  /\ UNCHANGED <<stateVars, serverVars, timeVars>>

(* Is there a previous credential to try after the current one? *)
HasFallback(s) == s.previous # None /\ s.previous # s.credential

(* 401, 403 or 409: the previous credential is tried if there is one. *)
PostRefused(t) ==
  /\ InFlight(t)
  /\ ~Accepts(Bearer(t), InHand(t))
  /\ IF pc[t] = "posting" /\ HasFallback(snap[t])
       THEN Goto(t, "postingPrevious") /\ UNCHANGED snap
       ELSE Continue(t, "failed")
  /\ UNCHANGED <<stateVars, serverVars, timeVars>>

(* The Update that follows a 202; the loop goes on, or ends if it failed.  *)
SaveDelivered(t) ==
  /\ \/ /\ pc[t] = "accepted"
        /\ Update(t, DeliveredWithCurrent(Memory(t)))
     \/ /\ pc[t] = "acceptedPrevious"
        /\ Update(t, DeliveredWithPrevious(Memory(t)))
  /\ Continue(t, "flush")
  /\ UNCHANGED <<serverVars, timeVars>>

SaveDeliveredFails(t) ==
  /\ pc[t] \in {"accepted", "acceptedPrevious"}
  /\ SaveFails
  /\ Finish(t)
  /\ UNCHANGED <<serverVars, timeVars>>

(* markFailure, whose own save may fail unnoticed; then flush returns. *)
MarkFailure(t) ==
  /\ pc[t] = "failed"
  /\ Update(t, Failed(Memory(t))) \/ SaveFails
  /\ Finish(t)
  /\ UNCHANGED <<serverVars, timeVars>>

SendStep(t) ==
  \/ SendStart(t) \/ CollectFails(t)
  \/ EnqueueRefused(t) \/ Enqueue(t) \/ EnqueueSaveFails(t)
  \/ EnqueueBeyondBound(t)
  \/ StillBackingOff(t) \/ BackoffOver(t)
  \/ FlushHead(t) \/ DropStale(t)
  \/ PostAccepted(t) \/ PostAnswerLost(t) \/ PostFails(t) \/ PostRefused(t)
  \/ SaveDelivered(t) \/ SaveDeliveredFails(t)
  \/ MarkFailure(t)

(* The oldest batches pass the age of 24 hours. *)
DayPasses ==
  /\ horizon < clock
  /\ horizon' = horizon + 1
  /\ UNCHANGED <<taskVars, stateVars, serverVars, clock>>

=============================================================================
