------------------------------- MODULE Pairing -------------------------------
(***************************************************************************)
(* The pairing client (internal/pairing): Request, Poll, Unpair, Rotate    *)
(* and RetryPendingRevocation.  Each reads a snapshot, waits for the       *)
(* answer of an HTTP request made from it, and then updates whatever the   *)
(* state is by then.  The web handlers and the CLI commands call them      *)
(* without further guards.                                                 *)
(***************************************************************************)
EXTENDS Delivery

VARIABLE
  reply   (* the credential the answer in hand carries, per task *)

pairingFrame == <<serverVars, timeVars>>

(* The operation is over, or goes on in another step. *)
Return(t) == Finish(t) /\ reply' = [reply EXCEPT ![t] = None]

-----------------------------------------------------------------------------
(* Request: the snapshot gives only the installation id, so asking and     *)
(* storing the answer are one step.  The answer may be lost on its way or  *)
(* the save may fail; the request then exists at Watchpost alone.          *)

Requested(s, r) == [s EXCEPT !.pending = r]

RequestPairing(t) ==
  /\ \E r \in Requests :
       /\ CreateRequest(r)
       /\ Update(t, Requested(Memory(t), r)) \/ UNCHANGED stateVars
  /\ Return(t)
  /\ UNCHANGED timeVars

-----------------------------------------------------------------------------
(* Poll. *)

PollStart(t) ==
  /\ Memory(t).pending # None
  /\ Keep(t, [NoSnapshot EXCEPT !.pending = Memory(t).pending])
  /\ Goto(t, "polling")
  /\ UNCHANGED <<reply, stateVars, pairingFrame>>

(* Mistake: the state of the answer is not looked at. *)
PollAnsweredAnyway(t) ==
  LET r == snap[t].pending
  IN /\ pc[t] = "polling"
     /\ reply' = [reply EXCEPT ![t] = <<r, 1>>]
     /\ Goto(t, "approved")
     /\ UNCHANGED <<snap, stateVars, pairingFrame>>

PollAnswered(t) ==
  LET r == snap[t].pending
  IN /\ pc[t] = "polling"
     /\ <<r, 1>> \in live
     /\ reply' = [reply EXCEPT ![t] = <<r, 1>>]
     /\ Goto(t, "approved")
     /\ UNCHANGED <<snap, stateVars, pairingFrame>>

(* Not approved yet, expired, or no answer. *)
PollEnds(t) ==
  /\ pc[t] = "polling"
  /\ Return(t)
  /\ UNCHANGED <<stateVars, pairingFrame>>

(* The connection is replaced, the delivery state of the one before is     *)
(* dropped, and the first telemetry follows.                               *)
SaveApproval(t) ==
  LET r == snap[t].pending
  IN /\ pc[t] = "approved"
     /\ Update(t, Connected(Memory(t), request[r], reply[t]))
     /\ reply' = [reply EXCEPT ![t] = None]
     /\ Continue(t, "start")
     /\ UNCHANGED pairingFrame

SaveApprovalFails(t) ==
  /\ pc[t] = "approved"
  /\ SaveFails
  /\ Return(t)
  /\ UNCHANGED pairingFrame

-----------------------------------------------------------------------------
(* Unpair and RetryPendingRevocation.  The retry differs in its guard, and *)
(* in that it records nothing when the server cannot be reached.           *)

CredentialView(s) == [NoSnapshot EXCEPT !.credential = s.credential]

UnpairStart(t) ==
  /\ Memory(t).credential # None
  /\ Keep(t, CredentialView(Memory(t)))
  /\ Goto(t, "unpairing")
  /\ UNCHANGED <<reply, stateVars, pairingFrame>>

(* Mistake: retried only when there is nothing to revoke. *)
RetryNothing(s) == s.revoking /\ s.credential = None

RetryPending(s) == s.revoking /\ s.credential # None

RetryStart(t) ==
  /\ RetryPending(Memory(t))
  /\ Keep(t, CredentialView(Memory(t)))
  /\ Goto(t, "retrying")
  /\ UNCHANGED <<reply, stateVars, pairingFrame>>

Unpairing(t) == pc[t] \in {"unpairing", "retrying"}

(* 204, or 401/404 for a credential that is not live any more. *)
UnpairAnswered(t) ==
  /\ Unpairing(t)
  /\ IF snap[t].credential \in live
       THEN Revoke(snap[t].credential)
       ELSE UNCHANGED serverVars
  /\ Continue(t, "revoked")
  /\ UNCHANGED <<reply, stateVars, timeVars>>

(* Mistake: no answer counts as a revocation. *)
UnpairAssumed(t) ==
  /\ Unpairing(t)
  /\ Continue(t, "revoked")
  /\ UNCHANGED <<reply, stateVars, pairingFrame>>

(* No answer, although Watchpost may have revoked, or another status. *)
UnpairUnanswered(t) ==
  /\ Unpairing(t)
  /\ \/ snap[t].credential \in live /\ Revoke(snap[t].credential)
     \/ UNCHANGED serverVars
  /\ IF pc[t] = "unpairing"
       THEN Continue(t, "unreachable") /\ UNCHANGED reply
       ELSE Return(t)
  /\ UNCHANGED <<stateVars, timeVars>>

(* clearConnectionAudited *)
SaveCleared(t) ==
  /\ pc[t] = "revoked"
  /\ Update(t, Cleared(Memory(t))) \/ SaveFails
  /\ Return(t)
  /\ UNCHANGED pairingFrame

RevocationPending(s) == [s EXCEPT !.revoking = TRUE]

SavePending(t) ==
  /\ pc[t] = "unreachable"
  /\ Update(t, RevocationPending(Memory(t))) \/ SaveFails
  /\ Return(t)
  /\ UNCHANGED pairingFrame

-----------------------------------------------------------------------------
(* Rotate. *)

RotateStart(t) ==
  /\ Memory(t).credential # None
  /\ Keep(t, CredentialView(Memory(t)))
  /\ Goto(t, "rotating")
  /\ UNCHANGED <<reply, stateVars, pairingFrame>>

RotateAnswered(t) ==
  LET c == snap[t].credential
  IN /\ pc[t] = "rotating"
     /\ IssueReplacement(c)
     /\ reply' = [reply EXCEPT ![t] = <<c[1], issued[c[1]] + 1>>]
     /\ Continue(t, "rotated")
     /\ UNCHANGED <<stateVars, timeVars>>

(* Refused, or no answer although a replacement may have been issued. *)
RotateUnanswered(t) ==
  /\ pc[t] = "rotating"
  /\ IssueReplacement(snap[t].credential) \/ UNCHANGED serverVars
  /\ Return(t)
  /\ UNCHANGED <<stateVars, timeVars>>

Rotated(s, c) == [s EXCEPT !.previous = s.credential, !.credential = c]

SaveRotated(t) ==
  /\ pc[t] = "rotated"
  /\ Update(t, Rotated(Memory(t), reply[t])) \/ SaveFails
  /\ Return(t)
  /\ UNCHANGED pairingFrame

(* The steps that follow the start of an operation. *)
PairingStep(t) ==
  \/ PollAnswered(t) \/ PollEnds(t) \/ SaveApproval(t) \/ SaveApprovalFails(t)
  \/ UnpairAnswered(t) \/ UnpairUnanswered(t)
  \/ SaveCleared(t) \/ SavePending(t)
  \/ RotateAnswered(t) \/ RotateUnanswered(t) \/ SaveRotated(t)

=============================================================================
