------------------------------ MODULE Watchpost ------------------------------
(***************************************************************************)
(* The Watchpost server, which is not part of this repository: what the    *)
(* agent's code relies on.  An installation asks to be paired, the owner   *)
(* approves the request for one post, and that issues the first credential *)
(* of the pairing.  A later approval supersedes the authority of an        *)
(* earlier one and starts a new sequence space.  Rotation issues a         *)
(* replacement beside the old credential; the first use of the replacement *)
(* retires the old one, and a replacement nobody used may lapse.           *)
(***************************************************************************)
EXTENDS AgentState

VARIABLES
  request,   (* request r: "unused", "waiting", or the post it was approved for *)
  issued,    (* credentials issued for the pairing of request r             *)
  live,      (* the credentials that are accepted                           *)
  lastSeq,   (* the last sample sequence accepted for the pairing           *)
  received   (* the batches accepted, by BatchID                            *)

serverVars == <<request, issued, live, lastSeq, received>>

Waiting == "waiting"
Unused == "unused"

ASSUME WatchpostAssumption == Waiting \notin Posts /\ Unused \notin Posts

(* Observations are accepted from a live credential, for the post of its   *)
(* pairing, and either again (the BatchID is known) or past the last       *)
(* sequence.                                                               *)
Accepts(c, b) ==
  /\ c \in live
  /\ b.post = request[c[1]]
  /\ b.id \in received \/ b.first > lastSeq[c[1]]

Observe(c, b) ==
  /\ received' = received \cup {b.id}
  /\ lastSeq' = [lastSeq EXCEPT ![c[1]] = IF b.last > @ THEN b.last ELSE @]
  /\ live' = {d \in live : d[1] = c[1] => d[2] >= c[2]}
  /\ UNCHANGED <<request, issued>>

CreateRequest(r) ==
  /\ request[r] = Unused
  /\ \A q \in Requests : q < r => request[q] # Unused
  /\ request' = [request EXCEPT ![r] = Waiting]
  /\ UNCHANGED <<issued, live, lastSeq, received>>

(* The owner approves a request: the pairing's first credential is live,   *)
(* and no credential of another pairing is.                                *)
Approve ==
  \E r \in Requests, p \in Posts :
    /\ request[r] = Waiting
    /\ request' = [request EXCEPT ![r] = p]
    /\ issued' = [issued EXCEPT ![r] = 1]
    /\ live' = {<<r, 1>>}
    /\ UNCHANGED <<lastSeq, received>>

IssueReplacement(c) ==
  /\ c \in live
  /\ issued[c[1]] < MaxCredentials
  /\ issued' = [issued EXCEPT ![c[1]] = @ + 1]
  /\ live' = live \cup {<<c[1], issued[c[1]] + 1>>}
  /\ UNCHANGED <<request, lastSeq, received>>

Revoke(c) ==
  /\ live' = {d \in live : d[1] # c[1]}
  /\ UNCHANGED <<request, issued, lastSeq, received>>

(* The last replacement was never used and stops being accepted. *)
Lapse ==
  \E c, d \in live :
    /\ c[1] = d[1]
    /\ d[2] < c[2]
    /\ c[2] = issued[c[1]]
    /\ live' = live \ {c}
    /\ UNCHANGED <<request, issued, lastSeq, received>>

(* The owner revokes the agent's authority at Watchpost. *)
OwnerRevokes ==
  /\ live # {}
  /\ live' = {}
  /\ UNCHANGED <<request, issued, lastSeq, received>>

=============================================================================
