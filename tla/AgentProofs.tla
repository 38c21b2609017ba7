----------------------------- MODULE AgentProofs -----------------------------
(***************************************************************************)
(* Proofs about Agent, for every set of tasks and processes and every      *)
(* bound.  SequencesDisjoint is not inductive by itself: an Update builds  *)
(* the new file from a memory, a Reload builds a memory from what it read  *)
(* of the file, and an approval takes its post from the answer it waited   *)
(* for, so the invariant also says what the tasks between two steps hold.  *)
(***************************************************************************)
EXTENDS Agent, WellFoundedInduction, TLAPS

Bounded(s) == Len(s.queue) <= MaxQueue /\ Bytes(s.queue) <= MaxBytes

(* What a queue promises. *)
Whole(s) == Contiguous(s) /\ Bounded(s)

Good(s) == s \in State /\ Whole(s)

(* Every state that was ever saved is good, wherever it is now. *)
StoreInv ==
  /\ Good(disk)
  /\ DOMAIN mem = Process
  /\ mem = [p \in Process |-> mem[p]]
  /\ \A p \in Process : Good(mem[p])

(* What a task at this label may have in its snapshot. *)
Fits(label, part) ==
  /\ label \in {"reading", "refreshing"} => Whole(part)
  /\ label \in {"posting", "postingPrevious"} => part.queue # <<>>
  /\ label = "approved" => /\ part.pending \in Requests
                           /\ request[part.pending] \in Posts

TaskInv ==
  /\ pc \in [Task -> Labels]
  /\ snap \in [Task -> State]
  /\ reply \in [Task -> Credentials \cup {None}]
  /\ clock \in Nat /\ horizon \in Nat /\ crashes \in Nat
  /\ \A t \in Task : Fits(pc[t], snap[t])

ServerInv ==
  /\ request \in [Requests -> Posts \cup {Unused, Waiting}]
  /\ issued \in [Requests -> 0 .. MaxCredentials]
  /\ live \subseteq Credentials
  /\ lastSeq \in [Requests -> Nat]
  /\ received \subseteq Nat
  /\ \A c \in live : request[c[1]] \in Posts

IInv == StoreInv /\ TaskInv /\ ServerInv

-----------------------------------------------------------------------------
(* How many samples a queue holds. *)

(* Induction on the natural numbers, for a set. *)
LEMMA EveryNat ==
  ASSUME NEW S, 0 \in S, \A k \in Nat : k \in S => k + 1 \in S
  PROVE  Nat \subseteq S
<1> SUFFICES ASSUME Nat \ S # {} PROVE FALSE
  OBVIOUS
<1>1. PICK k \in Nat \ S : \A j \in Nat \ S : ~ (<<j, k>> \in OpToRel(<, Nat))
  BY NatLessThanWellFounded, WFMin
<1>2. \A j \in Nat \ S : ~ (j < k)
  BY <1>1 DEF OpToRel
<1>3. k # 0 /\ k - 1 \in Nat /\ k - 1 < k /\ (k - 1) + 1 = k
  OBVIOUS
<1>4. k - 1 \in S
  BY <1>2, <1>3
<1>5. QED
  BY <1>3, <1>4

(* The function that Bytes takes its result from. *)
Sums(sum, n, q) ==
  sum = [k \in 0 .. n |-> IF k = 0 THEN 0 ELSE sum[k - 1] + Size(q[k])]

LEMMA SumExists ==
  ASSUME NEW q, NEW n \in Nat
  PROVE  \E sum : Sums(sum, n, q)
<1> DEFINE S == {k \in Nat : \E sum : Sums(sum, k, q)}
<1>1. 0 \in S
  <2>1. Sums([k \in 0 .. 0 |-> 0], 0, q)
    BY DEF Sums
  <2>2. QED
    BY <2>1
<1>2. ASSUME NEW k \in Nat, k \in S PROVE k + 1 \in S
  <2>1. PICK sum : Sums(sum, k, q)
    BY <1>2
  <2> DEFINE more == [j \in 0 .. k + 1 |-> IF j = k + 1 THEN sum[k] + Size(q[k + 1]) ELSE sum[j]]
  <2>2. \A j \in 0 .. k + 1 :
          more[j] = IF j = 0 THEN 0 ELSE more[j - 1] + Size(q[j])
    <3> TAKE j \in 0 .. k + 1
    <3>1. CASE j = k + 1
      BY <3>1
    <3>2. CASE j # k + 1
      <4>1. j \in 0 .. k /\ sum[j] = IF j = 0 THEN 0 ELSE sum[j - 1] + Size(q[j])
        BY <2>1, <3>2 DEF Sums
      <4>2. j # 0 => j - 1 \in 0 .. k + 1 /\ j - 1 # k + 1
        BY <4>1
      <4>3. QED
        BY <3>2, <4>1, <4>2
    <3>3. QED
      BY <3>1, <3>2
  <2>3. more = [j \in 0 .. k + 1 |-> IF j = 0 THEN 0 ELSE more[j - 1] + Size(q[j])]
    BY <2>2
  <2>4. Sums(more, k + 1, q)
    BY <2>3 DEF Sums
  <2> HIDE DEF more
  <2>5. QED
    BY <2>4
<1> HIDE DEF S
<1>3. Nat \subseteq S
  BY <1>1, <1>2, EveryNat
<1>4. QED
  BY <1>3 DEF S

Sizes(q, m) == \A k \in 1 .. m : Size(q[k]) \in Int
Counts(f, m) == \A k \in 0 .. m : f[k] \in Int
Stretch(r, n, q, d) == \A k \in 1 .. n : r[k] = q[k + d]
Differ(g, n, f, d) == \A k \in 0 .. n : g[k] = f[k + d] - f[d]

(* The sum over a stretch of q is the difference of two of its sums.       *)
LEMMA SumShifts ==
  ASSUME NEW q, NEW r, NEW m \in Nat, NEW n \in Nat, NEW d \in Nat, n + d <= m,
         Stretch(r, n, q, d), Sizes(q, m),
         NEW f, Sums(f, m, q), Counts(f, m), NEW g, Sums(g, n, r)
  PROVE  Differ(g, n, f, d)
<1> USE DEF Sizes, Counts, Stretch, Differ
<1> DEFINE S == {k \in Nat : k <= n => g[k] = f[k + d] - f[d]}
<1>1. 0 \in S
  <2>1. g[0] = 0 /\ f[d] \in Int /\ 0 + d = d
    BY DEF Sums
  <2>2. QED
    BY <2>1
<1>2. ASSUME NEW k \in Nat, k \in S PROVE k + 1 \in S
  <2> SUFFICES ASSUME k + 1 <= n PROVE g[k + 1] = f[(k + 1) + d] - f[d]
    OBVIOUS
  <2>1. /\ k + 1 \in 0 .. n /\ k + 1 # 0 /\ (k + 1) - 1 = k
        /\ (k + 1) + d \in 0 .. m /\ (k + 1) + d # 0 /\ ((k + 1) + d) - 1 = k + d
        /\ k + 1 \in 1 .. n /\ (k + 1) + d \in 1 .. m
    OBVIOUS
  <2>2. g[k + 1] = g[k] + Size(r[k + 1])
    BY <2>1 DEF Sums
  <2>3. f[(k + 1) + d] = f[k + d] + Size(q[(k + 1) + d])
    BY <2>1 DEF Sums
  <2>4. r[k + 1] = q[(k + 1) + d]
    BY <2>1
  <2>5. g[k] = f[k + d] - f[d]
    BY <1>2, <2>1
  <2>6. f[d] \in Int /\ f[k + d] \in Int /\ Size(q[(k + 1) + d]) \in Int
    BY <2>1
  <2>7. QED
    BY <2>2, <2>3, <2>4, <2>5, <2>6
<1> HIDE DEF S
<1>3. Nat \subseteq S
  BY <1>1, <1>2, EveryNat
<1>4. QED
  BY <1>3 DEF S

LEMMA SumCounts ==
  ASSUME NEW q, NEW n \in Nat, \A k \in 1 .. n : Size(q[k]) \in Int, NEW f, Sums(f, n, q)
  PROVE  \A k \in 0 .. n : f[k] \in Int
<1> DEFINE S == {k \in Nat : k <= n => f[k] \in Int}
<1>1. 0 \in S
  BY DEF Sums
<1>2. ASSUME NEW k \in Nat, k \in S PROVE k + 1 \in S
  <2> SUFFICES ASSUME k + 1 <= n PROVE f[k + 1] \in Int
    OBVIOUS
  <2>1. k + 1 \in 1 .. n /\ k + 1 # 0 /\ (k + 1) - 1 = k
    OBVIOUS
  <2>2. f[k + 1] = f[k] + Size(q[k + 1])
    BY <2>1 DEF Sums
  <2>3. f[k] \in Int
    BY <1>2, <2>1
  <2>4. QED
    BY <2>1, <2>2, <2>3
<1> HIDE DEF S
<1>3. Nat \subseteq S
  BY <1>1, <1>2, EveryNat
<1>4. QED
  BY <1>3 DEF S

LEMMA Sized ==
  ASSUME NEW q \in Seq(Batch)
  PROVE  Len(q) \in Nat /\ \A k \in 1 .. Len(q) : q[k] \in Batch /\ Size(q[k]) \in Int
<1>1. \A b \in Batch : Size(b) \in Int
  BY DEF Batch, Size
<1>2. Len(q) \in Nat /\ \A k \in 1 .. Len(q) : q[k] \in Batch
  OBVIOUS
<1>3. QED
  BY <1>1, <1>2

(* Bytes is the last of the sums. *)
LEMMA BytesSum ==
  ASSUME NEW q \in Seq(Batch)
  PROVE  \E f : /\ Sums(f, Len(q), q) /\ Bytes(q) = f[Len(q)]
                /\ \A k \in 0 .. Len(q) : f[k] \in Int
<1> DEFINE f == CHOOSE g : g = [k \in 0 .. Len(q) |-> IF k = 0 THEN 0 ELSE g[k - 1] + Size(q[k])]
<1>1. Len(q) \in Nat /\ \A k \in 1 .. Len(q) : Size(q[k]) \in Int
  BY Sized
<1>2. \E g : g = [k \in 0 .. Len(q) |-> IF k = 0 THEN 0 ELSE g[k - 1] + Size(q[k])]
  BY <1>1, SumExists DEF Sums
<1>3. f = [k \in 0 .. Len(q) |-> IF k = 0 THEN 0 ELSE f[k - 1] + Size(q[k])]
  BY <1>2
<1>4. Bytes(q) = f[Len(q)]
  BY DEF Bytes
<1> HIDE DEF f
<1>5. Sums(f, Len(q), q)
  BY <1>3 DEF Sums
<1>6. QED
  BY <1>1, <1>4, <1>5, SumCounts

LEMMA BytesOfNone == Bytes(<<>>) = 0
<1>1. <<>> \in Seq(Batch) /\ Len(<<>>) = 0
  OBVIOUS
<1>2. PICK f : Sums(f, 0, <<>>) /\ Bytes(<<>>) = f[0]
  BY <1>1, BytesSum
<1>3. QED
  BY <1>2 DEF Sums

LEMMA BytesOfMore ==
  ASSUME NEW q \in Seq(Batch), NEW b \in Batch
  PROVE  Bytes(Append(q, b)) = Bytes(q) + Size(b)
<1> DEFINE r == Append(q, b)
<1>1. /\ r \in Seq(Batch) /\ Len(q) \in Nat /\ Len(r) = Len(q) + 1
      /\ \A k \in 1 .. Len(q) : q[k] = r[k]
      /\ r[Len(q) + 1] = b
  OBVIOUS
<1> HIDE DEF r
<1>2. PICK f : /\ Sums(f, Len(r), r) /\ Bytes(r) = f[Len(r)]
               /\ \A k \in 0 .. Len(r) : f[k] \in Int
  BY <1>1, BytesSum
<1>3. PICK g : Sums(g, Len(q), q) /\ Bytes(q) = g[Len(q)]
  BY BytesSum
<1>4. \A k \in 1 .. Len(r) : Size(r[k]) \in Int
  BY <1>1, Sized
<1>5. \A k \in 1 .. Len(q) : q[k] = r[k + 0]
  BY <1>1
<1>6. \A k \in 0 .. Len(q) : g[k] = f[k + 0] - f[0]
  <2>1. Len(r) \in Nat /\ Len(q) \in Nat /\ 0 \in Nat /\ Len(q) + 0 <= Len(r)
    BY <1>1
  <2>2. Stretch(q, Len(q), r, 0) /\ Sizes(r, Len(r)) /\ Counts(f, Len(r))
    BY <1>2, <1>4, <1>5 DEF Stretch, Sizes, Counts
  <2>3. Sums(f, Len(r), r) /\ Sums(g, Len(q), q)
    BY <1>2, <1>3
  <2>4. Differ(g, Len(q), f, 0)
    BY <2>1, <2>2, <2>3, SumShifts
  <2>5. QED
    BY <2>4 DEF Differ
<1>7. f[0] = 0 /\ f[Len(r)] = f[Len(q)] + Size(b)
  BY <1>1, <1>2 DEF Sums
<1>8. g[Len(q)] = f[Len(q)] - f[0] /\ f[Len(q)] \in Int
  BY <1>1, <1>2, <1>6
<1>9. QED
  BY <1>2, <1>3, <1>7, <1>8 DEF r

LEMMA BytesOfTail ==
  ASSUME NEW q \in Seq(Batch), q # <<>>
  PROVE  /\ Bytes(Tail(q)) = Bytes(q) - Size(q[1])
         /\ Bytes(q) \in Int
<1>1. /\ Tail(q) \in Seq(Batch) /\ Len(q) \in Nat /\ Len(q) >= 1 /\ Len(Tail(q)) = Len(q) - 1
      /\ \A k \in 1 .. Len(Tail(q)) : Tail(q)[k] = q[k + 1]
  OBVIOUS
<1>2. PICK f : /\ Sums(f, Len(q), q) /\ Bytes(q) = f[Len(q)]
               /\ \A k \in 0 .. Len(q) : f[k] \in Int
  BY BytesSum
<1>3. PICK g : Sums(g, Len(Tail(q)), Tail(q)) /\ Bytes(Tail(q)) = g[Len(Tail(q))]
  BY <1>1, BytesSum
<1>4. \A k \in 1 .. Len(q) : Size(q[k]) \in Int
  BY Sized
<1>5. \A k \in 0 .. Len(Tail(q)) : g[k] = f[k + 1] - f[1]
  <2>1. Len(Tail(q)) \in Nat /\ 1 \in Nat /\ Len(Tail(q)) + 1 <= Len(q)
    BY <1>1
  <2>2. Stretch(Tail(q), Len(Tail(q)), q, 1) /\ Sizes(q, Len(q)) /\ Counts(f, Len(q))
    BY <1>1, <1>2, <1>4 DEF Stretch, Sizes, Counts
  <2>3. Sums(f, Len(q), q) /\ Sums(g, Len(Tail(q)), Tail(q))
    BY <1>2, <1>3
  <2>4. Differ(g, Len(Tail(q)), f, 1)
    BY <2>1, <2>2, <2>3, SumShifts
  <2>5. QED
    BY <2>4 DEF Differ
<1>6. f[1] = Size(q[1])
  <2>1. f[0] = 0 /\ f[1] = f[1 - 1] + Size(q[1])
    BY <1>1, <1>2 DEF Sums
  <2>2. QED
    BY <1>1, <1>4, <2>1
<1>7. Len(Tail(q)) \in 0 .. Len(Tail(q)) /\ Len(Tail(q)) + 1 = Len(q) /\ Len(q) \in 0 .. Len(q)
  BY <1>1
<1>8. QED
  BY <1>2, <1>3, <1>5, <1>6, <1>7

-----------------------------------------------------------------------------
(* What the Update callbacks preserve. *)

LEMMA EmptyWhole ==
  ASSUME NEW s, s.queue = <<>>
  PROVE  Whole(s)
<1>1. Len(<<>>) = 0 /\ MaxQueue >= 0 /\ MaxBytes >= 0
  BY DeliveryAssumption
<1>2. QED
  BY <1>1, BytesOfNone DEF Whole, Contiguous, Bounded

LEMMA SameQueueWhole ==
  ASSUME NEW s, NEW r, Whole(s), r.queue = s.queue, r.nextSequence = s.nextSequence
  PROVE  Whole(r)
  BY DEF Whole, Contiguous, Bounded

LEMMA FirstRunGood == Good(FirstRun)
<1>1. FirstRun \in State /\ FirstRun.queue = <<>>
  BY DEF FirstRun, State
<1>2. QED
  BY <1>1, EmptyWhole DEF Good

LEMMA ConnectedGood ==
  ASSUME NEW s \in State, NEW p \in Posts \cup {None},
         NEW c \in Credentials \cup {None}
  PROVE  Good(Connected(s, p, c))
<1> DEFINE e == EmptyDelivery(s)
<1>1. e \in State /\ e.queue = <<>>
  <2>1. <<>> \in Seq(Batch)
    OBVIOUS
  <2>2. QED
    BY <2>1 DEF EmptyDelivery, State
<1> HIDE DEF e
<1>2. /\ [e EXCEPT !.postID = p, !.credential = c, !.previous = None,
                   !.revoking = FALSE, !.pending = None, !.nextSequence = 1]
           \in State
      /\ [e EXCEPT !.postID = p, !.credential = c, !.previous = None,
                   !.revoking = FALSE, !.pending = None, !.nextSequence = 1].queue
           = <<>>
  BY <1>1 DEF State
<1>3. Connected(s, p, c) \in State /\ Connected(s, p, c).queue = <<>>
  BY <1>2 DEF Connected, e
<1> HIDE DEF Connected
<1>4. QED
  BY <1>3, EmptyWhole DEF Good

LEMMA ClearedGood ==
  ASSUME NEW s \in State
  PROVE  Good(Cleared(s))
  BY ConnectedGood DEF Cleared

(* Changing the connection or the backoff leaves the queue alone. *)
LEMMA SmallChangesGood ==
  ASSUME NEW s, Good(s), NEW c \in Credentials \cup {None},
         NEW r \in Requests
  PROVE  /\ Good(Requested(s, r))
         /\ Good(RevocationPending(s))
         /\ Good(Rotated(s, c))
         /\ Good(Failed(s))
<1>1. s \in State /\ Whole(s)
  BY DEF Good
<1>2. /\ Requested(s, r) \in State /\ Whole(Requested(s, r))
      /\ RevocationPending(s) \in State /\ Whole(RevocationPending(s))
  BY <1>1, SameQueueWhole DEF Requested, RevocationPending, State
<1>3. /\ Rotated(s, c) \in State /\ Whole(Rotated(s, c))
      /\ Failed(s) \in State /\ Whole(Failed(s))
  BY <1>1, SameQueueWhole DEF Rotated, Failed, State
<1>4. QED
  BY <1>2, <1>3 DEF Good

LEMMA PoppedGood ==
  ASSUME NEW s, Good(s)
  PROVE  Good(Popped(s))
<1>1. CASE s.queue = <<>>
  BY <1>1 DEF Popped
<1>2. CASE s.queue # <<>>
  <2>1. s.queue \in Seq(Batch)
    BY DEF Good, State
  <2>2. /\ Tail(s.queue) \in Seq(Batch)
        /\ Len(Tail(s.queue)) = Len(s.queue) - 1
        /\ \A i \in 1 .. Len(s.queue) - 1 : Tail(s.queue)[i] = s.queue[i + 1]
    BY <1>2, <2>1
  <2>3. Popped(s) = [s EXCEPT !.queue = Tail(s.queue)]
    BY <1>2 DEF Popped
  <2>4. Popped(s) \in State /\ Popped(s).queue = Tail(s.queue)
        /\ Popped(s).nextSequence = s.nextSequence
    BY <2>2, <2>3 DEF Good, State
  <2>5. Contiguous(Popped(s))
    <3>1. Len(s.queue) \in Nat /\ Len(s.queue) >= 1
      BY <1>2, <2>1
    <3>2. \A i \in 1 .. Len(Tail(s.queue)) :
             Tail(s.queue)[i].first <= Tail(s.queue)[i].last
      BY <2>2, <3>1 DEF Good, Whole, Contiguous, Bounded
    <3>3. \A i \in 1 .. Len(Tail(s.queue)) - 1 :
             Tail(s.queue)[i + 1].first = Tail(s.queue)[i].last + 1
      <4> TAKE i \in 1 .. Len(Tail(s.queue)) - 1
      <4>1. i + 1 \in 1 .. Len(s.queue) - 1 /\ i \in 1 .. Len(s.queue) - 1
        BY <2>2, <3>1
      <4>2. s.queue[(i + 1) + 1].first = s.queue[i + 1].last + 1
        BY <4>1 DEF Good, Whole, Contiguous, Bounded
      <4>3. QED
        BY <2>2, <4>1, <4>2
    <3>4. Tail(s.queue) # <<>> =>
             s.nextSequence = Tail(s.queue)[Len(Tail(s.queue))].last + 1
      <4> SUFFICES ASSUME Tail(s.queue) # <<>>
                   PROVE  s.nextSequence
                            = Tail(s.queue)[Len(Tail(s.queue))].last + 1
        OBVIOUS
      <4>1. Len(s.queue) - 1 \in 1 .. Len(s.queue) - 1
        BY <2>2, <3>1
      <4>2. QED
        BY <1>2, <2>2, <4>1 DEF Good, Whole, Contiguous, Bounded
    <3>5. QED
      BY <2>4, <3>2, <3>3, <3>4 DEF Contiguous
  <2>6. Bounded(Popped(s))
    <3>1. Len(s.queue) \in Nat /\ Len(s.queue) >= 1 /\ MaxQueue \in Nat /\ MaxBytes \in Nat
      BY <1>2, <2>1, DeliveryAssumption
    <3>2. Len(Tail(s.queue)) <= MaxQueue
      BY <2>2, <3>1 DEF Good, Whole, Bounded
    <3>3. /\ Bytes(Tail(s.queue)) = Bytes(s.queue) - Size(s.queue[1])
          /\ Bytes(s.queue) \in Int /\ Bytes(s.queue) <= MaxBytes
      BY <1>2, <2>1, BytesOfTail DEF Good, Whole, Bounded
    <3>4. s.queue[1] \in Batch /\ s.queue[1].first <= s.queue[1].last
      BY <2>1, <3>1 DEF Good, Whole, Contiguous
    <3>5. Size(s.queue[1]) \in Int /\ Size(s.queue[1]) >= 0
      BY <3>4 DEF Size, Batch
    <3>6. Bytes(Tail(s.queue)) <= MaxBytes
      BY <3>1, <3>3, <3>5
    <3>7. QED
      BY <2>4, <3>2, <3>6 DEF Bounded
  <2>7. QED
    BY <2>4, <2>5, <2>6 DEF Good, Whole
<1>3. QED
  BY <1>1, <1>2

LEMMA DroppedOrDeliveredGood ==
  ASSUME NEW s, Good(s)
  PROVE  /\ Good(StaleDropped(s))
         /\ Good(DeliveredWithCurrent(s))
         /\ Good(DeliveredWithPrevious(s))
<1>1. Good(Popped(s))
  BY PoppedGood
<1>2. s.previous \in Credentials \cup {None}
  BY DEF Good, State
<1> DEFINE r == Popped(s)
<1>3. r \in State /\ Whole(r)
  BY <1>1 DEF Good
<1> HIDE DEF r
<1>4. Good([r EXCEPT !.dropped = @ + 1])
  BY <1>3, SameQueueWhole DEF Good, State
<1>5. Good([r EXCEPT !.backoff = FALSE, !.previous = None])
  BY <1>3, SameQueueWhole DEF Good, State
<1>6. Good([r EXCEPT !.backoff = FALSE,
                     !.credential = s.previous, !.previous = None])
  BY <1>2, <1>3, SameQueueWhole DEF Good, State
<1>7. QED
  BY <1>4, <1>5, <1>6
     DEF r, StaleDropped, DeliveredWithCurrent, DeliveredWithPrevious

(* The new batch begins where the last one ended. *)
LEMMA EnqueuedGood ==
  ASSUME NEW s, Good(s), clock \in Nat,
         NEW p \in Posts \cup {None}, NEW width \in Nat \ {0},
         ~QueueFull(s), ~OverBytes(s, NewBatch(s, p, width))
  PROVE  Good(Enqueued(s, NewBatch(s, p, width)))
<1> DEFINE b == NewBatch(s, p, width)
           q == s.queue
<1>1. q \in Seq(Batch) /\ s.nextSequence \in Nat
  BY DEF Good, State
<1>2. b \in Batch /\ b.first = FirstSequence(s)
      /\ b.last = b.first + width - 1 /\ b.first >= 1
  BY <1>1 DEF NewBatch, Batch, FirstSequence
<1>3. /\ Append(q, b) \in Seq(Batch)
      /\ Len(Append(q, b)) = Len(q) + 1
      /\ \A i \in 1 .. Len(q) : Append(q, b)[i] = q[i]
      /\ Append(q, b)[Len(q) + 1] = b
  BY <1>1, <1>2
<1>4. /\ Enqueued(s, b) \in State
      /\ Enqueued(s, b).queue = Append(q, b)
      /\ Enqueued(s, b).nextSequence = b.last + 1
  <2> HIDE DEF b
  <2>1. b.last + 1 \in Nat
    BY <1>2 DEF Batch
  <2>2. QED
    BY <1>3, <2>1 DEF Enqueued, Good, State
<1>5. q # <<>> => b.first = q[Len(q)].last + 1
  <2> SUFFICES ASSUME q # <<>> PROVE b.first = q[Len(q)].last + 1
    OBVIOUS
  <2>1. q[Len(q)] \in Batch /\ s.nextSequence = q[Len(q)].last + 1
    BY <1>1 DEF Good, Whole, Contiguous, Bounded
  <2>2. s.nextSequence >= 1
    BY <2>1 DEF Batch
  <2>3. QED
    BY <1>1, <1>2, <2>1, <2>2 DEF FirstSequence
<1> HIDE DEF b
<1>6. \A i \in 1 .. Len(Append(q, b)) :
         Append(q, b)[i].first <= Append(q, b)[i].last
  <2>1. b.first <= b.last
    BY <1>2 DEF Batch
  <2>2. \A i \in 1 .. Len(q) : q[i].first <= q[i].last
    BY DEF Good, Whole, Contiguous, Bounded
  <2>3. Len(q) \in Nat
    BY <1>1
  <2>4. QED
    BY <1>3, <2>1, <2>2, <2>3
<1>7. \A i \in 1 .. Len(Append(q, b)) - 1 :
         Append(q, b)[i + 1].first = Append(q, b)[i].last + 1
  <2> TAKE i \in 1 .. Len(Append(q, b)) - 1
  <2>1. Len(q) \in Nat /\ i \in 1 .. Len(q)
    BY <1>1, <1>3
  <2>2. CASE i = Len(q)
    BY <1>1, <1>3, <1>5, <2>1, <2>2
  <2>3. CASE i # Len(q)
    <3>1. i \in 1 .. Len(q) - 1 /\ i + 1 \in 1 .. Len(q)
      BY <2>1, <2>3
    <3>2. q[i + 1].first = q[i].last + 1
      BY <3>1 DEF Good, Whole, Contiguous, Bounded
    <3>3. QED
      BY <1>3, <2>1, <3>1, <3>2
  <2>4. QED
    BY <2>2, <2>3
<1>8. Append(q, b)[Len(Append(q, b))] = b
  BY <1>3
<1>9. Contiguous(Enqueued(s, b))
  BY <1>4, <1>6, <1>7, <1>8 DEF Contiguous
<1>10. Bounded(Enqueued(s, b))
  <2>1. Len(q) < MaxQueue /\ Bytes(q) + Size(b) <= MaxBytes
    <3>1. ~ (Len(q) >= MaxQueue) /\ ~ (Bytes(q) + Size(b) > MaxBytes)
      BY DEF QueueFull, OverBytes, b
    <3>2. Len(q) \in Nat /\ Bytes(q) \in Int /\ Size(b) \in Int
      <4>1. PICK f : Bytes(q) = f[Len(q)] /\ \A k \in 0 .. Len(q) : f[k] \in Int
        BY <1>1, BytesSum
      <4>2. Len(q) \in 0 .. Len(q)
        BY <1>1
      <4>3. Size(b) \in Int
        BY <1>2 DEF Size, Batch
      <4>4. QED
        BY <1>1, <4>1, <4>2, <4>3
    <3>3. QED
      BY <3>1, <3>2, DeliveryAssumption
  <2>2. Bytes(Append(q, b)) = Bytes(q) + Size(b)
    BY <1>1, <1>2, BytesOfMore
  <2>3. Len(Append(q, b)) <= MaxQueue
    BY <1>1, <1>3, <2>1, DeliveryAssumption
  <2>4. QED
    BY <1>4, <2>1, <2>2, <2>3 DEF Bounded
<1>11. QED
  BY <1>4, <1>9, <1>10 DEF Good, Whole, b

-----------------------------------------------------------------------------
(* What the steps of a Store preserve. *)

LEMMA MemoryGood ==
  ASSUME StoreInv, NEW t \in Task
  PROVE  Good(Memory(t))
  BY StateAssumption DEF StoreInv, Memory

LEMMA UpdateInv ==
  ASSUME StoreInv, NEW t \in Task, NEW s, Good(s), Update(t, s)
  PROVE  StoreInv'
<1>1. disk' = s /\ mem' = [mem EXCEPT ![ProcessOf[t]] = s]
  BY DEF Update
<1>2. \A p \in Process : Good(mem'[p])
  BY <1>1, StateAssumption DEF StoreInv
<1>3. DOMAIN mem' = Process /\ mem' = [p \in Process |-> mem'[p]]
  BY <1>1 DEF StoreInv
<1>4. QED
  BY <1>1, <1>2, <1>3 DEF StoreInv

LEMMA UnchangedStoreInv ==
  ASSUME StoreInv, UNCHANGED stateVars
  PROVE  StoreInv'
  BY DEF StoreInv, stateVars, Good, Whole, Contiguous, Bounded

LEMMA OpenInv ==
  ASSUME StoreInv, NEW p \in Process, Open(p)
  PROVE  StoreInv'
  BY DEF StoreInv, Open, Good, Whole, Contiguous, Bounded

(* The request of a pairing stays approved for its post. *)
RequestsKept ==
  \A r \in Requests : request[r] \in Posts => request'[r] \in Posts

(* A task moves to a label with a snapshot that fits it. *)
LEMMA MoveInv ==
  ASSUME TaskInv, NEW t \in Task, NEW label \in Labels, NEW part \in State,
         pc' = [pc EXCEPT ![t] = label],
         snap' = [snap EXCEPT ![t] = part],
         reply' \in [Task -> Credentials \cup {None}],
         clock' \in Nat, horizon' \in Nat, crashes' \in Nat,
         RequestsKept,
         label \in {"reading", "refreshing"} => Whole(part),
         label \in {"posting", "postingPrevious"} => part.queue # <<>>,
         label = "approved" => /\ part.pending \in Requests
                               /\ request[part.pending] \in Posts
  PROVE  TaskInv'
<1>1. pc' \in [Task -> Labels] /\ snap' \in [Task -> State]
  BY DEF TaskInv
<1>2. ASSUME NEW u \in Task PROVE Fits(pc[u], snap[u])'
  <2>1. CASE u = t
    BY <1>1, <2>1 DEF TaskInv, Fits, RequestsKept, Whole, Contiguous, Bounded
  <2>2. CASE u # t
    <3>1. pc'[u] = pc[u] /\ snap'[u] = snap[u]
      BY <2>2 DEF TaskInv
    <3>2. Fits(pc[u], snap[u])
      BY DEF TaskInv
    <3>3. QED
      BY <3>1, <3>2 DEF Fits, RequestsKept, Whole, Contiguous, Bounded
  <2>3. QED
    BY <2>1, <2>2
<1>3. QED
  BY <1>1, <1>2 DEF TaskInv

(* A task that keeps its snapshot, and one that gives it up. *)
LEMMA GotoInv ==
  ASSUME TaskInv, NEW t \in Task, NEW label \in Labels,
         Goto(t, label), UNCHANGED snap,
         reply' \in [Task -> Credentials \cup {None}],
         clock' \in Nat, horizon' \in Nat, crashes' \in Nat,
         RequestsKept,
         label \in {"posting", "postingPrevious"} => snap[t].queue # <<>>,
         label \notin {"reading", "refreshing"},
         label = "approved" => /\ snap[t].pending \in Requests
                               /\ request[snap[t].pending] \in Posts
  PROVE  TaskInv'
<1>1. snap[t] \in State /\ snap' = [snap EXCEPT ![t] = snap[t]]
  BY DEF TaskInv
<1>2. QED
  BY <1>1, MoveInv DEF Goto

LEMMA ContinueInv ==
  ASSUME TaskInv, NEW t \in Task, NEW label \in Labels,
         Continue(t, label),
         reply' \in [Task -> Credentials \cup {None}],
         clock' \in Nat, horizon' \in Nat, crashes' \in Nat,
         RequestsKept,
         label \notin {"reading", "refreshing", "posting", "postingPrevious",
                      "approved"}
  PROVE  TaskInv'
<1>1. NoSnapshot \in State
  BY FirstRunGood DEF Good, NoSnapshot
<1>2. QED
  BY <1>1, MoveInv DEF Continue, Goto

LEMMA UnchangedTaskInv ==
  ASSUME TaskInv, UNCHANGED taskVars, UNCHANGED reply,
         clock' \in Nat, horizon' \in Nat, crashes' \in Nat,
         RequestsKept
  PROVE  TaskInv'
  BY DEF TaskInv, taskVars, Fits, RequestsKept, Whole, Contiguous, Bounded

-----------------------------------------------------------------------------
(* What Watchpost's steps preserve. *)

LEMMA UnchangedServerInv ==
  ASSUME ServerInv, UNCHANGED serverVars
  PROVE  ServerInv' /\ RequestsKept
  BY DEF ServerInv, serverVars, RequestsKept

LEMMA ObserveInv ==
  ASSUME ServerInv, NEW c \in live, NEW b \in Batch, Observe(c, b)
  PROVE  ServerInv' /\ RequestsKept
  BY DEF ServerInv, Observe, RequestsKept, Batch, Credentials

LEMMA CreateRequestInv ==
  ASSUME ServerInv, NEW r \in Requests, CreateRequest(r)
  PROVE  ServerInv' /\ RequestsKept
  BY WatchpostAssumption DEF ServerInv, CreateRequest, RequestsKept, Credentials

LEMMA ApproveInv ==
  ASSUME ServerInv, Approve
  PROVE  ServerInv' /\ RequestsKept
<1>1. PICK r \in Requests, p \in Posts :
        /\ request[r] = Waiting
        /\ request' = [request EXCEPT ![r] = p]
        /\ issued' = [issued EXCEPT ![r] = 1]
        /\ live' = {<<r, 1>>}
        /\ UNCHANGED <<lastSeq, received>>
  BY DEF Approve
<1>2. 1 \in 1 .. MaxCredentials
  BY StateAssumption
<1>3. QED
  BY <1>1, <1>2 DEF ServerInv, RequestsKept, Credentials

LEMMA IssueInv ==
  ASSUME ServerInv, NEW c, IssueReplacement(c)
  PROVE  /\ ServerInv' /\ RequestsKept
         /\ <<c[1], issued[c[1]] + 1>> \in Credentials
<1>1. c \in Credentials /\ c[1] \in Requests
  BY DEF ServerInv, IssueReplacement, Credentials
<1>2. issued[c[1]] + 1 \in 1 .. MaxCredentials
  BY <1>1, StateAssumption DEF ServerInv, IssueReplacement
<1>3. QED
  BY <1>1, <1>2 DEF ServerInv, IssueReplacement, RequestsKept, Credentials

LEMMA RevokeInv ==
  ASSUME ServerInv, NEW c, Revoke(c)
  PROVE  ServerInv' /\ RequestsKept
  BY DEF ServerInv, Revoke, RequestsKept

LEMMA LossOfAuthorityInv ==
  ASSUME ServerInv, Lapse \/ OwnerRevokes
  PROVE  ServerInv' /\ RequestsKept
  BY DEF ServerInv, Lapse, OwnerRevokes, RequestsKept

-----------------------------------------------------------------------------
(* The invariant holds initially. *)

LEMMA PairedGood ==
  ASSUME StartPaired, NEW p \in Posts, NEW revoking \in BOOLEAN
  PROVE  LET s == [Connected(FirstRun, p, <<1, 1>>) EXCEPT !.revoking = revoking]
         IN Good(s) /\ Good(Rotated(s, <<1, 2>>))
<1>1. <<1, 1>> \in Credentials /\ <<1, 2>> \in Credentials
  BY AgentAssumption, StateAssumption DEF Credentials, Requests
<1>2. Good(Connected(FirstRun, p, <<1, 1>>))
  BY <1>1, FirstRunGood, ConnectedGood DEF Good
<1> DEFINE s == [Connected(FirstRun, p, <<1, 1>>) EXCEPT !.revoking = revoking]
<1>3. Good(s)
  BY <1>2 DEF Good, State, Whole, Contiguous, Bounded
<1>4. 1 \in Requests
  BY AgentAssumption, StateAssumption DEF Requests
<1> HIDE DEF s
<1>5. Good(Rotated(s, <<1, 2>>))
  BY <1>1, <1>3, <1>4, SmallChangesGood
<1>6. QED
  BY <1>3, <1>5 DEF s

LEMMA InitInv == Init => IInv
<1> SUFFICES ASSUME Init PROVE IInv
  OBVIOUS
<1>1. \E s, n, posts :
        /\ InitWith(s, n, posts)
        /\ Good(s)
        /\ \/ n = 0 /\ posts = Unused
           \/ n \in {1, 2} /\ posts \in Posts /\ StartPaired
  <2>1. CASE StartPaired
    <3>1. PICK p \in Posts, revoking \in BOOLEAN :
            LET s == [Connected(FirstRun, p, <<1, 1>>)
                        EXCEPT !.revoking = revoking]
            IN InitWith(s, 1, p) \/ InitWith(Rotated(s, <<1, 2>>), 2, p)
      BY <2>1 DEF Init
    <3> DEFINE s == [Connected(FirstRun, p, <<1, 1>>)
                       EXCEPT !.revoking = revoking]
    <3>2. Good(s) /\ Good(Rotated(s, <<1, 2>>))
      BY <2>1, PairedGood
    <3>3. InitWith(s, 1, p) \/ InitWith(Rotated(s, <<1, 2>>), 2, p)
      BY <3>1
    <3> HIDE DEF s
    <3>4. QED
      BY <2>1, <3>2, <3>3
  <2>2. CASE ~StartPaired
    BY <2>2, FirstRunGood DEF Init
  <2>3. QED
    BY <2>1, <2>2
<1>2. PICK s, n, posts :
        /\ InitWith(s, n, posts)
        /\ Good(s)
        /\ \/ n = 0 /\ posts = Unused
           \/ n \in {1, 2} /\ posts \in Posts /\ StartPaired
  BY <1>1
<1>3. StoreInv
  <2>1. Good(disk)
    BY <1>2 DEF InitWith
  <2>2. mem = [p \in Process |-> disk]
    BY DEF Init
  <2>3. QED
    BY <2>1, <2>2 DEF StoreInv
<1>4. TaskInv
  <2>1. NoSnapshot \in State
    BY FirstRunGood DEF Good, NoSnapshot
  <2>2. pc = [t \in Task |-> "idle"] /\ snap = [t \in Task |-> NoSnapshot]
        /\ reply = [t \in Task |-> None] /\ clock = 0 /\ horizon = 0
        /\ crashes = 0
    BY DEF Init
  <2>3. /\ pc \in [Task -> Labels]
        /\ snap \in [Task -> State]
        /\ reply \in [Task -> Credentials \cup {None}]
    BY <2>1, <2>2 DEF Labels
  <2>4. ASSUME NEW t \in Task PROVE Fits(pc[t], snap[t])
    BY <2>2 DEF Fits
  <2>5. QED
    BY <2>2, <2>3, <2>4 DEF TaskInv
<1>5. ServerInv
  <2>1. n \in 0 .. MaxCredentials /\ (n # 0 => 1 \in Requests)
    BY <1>2, AgentAssumption, StateAssumption DEF Requests
  <2>2. /\ request = [r \in Requests |-> IF r = 1 THEN posts ELSE Unused]
        /\ issued = [r \in Requests |-> IF r = 1 THEN n ELSE 0]
        /\ live = {<<1, k>> : k \in 1 .. n}
        /\ lastSeq = [r \in Requests |-> 0] /\ received = {}
    BY <1>2 DEF Init, InitWith
  <2>3. request \in [Requests -> Posts \cup {Unused, Waiting}]
    BY <1>2, <2>2
  <2>4. issued \in [Requests -> 0 .. MaxCredentials]
    BY <2>1, <2>2, StateAssumption
  <2>5. \A c \in live : c \in Credentials /\ request[c[1]] \in Posts
    <3> TAKE c \in live
    <3>1. PICK k \in 1 .. n : c = <<1, k>>
      BY <2>2
    <3>2. n # 0 /\ k \in 1 .. MaxCredentials
      BY <2>1, <3>1, StateAssumption
    <3>3. QED
      BY <1>2, <2>1, <2>2, <3>1, <3>2 DEF Credentials
  <2>6. QED
    BY <2>2, <2>3, <2>4, <2>5 DEF ServerInv
<1>6. QED
  BY <1>3, <1>4, <1>5 DEF IInv

-----------------------------------------------------------------------------
(* What the steps of Send preserve. *)

(* The steps of a task that leave files, memories and Watchpost alone. *)
LEMMA QuietGotoInv ==
  ASSUME IInv, NEW t \in Task, NEW label \in Labels,
         Goto(t, label),
         UNCHANGED <<snap, reply, crashes, stateVars, pairingFrame>>,
         label \notin {"reading", "refreshing", "posting", "postingPrevious",
                      "approved"}
  PROVE  IInv'
<1>1. StoreInv'
  BY UnchangedStoreInv DEF IInv
<1>2. ServerInv' /\ RequestsKept
  BY UnchangedServerInv DEF IInv, pairingFrame
<1>3. TaskInv'
  <2>1. /\ reply' \in [Task -> Credentials \cup {None}]
        /\ clock' \in Nat /\ horizon' \in Nat /\ crashes' \in Nat
        /\ UNCHANGED snap
    BY DEF IInv, TaskInv, pairingFrame, timeVars
  <2>2. QED
    BY <1>2, <2>1, GotoInv DEF IInv
<1>4. QED
  BY <1>1, <1>2, <1>3 DEF IInv

LEMMA QuietMoveInv ==
  ASSUME IInv, NEW t \in Task, NEW label \in Labels, NEW part \in State,
         Goto(t, label), Keep(t, part),
         UNCHANGED <<reply, crashes, stateVars, pairingFrame>>,
         label \in {"reading", "refreshing"} => Whole(part),
         label \in {"posting", "postingPrevious"} => part.queue # <<>>,
         label # "approved"
  PROVE  IInv'
<1>1. StoreInv'
  BY UnchangedStoreInv DEF IInv
<1>2. ServerInv' /\ RequestsKept
  BY UnchangedServerInv DEF IInv, pairingFrame
<1>3. TaskInv'
  <2>1. /\ reply' \in [Task -> Credentials \cup {None}]
        /\ clock' \in Nat /\ horizon' \in Nat /\ crashes' \in Nat
    BY DEF IInv, TaskInv, pairingFrame, timeVars
  <2>2. pc' = [pc EXCEPT ![t] = label] /\ snap' = [snap EXCEPT ![t] = part]
    BY DEF Goto, Keep
  <2>3. QED
    BY <1>2, <2>1, <2>2, MoveInv DEF IInv
<1>4. QED
  BY <1>1, <1>2, <1>3 DEF IInv

(* The steps that end with the task's snapshot given up. *)
LEMMA StepOnInv ==
  ASSUME IInv, NEW t \in Task, NEW label \in Labels,
         Continue(t, label),
         reply' \in [Task -> Credentials \cup {None}],
         clock' \in Nat, horizon' \in Nat, crashes' \in Nat,
         StoreInv', ServerInv', RequestsKept,
         label \notin {"reading", "refreshing", "posting", "postingPrevious",
                      "approved"}
  PROVE  IInv'
  BY ContinueInv DEF IInv

(* The same for a step that also updates the Store, or leaves it. *)
LEMMA UpdateOnInv ==
  ASSUME IInv, NEW t \in Task, NEW label \in Labels,
         NEW s, Update(t, s) \/ UNCHANGED stateVars, Good(s),
         Continue(t, label),
         reply' \in [Task -> Credentials \cup {None}],
         clock' \in Nat, horizon' \in Nat, crashes' \in Nat,
         UNCHANGED serverVars,
         label \notin {"reading", "refreshing", "posting", "postingPrevious",
                      "approved"}
  PROVE  IInv'
<1>1. StoreInv'
  BY UpdateInv, UnchangedStoreInv DEF IInv
<1>2. ServerInv' /\ RequestsKept
  BY UnchangedServerInv DEF IInv
<1>3. QED
  BY <1>1, <1>2, StepOnInv

(* The parts of a snapshot that the tasks keep are states. *)
LEMMA PartsGood ==
  ASSUME NEW s, Good(s)
  PROVE  /\ [NoSnapshot EXCEPT !.postID = s.postID] \in State
         /\ [NoSnapshot EXCEPT !.pending = s.pending] \in State
         /\ CredentialView(s) \in State
         /\ s.queue # <<>> => /\ Head(s.queue) \in Batch
                              /\ FlushView(s) \in State
                              /\ FlushView(s).queue # <<>>
<1>1. NoSnapshot \in State /\ s \in State
  BY FirstRunGood DEF Good, NoSnapshot
<1>2. /\ [NoSnapshot EXCEPT !.postID = s.postID] \in State
      /\ [NoSnapshot EXCEPT !.pending = s.pending] \in State
      /\ CredentialView(s) \in State
  BY <1>1 DEF State, CredentialView
<1>3. ASSUME s.queue # <<>>
      PROVE  /\ Head(s.queue) \in Batch
             /\ FlushView(s) \in State
             /\ FlushView(s).queue # <<>>
  <2>1. s.queue \in Seq(Batch)
    BY <1>1 DEF State
  <2>2. Head(s.queue) \in Batch
    BY <1>3, <2>1
  <2> DEFINE one == <<Head(s.queue)>>
  <2>3. one \in Seq(Batch) /\ one # <<>>
    BY <2>2
  <2> HIDE DEF one
  <2>4. LET v == [NoSnapshot EXCEPT !.queue = one,
                    !.credential = s.credential, !.previous = s.previous]
        IN v \in State /\ v.queue # <<>>
    BY <1>1, <2>3 DEF State
  <2>5. QED
    BY <2>2, <2>4 DEF FlushView, one
<1>4. QED
  BY <1>2, <1>3

LEMMA SendStepInv ==
  ASSUME IInv, NEW t \in Task, SendStep(t), UNCHANGED <<reply, crashes>>
  PROVE  IInv'
<1> DEFINE s == Memory(t)
<1>1. Good(s) /\ s \in State
  BY MemoryGood DEF IInv, Good
<1>2. /\ reply' \in [Task -> Credentials \cup {None}]
      /\ crashes' \in Nat /\ clock \in Nat /\ horizon \in Nat
  BY DEF IInv, TaskInv
<1> HIDE DEF s
<1>3. CASE SendStart(t)
  <2>1. CASE s.credential = None
    <3>1. Continue(t, "idle") /\ UNCHANGED <<stateVars, serverVars, timeVars>>
      BY <1>3, <2>1 DEF SendStart, Finish, s
    <3>2. QED
      BY <1>1, <1>2, <3>1, UpdateOnInv DEF timeVars, Labels
  <2>2. CASE s.credential # None
    <3>1. /\ Goto(t, "collecting")
          /\ Keep(t, [NoSnapshot EXCEPT !.postID = s.postID])
          /\ UNCHANGED <<stateVars, pairingFrame>>
      BY <1>3, <2>2 DEF SendStart, s, pairingFrame
    <3>2. [NoSnapshot EXCEPT !.postID = s.postID] \in State
      BY <1>1, PartsGood
    <3>3. QED
      BY <3>1, <3>2, QuietMoveInv DEF Labels
  <2>3. QED
    BY <2>1, <2>2
<1>4. CASE CollectFails(t)
  BY <1>1, <1>2, <1>4, UpdateOnInv DEF CollectFails, Finish, timeVars, Labels
<1>5. CASE EnqueueRefused(t)
  BY <1>1, <1>2, <1>5, UpdateOnInv DEF EnqueueRefused, Finish, timeVars, Labels
<1>6. CASE Enqueue(t)
  <2>1. PICK width \in Widths :
          /\ ~QueueFull(s) /\ ~OverBytes(s, NewBatch(s, snap[t].postID, width))
          /\ Update(t, Enqueued(s, NewBatch(s, snap[t].postID, width)))
    BY <1>6 DEF Enqueue, s
  <2>2. width \in Nat \ {0} /\ snap[t].postID \in Posts \cup {None}
    BY DeliveryAssumption DEF IInv, TaskInv, State
  <2>3. Good(Enqueued(s, NewBatch(s, snap[t].postID, width)))
    BY <1>1, <1>2, <2>1, <2>2, EnqueuedGood
  <2>4. clock' \in Nat /\ horizon' \in Nat /\ UNCHANGED serverVars
        /\ Continue(t, "enqueued")
    BY <1>2, <1>6 DEF Enqueue
  <2>5. QED
    BY <1>2, <2>1, <2>3, <2>4, UpdateOnInv DEF Labels
<1>7. CASE EnqueueSaveFails(t)
  BY <1>1, <1>2, <1>7, UpdateOnInv
     DEF EnqueueSaveFails, SaveFails, Finish, timeVars, Labels
<1>8. CASE EnqueueBeyondBound(t)
  BY <1>1, <1>2, <1>8, UpdateOnInv DEF EnqueueBeyondBound, timeVars, Labels
<1>9. CASE StillBackingOff(t)
  BY <1>1, <1>2, <1>9, UpdateOnInv DEF StillBackingOff, Finish, timeVars, Labels
<1>10. CASE BackoffOver(t)
  BY <1>10, QuietGotoInv DEF BackoffOver, pairingFrame, Labels
<1>11. CASE FlushHead(t)
  <2>1. CASE s.queue = <<>>
    <3>1. Continue(t, "idle") /\ UNCHANGED <<stateVars, serverVars, timeVars>>
      BY <1>11, <2>1 DEF FlushHead, Finish, s
    <3>2. QED
      BY <1>1, <1>2, <3>1, UpdateOnInv DEF timeVars, Labels
  <2>2. CASE s.queue # <<>>
    <3>1. PICK label \in {"stale", "posting"} :
            /\ Goto(t, label)
            /\ Keep(t, FlushView(s))
            /\ UNCHANGED <<stateVars, pairingFrame>>
      BY <1>11, <2>2 DEF FlushHead, s, pairingFrame
    <3>2. FlushView(s) \in State /\ FlushView(s).queue # <<>>
      BY <1>1, <2>2, PartsGood
    <3>3. QED
      BY <3>1, <3>2, QuietMoveInv DEF Labels
  <2>3. QED
    BY <2>1, <2>2
<1>12. CASE DropStale(t)
  <2>1. Good(StaleDropped(s))
    BY <1>1, DroppedOrDeliveredGood
  <2>2. /\ Update(t, StaleDropped(s)) \/ UNCHANGED stateVars
        /\ Continue(t, "flush") /\ UNCHANGED <<serverVars, timeVars>>
    BY <1>12 DEF DropStale, SaveFails, s
  <2>3. QED
    BY <1>2, <2>1, <2>2, UpdateOnInv DEF timeVars, Labels
<1>13. CASE PostAccepted(t) \/ PostAnswerLost(t)
  <2>1. PICK label \in {"accepted", "acceptedPrevious", "failed"} :
          /\ Continue(t, label)
          /\ Bearer(t) \in live
          /\ Observe(Bearer(t), InHand(t))
          /\ UNCHANGED <<stateVars, timeVars>>
    BY <1>13 DEF PostAccepted, PostAnswerLost, Accepts
  <2>2. InHand(t) \in Batch
    <3>1. snap[t].queue # <<>> /\ snap[t].queue \in Seq(Batch)
      BY <1>13 DEF PostAccepted, PostAnswerLost, InFlight, IInv, TaskInv, Fits,
                   State
    <3>2. QED
      BY <3>1 DEF InHand
  <2>3. ServerInv' /\ RequestsKept
    BY <2>1, <2>2, ObserveInv DEF IInv
  <2>4. StoreInv'
    BY <2>1, UnchangedStoreInv DEF IInv
  <2>5. QED
    BY <1>2, <2>1, <2>3, <2>4, StepOnInv DEF timeVars, Labels
<1>14. CASE PostFails(t)
  BY <1>1, <1>2, <1>14, UpdateOnInv DEF PostFails, timeVars, Labels
<1>15. CASE PostRefused(t)
  <2>1. CASE pc[t] = "posting" /\ HasFallback(snap[t])
    <3>1. Goto(t, "postingPrevious") /\ UNCHANGED snap
          /\ UNCHANGED <<stateVars, pairingFrame>>
      BY <1>15, <2>1 DEF PostRefused, pairingFrame
    <3>2. snap[t].queue # <<>> /\ snap[t] \in State
      BY <2>1 DEF IInv, TaskInv, Fits
    <3>3. snap' = [snap EXCEPT ![t] = snap[t]]
      BY <3>1 DEF IInv, TaskInv
    <3>4. QED
      BY <3>1, <3>2, <3>3, QuietMoveInv DEF Keep, Labels
  <2>2. CASE ~(pc[t] = "posting" /\ HasFallback(snap[t]))
    <3>1. Continue(t, "failed") /\ UNCHANGED <<stateVars, serverVars, timeVars>>
      BY <1>15, <2>2 DEF PostRefused
    <3>2. QED
      BY <1>1, <1>2, <3>1, UpdateOnInv DEF timeVars, Labels
  <2>3. QED
    BY <2>1, <2>2
<1>16. CASE SaveDelivered(t)
  <2>1. PICK next \in {DeliveredWithCurrent(s), DeliveredWithPrevious(s)} :
          Update(t, next)
    BY <1>16 DEF SaveDelivered, s
  <2>2. Good(next)
    BY <1>1, DroppedOrDeliveredGood
  <2>3. Continue(t, "flush") /\ UNCHANGED <<serverVars, timeVars>>
    BY <1>16 DEF SaveDelivered
  <2>4. QED
    BY <1>2, <2>1, <2>2, <2>3, UpdateOnInv DEF timeVars, Labels
<1>17. CASE SaveDeliveredFails(t)
  BY <1>1, <1>2, <1>17, UpdateOnInv
     DEF SaveDeliveredFails, SaveFails, Finish, timeVars, Labels
<1>18. CASE MarkFailure(t)
  <2>1. Good(Failed(s))
    BY <1>1 DEF Failed, Good, State, Whole, Contiguous, Bounded
  <2>2. /\ Update(t, Failed(s)) \/ UNCHANGED stateVars
        /\ Continue(t, "idle") /\ UNCHANGED <<serverVars, timeVars>>
    BY <1>18 DEF MarkFailure, SaveFails, Finish, s
  <2>3. QED
    BY <1>2, <2>1, <2>2, UpdateOnInv DEF timeVars, Labels
<1>19. QED
  BY <1>3, <1>4, <1>5, <1>6, <1>7, <1>8, <1>9, <1>10, <1>11, <1>12, <1>13,
     <1>14, <1>15, <1>16, <1>17, <1>18 DEF SendStep

-----------------------------------------------------------------------------
(* What the steps of the pairing client preserve. *)

LEMMA ReplySetInv ==
  ASSUME IInv, NEW t \in Task, NEW c \in Credentials \cup {None}
  PROVE  [reply EXCEPT ![t] = c] \in [Task -> Credentials \cup {None}]
  BY DEF IInv, TaskInv

LEMMA PairingStepInv ==
  ASSUME IInv, NEW t \in Task, PairingStep(t), UNCHANGED crashes
  PROVE  IInv'
<1> DEFINE s == Memory(t)
<1>1. Good(s) /\ s \in State
  BY MemoryGood DEF IInv, Good
<1>2. /\ [reply EXCEPT ![t] = None] \in [Task -> Credentials \cup {None}]
      /\ reply \in [Task -> Credentials \cup {None}]
      /\ reply[t] \in Credentials \cup {None}
      /\ crashes' \in Nat /\ clock \in Nat /\ horizon \in Nat
  BY ReplySetInv DEF IInv, TaskInv
<1> HIDE DEF s
<1>3. CASE PollAnswered(t)
  <2> DEFINE r == snap[t].pending
  <2>1. <<r, 1>> \in live
    BY <1>3 DEF PollAnswered
  <2>2. <<r, 1>> \in Credentials /\ r \in Requests /\ request[r] \in Posts
    BY <2>1 DEF IInv, ServerInv, Credentials
  <2>3. /\ Goto(t, "approved") /\ UNCHANGED snap
        /\ reply' \in [Task -> Credentials \cup {None}]
        /\ UNCHANGED <<stateVars, serverVars>>
        /\ clock' \in Nat /\ horizon' \in Nat
    BY <1>2, <1>3, <2>2, ReplySetInv DEF PollAnswered, pairingFrame, timeVars
  <2>4. StoreInv' /\ ServerInv' /\ RequestsKept
    BY <2>3, UnchangedStoreInv, UnchangedServerInv DEF IInv
  <2>5. TaskInv'
    BY <1>2, <2>2, <2>3, <2>4, GotoInv DEF IInv, Labels
  <2>6. QED
    BY <2>4, <2>5 DEF IInv
<1>4. CASE PollEnds(t)
  BY <1>1, <1>2, <1>4, UpdateOnInv
     DEF PollEnds, Return, Finish, pairingFrame, timeVars, Labels
<1>5. CASE SaveApproval(t)
  <2> DEFINE p == request[snap[t].pending]
  <2>1. p \in Posts
    BY <1>5 DEF SaveApproval, IInv, TaskInv, Fits
  <2>2. Good(Connected(s, p, reply[t]))
    BY <1>1, <1>2, <2>1, ConnectedGood
  <2>3. /\ Update(t, Connected(s, p, reply[t]))
        /\ Continue(t, "start")
        /\ reply' = [reply EXCEPT ![t] = None]
        /\ UNCHANGED <<serverVars, timeVars>>
    BY <1>5 DEF SaveApproval, pairingFrame, s
  <2> HIDE DEF p
  <2>4. QED
    BY <1>2, <2>2, <2>3, UpdateOnInv DEF timeVars, Labels
<1>6. CASE SaveApprovalFails(t)
  BY <1>1, <1>2, <1>6, UpdateOnInv
     DEF SaveApprovalFails, SaveFails, Return, Finish, pairingFrame, timeVars,
         Labels
<1>7. CASE UnpairAnswered(t) \/ UnpairUnanswered(t)
  <2>1. /\ Revoke(snap[t].credential) \/ UNCHANGED serverVars
        /\ UNCHANGED <<stateVars, timeVars>>
    BY <1>7 DEF UnpairAnswered, UnpairUnanswered
  <2>2. ServerInv' /\ RequestsKept
    BY <2>1, RevokeInv, UnchangedServerInv DEF IInv
  <2>3. StoreInv'
    BY <2>1, UnchangedStoreInv DEF IInv
  <2>4. PICK label \in {"revoked", "unreachable", "idle"} :
          Continue(t, label)
    BY <1>7 DEF UnpairAnswered, UnpairUnanswered, Return, Finish
  <2>5. reply' \in [Task -> Credentials \cup {None}]
    BY <1>2, <1>7 DEF UnpairAnswered, UnpairUnanswered, Return
  <2>6. QED
    BY <1>2, <2>1, <2>2, <2>3, <2>4, <2>5, StepOnInv DEF timeVars, Labels
<1>8. CASE SaveCleared(t)
  <2>1. Good(Cleared(s))
    BY <1>1, ClearedGood
  <2>2. Update(t, Cleared(s)) \/ UNCHANGED stateVars
    BY <1>8 DEF SaveCleared, SaveFails, s
  <2>3. QED
    BY <1>2, <1>8, <2>1, <2>2, UpdateOnInv
       DEF SaveCleared, Return, Finish, pairingFrame, timeVars, Labels
<1>9. CASE SavePending(t)
  <2>1. Good(RevocationPending(s))
    BY <1>1 DEF RevocationPending, Good, State, Whole, Contiguous, Bounded
  <2>2. Update(t, RevocationPending(s)) \/ UNCHANGED stateVars
    BY <1>9 DEF SavePending, SaveFails, s
  <2>3. QED
    BY <1>2, <1>9, <2>1, <2>2, UpdateOnInv
       DEF SavePending, Return, Finish, pairingFrame, timeVars, Labels
<1>10. CASE RotateAnswered(t)
  <2> DEFINE c == snap[t].credential
  <2>1. /\ IssueReplacement(c)
        /\ reply' = [reply EXCEPT ![t] = <<c[1], issued[c[1]] + 1>>]
        /\ Continue(t, "rotated")
        /\ UNCHANGED <<stateVars, timeVars>>
    BY <1>10 DEF RotateAnswered
  <2>2. /\ ServerInv' /\ RequestsKept
        /\ <<c[1], issued[c[1]] + 1>> \in Credentials
    BY <2>1, IssueInv DEF IInv
  <2>3. reply' \in [Task -> Credentials \cup {None}]
    BY <2>1, <2>2, ReplySetInv
  <2>4. StoreInv'
    BY <2>1, UnchangedStoreInv DEF IInv
  <2>5. QED
    BY <1>2, <2>1, <2>2, <2>3, <2>4, StepOnInv DEF timeVars, Labels
<1>11. CASE RotateUnanswered(t)
  <2>1. IssueReplacement(snap[t].credential) \/ UNCHANGED serverVars
    BY <1>11 DEF RotateUnanswered
  <2>2. ServerInv' /\ RequestsKept
    BY <2>1, IssueInv, UnchangedServerInv DEF IInv
  <2>3. StoreInv'
    BY <1>11, UnchangedStoreInv DEF RotateUnanswered, IInv
  <2>4. QED
    BY <1>2, <1>11, <2>2, <2>3, StepOnInv
       DEF RotateUnanswered, Return, Finish, timeVars, Labels
<1>12. CASE SaveRotated(t)
  <2>1. Good(Rotated(s, reply[t]))
    BY <1>1, <1>2 DEF Rotated, Good, State, Whole, Contiguous, Bounded
  <2>2. Update(t, Rotated(s, reply[t])) \/ UNCHANGED stateVars
    BY <1>12 DEF SaveRotated, SaveFails, s
  <2>3. QED
    BY <1>2, <1>12, <2>1, <2>2, UpdateOnInv
       DEF SaveRotated, Return, Finish, pairingFrame, timeVars, Labels
<1>13. QED
  BY <1>3, <1>4, <1>5, <1>6, <1>7, <1>8, <1>9, <1>10, <1>11, <1>12
     DEF PairingStep

-----------------------------------------------------------------------------
(* What the loop, the starts of operations, and the events around the      *)
(* tasks preserve.                                                         *)

LEMMA CredentialKeptInv ==
  ASSUME IInv, NEW t \in Task, NEW label \in {"unpairing", "retrying", "rotating"},
         Keep(t, CredentialView(Memory(t))), Goto(t, label),
         UNCHANGED <<reply, crashes, stateVars, pairingFrame>>
  PROVE  IInv'
<1>1. CredentialView(Memory(t)) \in State
  BY MemoryGood, PartsGood DEF IInv
<1>2. QED
  BY <1>1, QuietMoveInv DEF Labels

(* A Reload reads the file... *)
LEMMA ReloadReadInv ==
  ASSUME IInv, NEW t \in Task, NEW label \in {"reading", "refreshing"},
         ReloadRead(t), Goto(t, label),
         UNCHANGED <<reply, crashes, stateVars, pairingFrame>>
  PROVE  IInv'
<1>1. disk \in State /\ Whole(disk)
  BY DEF IInv, StoreInv, Good
<1>2. QED
  BY <1>1, QuietMoveInv DEF ReloadRead, Keep, Labels

(* ...and publishes it later. *)
LEMMA ReloadPublishInv ==
  ASSUME IInv, NEW t \in Task, NEW label \in {"awake", "idle"},
         pc[t] \in {"reading", "refreshing"},
         ReloadPublish(t), Continue(t, label),
         UNCHANGED <<reply, crashes, pairingFrame>>
  PROVE  IInv'
<1>1. Good(snap[t])
  BY DEF IInv, TaskInv, Fits, Good
<1>2. mem' = [mem EXCEPT ![ProcessOf[t]] = snap[t]] /\ UNCHANGED disk
  BY DEF ReloadPublish
<1>3. StoreInv'
  BY <1>1, <1>2, StateAssumption DEF IInv, StoreInv, Good, Whole, Contiguous, Bounded
<1>4. ServerInv' /\ RequestsKept
  BY UnchangedServerInv DEF IInv, pairingFrame
<1>5. /\ reply' \in [Task -> Credentials \cup {None}]
      /\ clock' \in Nat /\ horizon' \in Nat /\ crashes' \in Nat
  BY DEF IInv, TaskInv, pairingFrame, timeVars
<1>6. QED
  BY <1>3, <1>4, <1>5, StepOnInv DEF Labels

LEMMA LoopStepInv ==
  ASSUME IInv, LoopStep
  PROVE  IInv'
<1>1. Loop \in Task /\ ProcessOf[Loop] = Service /\ Service \in Process
  BY AgentAssumption, StateAssumption
<1>2. CASE Wake
  BY <1>1, <1>2, ReloadReadInv DEF Wake
<1>3. CASE WakeWithoutReload
  BY <1>1, <1>3, QuietGotoInv DEF WakeWithoutReload, Labels
<1>4. CASE Reloaded
  BY <1>1, <1>4, ReloadPublishInv DEF Reloaded
<1>5. CASE Cycle
  <2>1. CASE RetryStart(Loop)
    BY <1>1, <1>5, <2>1, CredentialKeptInv DEF Cycle, RetryStart
  <2>2. CASE ~RetryStart(Loop)
    BY <1>1, <1>5, <2>2, QuietGotoInv DEF Cycle, Labels
  <2>3. QED
    BY <2>1, <2>2
<1>6. QED
  BY <1>2, <1>3, <1>4, <1>5 DEF LoopStep

LEMMA OpenCommandInv ==
  ASSUME IInv, NEW t \in Task, OpenCommand(t)
  PROVE  IInv'
<1>1. StoreInv'
  BY OpenInv, StateAssumption DEF OpenCommand, IInv
<1>2. ServerInv' /\ RequestsKept
  BY UnchangedServerInv DEF OpenCommand, pairingFrame, IInv
<1>3. /\ Goto(t, "opened") /\ UNCHANGED snap
      /\ reply' \in [Task -> Credentials \cup {None}]
      /\ clock' \in Nat /\ horizon' \in Nat /\ crashes' \in Nat
  BY DEF OpenCommand, IInv, TaskInv, pairingFrame, timeVars
<1>4. TaskInv'
  BY <1>2, <1>3, GotoInv DEF IInv, Labels
<1>5. QED
  BY <1>1, <1>2, <1>4 DEF IInv

LEMMA OperateInv ==
  ASSUME IInv, NEW t \in Task, Operate(t)
  PROVE  IInv'
<1> DEFINE s == Memory(t)
<1>1. Good(s) /\ s \in State
  BY MemoryGood DEF IInv, Good
<1>2. /\ [reply EXCEPT ![t] = None] \in [Task -> Credentials \cup {None}]
      /\ UNCHANGED crashes /\ crashes \in Nat /\ clock \in Nat
      /\ horizon \in Nat /\ reply \in [Task -> Credentials \cup {None}]
  BY ReplySetInv DEF Operate, IInv, TaskInv
<1> HIDE DEF s
<1>3. CASE RequestPairing(t)
  <2>1. PICK r \in Requests :
          /\ CreateRequest(r)
          /\ Update(t, Requested(s, r)) \/ UNCHANGED stateVars
    BY <1>3 DEF RequestPairing, s
  <2>2. ServerInv' /\ RequestsKept
    BY <2>1, CreateRequestInv DEF IInv
  <2>3. Good(Requested(s, r))
    BY <1>1 DEF Requested, Good, State, Whole, Contiguous, Bounded
  <2>4. StoreInv'
    BY <2>1, <2>3, UpdateInv, UnchangedStoreInv DEF IInv
  <2>5. QED
    BY <1>2, <1>3, <2>2, <2>4, StepOnInv
       DEF RequestPairing, Return, Finish, timeVars, Labels
<1>4. CASE PollStart(t)
  <2>1. [NoSnapshot EXCEPT !.pending = s.pending] \in State
    BY <1>1, PartsGood
  <2>2. QED
    BY <1>2, <1>4, <2>1, QuietMoveInv DEF PollStart, Labels, s
<1>5. CASE UnpairStart(t)
  BY <1>2, <1>5, CredentialKeptInv DEF UnpairStart
<1>6. CASE RotateStart(t)
  BY <1>2, <1>6, CredentialKeptInv DEF RotateStart
<1>7. CASE ResetState(t)
  <2>1. Good(Cleared(s))
    BY <1>1, ClearedGood
  <2>2. StoreInv'
    BY <1>7, <2>1, UpdateInv, UnchangedStoreInv DEF ResetState, SaveFails, IInv, s
  <2>3. ServerInv' /\ RequestsKept
    BY <1>7, UnchangedServerInv DEF ResetState, pairingFrame, IInv
  <2>4. TaskInv'
    BY <1>2, <1>7, <2>3, UnchangedTaskInv
       DEF ResetState, pairingFrame, timeVars, IInv
  <2>5. QED
    BY <2>2, <2>3, <2>4 DEF IInv
<1>8. CASE SaveSettings(t)
  <2>1. Update(t, s) \/ UNCHANGED stateVars
    BY <1>8 DEF SaveSettings, SaveFails, s
  <2>2. /\ Continue(t, "idle") /\ UNCHANGED <<reply, serverVars>>
        /\ clock' \in Nat /\ horizon' \in Nat /\ crashes' \in Nat
    BY <1>2, <1>8 DEF SaveSettings, Finish, pairingFrame, timeVars
  <2>3. QED
    BY <1>1, <1>2, <2>1, <2>2, UpdateOnInv DEF Labels
<1>9. CASE Refresh(t)
  BY <1>2, <1>9, ReloadReadInv DEF Refresh
<1>10. QED
  BY <1>3, <1>4, <1>5, <1>6, <1>7, <1>8, <1>9 DEF Operate

LEMMA CrashInv ==
  ASSUME IInv, NEW p \in Process, Crash(p)
  PROVE  IInv'
<1>1. StoreInv'
  BY OpenInv DEF Crash, IInv
<1>2. ServerInv' /\ RequestsKept
  BY UnchangedServerInv DEF Crash, pairingFrame, IInv
<1>3. TaskInv'
  <2>1. NoSnapshot \in State
    BY FirstRunGood DEF Good, NoSnapshot
  <2>2. pc' \in [Task -> Labels]
    BY DEF Crash, IInv, TaskInv, Labels
  <2>3. snap' \in [Task -> State]
    BY <2>1 DEF Crash, IInv, TaskInv
  <2>4. reply' \in [Task -> Credentials \cup {None}]
    BY DEF Crash, IInv, TaskInv
  <2>5. clock' \in Nat /\ horizon' \in Nat /\ crashes' \in Nat
    BY DEF Crash, IInv, TaskInv, pairingFrame, timeVars
  <2>6. ASSUME NEW t \in Task PROVE Fits(pc[t], snap[t])'
    <3>1. CASE ProcessOf[t] = p
      BY <3>1 DEF Crash, Fits
    <3>2. CASE ProcessOf[t] # p
      BY <1>2, <3>2 DEF Crash, Fits, IInv, TaskInv, RequestsKept, Whole, Contiguous, Bounded
    <3>3. QED
      BY <3>1, <3>2
  <2>7. QED
    BY <2>2, <2>3, <2>4, <2>5, <2>6 DEF TaskInv
<1>4. QED
  BY <1>1, <1>2, <1>3 DEF IInv

LEMMA OutsideInv ==
  ASSUME IInv, Outside
  PROVE  IInv'
<1>1. UNCHANGED taskVars /\ UNCHANGED reply /\ UNCHANGED stateVars
  BY DEF Outside, DayPasses
<1>2. ServerInv' /\ RequestsKept
  BY ApproveInv, LossOfAuthorityInv, UnchangedServerInv
     DEF Outside, DayPasses, IInv
<1>3. clock' \in Nat /\ horizon' \in Nat /\ crashes' \in Nat
  BY DEF Outside, DayPasses, IInv, TaskInv, timeVars
<1>4. StoreInv' /\ TaskInv'
  BY <1>1, <1>2, <1>3, UnchangedStoreInv, UnchangedTaskInv DEF IInv
<1>5. QED
  BY <1>2, <1>4 DEF IInv

-----------------------------------------------------------------------------
(* The theorems. *)

LEMMA StepInv == IInv /\ [Next]_vars => IInv'
<1> SUFFICES ASSUME IInv, [Next]_vars PROVE IInv'
  OBVIOUS
<1>1. CASE LoopStep
  BY <1>1, LoopStepInv
<1>2. ASSUME NEW t \in Task, TaskStep(t) PROVE IInv'
  <2>1. CASE Refreshed(t) /\ UNCHANGED crashes
    BY <2>1, ReloadPublishInv DEF Refreshed, Finish
  <2>2. QED
    BY <1>2, <2>1, SendStepInv, PairingStepInv DEF TaskStep
<1>3. ASSUME NEW t \in Task, OpenCommand(t) \/ Operate(t) PROVE IInv'
  BY <1>3, OpenCommandInv, OperateInv
<1>4. ASSUME NEW p \in Process, Crash(p) PROVE IInv'
  BY <1>4, CrashInv
<1>5. CASE Outside
  BY <1>5, OutsideInv
<1>6. CASE UNCHANGED vars
  <2>1. StoreInv' /\ ServerInv' /\ RequestsKept
    BY <1>6, UnchangedStoreInv, UnchangedServerInv
       DEF vars, stateVars, serverVars, IInv
  <2>2. TaskInv'
    BY <1>6, <2>1, UnchangedTaskInv DEF vars, taskVars, IInv, TaskInv
  <2>3. QED
    BY <2>1, <2>2 DEF IInv
<1>7. QED
  BY <1>1, <1>2, <1>3, <1>4, <1>5, <1>6 DEF Next

(* In every behaviour the inductive invariant holds. *)
THEOREM InvariantHolds == Spec => []IInv
  BY InitInv, StepInv, PTL DEF Spec

(* Every variable keeps its type (TypeOK), whatever tasks, processes and   *)
(* bounds there are: a snapshot, a file and a memory are always states the *)
(* program can be in, and no save publishes an answer that names no post.  *)
THEOREM TypeCorrect == Spec => []TypeOK
<1>1. IInv => TypeOK
  BY DEF IInv, StoreInv, TaskInv, ServerInv, Good, TypeOK
<1>2. QED
  BY <1>1, InvariantHolds, PTL

(* Queued batches occupy consecutive, disjoint sequence ranges in the file *)
(* and in every memory (SequencesDisjoint), however Send, Reload, pairing, *)
(* reset, crashes and CLI commands interleave.                             *)
THEOREM SequencesAreDisjoint == Spec => []SequencesDisjoint
<1>1. IInv => SequencesDisjoint
  BY DEF IInv, StoreInv, Good, Whole, SequencesDisjoint
<1>2. QED
  BY <1>1, InvariantHolds, PTL

(* The queue never holds more batches, or more samples, than its bounds    *)
(* allow (QueueBounded), in the file and in every memory: what is saved    *)
(* was built from a queue with room for it.                                *)
THEOREM QueueStaysBounded == Spec => []QueueBounded
<1>1. IInv => QueueBounded
  BY DEF IInv, StoreInv, Good, Whole, Bounded, QueueBounded
<1>2. QED
  BY <1>1, InvariantHolds, PTL

=============================================================================
