----------------------------- MODULE LoopProofs ------------------------------
(***************************************************************************)
(* Proofs about the delivery loop of the service, alone or beside handlers *)
(* that unpair and save settings: what it delivers, in which order, what   *)
(* it may lose, and that, alone, it implements Channel.  A Reload may put  *)
(* back a memory that an unpairing has cleared in between, so the file,    *)
(* the memory and what a Reload has read need not agree.  The invariant    *)
(* says how far they differ: two of them hold the same connection and      *)
(* queue, or one of them is empty, and then nothing authorises the other.  *)
(***************************************************************************)
EXTENDS AgentProofs

(* One process, paired to begin with, whose handlers unpair and save.      *)
LoopWithUnpairing ==
  /\ Process = {Service}
  /\ StartPaired
  /\ \A t \in Handlers : Operations[t] \subseteq {"unpair", "save"}
  /\ Events \subseteq {"age", "revoke", "lapse"}

(* The same without the handlers. *)
LoopAlone == LoopWithUnpairing /\ \A t \in Handlers : Operations[t] = {}

-----------------------------------------------------------------------------
(* What is known of one state. *)

Unpaired(s) == s.postID = None /\ s.credential = None /\ s.previous = None

Empty(s) == Unpaired(s) /\ s.queue = <<>>

(* As an unpairing leaves it. *)
Fresh(s) == Empty(s) /\ s.nextSequence = 1

Alike(r, s) ==
  /\ r.postID = s.postID /\ r.credential = s.credential /\ r.previous = s.previous
  /\ r.queue = s.queue /\ r.nextSequence = s.nextSequence /\ r.dropped = s.dropped

Match(r, s) == Alike(r, s) \/ Fresh(r) \/ Fresh(s)

(* The part of Watchpost and of the time that the states depend on. *)
World ==
  [ top |-> <<1, issued[1]>>, live |-> live, post |-> request[1],
    seq |-> lastSeq[1], got |-> received, now |-> clock ]

(* The last credential issued is not accepted any more. *)
Gone(w) == w.top \notin w.live

Ordered(s, w) ==
  /\ \A i \in 1 .. Len(s.queue) :
       /\ s.queue[i].first <= s.queue[i].last
       /\ s.queue[i].last < s.nextSequence
       /\ s.queue[i].id <= w.now
  /\ \A i, j \in 1 .. Len(s.queue) : i < j =>
       s.queue[i].last < s.queue[j].first /\ s.queue[i].id < s.queue[j].id

Oldest(s, w) ==
  \A i, j \in 1 .. Len(s.queue) :
    i < j /\ s.queue[j].id \in w.got => s.queue[i].id \in w.got

(* Everything that waits is for the post of the pairing, and known to      *)
(* Watchpost or past its last sequence.                                    *)
Deliverable(s, w) ==
  /\ \A i \in 1 .. Len(s.queue) :
       /\ s.queue[i].post = w.post
       /\ s.queue[i].id \in w.got \/ s.queue[i].first > w.seq
  /\ s.nextSequence > w.seq

Paired(s, w) ==
  /\ s.postID = w.post
  /\ s.credential # None
  /\ s.credential[1] = 1
  /\ s.credential = w.top \/ Gone(w)
  /\ s.previous # None => (s.previous[1] = 1 /\ s.previous[2] < s.credential[2])
  /\ Deliverable(s, w)

Orphan(s, w) == Unpaired(s) /\ Gone(w) /\ Len(s.queue) <= 1

Sound(s, w) ==
  /\ Ordered(s, w) /\ Oldest(s, w)
  /\ Paired(s, w) \/ Orphan(s, w)

-----------------------------------------------------------------------------
(* What is known of the loop between two steps: it has the snapshot part,  *)
(* the memory s, and the file d.                                           *)

Sending ==
  { "collecting", "enqueued", "flush", "stale", "posting", "postingPrevious",
    "accepted", "acceptedPrevious", "failed" }

LoopLabels == {"idle", "reading", "awake", "start", "retrying", "revoked"} \cup Sending
HandlerLabels == {"idle", "unpairing", "revoked", "unreachable"}

Holds(part, s) ==
  /\ s.queue # <<>> /\ s.queue[1] = part.queue[1]
  /\ s.credential = part.credential /\ s.previous = part.previous

Taken(s, w) == s.queue # <<>> /\ s.queue[1].id \in w.got

Doing(label, part, s, d, w, old) ==
  /\ label \in Sending => Alike(d, s) \/ Fresh(d)
  /\ label = "reading" => Sound(part, w) /\ Match(d, part) /\ Match(s, part)
  /\ label = "collecting" =>
       part.postID = w.post /\ (Unpaired(s) => s.queue = <<>>)
  /\ label \in {"stale", "posting", "postingPrevious"} =>
       part.queue # <<>> /\ part.queue[1].id <= w.now /\ (Holds(part, s) \/ Empty(s))
  /\ label = "stale" => part.queue[1].id <= old
  /\ label = "postingPrevious" => HasFallback(part) /\ Gone(w)
  /\ label = "acceptedPrevious" =>
       Gone(w) /\ (Empty(s) \/ (Taken(s, w) /\ s.previous # None))
  /\ label = "accepted" => Empty(s) \/ (Taken(s, w) /\ s.previous \notin w.live)

(* What a task that unpairs knows. *)
Ending(label, part, w) ==
  /\ label \in {"unpairing", "retrying"} => part.credential = w.top \/ Gone(w)
  /\ label = "revoked" => Gone(w)

WorldInv ==
  /\ request[1] \in Posts
  /\ \A c \in live : c[1] = 1
  /\ \A x \in received : x <= clock

LoopInv ==
  /\ WorldInv
  /\ Sound(disk, World) /\ Sound(mem[Service], World) /\ Match(disk, mem[Service])
  /\ pc[Loop] \in LoopLabels
  /\ Doing(pc[Loop], snap[Loop], mem[Service], disk, World, horizon)
  /\ \A t \in Handlers : pc[t] \in HandlerLabels
  /\ \A t \in Task : Ending(pc[t], snap[t], World)

(* Without handlers, the memory is the file. *)
AloneInv ==
  /\ mem[Service] = disk
  /\ pc[Loop] = "reading" => snap[Loop] = disk
  /\ pc[Loop] \in Sending \cup {"retrying", "revoked"} => disk.credential # None
  /\ \A t \in Handlers : pc[t] = "idle"

-----------------------------------------------------------------------------
(* What happens to a state when the world moves on. *)

Timed(w) == w.seq \in Nat /\ w.now \in Nat

(* Authority is lost, and time passes. *)
Wanes(w, x) ==
  /\ x.top = w.top /\ x.post = w.post /\ x.seq = w.seq /\ x.got = w.got
  /\ x.live \subseteq w.live
  /\ w.now <= x.now

LEMMA QueueTyped ==
  ASSUME NEW s \in State
  PROVE  /\ Len(s.queue) \in Nat
         /\ s.queue # <<>> <=> Len(s.queue) >= 1
         /\ s.nextSequence \in Nat
         /\ \A i \in 1 .. Len(s.queue) : s.queue[i] \in Batch
         /\ \A i \in 1 .. Len(s.queue) :
              s.queue[i].id \in Nat /\ s.queue[i].first \in Nat /\ s.queue[i].last \in Nat
<1>1. s.queue \in Seq(Batch) /\ s.nextSequence \in Nat
  BY DEF State
<1>2. /\ Len(s.queue) \in Nat
      /\ s.queue # <<>> <=> Len(s.queue) >= 1
      /\ \A i \in 1 .. Len(s.queue) : s.queue[i] \in Batch
  BY <1>1
<1>3. QED
  BY <1>1, <1>2 DEF Batch

LEMMA GoneStays ==
  ASSUME NEW w, NEW x, Wanes(w, x), Gone(w)
  PROVE  Gone(x)
  BY DEF Wanes, Gone

LEMMA SoundWanes ==
  ASSUME NEW s \in State, NEW w, NEW x, Timed(w), Timed(x), Wanes(w, x), Sound(s, w)
  PROVE  Sound(s, x)
<1>1. Ordered(s, x)
  BY QueueTyped DEF Sound, Ordered, Wanes, Timed
<1>2. Oldest(s, x)
  BY DEF Sound, Oldest, Wanes
<1>3. Deliverable(s, w) => Deliverable(s, x)
  BY DEF Deliverable, Wanes
<1>4. Paired(s, w) => Paired(s, x)
  BY <1>3, GoneStays DEF Paired, Wanes
<1>5. Orphan(s, w) => Orphan(s, x)
  BY GoneStays DEF Orphan
<1>6. QED
  BY <1>1, <1>2, <1>4, <1>5 DEF Sound

(* Watchpost takes batch b for the pairing. *)
Takes(w, x, b) ==
  /\ x.top = w.top /\ x.post = w.post /\ x.now = w.now
  /\ x.live \subseteq w.live
  /\ x.got = w.got \cup {b.id}
  /\ x.seq = IF b.last > w.seq THEN b.last ELSE w.seq

LEMMA SoundTakesHead ==
  ASSUME NEW s \in State, NEW w, NEW x, Timed(w), Sound(s, w),
         s.queue # <<>>, Takes(w, x, s.queue[1])
  PROVE  Sound(s, x) /\ s.queue[1].id \in x.got
<1> DEFINE n == Len(s.queue)
<1>1. n \in Nat /\ n >= 1 /\ 1 \in 1 .. n
  BY QueueTyped
<1>2. \A i \in 1 .. n : s.queue[i].id \in Nat /\ s.queue[i].first \in Nat /\ s.queue[i].last \in Nat
  BY QueueTyped
<1>3. \A i \in 2 .. n : s.queue[1].last < s.queue[i].first /\ s.queue[1].id < s.queue[i].id
  BY <1>1 DEF Sound, Ordered
<1>4. s.queue[1].last < s.nextSequence /\ s.nextSequence \in Nat
  BY <1>1, QueueTyped DEF Sound, Ordered
<1>5. Ordered(s, x)
  BY DEF Sound, Ordered, Takes
<1>6. Oldest(s, x)
  <2> SUFFICES ASSUME NEW i \in 1 .. n, NEW j \in 1 .. n, i < j, s.queue[j].id \in x.got
               PROVE  s.queue[i].id \in x.got
    BY DEF Oldest
  <2>1. j \in 2 .. n /\ s.queue[j].id # s.queue[1].id
    <3>1. j \in 2 .. n
      BY <1>1
    <3>2. QED
      BY <1>1, <1>2, <1>3, <3>1
  <2>2. s.queue[j].id \in w.got
    BY <2>1 DEF Takes
  <2>3. s.queue[i].id \in w.got
    BY <2>2 DEF Sound, Oldest
  <2>4. QED
    BY <2>3 DEF Takes
<1>7. Deliverable(s, w) => Deliverable(s, x)
  <2> SUFFICES ASSUME Deliverable(s, w) PROVE Deliverable(s, x)
    OBVIOUS
  <2>1. s.nextSequence > x.seq
    BY <1>1, <1>2, <1>4 DEF Deliverable, Takes, Timed
  <2>2. ASSUME NEW i \in 1 .. n
        PROVE  s.queue[i].post = x.post /\ (s.queue[i].id \in x.got \/ s.queue[i].first > x.seq)
    <3>1. CASE i = 1
      BY <3>1 DEF Deliverable, Takes
    <3>2. CASE i # 1
      <4>1. i \in 2 .. n
        BY <1>1, <3>2
      <4>2. QED
        BY <1>1, <1>2, <1>3, <4>1 DEF Deliverable, Takes, Timed
    <3>3. QED
      BY <3>1, <3>2
  <2>3. QED
    BY <2>1, <2>2 DEF Deliverable
<1>8. Gone(w) => Gone(x)
  BY DEF Gone, Takes
<1>9. Paired(s, w) => Paired(s, x)
  BY <1>7, <1>8 DEF Paired, Takes
<1>10. Orphan(s, w) => Orphan(s, x)
  BY <1>8 DEF Orphan
<1>11. QED
  BY <1>5, <1>6, <1>9, <1>10 DEF Sound, Takes

LEMMA OrphanTakes ==
  ASSUME NEW s \in State, NEW w, NEW x, NEW b, Sound(s, w), Unpaired(s), Takes(w, x, b)
  PROVE  Sound(s, x)
<1>1. Orphan(s, w)
  BY DEF Sound, Paired, Unpaired
<1>2. Orphan(s, x)
  BY <1>1 DEF Orphan, Gone, Takes
<1>3. Ordered(s, x)
  BY DEF Sound, Ordered, Takes
<1>4. Oldest(s, x)
  BY <1>1, QueueTyped DEF Orphan, Oldest
<1>5. QED
  BY <1>2, <1>3, <1>4 DEF Sound

-----------------------------------------------------------------------------
(* What the Update callbacks make of a state. *)

(* The delivery state and the connection are left as they are. *)
LEMMA SameSound ==
  ASSUME NEW s, NEW r, NEW w, Sound(s, w),
         r.postID = s.postID, r.credential = s.credential, r.previous = s.previous,
         r.queue = s.queue, r.nextSequence = s.nextSequence
  PROVE  Sound(r, w)
<1>1. Ordered(r, w) /\ Oldest(r, w)
  BY DEF Sound, Ordered, Oldest
<1>2. Deliverable(s, w) => Deliverable(r, w)
  BY DEF Deliverable
<1>3. Paired(s, w) => Paired(r, w)
  BY <1>2 DEF Paired
<1>4. Orphan(s, w) => Orphan(r, w)
  BY DEF Orphan, Unpaired
<1>5. QED
  BY <1>1, <1>3, <1>4 DEF Sound

LEMMA ClearedFresh ==
  ASSUME NEW s \in State, NEW w, Gone(w)
  PROVE  Sound(Cleared(s), w) /\ Fresh(Cleared(s))
<1>1. Fresh(Cleared(s))
  BY DEF Cleared, Connected, EmptyDelivery, Fresh, Empty, Unpaired, State
<1>2. Len(Cleared(s).queue) = 0
  BY <1>1 DEF Fresh, Empty
<1>3. Ordered(Cleared(s), w) /\ Oldest(Cleared(s), w)
  BY <1>2 DEF Ordered, Oldest
<1>4. Orphan(Cleared(s), w)
  BY <1>1, <1>2 DEF Orphan, Fresh, Empty
<1>5. QED
  BY <1>1, <1>3, <1>4 DEF Sound

(* The queue loses its head, and nothing else matters to what follows. *)
LEMMA TailSound ==
  ASSUME NEW s \in State, s.queue # <<>>, NEW r, NEW w, Sound(s, w),
         r.postID = s.postID, r.credential = s.credential, r.previous = s.previous,
         r.queue = Tail(s.queue), r.nextSequence = s.nextSequence
  PROVE  Sound(r, w)
<1> DEFINE n == Len(s.queue)
<1>1. n \in Nat /\ n >= 1 /\ s.queue \in Seq(Batch)
  BY QueueTyped DEF State
<1>2. /\ Len(r.queue) = n - 1
      /\ \A i \in 1 .. n - 1 : r.queue[i] = s.queue[i + 1] /\ i + 1 \in 1 .. n
  BY <1>1
<1>3. Ordered(r, w)
  <2>1. \A i \in 1 .. n - 1 : \A j \in 1 .. n - 1 : i < j => i + 1 < j + 1
    BY <1>1
  <2>2. QED
    BY <1>1, <1>2, <2>1 DEF Sound, Ordered
<1>4. Oldest(r, w)
  <2>1. \A i \in 1 .. n - 1 : \A j \in 1 .. n - 1 : i < j => i + 1 < j + 1
    BY <1>1
  <2>2. QED
    BY <1>1, <1>2, <2>1 DEF Sound, Oldest
<1>5. Deliverable(s, w) => Deliverable(r, w)
  BY <1>1, <1>2 DEF Deliverable
<1>6. Paired(s, w) => Paired(r, w)
  BY <1>5 DEF Paired
<1>7. Orphan(s, w) => Orphan(r, w)
  BY <1>1, <1>2 DEF Orphan, Unpaired
<1>8. QED
  BY <1>3, <1>4, <1>6, <1>7 DEF Sound

LEMMA PoppedSound ==
  ASSUME NEW s \in State, NEW w, Sound(s, w)
  PROVE  Sound(Popped(s), w) /\ Sound(StaleDropped(s), w)
<1>1. /\ \A field \in {"postID", "credential", "previous", "nextSequence"} :
            Popped(s)[field] = s[field] /\ StaleDropped(s)[field] = s[field]
      /\ Popped(s).queue = StaleDropped(s).queue
      /\ Popped(s).queue = IF s.queue = <<>> THEN s.queue ELSE Tail(s.queue)
  BY DEF Popped, StaleDropped, State
<1>2. CASE s.queue = <<>>
  BY <1>1, <1>2, SameSound
<1>3. CASE s.queue # <<>>
  BY <1>1, <1>3, TailSound
<1>4. QED
  BY <1>2, <1>3

LEMMA EnqueuedSound ==
  ASSUME NEW s \in State, NEW w, NEW x, Timed(w), Sound(s, w),
         Wanes(w, x), x.now = w.now + 1, \A k \in w.got : k <= w.now,
         NEW b \in Batch, b.id = w.now + 1, b.post = w.post,
         b.first = FirstSequence(s), b.first <= b.last,
         Unpaired(s) => s.queue = <<>>, w.got \subseteq Nat
  PROVE  Sound(Enqueued(s, b), x)
<1> DEFINE r == Enqueued(s, b)
           n == Len(s.queue)
<1>1. n \in Nat /\ s.queue \in Seq(Batch) /\ s.nextSequence \in Nat
  BY QueueTyped DEF State
<1>2. /\ r.postID = s.postID /\ r.credential = s.credential /\ r.previous = s.previous
      /\ r.queue = Append(s.queue, b) /\ r.nextSequence = b.last + 1
  BY DEF Enqueued, State
<1>3. /\ Len(r.queue) = n + 1 /\ r.queue[n + 1] = b
      /\ \A i \in 1 .. n : r.queue[i] = s.queue[i]
  BY <1>1, <1>2
<1> HIDE DEF r
<1>4. b.id \in Nat /\ b.first \in Nat /\ b.last \in Nat
  BY DEF Batch
<1>5. \A i \in 1 .. n : s.queue[i].id \in Nat /\ s.queue[i].first \in Nat /\ s.queue[i].last \in Nat
  BY QueueTyped
<1>6. s.nextSequence <= b.first
  BY <1>1 DEF FirstSequence
<1>7. \A i \in 1 .. n : s.queue[i].last < b.first /\ s.queue[i].last < b.last + 1 /\ s.queue[i].id < b.id
  BY <1>1, <1>4, <1>5, <1>6 DEF Sound, Ordered, Timed
<1>8. b.id \notin w.got
  BY DEF Timed
<1>9. \A i \in 1 .. n + 1 : i \in 1 .. n \/ i = n + 1
  BY <1>1
<1>10. Ordered(r, x)
  <2>1. \A i \in 1 .. n + 1 : /\ r.queue[i].first <= r.queue[i].last
                              /\ r.queue[i].last < r.nextSequence
                              /\ r.queue[i].id <= x.now
    <3> TAKE i \in 1 .. n + 1
    <3>1. CASE i \in 1 .. n
      BY <1>2, <1>3, <1>5, <1>7, <3>1 DEF Sound, Ordered, Timed
    <3>2. CASE i = n + 1
      BY <1>2, <1>3, <1>4, <3>2 DEF Timed
    <3>3. QED
      BY <1>9, <3>1, <3>2
  <2>2. \A i, j \in 1 .. n + 1 : i < j =>
          r.queue[i].last < r.queue[j].first /\ r.queue[i].id < r.queue[j].id
    <3> TAKE i, j \in 1 .. n + 1
    <3> HAVE i < j
    <3>1. i \in 1 .. n
      BY <1>1
    <3>2. CASE j \in 1 .. n
      BY <1>3, <3>1, <3>2 DEF Sound, Ordered
    <3>3. CASE j = n + 1
      BY <1>3, <1>7, <3>1, <3>3
    <3>4. QED
      BY <1>9, <3>2, <3>3
  <2>3. QED
    BY <1>3, <2>1, <2>2 DEF Ordered
<1>11. Oldest(r, x)
  <2> SUFFICES ASSUME NEW i \in 1 .. n + 1, NEW j \in 1 .. n + 1, i < j, r.queue[j].id \in w.got
               PROVE  r.queue[i].id \in w.got
    BY <1>3 DEF Oldest, Wanes
  <2>1. j \in 1 .. n
    BY <1>3, <1>8, <1>9
  <2>2. i \in 1 .. n
    BY <1>1, <2>1
  <2>3. QED
    BY <1>3, <2>1, <2>2 DEF Sound, Oldest
<1>12. Deliverable(s, w) => Deliverable(r, x)
  <2> SUFFICES ASSUME Deliverable(s, w) PROVE Deliverable(r, x)
    OBVIOUS
  <2>1. b.first > w.seq /\ b.last + 1 > w.seq
    BY <1>1, <1>4, <1>6 DEF Deliverable, Timed
  <2>2. \A i \in 1 .. n + 1 :
          r.queue[i].post = x.post /\ (r.queue[i].id \in x.got \/ r.queue[i].first > x.seq)
    <3> TAKE i \in 1 .. n + 1
    <3>1. CASE i \in 1 .. n
      BY <1>3, <3>1 DEF Deliverable, Wanes
    <3>2. CASE i = n + 1
      BY <1>3, <2>1, <3>2 DEF Wanes
    <3>3. QED
      BY <1>9, <3>1, <3>2
  <2>3. QED
    BY <1>2, <1>3, <2>1, <2>2 DEF Deliverable, Wanes
<1>13. Paired(s, w) => Paired(r, x)
  BY <1>2, <1>12, GoneStays DEF Paired, Wanes
<1>14. Orphan(s, w) => Orphan(r, x)
  <2> SUFFICES ASSUME Orphan(s, w) PROVE Orphan(r, x)
    OBVIOUS
  <2>1. n = 0
    BY DEF Orphan
  <2>2. QED
    BY <1>2, <1>3, <2>1, GoneStays DEF Orphan, Unpaired
<1>15. Sound(r, x)
  BY <1>10, <1>11, <1>13, <1>14 DEF Sound
<1>16. QED
  BY <1>15 DEF r

(* The head was taken with the credential in use, or with the previous one *)
(* after the replacement was refused.                                      *)
LEMMA DeliveredSound ==
  ASSUME NEW s \in State, NEW w, Sound(s, w), Empty(s) \/ s.queue # <<>>
  PROVE  /\ Sound(DeliveredWithCurrent(s), w)
         /\ Gone(w) /\ (Empty(s) \/ s.previous # None) => Sound(DeliveredWithPrevious(s), w)
<1> DEFINE p == Popped(s)
           c == DeliveredWithCurrent(s)
           d == DeliveredWithPrevious(s)
<1>1. /\ p.postID = s.postID /\ p.credential = s.credential /\ p.previous = s.previous
      /\ c.postID = s.postID /\ c.credential = s.credential /\ c.previous = None
      /\ d.postID = s.postID /\ d.credential = s.previous /\ d.previous = None
      /\ c.queue = p.queue /\ d.queue = p.queue
      /\ c.nextSequence = p.nextSequence /\ d.nextSequence = p.nextSequence
  BY DEF DeliveredWithCurrent, DeliveredWithPrevious, Popped, State
<1>2. Sound(p, w)
  BY PoppedSound
<1> HIDE DEF p, c, d
<1>3. Ordered(c, w) /\ Oldest(c, w) /\ Ordered(d, w) /\ Oldest(d, w)
  BY <1>1, <1>2 DEF Sound, Ordered, Oldest
<1>4. Deliverable(p, w) => Deliverable(c, w) /\ Deliverable(d, w)
  BY <1>1 DEF Deliverable
<1>5. Paired(p, w) => Paired(c, w)
  BY <1>1, <1>4 DEF Paired
<1>6. Orphan(p, w) => Orphan(c, w) /\ Orphan(d, w)
  BY <1>1 DEF Orphan, Unpaired
<1>7. Sound(c, w)
  BY <1>2, <1>3, <1>5, <1>6 DEF Sound
<1>8. ASSUME Gone(w), Empty(s) \/ s.previous # None PROVE Sound(d, w)
  <2>1. CASE Paired(p, w)
    <3>1. s.previous # None
      BY <1>1, <1>8, <2>1 DEF Paired, Empty, Unpaired
    <3>2. s.previous[1] = 1
      BY <1>1, <2>1, <3>1 DEF Paired
    <3>3. Paired(d, w)
      BY <1>1, <1>4, <1>8, <2>1, <3>1, <3>2 DEF Paired
    <3>4. QED
      BY <1>3, <3>3 DEF Sound
  <2>2. CASE Orphan(p, w)
    BY <1>3, <1>6, <2>2 DEF Sound
  <2>3. QED
    BY <1>2, <2>1, <2>2 DEF Sound
<1>9. QED
  BY <1>7, <1>8 DEF c, d

-----------------------------------------------------------------------------
(* What is known of a task stays known when the world moves on, and when a *)
(* handler saves the memory, with a revocation pending or cleared.         *)

LEMMA EndingWanes ==
  ASSUME NEW label, NEW part, NEW w, NEW x,
         x.top = w.top, x.live \subseteq w.live, Ending(label, part, w)
  PROVE  Ending(label, part, x)
<1>1. Gone(w) => Gone(x)
  BY DEF Gone
<1>2. QED
  BY <1>1 DEF Ending

LEMMA DoingWanes ==
  ASSUME NEW label, NEW part \in State, NEW s, NEW d, NEW w, NEW x, NEW old \in Nat, NEW new \in Nat,
         Timed(w), Timed(x), Wanes(w, x), old <= new,
         Doing(label, part, s, d, w, old)
  PROVE  Doing(label, part, s, d, x, new)
<1>1. Gone(w) => Gone(x)
  BY GoneStays
<1>2. label = "reading" => Sound(part, x) /\ Match(d, part) /\ Match(s, part)
  BY SoundWanes DEF Doing
<1>3. label \in {"stale", "posting", "postingPrevious"} =>
        part.queue # <<>> /\ part.queue[1].id <= x.now /\ (Holds(part, s) \/ Empty(s))
  BY QueueTyped DEF Doing, Timed, Wanes
<1>4. label = "stale" => part.queue[1].id <= new
  BY QueueTyped DEF Doing
<1>5. label = "acceptedPrevious" => Gone(x) /\ (Empty(s) \/ (Taken(s, x) /\ s.previous # None))
  BY <1>1 DEF Doing, Taken, Wanes
<1>6. label = "accepted" => Empty(s) \/ (Taken(s, x) /\ s.previous \notin x.live)
  BY DEF Doing, Taken, Wanes
<1>7. QED
  BY <1>1, <1>2, <1>3, <1>4, <1>5, <1>6 DEF Doing, Wanes

LEMMA DoingSaved ==
  ASSUME NEW label, NEW part, NEW s, NEW d, NEW n, NEW w, NEW old,
         Doing(label, part, s, d, w, old), Alike(n, s) \/ Fresh(n)
  PROVE  Doing(label, part, n, n, w, old)
<1>1. Alike(n, n)
  BY DEF Alike
<1>2. Match(s, part) => Match(n, part)
  BY DEF Match, Alike, Fresh, Empty, Unpaired
<1>3. Empty(s) => Empty(n)
  BY DEF Alike, Fresh, Empty, Unpaired
<1>4. Holds(part, s) => Holds(part, n) \/ Empty(n)
  BY DEF Holds, Alike, Fresh
<1>5. Taken(s, w) => Taken(n, w) \/ Empty(n)
  BY DEF Taken, Alike, Fresh
<1>6. label = "collecting" => (Unpaired(n) => n.queue = <<>>)
  BY DEF Doing, Alike, Fresh, Empty, Unpaired
<1>7. Alike(n, s) => n.previous = s.previous
  BY DEF Alike
<1>8. Fresh(n) => Empty(n)
  BY DEF Fresh
<1>9. QED
  BY <1>1, <1>2, <1>3, <1>4, <1>5, <1>6, <1>7, <1>8 DEF Doing

(* Between two operations of the loop nothing need be known. *)
LEMMA DoingNothing ==
  ASSUME NEW label \in {"idle", "awake", "start", "retrying", "revoked"},
         NEW part, NEW s, NEW d, NEW w, NEW old
  PROVE  Doing(label, part, s, d, w, old)
  BY DEF Doing, Sending

LEMMA DoingLittle ==
  ASSUME NEW label \in {"enqueued", "flush", "failed"},
         NEW part, NEW s, NEW d, NEW w, NEW old, Alike(d, s) \/ Fresh(d)
  PROVE  Doing(label, part, s, d, w, old)
  BY DEF Doing, Sending

-----------------------------------------------------------------------------
(* The steps of the tasks. *)

LEMMA Facts ==
  ASSUME IInv, LoopWithUnpairing
  PROVE  /\ Loop \in Task /\ 1 \in Requests /\ None \notin Posts
         /\ pc \in [Task -> Labels] /\ snap \in [Task -> State] /\ mem \in [Process -> State]
         /\ disk \in State /\ mem[Service] \in State
         /\ \A t \in Task : ProcessOf[t] = Service /\ Memory(t) = mem[Service]
         /\ \A t \in Task : Fits(pc[t], snap[t])
         /\ live \subseteq Credentials /\ None \notin live
         /\ received \subseteq Nat
         /\ clock \in Nat /\ horizon \in Nat
         /\ Timed(World)
<1>1. Loop \in Task /\ 1 \in Requests /\ None \notin Posts
  BY AgentAssumption, StateAssumption DEF LoopWithUnpairing, Requests
<1>2. \A t \in Task : ProcessOf[t] = Service /\ Memory(t) = mem[Service]
  BY StateAssumption DEF LoopWithUnpairing, Memory
<1>3. mem \in [Process -> State] /\ disk \in State /\ mem[Service] \in State
  BY StateAssumption DEF IInv, StoreInv, Good
<1>4. live \subseteq Credentials /\ None \notin live /\ received \subseteq Nat
  BY StateAssumption DEF IInv, ServerInv, Credentials, Requests
<1>5. Timed(World)
  BY <1>1 DEF IInv, ServerInv, TaskInv, World, Timed
<1>6. QED
  BY <1>1, <1>2, <1>3, <1>4, <1>5 DEF IInv, TaskInv

LEMMA WorldFields ==
  /\ World.top = <<1, issued[1]>> /\ World.live = live /\ World.post = request[1]
  /\ World.seq = lastSeq[1] /\ World.got = received /\ World.now = clock
BY DEF World

LEMMA WorldSame ==
  ASSUME UNCHANGED <<serverVars, clock>>
  PROVE  World' = World
BY DEF World, serverVars

LEMMA WanesSelf ==
  ASSUME NEW w, Timed(w)
  PROVE  Wanes(w, w)
BY DEF Wanes, Timed

(* One task moves; what it and the loop know then is known. *)
LEMMA Moves ==
  ASSUME IInv, LoopWithUnpairing, LoopInv, NEW t \in Task, NEW label, NEW part,
         pc' = [pc EXCEPT ![t] = label], snap' = [snap EXCEPT ![t] = part],
         WorldInv', NEW x, x = World', x.top = World.top, x.live \subseteq World.live,
         NEW s, s = mem'[Service], NEW d, d = disk',
         Sound(d, x), Sound(s, x), Match(d, s),
         label \in IF t = Loop THEN LoopLabels ELSE HandlerLabels,
         Doing(IF t = Loop THEN label ELSE pc[Loop], IF t = Loop THEN part ELSE snap[Loop],
               s, d, x, horizon'),
         Ending(label, part, x)
  PROVE  LoopInv'
<1>1. pc \in [Task -> Labels] /\ snap \in [Task -> State] /\ Loop \in Task
  BY Facts
<1>2. \A u \in Task : pc'[u] = IF u = t THEN label ELSE pc[u]
  BY <1>1
<1>3. \A u \in Task : snap'[u] = IF u = t THEN part ELSE snap[u]
  BY <1>1
<1>4. pc'[Loop] \in LoopLabels
  BY <1>1, <1>2 DEF LoopInv
<1>5. \A u \in Handlers : pc'[u] \in HandlerLabels
  BY <1>2 DEF LoopInv, Handlers
<1>6. \A u \in Task : Ending(pc'[u], snap'[u], x)
  BY <1>2, <1>3, EndingWanes DEF LoopInv
<1>7. Doing(pc'[Loop], snap'[Loop], s, d, x, horizon')
  BY <1>1, <1>2, <1>3
<1>8. QED
  BY <1>4, <1>5, <1>6, <1>7 DEF LoopInv

(* Authority may be lost, and nothing else changes at Watchpost. *)
LEMMA WorldWanes ==
  ASSUME IInv, LoopWithUnpairing, LoopInv,
         UNCHANGED <<request, issued, lastSeq, received, clock>>, live' \subseteq live
  PROVE  WorldInv' /\ Wanes(World, World') /\ Timed(World')
<1>1. WorldInv'
  BY DEF LoopInv, WorldInv
<1>2. clock \in Nat /\ Timed(World)
  BY Facts
<1>3. Wanes(World, World') /\ Timed(World')
  BY <1>2 DEF World, Wanes, Timed
<1>4. QED
  BY <1>1, <1>3

LEMMA RevokeWanes ==
  ASSUME IInv, LoopWithUnpairing, LoopInv, UNCHANGED timeVars, NEW c,
         Revoke(c) \/ UNCHANGED serverVars
  PROVE  WorldInv' /\ Wanes(World, World') /\ Timed(World')
BY WorldWanes DEF Revoke, serverVars, timeVars

LEMMA AnsweredGone ==
  ASSUME IInv, LoopWithUnpairing, LoopInv, NEW t \in Task, UnpairAnswered(t)
  PROVE  WorldInv' /\ Wanes(World, World') /\ Timed(World') /\ Gone(World')
<1>1. WorldInv' /\ Wanes(World, World') /\ Timed(World')
  BY RevokeWanes DEF UnpairAnswered
<1>2. CASE snap[t].credential \in live
  <2>1. Revoke(snap[t].credential) /\ snap[t].credential[1] = 1
    BY <1>2 DEF UnpairAnswered, LoopInv, WorldInv
  <2>2. live' = {}
    BY <2>1 DEF Revoke, LoopInv, WorldInv
  <2>3. QED
    BY <1>1, <2>2 DEF Gone, World
<1>3. CASE snap[t].credential \notin live
  <2>1. pc[t] \in {"unpairing", "retrying"} /\ Ending(pc[t], snap[t], World)
    BY DEF UnpairAnswered, Unpairing, LoopInv
  <2>2. Gone(World)
    BY <1>3, <2>1, WorldFields DEF Ending, Gone
  <2>3. QED
    BY <1>1, <2>2, GoneStays
<1>4. QED
  BY <1>2, <1>3

(* A handler moves without a save. *)
LEMMA HandlerMoves ==
  ASSUME IInv, LoopWithUnpairing, LoopInv, NEW t \in Handlers, NEW label \in HandlerLabels,
         NEW part, pc' = [pc EXCEPT ![t] = label], snap' = [snap EXCEPT ![t] = part],
         UNCHANGED <<stateVars, horizon>>, WorldInv', Wanes(World, World'), Timed(World'),
         Ending(label, part, World')
  PROVE  LoopInv'
<1>1. t \in Task /\ t # Loop
  BY DEF Handlers
<1>2. /\ disk \in State /\ mem[Service] \in State /\ snap[Loop] \in State
      /\ horizon \in Nat /\ Timed(World)
  BY Facts
<1>3. disk' = disk /\ mem'[Service] = mem[Service] /\ horizon' = horizon
  BY DEF stateVars
<1>4. Sound(disk, World') /\ Sound(mem[Service], World')
  BY <1>2, SoundWanes DEF LoopInv
<1>5. Doing(pc[Loop], snap[Loop], mem[Service], disk, World', horizon)
  BY <1>2, DoingWanes DEF LoopInv
<1>6. Match(disk, mem[Service])
  BY DEF LoopInv
<1>7. World'.top = World.top /\ World'.live \subseteq World.live
  BY DEF Wanes
<1>8. QED
  BY <1>1, <1>3, <1>4, <1>5, <1>6, <1>7, Moves

(* A handler saves n, or the save fails. *)
LEMMA HandlerSaves ==
  ASSUME IInv, LoopWithUnpairing, LoopInv, NEW t \in Handlers, NEW label \in HandlerLabels,
         NEW part, pc' = [pc EXCEPT ![t] = label], snap' = [snap EXCEPT ![t] = part],
         NEW n, Update(t, n) \/ UNCHANGED stateVars, UNCHANGED <<serverVars, timeVars>>,
         Sound(n, World), Alike(n, mem[Service]) \/ Fresh(n),
         Ending(label, part, World)
  PROVE  LoopInv'
<1>1. t \in Task /\ t # Loop /\ ProcessOf[t] = Service /\ mem \in [Process -> State]
      /\ Service \in Process
  BY Facts, StateAssumption DEF Handlers
<1>2. World' = World /\ horizon' = horizon
  BY WorldSame DEF timeVars
<1>3. WorldInv' /\ Wanes(World, World') /\ Timed(World')
  BY WorldWanes DEF serverVars, timeVars
<1>4. CASE Update(t, n)
  <2>1. disk' = n /\ mem'[Service] = n
    BY <1>1, <1>4 DEF Update
  <2>2. Doing(pc[Loop], snap[Loop], n, n, World, horizon)
    BY DoingSaved DEF LoopInv
  <2>3. Match(n, n)
    BY DEF Match, Alike
  <2>4. QED
    BY <1>1, <1>2, <1>3, <2>1, <2>2, <2>3, Moves
<1>5. CASE UNCHANGED stateVars
  BY <1>2, <1>3, <1>5, HandlerMoves
<1>6. QED
  BY <1>4, <1>5

(* What a handler may save. *)
LEMMA MemorySound ==
  ASSUME IInv, LoopWithUnpairing, LoopInv
  PROVE  /\ Sound(mem[Service], World) /\ Alike(mem[Service], mem[Service])
         /\ Sound(RevocationPending(mem[Service]), World)
         /\ Alike(RevocationPending(mem[Service]), mem[Service])
         /\ Gone(World) => /\ Sound(Cleared(mem[Service]), World)
                           /\ Fresh(Cleared(mem[Service]))
<1> DEFINE s == mem[Service]
<1>1. s \in State /\ Sound(s, World)
  BY Facts DEF LoopInv
<1>2. Alike(s, s)
  BY DEF Alike
<1>3. Alike(RevocationPending(s), s)
  BY <1>1 DEF RevocationPending, Alike, State
<1>4. Sound(RevocationPending(s), World)
  BY <1>1, <1>3, SameSound DEF Alike
<1>5. Gone(World) => Sound(Cleared(s), World) /\ Fresh(Cleared(s))
  BY <1>1, ClearedFresh
<1>6. QED
  BY <1>1, <1>2, <1>3, <1>4, <1>5

(* The credential of a paired memory is the last one issued, or that one   *)
(* is gone.                                                                *)
LEMMA CredentialKnown ==
  ASSUME IInv, LoopWithUnpairing, LoopInv, mem[Service].credential # None
  PROVE  /\ CredentialView(mem[Service]).credential = mem[Service].credential
         /\ mem[Service].credential = World.top \/ Gone(World)
<1>1. CredentialView(mem[Service]).credential = mem[Service].credential
  BY DEF CredentialView, NoSnapshot, FirstRun
<1>2. Paired(mem[Service], World)
  BY DEF LoopInv, Sound, Orphan, Unpaired
<1>3. QED
  BY <1>1, <1>2 DEF Paired

LEMMA HandlerStep ==
  ASSUME IInv, LoopWithUnpairing, LoopInv, NEW t \in Handlers,
         TaskStep(t) \/ OpenCommand(t) \/ Operate(t)
  PROVE  LoopInv'
<1>1. t \in Task /\ t # Loop /\ pc[t] \in HandlerLabels /\ Memory(t) = mem[Service]
      /\ ProcessOf[t] = Service
  BY Facts DEF Handlers, LoopInv
<1>2. ~OpenCommand(t) /\ ~SendStep(t) /\ ~Refreshed(t)
  BY <1>1 DEF OpenCommand, SendStep, Refreshed, HandlerLabels, SendStart, CollectFails,
     EnqueueRefused, Enqueue, EnqueueSaveFails, EnqueueBeyondBound, StillBackingOff, BackoffOver,
     FlushHead, DropStale, PostAccepted, PostAnswerLost, PostFails, PostRefused, InFlight,
     SaveDelivered, SaveDeliveredFails, MarkFailure
<1>3. CASE UnpairStart(t)
  <2>1. Ending("unpairing", CredentialView(mem[Service]), World)
    BY <1>1, <1>3, CredentialKnown DEF UnpairStart, Ending
  <2>2. World' = World
    BY <1>3, WorldSame DEF UnpairStart, pairingFrame, timeVars
  <2>3. WorldInv' /\ Wanes(World, World') /\ Timed(World') /\ UNCHANGED <<stateVars, horizon>>
    BY <1>3, WorldWanes DEF UnpairStart, pairingFrame, serverVars, timeVars
  <2>4. /\ pc' = [pc EXCEPT ![t] = "unpairing"]
        /\ snap' = [snap EXCEPT ![t] = CredentialView(mem[Service])]
    BY <1>1, <1>3 DEF UnpairStart, Keep, Goto
  <2>5. "unpairing" \in HandlerLabels
    BY DEF HandlerLabels
  <2>6. QED
    BY <2>1, <2>2, <2>3, <2>4, <2>5, HandlerMoves
<1>4. CASE SaveSettings(t)
  <2>1. /\ pc' = [pc EXCEPT ![t] = "idle"] /\ snap' = [snap EXCEPT ![t] = NoSnapshot]
        /\ Update(t, mem[Service]) \/ UNCHANGED stateVars
        /\ UNCHANGED <<serverVars, timeVars>>
    BY <1>1, <1>4 DEF SaveSettings, SaveFails, Finish, Continue, Goto, pairingFrame
  <2>2. "idle" \in HandlerLabels /\ Ending("idle", NoSnapshot, World)
    BY DEF HandlerLabels, Ending
  <2>3. QED
    BY <2>1, <2>2, MemorySound, HandlerSaves
<1>5. CASE UnpairAnswered(t)
  <2>1. /\ pc' = [pc EXCEPT ![t] = "revoked"] /\ snap' = [snap EXCEPT ![t] = NoSnapshot]
        /\ UNCHANGED <<stateVars, horizon>>
    BY <1>5 DEF UnpairAnswered, Continue, Goto, timeVars
  <2>2. WorldInv' /\ Wanes(World, World') /\ Timed(World') /\ Gone(World')
    BY <1>1, <1>5, AnsweredGone
  <2>3. "revoked" \in HandlerLabels /\ Ending("revoked", NoSnapshot, World')
    BY <2>2 DEF HandlerLabels, Ending
  <2>4. QED
    BY <2>1, <2>2, <2>3, HandlerMoves
<1>6. CASE UnpairUnanswered(t)
  <2>1. PICK label \in {"idle", "unreachable"} :
          pc' = [pc EXCEPT ![t] = label] /\ snap' = [snap EXCEPT ![t] = NoSnapshot]
    BY <1>6 DEF UnpairUnanswered, Return, Finish, Continue, Goto
  <2>2. WorldInv' /\ Wanes(World, World') /\ Timed(World') /\ UNCHANGED <<stateVars, horizon>>
    BY <1>6, RevokeWanes DEF UnpairUnanswered, timeVars
  <2>3. label \in HandlerLabels /\ Ending(label, NoSnapshot, World')
    BY DEF HandlerLabels, Ending
  <2>4. QED
    BY <2>1, <2>2, <2>3, HandlerMoves
<1>7. CASE SaveCleared(t)
  <2>1. /\ pc' = [pc EXCEPT ![t] = "idle"] /\ snap' = [snap EXCEPT ![t] = NoSnapshot]
        /\ Update(t, Cleared(mem[Service])) \/ UNCHANGED stateVars
        /\ UNCHANGED <<serverVars, timeVars>>
    BY <1>1, <1>7 DEF SaveCleared, SaveFails, Return, Finish, Continue, Goto, pairingFrame
  <2>2. Gone(World)
    BY <1>1, <1>7 DEF SaveCleared, LoopInv, Ending
  <2>3. "idle" \in HandlerLabels /\ Ending("idle", NoSnapshot, World)
    BY DEF HandlerLabels, Ending
  <2>4. QED
    BY <2>1, <2>2, <2>3, MemorySound, HandlerSaves
<1>8. CASE SavePending(t)
  <2>1. /\ pc' = [pc EXCEPT ![t] = "idle"] /\ snap' = [snap EXCEPT ![t] = NoSnapshot]
        /\ Update(t, RevocationPending(mem[Service])) \/ UNCHANGED stateVars
        /\ UNCHANGED <<serverVars, timeVars>>
    BY <1>1, <1>8 DEF SavePending, SaveFails, Return, Finish, Continue, Goto, pairingFrame
  <2>2. "idle" \in HandlerLabels /\ Ending("idle", NoSnapshot, World)
    BY DEF HandlerLabels, Ending
  <2>3. QED
    BY <2>1, <2>2, MemorySound, HandlerSaves
<1>9. CASE PairingStep(t)
  <2>1. ~PollAnswered(t) /\ ~PollEnds(t) /\ ~SaveApproval(t) /\ ~SaveApprovalFails(t)
        /\ ~RotateAnswered(t) /\ ~RotateUnanswered(t) /\ ~SaveRotated(t)
    BY <1>1 DEF HandlerLabels, PollAnswered, PollEnds, SaveApproval, SaveApprovalFails,
       RotateAnswered, RotateUnanswered, SaveRotated
  <2>2. QED
    BY <1>5, <1>6, <1>7, <1>8, <1>9, <2>1 DEF PairingStep
<1>10. CASE Operate(t)
  <2>1. Operations[t] \subseteq {"unpair", "save"}
    BY DEF LoopWithUnpairing
  <2>2. "request" \notin Operations[t] /\ "poll" \notin Operations[t] /\ "rotate" \notin Operations[t]
        /\ "reset" \notin Operations[t] /\ "refresh" \notin Operations[t]
    BY <2>1
  <2>3. QED
    BY <1>3, <1>4, <1>10, <2>2 DEF Operate
<1>11. QED
  BY <1>2, <1>9, <1>10 DEF TaskStep

-----------------------------------------------------------------------------
(* The steps of the loop. *)

(* The loop moves without a save. *)
LEMMA LoopMoves ==
  ASSUME IInv, LoopWithUnpairing, LoopInv, NEW label \in LoopLabels, NEW part,
         pc' = [pc EXCEPT ![Loop] = label], snap' = [snap EXCEPT ![Loop] = part],
         UNCHANGED <<stateVars, serverVars, timeVars>>,
         Doing(label, part, mem[Service], disk, World, horizon), Ending(label, part, World)
  PROVE  LoopInv'
<1>1. Loop \in Task
  BY Facts
<1>2. World' = World /\ WorldInv' /\ horizon' = horizon /\ disk' = disk /\ mem' = mem
  BY WorldSame, WorldWanes DEF timeVars, stateVars, serverVars
<1>3. Sound(disk, World) /\ Sound(mem[Service], World) /\ Match(disk, mem[Service])
  BY DEF LoopInv
<1>4. QED
  BY <1>1, <1>2, <1>3, Moves

(* The loop moves to a label at which nothing is known of it. *)
LEMMA LoopRests ==
  ASSUME IInv, LoopWithUnpairing, LoopInv, NEW label \in {"idle", "awake", "start"},
         NEW part, pc' = [pc EXCEPT ![Loop] = label], snap' = [snap EXCEPT ![Loop] = part],
         UNCHANGED <<stateVars, serverVars, timeVars>>
  PROVE  LoopInv'
<1>1. label \in LoopLabels /\ Ending(label, part, World)
  BY DEF LoopLabels, Ending
<1>2. Doing(label, part, mem[Service], disk, World, horizon)
  BY DoingNothing
<1>3. QED
  BY <1>1, <1>2, LoopMoves

(* It goes on sending. *)
LEMMA LoopGoesOn ==
  ASSUME IInv, LoopWithUnpairing, LoopInv, NEW label \in {"enqueued", "flush", "failed"},
         NEW part, pc' = [pc EXCEPT ![Loop] = label], snap' = [snap EXCEPT ![Loop] = part],
         pc[Loop] \in Sending, UNCHANGED <<stateVars, serverVars, timeVars>>
  PROVE  LoopInv'
<1>1. label \in LoopLabels /\ Ending(label, part, World)
  BY DEF LoopLabels, Sending, Ending
<1>2. Doing(label, part, mem[Service], disk, World, horizon)
  BY DoingLittle DEF LoopInv, Doing
<1>3. QED
  BY <1>1, <1>2, LoopMoves

(* It saves n, and goes on or rests. *)
LEMMA LoopSaves ==
  ASSUME IInv, LoopWithUnpairing, LoopInv,
         NEW label \in {"idle", "enqueued", "flush"}, NEW part,
         pc' = [pc EXCEPT ![Loop] = label], snap' = [snap EXCEPT ![Loop] = part],
         NEW n, Update(Loop, n), NEW x, x = World', WorldInv',
         x.top = World.top, x.live \subseteq World.live, Sound(n, x)
  PROVE  LoopInv'
<1>1. /\ Loop \in Task /\ ProcessOf[Loop] = Service /\ mem \in [Process -> State]
      /\ Service \in Process
  BY Facts, StateAssumption
<1>2. disk' = n /\ mem'[Service] = n
  BY <1>1 DEF Update
<1>3. Match(n, n) /\ Alike(n, n)
  BY DEF Match, Alike
<1>4. label \in LoopLabels /\ Ending(label, part, x)
  BY DEF LoopLabels, Sending, Ending
<1>5. Doing(label, part, n, n, x, horizon')
  BY <1>3, DoingNothing, DoingLittle
<1>6. QED
  BY <1>1, <1>2, <1>3, <1>4, <1>5, Moves

(* The same with a save that may fail. *)
LEMMA LoopMaySave ==
  ASSUME IInv, LoopWithUnpairing, LoopInv,
         NEW label \in {"idle", "flush"}, NEW part, pc[Loop] \in Sending \cup {"revoked"},
         label = "idle" \/ pc[Loop] # "revoked",
         pc' = [pc EXCEPT ![Loop] = label], snap' = [snap EXCEPT ![Loop] = part],
         NEW n, Update(Loop, n) \/ UNCHANGED stateVars, Sound(n, World),
         UNCHANGED <<serverVars, timeVars>>
  PROVE  LoopInv'
<1>1. World' = World /\ WorldInv'
  BY WorldSame, WorldWanes DEF timeVars, serverVars
<1>2. CASE Update(Loop, n)
  BY <1>1, <1>2, LoopSaves
<1>3. CASE UNCHANGED stateVars
  BY <1>3, LoopRests, LoopGoesOn
<1>4. QED
  BY <1>2, <1>3

LEMMA WakeInv ==
  ASSUME IInv, LoopWithUnpairing, LoopInv, LoopStep
  PROVE  LoopInv'
<1> USE DEF Goto, Keep
<1>1. /\ Loop \in Task /\ Memory(Loop) = mem[Service] /\ ProcessOf[Loop] = Service
      /\ mem \in [Process -> State] /\ Service \in Process /\ snap \in [Task -> State]
  BY Facts, StateAssumption
<1>2. CASE Wake
  <2>1. /\ pc' = [pc EXCEPT ![Loop] = "reading"] /\ snap' = [snap EXCEPT ![Loop] = disk]
        /\ UNCHANGED <<stateVars, serverVars, timeVars>>
    BY <1>2 DEF Wake, ReloadRead, pairingFrame
  <2>2. Match(disk, disk) /\ Match(mem[Service], disk) /\ Sound(disk, World)
    BY DEF LoopInv, Match, Alike
  <2>3. Doing("reading", disk, mem[Service], disk, World, horizon)
    BY <2>2 DEF Doing, Sending
  <2>4. "reading" \in LoopLabels /\ Ending("reading", disk, World)
    BY DEF LoopLabels, Ending
  <2>5. QED
    BY <2>1, <2>3, <2>4, LoopMoves
<1>3. CASE WakeWithoutReload
  <2>1. /\ pc' = [pc EXCEPT ![Loop] = "awake"] /\ snap' = [snap EXCEPT ![Loop] = snap[Loop]]
        /\ UNCHANGED <<stateVars, serverVars, timeVars>>
    BY <1>1, <1>3 DEF WakeWithoutReload, pairingFrame
  <2>2. QED
    BY <2>1, LoopRests
<1>4. CASE Reloaded
  <2>1. /\ pc' = [pc EXCEPT ![Loop] = "awake"] /\ snap' = [snap EXCEPT ![Loop] = NoSnapshot]
        /\ mem'[Service] = snap[Loop] /\ disk' = disk /\ UNCHANGED <<serverVars, timeVars>>
        /\ pc[Loop] = "reading"
    BY <1>1, <1>4 DEF Reloaded, ReloadPublish, Continue, pairingFrame
  <2>2. Sound(snap[Loop], World) /\ Match(disk, snap[Loop]) /\ Sound(disk, World)
    BY <2>1 DEF LoopInv, Doing
  <2>3. World' = World /\ WorldInv'
    BY <2>1, WorldSame, WorldWanes DEF timeVars, serverVars
  <2>4. "awake" \in LoopLabels /\ Ending("awake", NoSnapshot, World)
    BY DEF LoopLabels, Ending
  <2>5. Doing("awake", NoSnapshot, snap[Loop], disk, World, horizon')
    BY DoingNothing
  <2>6. QED
    BY <1>1, <2>1, <2>2, <2>3, <2>4, <2>5, Moves
<1>5. CASE Cycle
  <2>1. CASE RetryStart(Loop)
    <3>1. /\ pc' = [pc EXCEPT ![Loop] = "retrying"]
          /\ snap' = [snap EXCEPT ![Loop] = CredentialView(mem[Service])]
          /\ UNCHANGED <<stateVars, serverVars, timeVars>>
          /\ mem[Service].credential # None
      BY <1>1, <2>1 DEF RetryStart, RetryPending, pairingFrame
    <3>2. "retrying" \in LoopLabels /\ Ending("retrying", CredentialView(mem[Service]), World)
      BY <3>1, CredentialKnown DEF LoopLabels, Ending
    <3>3. Doing("retrying", CredentialView(mem[Service]), mem[Service], disk, World, horizon)
      BY DoingNothing
    <3>4. QED
      BY <3>1, <3>2, <3>3, LoopMoves
  <2>2. CASE ~RetryStart(Loop)
    <3>1. /\ pc' = [pc EXCEPT ![Loop] = "start"] /\ snap' = [snap EXCEPT ![Loop] = snap[Loop]]
          /\ UNCHANGED <<stateVars, serverVars, timeVars>>
      BY <1>1, <1>5, <2>2 DEF Cycle, pairingFrame
    <3>2. QED
      BY <3>1, LoopRests
  <2>3. QED
    BY <2>1, <2>2
<1>6. QED
  BY <1>2, <1>3, <1>4, <1>5 DEF LoopStep

(* Collecting begins, from a paired memory. *)
LEMMA CollectsInv ==
  ASSUME IInv, LoopWithUnpairing, LoopInv, SendStart(Loop)
  PROVE  LoopInv'
<1> DEFINE s == mem[Service]
           part == [NoSnapshot EXCEPT !.postID = s.postID]
<1>1. /\ Memory(Loop) = s /\ UNCHANGED <<stateVars, serverVars, timeVars>>
  BY Facts DEF SendStart
<1>2. CASE s.credential = None
  <2>1. pc' = [pc EXCEPT ![Loop] = "idle"] /\ snap' = [snap EXCEPT ![Loop] = NoSnapshot]
    BY <1>1, <1>2 DEF SendStart, Finish, Continue, Goto
  <2>2. QED
    BY <1>1, <2>1, LoopRests
<1>3. CASE s.credential # None
  <2>1. pc' = [pc EXCEPT ![Loop] = "collecting"] /\ snap' = [snap EXCEPT ![Loop] = part]
    BY <1>1, <1>3 DEF SendStart, Goto, Keep
  <2>2. Paired(s, World) /\ ~Unpaired(s) /\ ~Fresh(s)
    BY <1>3 DEF LoopInv, Sound, Orphan, Unpaired, Fresh, Empty
  <2>3. Alike(disk, s) \/ Fresh(disk)
    BY <2>2 DEF LoopInv, Match
  <2>4. part.postID = World.post
    BY <2>2 DEF Paired, NoSnapshot, FirstRun
  <2> HIDE DEF part, s
  <2>5. Doing("collecting", part, s, disk, World, horizon)
    BY <2>2, <2>3, <2>4 DEF Doing
  <2>6. "collecting" \in LoopLabels /\ Ending("collecting", part, World)
    BY DEF LoopLabels, Sending, Ending
  <2>7. QED
    BY <1>1, <2>1, <2>5, <2>6, LoopMoves DEF s
<1>4. QED
  BY <1>2, <1>3

LEMMA EnqueueInv ==
  ASSUME IInv, IInv', LoopWithUnpairing, LoopInv, Enqueue(Loop)
  PROVE  LoopInv'
<1> DEFINE s == mem[Service]
<1>1. /\ Memory(Loop) = s /\ s \in State /\ Timed(World) /\ clock \in Nat
      /\ snap[Loop] \in State /\ received \subseteq Nat /\ ProcessOf[Loop] = Service
      /\ mem \in [Process -> State] /\ Service \in Process
  BY Facts, StateAssumption
<1>2. PICK width \in Widths : Update(Loop, Enqueued(s, NewBatch(s, snap[Loop].postID, width)))
  BY <1>1 DEF Enqueue
<1> DEFINE b == NewBatch(s, snap[Loop].postID, width)
<1>3. /\ pc[Loop] = "collecting" /\ clock' = clock + 1
      /\ pc' = [pc EXCEPT ![Loop] = "enqueued"] /\ snap' = [snap EXCEPT ![Loop] = NoSnapshot]
      /\ UNCHANGED serverVars
  BY DEF Enqueue, Continue, Goto
<1>4. snap[Loop].postID = World.post /\ (Unpaired(s) => s.queue = <<>>)
  BY <1>3 DEF LoopInv, Doing
<1>5. width \in Nat /\ width >= 1
  BY DeliveryAssumption
<1>6. FirstSequence(s) \in Nat
  BY <1>1, QueueTyped DEF FirstSequence
<1>7. /\ b.id = World.now + 1 /\ b.post = World.post
      /\ b.first = FirstSequence(s) /\ b.first <= b.last
  BY <1>4, <1>5, <1>6, WorldFields DEF NewBatch
<1>8. b \in Batch
  BY <1>1, <1>5, <1>6 DEF NewBatch, Batch, State
<1>9. Wanes(World, World') /\ World'.now = World.now + 1 /\ WorldInv'
  <2>1. World'.now = clock' /\ World.now = clock
    BY DEF World
  <2>2. Wanes(World, World')
    BY <1>1, <1>3 DEF World, Wanes, serverVars
  <2>3. WorldInv'
    BY <1>1, <1>3 DEF LoopInv, WorldInv, serverVars
  <2>4. QED
    BY <1>3, <2>1, <2>2, <2>3
<1>10. \A k \in World.got : k <= World.now
  BY WorldFields DEF LoopInv, WorldInv
<1>11. World.got \subseteq Nat
  BY <1>1, WorldFields
<1>12. Sound(s, World)
  BY DEF LoopInv
<1> HIDE DEF b, s
<1>13. Sound(Enqueued(s, b), World')
  BY <1>1, <1>4, <1>7, <1>8, <1>9, <1>10, <1>11, <1>12, EnqueuedSound
<1>14. World'.top = World.top /\ World'.live \subseteq World.live
  BY <1>9 DEF Wanes
<1>15. Update(Loop, Enqueued(s, b))
  BY <1>2 DEF b
<1>16. QED
  BY <1>3, <1>9, <1>13, <1>14, <1>15, LoopSaves

(* The head of the memory goes into the snapshot of flush. *)
LEMMA FlushInv ==
  ASSUME IInv, LoopWithUnpairing, LoopInv, FlushHead(Loop)
  PROVE  LoopInv'
<1> DEFINE s == mem[Service]
           part == FlushView(s)
<1>1. /\ Memory(Loop) = s /\ s \in State /\ UNCHANGED <<stateVars, serverVars, timeVars>>
      /\ pc[Loop] = "flush"
  BY Facts DEF FlushHead
<1>2. CASE s.queue = <<>>
  <2>1. pc' = [pc EXCEPT ![Loop] = "idle"] /\ snap' = [snap EXCEPT ![Loop] = NoSnapshot]
    BY <1>1, <1>2 DEF FlushHead, Finish, Continue, Goto
  <2>2. QED
    BY <1>1, <2>1, LoopRests
<1>3. CASE s.queue # <<>>
  <2>1. Head(s.queue) = s.queue[1]
    BY <1>1, <1>3 DEF State
  <2>2. PICK label \in {"stale", "posting"} :
          /\ pc' = [pc EXCEPT ![Loop] = label] /\ snap' = [snap EXCEPT ![Loop] = part]
          /\ label = "stale" => s.queue[1].id <= horizon
    <3>1. CASE Head(s.queue).id <= horizon
      BY <1>1, <1>3, <2>1, <3>1 DEF FlushHead, Goto, Keep
    <3>2. CASE ~ (Head(s.queue).id <= horizon)
      BY <1>1, <1>3, <2>1, <3>2 DEF FlushHead, Goto, Keep
    <3>3. QED
      BY <3>1, <3>2
  <2>3. /\ part.queue = <<Head(s.queue)>>
        /\ part.credential = s.credential /\ part.previous = s.previous
    BY DEF FlushView, NoSnapshot, FirstRun
  <2>4. part.queue # <<>> /\ part.queue[1] = s.queue[1]
    BY <2>1, <2>3
  <2>5. s.queue[1].id <= World.now
    BY <1>1, <1>3, QueueTyped DEF LoopInv, Sound, Ordered
  <2>6. Alike(disk, s) \/ Fresh(disk)
    BY <1>1 DEF LoopInv, Doing, Sending
  <2> HIDE DEF part, s
  <2>7. Holds(part, s)
    BY <1>3, <2>3, <2>4 DEF Holds
  <2>8. Doing(label, part, s, disk, World, horizon)
    BY <2>2, <2>4, <2>5, <2>6, <2>7 DEF Doing, Sending
  <2>9. label \in LoopLabels /\ Ending(label, part, World)
    BY DEF LoopLabels, Sending, Ending
  <2>10. QED
    BY <1>1, <2>2, <2>8, <2>9, LoopMoves DEF s
<1>4. QED
  BY <1>2, <1>3

(* Watchpost takes what is in flight. *)
LEMMA ObservedInv ==
  ASSUME IInv, LoopWithUnpairing, LoopInv, InFlight(Loop),
         Accepts(Bearer(Loop), InHand(Loop)), Observe(Bearer(Loop), InHand(Loop)),
         UNCHANGED <<stateVars, timeVars>>,
         NEW label \in {"accepted", "acceptedPrevious", "failed"},
         label = "accepted" => pc[Loop] = "posting",
         label = "acceptedPrevious" => pc[Loop] = "postingPrevious",
         pc' = [pc EXCEPT ![Loop] = label], snap' = [snap EXCEPT ![Loop] = NoSnapshot]
  PROVE  LoopInv'
<1> DEFINE s == mem[Service]
           part == snap[Loop]
           c == Bearer(Loop)
           h == part.queue[1]
           w == World
           x == World'
<1>1. /\ s \in State /\ disk \in State /\ part \in State /\ Timed(w) /\ Loop \in Task
      /\ live \subseteq Credentials /\ None \notin live /\ 1 \in Requests
  BY Facts
<1>2. pc[Loop] \in {"posting", "postingPrevious"}
  BY DEF InFlight
<1>3. InHand(Loop) = h /\ part.queue # <<>> /\ h.id <= w.now /\ h \in Batch
  <2>1. part.queue # <<>> /\ h.id <= w.now
    BY <1>2 DEF LoopInv, Doing
  <2>2. part.queue \in Seq(Batch)
    BY <1>1 DEF State
  <2>3. QED
    BY <2>1, <2>2 DEF InHand
<1>4. c \in live /\ c[1] = 1
  BY DEF Accepts, LoopInv, WorldInv
<1>5. /\ received' = received \cup {h.id}
      /\ lastSeq'[1] = IF h.last > lastSeq[1] THEN h.last ELSE lastSeq[1]
      /\ live' = {d \in live : d[1] = c[1] => d[2] >= c[2]}
      /\ UNCHANGED <<request, issued, clock, horizon>>
  BY <1>1, <1>3, <1>4 DEF Observe, timeVars, IInv, ServerInv
<1>6. Takes(w, x, h)
  BY <1>5 DEF Takes, World
<1>7. WorldInv'
  BY <1>3, <1>5, WorldFields DEF LoopInv, WorldInv
<1>8. Sound(s, w) /\ Sound(disk, w) /\ Match(disk, s)
  BY DEF LoopInv
<1>9. Holds(part, s) \/ Empty(s)
  BY <1>2 DEF LoopInv, Doing
<1>10. Alike(disk, s) \/ Fresh(disk)
  BY <1>2 DEF LoopInv, Doing, Sending
<1>11. disk' = disk /\ mem'[Service] = s /\ horizon' = horizon
  BY <1>5 DEF stateVars
<1>12. x.top = w.top /\ x.live = live' /\ w.live = live /\ x.live \subseteq w.live
  BY <1>5 DEF World
<1>13. c = IF pc[Loop] = "posting" THEN part.credential ELSE part.previous
  BY DEF Bearer
<1> HIDE DEF s, part, c, h, w, x
<1>14. Sound(s, x) /\ (Holds(part, s) => Taken(s, x))
  <2>1. CASE Holds(part, s)
    BY <1>1, <1>6, <1>8, <2>1, SoundTakesHead DEF Holds, h, Taken
  <2>2. CASE Empty(s) /\ ~Holds(part, s)
    BY <1>1, <1>6, <1>8, <2>2, OrphanTakes DEF Empty
  <2>3. QED
    BY <1>9, <2>1, <2>2
<1>15. Sound(disk, x)
  <2>1. CASE Unpaired(disk)
    BY <1>1, <1>6, <1>8, <2>1, OrphanTakes
  <2>2. CASE ~Unpaired(disk)
    <3>1. Alike(disk, s) /\ ~Empty(s)
      BY <1>10, <2>2 DEF Fresh, Empty, Alike, Unpaired
    <3>2. disk.queue # <<>> /\ disk.queue[1] = h
      BY <1>9, <3>1 DEF Holds, Alike, h
    <3>3. QED
      BY <1>1, <1>6, <1>8, <3>2, SoundTakesHead
  <2>3. QED
    BY <2>1, <2>2
<1>16. label = "accepted" /\ ~Empty(s) => s.previous \notin x.live
  <2> SUFFICES ASSUME label = "accepted", ~Empty(s) PROVE s.previous \notin x.live
    OBVIOUS
  <2>1. c = s.credential
    BY <1>9, <1>13 DEF Holds
  <2>2. s.credential \in Credentials /\ s.credential # None
    BY <1>1, <1>4, <2>1
  <2>3. Paired(s, w)
    BY <1>8, <2>2 DEF Sound, Orphan, Unpaired
  <2>4. CASE s.previous = None
    BY <1>1, <1>12, <2>4
  <2>5. CASE s.previous # None
    <3>1. s.previous[1] = 1 /\ s.previous[2] < s.credential[2] /\ s.previous \in Credentials
      BY <1>1, <2>3, <2>5 DEF Paired, State
    <3>2. s.previous[2] \in Int /\ s.credential[2] \in Int
      BY <2>2, <3>1, StateAssumption DEF Credentials
    <3>3. QED
      BY <1>4, <1>5, <1>12, <2>1, <3>1, <3>2
  <2>6. QED
    BY <2>4, <2>5
<1>17. label = "acceptedPrevious" => Gone(x) /\ (Holds(part, s) => s.previous # None)
  <2> SUFFICES ASSUME label = "acceptedPrevious"
               PROVE  Gone(x) /\ (Holds(part, s) => s.previous # None)
    OBVIOUS
  <2>1. HasFallback(part) /\ Gone(w)
    BY DEF LoopInv, Doing, part, w
  <2>2. QED
    BY <1>12, <2>1 DEF Gone, HasFallback, Holds
<1>18. Doing(label, NoSnapshot, s, disk, x, horizon)
  BY <1>9, <1>10, <1>14, <1>16, <1>17 DEF Doing
<1>19. label \in LoopLabels /\ Ending(label, NoSnapshot, x)
  BY DEF LoopLabels, Sending, Ending
<1>20. QED
  BY <1>1, <1>7, <1>10, <1>11, <1>12, <1>14, <1>15, <1>18, <1>19, Moves DEF Match, s, w, x

(* The current credential was refused: it is gone. *)
LEMMA RefusedInv ==
  ASSUME IInv, LoopWithUnpairing, LoopInv, PostRefused(Loop)
  PROVE  LoopInv'
<1> DEFINE s == mem[Service]
           part == snap[Loop]
<1>1. /\ s \in State /\ part \in State /\ Timed(World) /\ Loop \in Task /\ None \notin live
      /\ snap \in [Task -> State]
  BY Facts
<1>2. UNCHANGED <<stateVars, serverVars, timeVars>> /\ pc[Loop] \in Sending
  BY DEF PostRefused, InFlight, Sending
<1>3. CASE pc[Loop] = "posting" /\ HasFallback(part)
  <2>1. pc' = [pc EXCEPT ![Loop] = "postingPrevious"] /\ snap' = [snap EXCEPT ![Loop] = part]
    BY <1>1, <1>3 DEF PostRefused, Goto
  <2>2. /\ part.queue # <<>> /\ part.queue[1].id <= World.now
        /\ Holds(part, s) \/ Empty(s)
    BY <1>3 DEF LoopInv, Doing
  <2>3. (Holds(part, s) \/ Empty(s)) /\ (Alike(disk, s) \/ Fresh(disk))
    BY <1>3 DEF LoopInv, Doing, Sending
  <2>4. Gone(World)
    <3>1. Paired(s, World) \/ Orphan(s, World)
      BY DEF LoopInv, Sound
    <3>2. CASE Paired(s, World)
      <4>1. Holds(part, s)
        BY <2>3, <3>2 DEF Paired, Empty, Unpaired
      <4>2. Len(s.queue) >= 1 /\ 1 \in 1 .. Len(s.queue)
        BY <1>1, <4>1, QueueTyped DEF Holds
      <4>3. /\ s.queue[1].post = World.post
            /\ s.queue[1].id \in World.got \/ s.queue[1].first > World.seq
        BY <3>2, <4>2 DEF Paired, Deliverable
      <4>4. InHand(Loop) = s.queue[1] /\ Bearer(Loop) = s.credential
        BY <1>1, <1>3, <2>2, <4>1 DEF InHand, Bearer, Holds, State
      <4>5. s.credential[1] = 1
        BY <3>2 DEF Paired
      <4>6. s.credential \notin live
        BY <4>3, <4>4, <4>5, WorldFields DEF PostRefused, Accepts
      <4>7. QED
        BY <3>2, <4>6, WorldFields DEF Paired, Gone
    <3>3. QED
      BY <3>1, <3>2 DEF Orphan
  <2>5. Doing("postingPrevious", part, s, disk, World, horizon)
    BY <1>3, <2>2, <2>3, <2>4 DEF Doing
  <2>6. "postingPrevious" \in LoopLabels /\ Ending("postingPrevious", part, World)
    BY DEF LoopLabels, Sending, Ending
  <2>7. QED
    BY <1>2, <2>1, <2>5, <2>6, LoopMoves
<1>4. CASE ~ (pc[Loop] = "posting" /\ HasFallback(part))
  <2>1. pc' = [pc EXCEPT ![Loop] = "failed"] /\ snap' = [snap EXCEPT ![Loop] = NoSnapshot]
    BY <1>4 DEF PostRefused, Continue, Goto
  <2>2. QED
    BY <1>2, <2>1, LoopGoesOn
<1>5. QED
  BY <1>3, <1>4

(* What the loop may save while it sends. *)
LEMMA SendSound ==
  ASSUME IInv, LoopWithUnpairing, LoopInv
  PROVE  LET s == mem[Service]
         IN /\ Sound(StaleDropped(s), World) /\ Sound(Failed(s), World)
            /\ pc[Loop] = "accepted" => Sound(DeliveredWithCurrent(s), World)
            /\ pc[Loop] = "acceptedPrevious" => Sound(DeliveredWithPrevious(s), World)
<1> DEFINE s == mem[Service]
<1>1. s \in State /\ Sound(s, World)
  BY Facts DEF LoopInv
<1>2. Sound(StaleDropped(s), World)
  BY <1>1, PoppedSound
<1>3. Sound(Failed(s), World)
  <2>1. Alike(Failed(s), s)
    BY <1>1 DEF Failed, Alike, State
  <2>2. QED
    BY <1>1, <2>1, SameSound DEF Alike
<1>4. pc[Loop] = "accepted" => Empty(s) \/ s.queue # <<>>
  BY DEF LoopInv, Doing, Taken
<1>5. pc[Loop] = "acceptedPrevious" =>
        Gone(World) /\ (Empty(s) \/ (s.queue # <<>> /\ s.previous # None))
  BY DEF LoopInv, Doing, Taken
<1>6. pc[Loop] = "accepted" => Sound(DeliveredWithCurrent(s), World)
  BY <1>1, <1>4, DeliveredSound
<1>7. pc[Loop] = "acceptedPrevious" => Sound(DeliveredWithPrevious(s), World)
  BY <1>1, <1>5, DeliveredSound
<1>8. QED
  BY <1>2, <1>3, <1>6, <1>7

LEMMA SendInv ==
  ASSUME IInv, IInv', LoopWithUnpairing, LoopInv, SendStep(Loop), UNCHANGED <<reply, crashes>>
  PROVE  LoopInv'
<1> DEFINE s == mem[Service]
<1> USE DEF Goto, Continue, Finish
<1>1. Memory(Loop) = s /\ Loop \in Task /\ snap \in [Task -> State]
  BY Facts
<1> HIDE DEF s
<1>2. CASE SendStart(Loop)
  BY <1>2, CollectsInv
<1>3. CASE CollectFails(Loop) \/ EnqueueRefused(Loop) \/ EnqueueSaveFails(Loop)
           \/ StillBackingOff(Loop) \/ SaveDeliveredFails(Loop)
  <2>1. /\ pc' = [pc EXCEPT ![Loop] = "idle"] /\ snap' = [snap EXCEPT ![Loop] = NoSnapshot]
        /\ UNCHANGED <<stateVars, serverVars, timeVars>>
    BY <1>3 DEF CollectFails, EnqueueRefused, EnqueueSaveFails, StillBackingOff,
       SaveDeliveredFails, SaveFails
  <2>2. QED
    BY <2>1, LoopRests
<1>4. CASE Enqueue(Loop)
  BY <1>4, EnqueueInv
<1>5. CASE EnqueueBeyondBound(Loop)
  <2>1. /\ pc' = [pc EXCEPT ![Loop] = "enqueued"] /\ snap' = [snap EXCEPT ![Loop] = NoSnapshot]
        /\ pc[Loop] \in Sending /\ UNCHANGED <<stateVars, serverVars, timeVars>>
    BY <1>5 DEF EnqueueBeyondBound, Sending
  <2>2. QED
    BY <2>1, LoopGoesOn
<1>6. CASE BackoffOver(Loop)
  <2>1. /\ pc' = [pc EXCEPT ![Loop] = "flush"] /\ snap' = [snap EXCEPT ![Loop] = snap[Loop]]
        /\ pc[Loop] \in Sending /\ UNCHANGED <<stateVars, serverVars, timeVars>>
    BY <1>1, <1>6 DEF BackoffOver, Sending
  <2>2. QED
    BY <2>1, LoopGoesOn
<1>7. CASE FlushHead(Loop)
  BY <1>7, FlushInv
<1>8. CASE DropStale(Loop)
  <2>1. /\ pc' = [pc EXCEPT ![Loop] = "flush"] /\ snap' = [snap EXCEPT ![Loop] = NoSnapshot]
        /\ Update(Loop, StaleDropped(s)) \/ UNCHANGED stateVars
        /\ pc[Loop] \in Sending /\ pc[Loop] # "revoked" /\ UNCHANGED <<serverVars, timeVars>>
    BY <1>1, <1>8 DEF DropStale, SaveFails, Sending
  <2>2. QED
    BY <2>1, SendSound, LoopMaySave DEF s
<1>9. CASE PostAccepted(Loop)
  <2>1. PICK label \in {"accepted", "acceptedPrevious"} :
          /\ pc' = [pc EXCEPT ![Loop] = label] /\ snap' = [snap EXCEPT ![Loop] = NoSnapshot]
          /\ label = "accepted" => pc[Loop] = "posting"
          /\ label = "acceptedPrevious" => pc[Loop] = "postingPrevious"
    BY <1>9 DEF PostAccepted, InFlight
  <2>2. QED
    BY <1>9, <2>1, ObservedInv DEF PostAccepted
<1>10. CASE PostAnswerLost(Loop)
  BY <1>10, ObservedInv DEF PostAnswerLost
<1>11. CASE PostFails(Loop)
  <2>1. /\ pc' = [pc EXCEPT ![Loop] = "failed"] /\ snap' = [snap EXCEPT ![Loop] = NoSnapshot]
        /\ pc[Loop] \in Sending /\ UNCHANGED <<stateVars, serverVars, timeVars>>
    BY <1>11 DEF PostFails, InFlight, Sending
  <2>2. QED
    BY <2>1, LoopGoesOn
<1>12. CASE PostRefused(Loop)
  BY <1>12, RefusedInv
<1>13. CASE SaveDelivered(Loop)
  <2>1. /\ pc' = [pc EXCEPT ![Loop] = "flush"] /\ snap' = [snap EXCEPT ![Loop] = NoSnapshot]
        /\ UNCHANGED <<serverVars, timeVars>>
        /\ pc[Loop] \in Sending /\ pc[Loop] # "revoked"
        /\ \/ pc[Loop] = "accepted" /\ Update(Loop, DeliveredWithCurrent(s))
           \/ pc[Loop] = "acceptedPrevious" /\ Update(Loop, DeliveredWithPrevious(s))
    BY <1>1, <1>13 DEF SaveDelivered, Sending
  <2>2. QED
    BY <2>1, SendSound, LoopMaySave DEF s
<1>14. CASE MarkFailure(Loop)
  <2>1. /\ pc' = [pc EXCEPT ![Loop] = "idle"] /\ snap' = [snap EXCEPT ![Loop] = NoSnapshot]
        /\ Update(Loop, Failed(s)) \/ UNCHANGED stateVars
        /\ pc[Loop] \in Sending /\ pc[Loop] # "revoked" /\ UNCHANGED <<serverVars, timeVars>>
    BY <1>1, <1>14 DEF MarkFailure, SaveFails, Sending
  <2>2. QED
    BY <2>1, SendSound, LoopMaySave DEF s
<1>15. QED
  BY <1>2, <1>3, <1>4, <1>5, <1>6, <1>7, <1>8, <1>9, <1>10, <1>11, <1>12, <1>13, <1>14
     DEF SendStep

(* A retry of a revocation, by the loop. *)
LEMMA RetryInv ==
  ASSUME IInv, LoopWithUnpairing, LoopInv, PairingStep(Loop), UNCHANGED crashes
  PROVE  LoopInv'
<1> DEFINE s == mem[Service]
<1>1. /\ Memory(Loop) = s /\ Loop \in Task /\ pc[Loop] \in LoopLabels
      /\ s \in State /\ disk \in State /\ Timed(World)
  BY Facts DEF LoopInv
<1>2. CASE UnpairAnswered(Loop) \/ UnpairUnanswered(Loop)
  <2>1. PICK label \in {"revoked", "idle"} :
          /\ pc' = [pc EXCEPT ![Loop] = label] /\ snap' = [snap EXCEPT ![Loop] = NoSnapshot]
          /\ label = "revoked" => UnpairAnswered(Loop)
    BY <1>1, <1>2 DEF UnpairAnswered, UnpairUnanswered, Return, Finish, Continue, Goto, Unpairing,
       LoopLabels, Sending
  <2>2. WorldInv' /\ Wanes(World, World') /\ Timed(World')
    BY <1>2, RevokeWanes DEF UnpairAnswered, UnpairUnanswered
  <2>3. label = "revoked" => Gone(World')
    BY <1>1, <2>1, AnsweredGone
  <2>4. disk' = disk /\ mem'[Service] = s
    BY <1>2 DEF UnpairAnswered, UnpairUnanswered, stateVars
  <2>5. Sound(disk, World') /\ Sound(s, World') /\ Match(disk, s)
    BY <1>1, <2>2, SoundWanes DEF LoopInv
  <2>6. label \in LoopLabels /\ Ending(label, NoSnapshot, World')
    BY <2>3 DEF LoopLabels, Ending
  <2>7. Doing(label, NoSnapshot, s, disk, World', horizon')
    BY DoingNothing
  <2>8. World'.top = World.top /\ World'.live \subseteq World.live
    BY <2>2 DEF Wanes
  <2>9. QED
    BY <1>1, <2>1, <2>2, <2>4, <2>5, <2>6, <2>7, <2>8, Moves
<1>3. CASE SaveCleared(Loop)
  <2>1. /\ pc' = [pc EXCEPT ![Loop] = "idle"] /\ snap' = [snap EXCEPT ![Loop] = NoSnapshot]
        /\ Update(Loop, Cleared(s)) \/ UNCHANGED stateVars
        /\ UNCHANGED <<serverVars, timeVars>> /\ pc[Loop] = "revoked"
    BY <1>1, <1>3 DEF SaveCleared, SaveFails, Return, Finish, Continue, Goto, pairingFrame
  <2>2. Gone(World)
    BY <1>1, <2>1 DEF LoopInv, Ending
  <2>3. Sound(Cleared(s), World)
    BY <2>2, MemorySound
  <2>4. QED
    BY <2>1, <2>3, LoopMaySave
<1>4. ~ (PollAnswered(Loop) \/ PollEnds(Loop) \/ SaveApproval(Loop) \/ SaveApprovalFails(Loop)
         \/ SavePending(Loop) \/ RotateAnswered(Loop) \/ RotateUnanswered(Loop)
         \/ SaveRotated(Loop))
  BY <1>1 DEF LoopLabels, Sending, PollAnswered, PollEnds, SaveApproval, SaveApprovalFails,
     SavePending, RotateAnswered, RotateUnanswered, SaveRotated
<1>5. QED
  BY <1>2, <1>3, <1>4 DEF PairingStep

-----------------------------------------------------------------------------
(* The beginning, the events around the tasks, and the death of the        *)
(* service.                                                                *)

LEMMA InitLoop ==
  ASSUME LoopWithUnpairing, Init
  PROVE  LoopInv
<1>1. Loop \in Task /\ 1 \in Requests /\ Service \in Process /\ StartPaired
      /\ 1 \in 1 .. MaxCredentials /\ 2 \in 1 .. MaxCredentials
  BY AgentAssumption, StateAssumption DEF LoopWithUnpairing, Requests
<1>2. PICK p \in Posts, revoking \in BOOLEAN :
        LET s == [Connected(FirstRun, p, <<1, 1>>) EXCEPT !.revoking = revoking]
        IN InitWith(s, 1, p) \/ InitWith(Rotated(s, <<1, 2>>), 2, p)
  BY <1>1 DEF Init
<1> DEFINE s == [Connected(FirstRun, p, <<1, 1>>) EXCEPT !.revoking = revoking]
           r == Rotated(s, <<1, 2>>)
<1>3. /\ s.postID = p /\ s.credential = <<1, 1>> /\ s.previous = None
      /\ s.queue = <<>> /\ s.nextSequence = 1
      /\ r.postID = p /\ r.credential = <<1, 2>> /\ r.previous = <<1, 1>>
      /\ r.queue = <<>> /\ r.nextSequence = 1
  BY DEF Connected, EmptyDelivery, FirstRun, Rotated
<1> HIDE DEF s, r
<1>4. PICK n \in {1, 2} :
        /\ disk.credential = <<1, n>> /\ InitWith(disk, n, p)
        /\ disk.postID = p /\ disk.queue = <<>> /\ disk.nextSequence = 1
        /\ disk.previous # None => n = 2 /\ disk.previous = <<1, 1>>
  <2>1. CASE InitWith(s, 1, p)
    <3>1. disk = s
      BY <2>1 DEF InitWith
    <3>2. QED
      BY <1>3, <2>1, <3>1
  <2>2. CASE InitWith(r, 2, p)
    <3>1. disk = r
      BY <2>2 DEF InitWith
    <3>2. QED
      BY <1>3, <2>2, <3>1
  <2>3. QED
    BY <1>2, <2>1, <2>2 DEF s, r
<1>5. /\ request[1] = p /\ issued[1] = n /\ live = {<<1, k>> : k \in 1 .. n}
      /\ lastSeq[1] = 0 /\ received = {} /\ mem[Service] = disk
      /\ \A t \in Task : pc[t] = "idle"
  BY <1>1, <1>4 DEF InitWith, Init
<1>6. WorldInv
  BY <1>5 DEF WorldInv
<1>7. <<1, n>> # None /\ <<1, n>>[1] = 1 /\ <<1, n>>[2] = n /\ <<1, 1>>[1] = 1 /\ <<1, 1>>[2] = 1
  BY <1>1, StateAssumption DEF Requests
<1>8. Len(disk.queue) = 0
  BY <1>4
<1>9. Ordered(disk, World) /\ Oldest(disk, World)
  BY <1>8 DEF Ordered, Oldest
<1>10. Deliverable(disk, World)
  BY <1>4, <1>5, <1>8, WorldFields DEF Deliverable
<1>11. Paired(disk, World)
  BY <1>4, <1>5, <1>7, <1>10, WorldFields DEF Paired
<1>12. Sound(disk, World) /\ Match(disk, disk)
  BY <1>9, <1>11 DEF Sound, Match, Alike
<1>13. Doing("idle", snap[Loop], disk, disk, World, horizon)
  BY DoingNothing
<1>14. \A t \in Task : Ending("idle", snap[t], World)
  BY DEF Ending
<1>15. "idle" \in LoopLabels /\ "idle" \in HandlerLabels /\ Handlers \subseteq Task
  BY DEF LoopLabels, HandlerLabels, Handlers
<1>16. QED
  BY <1>1, <1>5, <1>6, <1>12, <1>13, <1>14, <1>15 DEF LoopInv

LEMMA OutsideLoop ==
  ASSUME IInv, LoopWithUnpairing, LoopInv, Outside
  PROVE  LoopInv'
<1>1. "approve" \notin Events
  BY DEF LoopWithUnpairing
<1>2. /\ UNCHANGED <<pc, snap, stateVars>>
      /\ UNCHANGED <<request, issued, lastSeq, received, clock>> /\ live' \subseteq live
      /\ horizon' \in Nat /\ horizon <= horizon'
  BY <1>1, Facts DEF Outside, DayPasses, Lapse, OwnerRevokes, taskVars, timeVars, serverVars
<1>3. WorldInv' /\ Wanes(World, World') /\ Timed(World')
  BY <1>2, WorldWanes
<1>4. /\ disk \in State /\ mem[Service] \in State /\ snap[Loop] \in State
      /\ horizon \in Nat /\ Timed(World)
  BY Facts
<1>5. Sound(disk, World') /\ Sound(mem[Service], World')
  BY <1>3, <1>4, SoundWanes DEF LoopInv
<1>6. Doing(pc[Loop], snap[Loop], mem[Service], disk, World', horizon')
  BY <1>2, <1>3, <1>4, DoingWanes DEF LoopInv
<1>7. \A t \in Task : Ending(pc[t], snap[t], World')
  BY <1>3, EndingWanes DEF LoopInv, Wanes
<1>8. pc' = pc /\ snap' = snap /\ disk' = disk /\ mem' = mem
  BY <1>2 DEF stateVars
<1>9. QED
  BY <1>3, <1>5, <1>6, <1>7, <1>8 DEF LoopInv

LEMMA CrashLoop ==
  ASSUME IInv, LoopWithUnpairing, LoopInv, NEW p \in Process, Crash(p)
  PROVE  LoopInv'
<1>1. p = Service /\ Loop \in Task /\ \A t \in Task : ProcessOf[t] = Service
  BY Facts DEF LoopWithUnpairing
<1>2. mem \in [Process -> State]
  BY Facts
<1>3. /\ mem'[Service] = disk /\ disk' = disk
      /\ \A t \in Task : pc'[t] = "idle"
      /\ UNCHANGED <<serverVars, timeVars>>
  BY <1>1, <1>2 DEF Crash, Open, pairingFrame
<1>4. World' = World /\ WorldInv'
  BY <1>3, WorldSame, WorldWanes DEF serverVars, timeVars
<1>5. Sound(disk, World) /\ Match(disk, disk)
  BY DEF LoopInv, Match, Alike
<1>6. Doing("idle", snap'[Loop], disk, disk, World, horizon')
  BY DoingNothing
<1>7. \A t \in Task : Ending("idle", snap'[t], World)
  BY DEF Ending
<1>8. "idle" \in LoopLabels /\ "idle" \in HandlerLabels /\ Handlers \subseteq Task
  BY DEF LoopLabels, HandlerLabels, Handlers
<1>9. QED
  BY <1>1, <1>3, <1>4, <1>5, <1>6, <1>7, <1>8 DEF LoopInv

(* What the loop may do, and what it may not. *)
LEMMA LoopTaskOnly ==
  ASSUME IInv, LoopWithUnpairing, LoopInv, TaskStep(Loop) \/ OpenCommand(Loop) \/ Operate(Loop)
  PROVE  \/ SendStep(Loop) /\ UNCHANGED <<reply, crashes>>
         \/ PairingStep(Loop) /\ UNCHANGED crashes
<1>1. pc[Loop] # "refreshing"
  BY DEF LoopInv, LoopLabels, Sending
<1>2. QED
  BY <1>1 DEF TaskStep, Refreshed, OpenCommand, Operate, Ready, Handlers

LEMMA StepLoop ==
  ASSUME IInv, IInv', LoopWithUnpairing, LoopInv, [Next]_vars
  PROVE  LoopInv'
<1>1. CASE LoopStep
  BY <1>1, WakeInv
<1>2. ASSUME NEW t \in Task, TaskStep(t) \/ OpenCommand(t) \/ Operate(t)
      PROVE  LoopInv'
  <2>1. CASE t = Loop
    BY <1>2, <2>1, LoopTaskOnly, SendInv, RetryInv
  <2>2. CASE t # Loop
    BY <1>2, <2>2, HandlerStep DEF Handlers
  <2>3. QED
    BY <2>1, <2>2
<1>3. ASSUME NEW p \in Process, Crash(p) PROVE LoopInv'
  BY <1>3, CrashLoop
<1>4. CASE Outside
  BY <1>4, OutsideLoop
<1>5. CASE UNCHANGED vars
  BY <1>5, WorldSame, WorldWanes DEF vars, LoopInv, serverVars, World, WorldInv
<1>6. QED
  BY <1>1, <1>2, <1>3, <1>4, <1>5 DEF Next

(* With the loop, alone or beside handlers that unpair and save, LoopInv   *)
(* holds: what the file, the memory and a Reload's reading may differ in,  *)
(* and what the loop knows of them at each of its steps.                   *)
THEOREM LoopInvariant == LoopWithUnpairing => (Spec => [](IInv /\ LoopInv))
<1> SUFFICES ASSUME LoopWithUnpairing PROVE Spec => [](IInv /\ LoopInv)
  OBVIOUS
<1>1. Init => IInv /\ LoopInv
  BY InitInv, InitLoop
<1>2. IInv /\ LoopInv /\ [Next]_vars => (IInv /\ LoopInv)'
  BY StepInv, StepLoop
<1>3. QED
  BY <1>1, <1>2, PTL DEF Spec

(* The batch at the head is one that Watchpost still takes from the        *)
(* credential in use (HeadAcceptable): the queue never waits behind a      *)
(* batch that is rejected forever.                                         *)
THEOREM HeadStaysAcceptable == LoopWithUnpairing => (Spec => []HeadAcceptable)
<1> SUFFICES ASSUME LoopWithUnpairing PROVE Spec => []HeadAcceptable
  OBVIOUS
<1>1. IInv /\ LoopInv => HeadAcceptable
  <2> SUFFICES ASSUME IInv, LoopInv, disk.queue # <<>>, disk.credential \in live
               PROVE  Accepts(disk.credential, Head(disk.queue))
    BY DEF HeadAcceptable
  <2>1. disk \in State /\ None \notin live
    BY Facts
  <2>2. Paired(disk, World)
    BY <2>1 DEF LoopInv, Sound, Orphan, Unpaired
  <2>3. 1 \in 1 .. Len(disk.queue) /\ Head(disk.queue) = disk.queue[1]
    BY <2>1, QueueTyped DEF State
  <2>4. /\ disk.queue[1].post = World.post
        /\ disk.queue[1].id \in World.got \/ disk.queue[1].first > World.seq
    BY <2>2, <2>3 DEF Paired, Deliverable
  <2>5. disk.credential[1] = 1
    BY <2>2 DEF Paired
  <2>6. QED
    BY <2>3, <2>4, <2>5, WorldFields DEF Accepts
<1>2. QED
  BY <1>1, LoopInvariant, PTL

(* Replay is oldest first (OldestFirst): when a queued batch was accepted, *)
(* so was every one before it.                                             *)
THEOREM OldestGoesFirst == LoopWithUnpairing => (Spec => []OldestFirst)
<1> SUFFICES ASSUME LoopWithUnpairing PROVE Spec => []OldestFirst
  OBVIOUS
<1>1. LoopInv => OldestFirst
  BY WorldFields DEF LoopInv, Sound, Oldest, OldestFirst
<1>2. QED
  BY <1>1, LoopInvariant, PTL

(* The file never holds half a connection (ConnectionWhole): it has a post *)
(* exactly if it has a credential.                                         *)
THEOREM ConnectionStaysWhole == LoopWithUnpairing => (Spec => []ConnectionWhole)
<1> SUFFICES ASSUME LoopWithUnpairing PROVE Spec => []ConnectionWhole
  OBVIOUS
<1>1. IInv /\ LoopInv => ConnectionWhole
  BY Facts, WorldFields DEF LoopInv, WorldInv, Sound, Paired, Orphan, Unpaired, ConnectionWhole
<1>2. QED
  BY <1>1, LoopInvariant, PTL

-----------------------------------------------------------------------------
(* What a step may do to the file. *)

(* What the loop saves while it sends. *)
SendSaves(n) ==
  LET s == mem[Service]
  IN \/ \E b : n = Enqueued(s, b)
     \/ n = Failed(s)
     \/ pc[Loop] = "stale" /\ n = StaleDropped(s)
     \/ pc[Loop] = "accepted" /\ n = DeliveredWithCurrent(s)
     \/ pc[Loop] = "acceptedPrevious" /\ n = DeliveredWithPrevious(s)

FileChanges ==
  LET s == mem[Service]
  IN \/ disk' = disk
     \/ disk' = s \/ disk' = RevocationPending(s)
     \/ disk' = Cleared(s) /\ Gone(World)
     \/ pc[Loop] \in Sending /\ SendSaves(disk')

LEMMA FileStep ==
  ASSUME IInv, LoopWithUnpairing, LoopInv, [Next]_vars
  PROVE  FileChanges
<1> DEFINE s == mem[Service]
<1>1. /\ Loop \in Task /\ \A t \in Task : Memory(t) = s
      /\ \A t \in Handlers : t \in Task /\ pc[t] \in HandlerLabels
      /\ \A t \in Task : Ending(pc[t], snap[t], World)
  BY Facts DEF LoopInv, Handlers
<1> HIDE DEF s
<1>2. ASSUME NEW t \in Task, PairingStep(t), t = Loop \/ t \in Handlers PROVE FileChanges
  <2>1. pc[t] \in LoopLabels \cup HandlerLabels
    BY <1>1, <1>2 DEF LoopInv
  <2>2. CASE SaveCleared(t)
    <3>1. Gone(World)
      BY <1>1, <2>2 DEF SaveCleared, Ending
    <3>2. QED
      BY <1>1, <2>2, <3>1 DEF SaveCleared, SaveFails, Update, stateVars, FileChanges, s
  <2>3. CASE SavePending(t)
    BY <1>1, <2>3 DEF SavePending, SaveFails, Update, stateVars, FileChanges, s
  <2>4. CASE UnpairAnswered(t) \/ UnpairUnanswered(t)
    BY <2>4 DEF UnpairAnswered, UnpairUnanswered, stateVars, FileChanges
  <2>5. ~ (PollAnswered(t) \/ PollEnds(t) \/ SaveApproval(t) \/ SaveApprovalFails(t)
           \/ RotateAnswered(t) \/ RotateUnanswered(t) \/ SaveRotated(t))
    BY <2>1 DEF LoopLabels, HandlerLabels, Sending, PollAnswered, PollEnds, SaveApproval,
       SaveApprovalFails, RotateAnswered, RotateUnanswered, SaveRotated
  <2>6. QED
    BY <1>2, <2>2, <2>3, <2>4, <2>5 DEF PairingStep
<1>3. CASE LoopStep
  BY <1>3 DEF LoopStep, Wake, WakeWithoutReload, Reloaded, ReloadPublish, Cycle, RetryStart,
     stateVars, FileChanges
<1>4. ASSUME NEW t \in Handlers, TaskStep(t) \/ OpenCommand(t) \/ Operate(t) PROVE FileChanges
  <2>1. t \in Task /\ pc[t] \in HandlerLabels
    BY <1>1
  <2>2. ~SendStep(t) /\ ~Refreshed(t)
    BY <2>1 DEF SendStep, Refreshed, HandlerLabels, SendStart, CollectFails,
       EnqueueRefused, Enqueue, EnqueueSaveFails, EnqueueBeyondBound, StillBackingOff, BackoffOver,
       FlushHead, DropStale, PostAccepted, PostAnswerLost, PostFails, PostRefused, InFlight,
       SaveDelivered, SaveDeliveredFails, MarkFailure
  <2>3. CASE TaskStep(t)
    BY <1>2, <2>1, <2>2, <2>3 DEF TaskStep
  <2>4. CASE OpenCommand(t)
    BY <2>4 DEF OpenCommand, Open, FileChanges
  <2>5. CASE Operate(t)
    <3>1. Operations[t] \subseteq {"unpair", "save"}
      BY DEF LoopWithUnpairing
    <3>2. "request" \notin Operations[t] /\ "poll" \notin Operations[t]
          /\ "rotate" \notin Operations[t] /\ "reset" \notin Operations[t]
          /\ "refresh" \notin Operations[t]
      BY <3>1
    <3>3. UnpairStart(t) \/ SaveSettings(t)
      BY <2>5, <3>2 DEF Operate
    <3>4. QED
      BY <1>1, <2>1, <3>3 DEF UnpairStart, SaveSettings, SaveFails, Update, stateVars, FileChanges, s
  <2>6. QED
    BY <1>4, <2>3, <2>4, <2>5
<1>5. CASE SendStep(Loop)
  <2>1. CASE DropStale(Loop)
    BY <1>1, <2>1 DEF DropStale, SaveFails, Update, stateVars, FileChanges, SendSaves, Sending, s
  <2>2. CASE MarkFailure(Loop)
    BY <1>1, <2>2 DEF MarkFailure, SaveFails, Update, stateVars, FileChanges, SendSaves, Sending, s
  <2>3. CASE SaveDelivered(Loop)
    BY <1>1, <2>3 DEF SaveDelivered, Update, FileChanges, SendSaves, Sending, s
  <2>4. CASE Enqueue(Loop)
    <3>1. PICK width \in Widths :
            Update(Loop, Enqueued(s, NewBatch(s, snap[Loop].postID, width)))
      BY <1>1, <2>4 DEF Enqueue
    <3>2. pc[Loop] = "collecting"
      BY <2>4 DEF Enqueue
    <3>3. QED
      BY <3>1, <3>2 DEF Update, FileChanges, SendSaves, Sending, s
  <2>5. CASE UNCHANGED stateVars
    BY <2>5 DEF stateVars, FileChanges
  <2>6. QED
    BY <1>5, <2>1, <2>2, <2>3, <2>4, <2>5 DEF SendStep, SendStart, CollectFails, EnqueueRefused,
       EnqueueSaveFails, SaveFails, EnqueueBeyondBound, StillBackingOff, BackoffOver, FlushHead,
       PostAccepted, PostAnswerLost, PostFails, PostRefused, SaveDeliveredFails
<1>6. ASSUME NEW t \in Task, TaskStep(t) \/ OpenCommand(t) \/ Operate(t) PROVE FileChanges
  <2>1. CASE t = Loop
    BY <1>1, <1>2, <1>5, <1>6, <2>1, LoopTaskOnly
  <2>2. CASE t # Loop
    BY <1>4, <1>6, <2>2 DEF Handlers
  <2>3. QED
    BY <2>1, <2>2
<1>7. ASSUME NEW p \in Process, Crash(p) PROVE FileChanges
  BY <1>7 DEF Crash, Open, FileChanges
<1>8. CASE Outside
  BY <1>8 DEF Outside, DayPasses, stateVars, FileChanges
<1>9. CASE UNCHANGED vars
  BY <1>9 DEF vars, FileChanges
<1>10. QED
  BY <1>3, <1>6, <1>7, <1>8, <1>9 DEF Next

(* What a queue loses with its head. *)
LEMMA TailKeeps ==
  ASSUME NEW q \in Seq(Batch), q # <<>>, NEW i \in 1 .. Len(q), i # 1
  PROVE  \E j \in 1 .. Len(Tail(q)) : Tail(q)[j] = q[i]
<1>1. i - 1 \in 1 .. Len(Tail(q)) /\ Tail(q)[i - 1] = q[i]
  OBVIOUS
<1>2. QED
  BY <1>1

(* No batch leaves the file silently (NoSilentLoss): it was received, or   *)
(* too old and counted, or its connection ended.                           *)
THEOREM NothingLostSilently == LoopWithUnpairing => (Spec => NoSilentLoss)
<1> SUFFICES ASSUME LoopWithUnpairing PROVE Spec => NoSilentLoss
  OBVIOUS
<1> DEFINE Kept(i) ==
      \/ disk.queue[i].id \in received
      \/ \E j \in 1 .. Len(disk'.queue) : disk'.queue[j] = disk.queue[i]
      \/ disk.queue[i].id <= horizon /\ disk'.dropped = disk.dropped + 1
      \/ Repaired
<1>1. ASSUME IInv, LoopInv, [Next]_vars
      PROVE  [\A i \in 1 .. Len(disk.queue) : Kept(i)]_disk
  <2> DEFINE s == mem[Service]
  <2> SUFFICES ASSUME disk' # disk, NEW i \in 1 .. Len(disk.queue) PROVE Kept(i)
    OBVIOUS
  <2>1. /\ s \in State /\ disk \in State /\ Match(disk, s) /\ disk.queue \in Seq(Batch)
        /\ Len(disk.queue) \in Nat /\ disk.queue # <<>> /\ ~Fresh(disk)
    <3>1. s \in State /\ disk \in State /\ Match(disk, s)
      BY <1>1, Facts DEF LoopInv
    <3>2. disk.queue \in Seq(Batch) /\ Len(disk.queue) \in Nat
      BY <3>1 DEF State
    <3>3. disk.queue # <<>>
      BY <3>1, <3>2, QueueTyped
    <3>4. QED
      BY <3>1, <3>2, <3>3 DEF Fresh, Empty
  <2>2. Alike(disk, s) \/ Fresh(s)
    BY <2>1 DEF Match
  <2>3. FileChanges
    BY <1>1, FileStep
  <2> HIDE DEF s
  <2>4. CASE disk' = s \/ disk' = RevocationPending(s)
    <3>1. disk'.queue = s.queue /\ disk'.nextSequence = s.nextSequence
      BY <2>1, <2>4 DEF RevocationPending, State
    <3>2. QED
      BY <2>2, <3>1 DEF Alike, Fresh, Empty, Repaired
  <2>5. CASE disk' = Cleared(s)
    BY <2>1, <2>5, ClearedFresh DEF Cleared, Connected, EmptyDelivery, State, Repaired
  <2>6. CASE pc[Loop] \in Sending /\ SendSaves(disk')
    <3>1. Alike(disk, s)
      BY <1>1, <2>1, <2>6 DEF LoopInv, Doing, s
    <3>2. disk.queue = s.queue /\ disk.dropped = s.dropped /\ ~Empty(s)
      BY <2>1, <3>1 DEF Alike, Empty
    <3>3. CASE \E b : disk' = Enqueued(s, b)
      <4>1. PICK b : disk' = Enqueued(s, b)
        BY <3>3
      <4>2. disk'.queue = Append(s.queue, b)
        BY <2>1, <4>1 DEF Enqueued, State
      <4>3. i \in 1 .. Len(disk'.queue) /\ disk'.queue[i] = disk.queue[i]
        BY <2>1, <3>2, <4>2
      <4>4. QED
        BY <4>3
    <3>4. CASE disk' = Failed(s)
      <4>1. disk'.queue = s.queue
        BY <2>1, <3>4 DEF Failed, State
      <4>2. QED
        BY <3>2, <4>1
    <3>5. ASSUME disk'.queue = Tail(disk.queue), i # 1 PROVE Kept(i)
      BY <2>1, <3>5, TailKeeps
    <3>6. CASE pc[Loop] = "stale" /\ disk' = StaleDropped(s)
      <4>1. disk'.queue = Tail(disk.queue) /\ disk'.dropped = disk.dropped + 1
        BY <2>1, <3>2, <3>6 DEF StaleDropped, Popped, State
      <4>2. disk.queue[1].id <= horizon
        BY <1>1, <3>2, <3>6 DEF LoopInv, Doing, Holds, s
      <4>3. QED
        BY <3>5, <4>1, <4>2
    <3>7. CASE \/ pc[Loop] = "accepted" /\ disk' = DeliveredWithCurrent(s)
               \/ pc[Loop] = "acceptedPrevious" /\ disk' = DeliveredWithPrevious(s)
      <4>1. disk'.queue = Tail(disk.queue)
        BY <2>1, <3>2, <3>7 DEF DeliveredWithCurrent, DeliveredWithPrevious, Popped, State
      <4>2. disk.queue[1].id \in received
        BY <1>1, <3>2, <3>7, WorldFields DEF LoopInv, Doing, Taken, s
      <4>3. QED
        BY <3>5, <4>1, <4>2
    <3>8. QED
      BY <2>6, <3>3, <3>4, <3>6, <3>7 DEF SendSaves, s
  <2>7. QED
    BY <2>3, <2>4, <2>5, <2>6 DEF FileChanges, s
<1>2. QED
  BY <1>1, LoopInvariant, PTL DEF Spec, NoSilentLoss

(* The previous credential of an overlap stays as long as Watchpost takes  *)
(* it (OverlapKept): a delivery ends the overlap only after the use of the *)
(* replacement has retired what it replaces.                               *)
THEOREM OverlapsStay == LoopWithUnpairing => (Spec => OverlapKept)
<1> SUFFICES ASSUME LoopWithUnpairing PROVE Spec => OverlapKept
  OBVIOUS
<1> DEFINE Kept ==
      disk.previous \in live /\ disk'.credential = disk.credential
        => disk'.previous = disk.previous
<1>1. ASSUME IInv, LoopInv, [Next]_vars PROVE [Kept]_disk
  <2> DEFINE s == mem[Service]
  <2> SUFFICES ASSUME disk.previous \in live, disk'.credential = disk.credential
               PROVE  disk'.previous = disk.previous
    OBVIOUS
  <2>1. s \in State /\ disk \in State /\ Match(disk, s) /\ None \notin live
    BY <1>1, Facts DEF LoopInv
  <2>2. ~Unpaired(disk) /\ ~Fresh(disk)
    BY <2>1 DEF Unpaired, Fresh, Empty
  <2>3. /\ disk.credential # None /\ disk.credential \in Credentials
        /\ disk.previous \in Credentials /\ disk.previous[2] < disk.credential[2]
    <3>1. Paired(disk, World)
      BY <1>1, <2>2 DEF LoopInv, Sound, Orphan
    <3>2. QED
      BY <2>1, <3>1 DEF Paired, State
  <2>4. disk.previous # disk.credential
    BY <2>3, StateAssumption DEF Credentials
  <2>5. Alike(disk, s) \/ Fresh(s)
    BY <2>1, <2>2 DEF Match
  <2>6. FileChanges
    BY <1>1, FileStep
  <2> HIDE DEF s
  <2>7. CASE disk' = s \/ disk' = RevocationPending(s)
    <3>1. disk'.credential = s.credential /\ disk'.previous = s.previous
      BY <2>1, <2>7 DEF RevocationPending, State
    <3>2. QED
      BY <2>3, <2>5, <3>1 DEF Alike, Fresh, Empty, Unpaired
  <2>8. CASE disk' = Cleared(s)
    BY <2>1, <2>3, <2>8 DEF Cleared, Connected, EmptyDelivery, State
  <2>9. CASE pc[Loop] \in Sending /\ SendSaves(disk')
    <3>1. Alike(disk, s)
      BY <1>1, <2>2, <2>9 DEF LoopInv, Doing, s
    <3>2. disk.previous = s.previous /\ disk.credential = s.credential /\ ~Empty(s)
      BY <2>2, <3>1 DEF Alike, Empty, Unpaired
    <3>3. CASE (\E b : disk' = Enqueued(s, b)) \/ disk' = Failed(s) \/ disk' = StaleDropped(s)
      BY <2>1, <3>2, <3>3 DEF Enqueued, Failed, StaleDropped, Popped, State
    <3>4. CASE pc[Loop] = "accepted" /\ disk' = DeliveredWithCurrent(s)
      BY <1>1, <3>2, <3>4, WorldFields DEF LoopInv, Doing, s
    <3>5. CASE disk' = DeliveredWithPrevious(s)
      <4>1. disk'.credential = s.previous
        BY <2>1, <3>5 DEF DeliveredWithPrevious, Popped, State
      <4>2. QED
        BY <2>4, <3>2, <4>1
    <3>6. QED
      BY <2>9, <3>3, <3>4, <3>5 DEF SendSaves, s
  <2>10. QED
    BY <2>6, <2>7, <2>8, <2>9 DEF FileChanges, s
<1>2. QED
  BY <1>1, LoopInvariant, PTL DEF Spec, OverlapKept

(* The agent does not forget a connection that Watchpost still accepts     *)
(* (AuthorityRetained), whether a handler's unpairing, a retry of the loop *)
(* or a save of a memory that a Reload has put back writes the file.       *)
THEOREM AuthorityStays == LoopWithUnpairing => (Spec => AuthorityRetained)
<1> SUFFICES ASSUME LoopWithUnpairing PROVE Spec => AuthorityRetained
  OBVIOUS
<1> DEFINE Kept ==
      (disk.credential \in live \/ disk.previous \in live) /\ ~Lapsed
        => disk'.credential # None
<1>1. ASSUME IInv, LoopInv, [Next]_vars PROVE [Kept]_disk
  <2> DEFINE s == mem[Service]
  <2> SUFFICES ASSUME disk.credential \in live \/ disk.previous \in live, ~Lapsed
               PROVE  disk'.credential # None
    OBVIOUS
  <2>1. /\ s \in State /\ disk \in State /\ Match(disk, s) /\ None \notin live
        /\ Sound(s, World)
    BY <1>1, Facts DEF LoopInv
  <2>2. ~Gone(World)
    <3>1. PICK c \in live : c[1] = 1
      BY <1>1 DEF LoopInv, WorldInv
    <3>2. <<1, issued[1]>> \in live
      BY <3>1 DEF Lapsed
    <3>3. QED
      BY <3>2, WorldFields DEF Gone
  <2>3. ~Unpaired(disk) /\ ~Fresh(disk) /\ ~Fresh(s)
    BY <2>1, <2>2 DEF Unpaired, Fresh, Empty, Sound, Paired, Orphan
  <2>4. Alike(disk, s)
    BY <2>1, <2>3 DEF Match
  <2>5. s.credential # None
    BY <2>1, <2>2 DEF Sound, Orphan, Paired
  <2>6. FileChanges
    BY <1>1, FileStep
  <2> HIDE DEF s
  <2>7. CASE disk' = disk \/ disk' = s \/ disk' = RevocationPending(s)
    BY <2>1, <2>4, <2>5, <2>7 DEF RevocationPending, State, Alike
  <2>8. CASE SendSaves(disk')
    <3>1. pc[Loop] # "acceptedPrevious"
      BY <1>1, <2>2 DEF LoopInv, Doing
    <3>2. CASE (\E b : disk' = Enqueued(s, b)) \/ disk' = Failed(s) \/ disk' = StaleDropped(s)
               \/ disk' = DeliveredWithCurrent(s)
      BY <2>1, <2>5, <3>2
         DEF Enqueued, Failed, StaleDropped, DeliveredWithCurrent, Popped, State
    <3>3. QED
      BY <2>8, <3>1, <3>2 DEF SendSaves, s
  <2>9. QED
    BY <2>2, <2>6, <2>7, <2>8 DEF FileChanges, s
<1>2. QED
  BY <1>1, LoopInvariant, PTL DEF Spec, AuthorityRetained

-----------------------------------------------------------------------------
(* The loop alone. *)

LEMMA InitAlone ==
  ASSUME LoopAlone, Init
  PROVE  AloneInv
<1>1. Loop \in Task /\ Service \in Process /\ Handlers \subseteq Task
  BY AgentAssumption, StateAssumption DEF Handlers
<1>2. mem[Service] = disk /\ \A t \in Task : pc[t] = "idle"
  BY <1>1 DEF Init
<1>3. QED
  BY <1>1, <1>2 DEF AloneInv, Sending

(* Only the loop moves, and what it saves keeps the connection it sends    *)
(* for.                                                                    *)
LEMMA HandlersRest ==
  ASSUME IInv, LoopAlone, LoopInv, AloneInv, NEW t \in Task, t # Loop
  PROVE  ~ (TaskStep(t) \/ OpenCommand(t) \/ Operate(t))
<1>1. t \in Handlers /\ pc[t] = "idle" /\ ProcessOf[t] = Service /\ Operations[t] = {}
  BY Facts DEF Handlers, AloneInv, LoopAlone
<1>2. ~SendStep(t) /\ ~Refreshed(t) /\ ~OpenCommand(t)
  BY <1>1 DEF OpenCommand, SendStep, Refreshed, SendStart, CollectFails,
     EnqueueRefused, Enqueue, EnqueueSaveFails, EnqueueBeyondBound, StillBackingOff, BackoffOver,
     FlushHead, DropStale, PostAccepted, PostAnswerLost, PostFails, PostRefused, InFlight,
     SaveDelivered, SaveDeliveredFails, MarkFailure
<1>3. ~PairingStep(t)
  BY <1>1 DEF PairingStep, PollAnswered, PollEnds, SaveApproval, SaveApprovalFails,
     UnpairAnswered, UnpairUnanswered, Unpairing, SaveCleared, SavePending,
     RotateAnswered, RotateUnanswered, SaveRotated
<1>4. ~Operate(t)
  BY <1>1 DEF Operate
<1>5. QED
  BY <1>2, <1>3, <1>4 DEF TaskStep

LEMMA SendKeeps ==
  ASSUME IInv, LoopAlone, LoopInv, AloneInv, pc[Loop] \in Sending, NEW n, SendSaves(n)
  PROVE  n.credential # None /\ n.revoking = disk.revoking
<1> DEFINE s == mem[Service]
<1>1. s \in State /\ s = disk /\ s.credential # None
  BY Facts DEF LoopAlone, AloneInv
<1>2. pc[Loop] = "acceptedPrevious" => s.previous # None
  BY <1>1 DEF LoopInv, Doing, Empty, Unpaired
<1> HIDE DEF s
<1>3. CASE \/ \E b : n = Enqueued(s, b)
           \/ n = Failed(s) \/ n = StaleDropped(s) \/ n = DeliveredWithCurrent(s)
  BY <1>1, <1>3 DEF Enqueued, Failed, StaleDropped, DeliveredWithCurrent, Popped, State
<1>4. CASE pc[Loop] = "acceptedPrevious" /\ n = DeliveredWithPrevious(s)
  BY <1>1, <1>2, <1>4 DEF DeliveredWithPrevious, Popped, State
<1>5. QED
  BY <1>3, <1>4 DEF SendSaves, s

(* The loop saves n, or saves nothing, in one step of Send. *)
LEMMA SendFile ==
  ASSUME IInv, LoopAlone, LoopInv, AloneInv, SendStep(Loop)
  PROVE  /\ pc[Loop] \in Sending \cup {"start"}
         /\ pc'[Loop] \in Sending \cup {"idle"}
         /\ pc' = [pc EXCEPT ![Loop] = pc'[Loop]]
         /\ \/ UNCHANGED stateVars
            \/ pc[Loop] \in Sending /\ Update(Loop, disk') /\ SendSaves(disk')
         /\ pc[Loop] = "start" /\ pc'[Loop] \in Sending => disk.credential # None
<1> DEFINE s == mem[Service]
<1> USE DEF Goto, Continue, Finish, Sending
<1>1. Memory(Loop) = s /\ s = disk /\ Loop \in Task /\ pc \in [Task -> Labels]
  BY Facts DEF LoopAlone, AloneInv
<1>2. CASE SendStart(Loop)
  BY <1>1, <1>2 DEF SendStart
<1>3. CASE CollectFails(Loop) \/ EnqueueRefused(Loop) \/ EnqueueSaveFails(Loop)
           \/ StillBackingOff(Loop) \/ SaveDeliveredFails(Loop)
  BY <1>1, <1>3 DEF CollectFails, EnqueueRefused, EnqueueSaveFails, StillBackingOff,
     SaveDeliveredFails, SaveFails
<1>4. CASE Enqueue(Loop)
  <2>1. PICK b : Update(Loop, Enqueued(s, b))
    BY <1>1, <1>4 DEF Enqueue
  <2>2. disk' = Enqueued(s, b) /\ Update(Loop, disk')
    BY <2>1 DEF Update
  <2>3. QED
    BY <1>1, <1>4, <2>2 DEF Enqueue, SendSaves
<1>5. CASE EnqueueBeyondBound(Loop) \/ BackoffOver(Loop) \/ FlushHead(Loop)
  BY <1>1, <1>5 DEF EnqueueBeyondBound, BackoffOver, FlushHead
<1>6. CASE DropStale(Loop)
  BY <1>1, <1>6 DEF DropStale, SaveFails, Update, SendSaves
<1>7. CASE PostAccepted(Loop) \/ PostAnswerLost(Loop) \/ PostFails(Loop) \/ PostRefused(Loop)
  BY <1>1, <1>7 DEF PostAccepted, PostAnswerLost, PostFails, PostRefused, InFlight
<1>8. CASE SaveDelivered(Loop)
  BY <1>1, <1>8 DEF SaveDelivered, Update, SendSaves
<1>9. CASE MarkFailure(Loop)
  BY <1>1, <1>9 DEF MarkFailure, SaveFails, Update, SendSaves
<1>10. QED
  BY <1>2, <1>3, <1>4, <1>5, <1>6, <1>7, <1>8, <1>9 DEF SendStep

LEMMA StepAlone ==
  ASSUME IInv, LoopAlone, LoopInv, AloneInv, [Next]_vars
  PROVE  AloneInv'
<1>1. /\ Loop \in Task /\ Memory(Loop) = disk /\ ProcessOf[Loop] = Service
      /\ mem \in [Process -> State] /\ Service \in Process /\ mem[Service] = disk
      /\ pc \in [Task -> Labels] /\ snap \in [Task -> State]
      /\ Loop \notin Handlers /\ Handlers \subseteq Task
      /\ \A t \in Task : ProcessOf[t] = Service
  BY Facts, StateAssumption DEF LoopAlone, AloneInv, Handlers
<1>2. CASE LoopStep
  <2>1. CASE Wake
    BY <1>1, <2>1 DEF Wake, ReloadRead, Goto, stateVars, AloneInv, Sending
  <2>2. CASE WakeWithoutReload
    BY <1>1, <2>2 DEF WakeWithoutReload, Goto, stateVars, AloneInv, Sending
  <2>3. CASE Reloaded
    BY <1>1, <2>3 DEF Reloaded, ReloadPublish, Continue, Goto, AloneInv, Sending
  <2>4. CASE Cycle
    <3>1. UNCHANGED stateVars /\ (\A t \in Handlers : pc'[t] = pc[t])
          /\ (pc'[Loop] = "start" \/ (pc'[Loop] = "retrying" /\ disk.credential # None))
      BY <1>1, <2>4 DEF Cycle, RetryStart, RetryPending, Goto
    <3>2. QED
      BY <1>1, <3>1 DEF stateVars, AloneInv, Sending
  <2>5. QED
    BY <1>2, <2>1, <2>2, <2>3, <2>4 DEF LoopStep
<1>3. CASE SendStep(Loop)
  <2>1. /\ pc[Loop] \in Sending \cup {"start"} /\ pc'[Loop] \in Sending \cup {"idle"}
        /\ \A t \in Handlers : pc'[t] = "idle"
    BY <1>1, <1>3, SendFile DEF AloneInv
  <2>2. CASE UNCHANGED stateVars
    <3>1. pc'[Loop] \in Sending => disk.credential # None
      BY <1>3, <2>1, SendFile DEF AloneInv
    <3>2. QED
      BY <1>1, <2>1, <2>2, <3>1 DEF stateVars, AloneInv, Sending
  <2>3. CASE pc[Loop] \in Sending /\ Update(Loop, disk') /\ SendSaves(disk')
    <3>1. disk'.credential # None
      BY <2>3, SendKeeps
    <3>2. mem'[Service] = disk'
      BY <1>1, <2>3 DEF Update
    <3>3. QED
      BY <2>1, <3>1, <3>2 DEF AloneInv, Sending
  <2>4. QED
    BY <1>3, <2>2, <2>3, SendFile
<1>4. CASE PairingStep(Loop)
  <2>1. pc[Loop] \in LoopLabels
    BY DEF LoopInv
  <2>2. ~ (PollAnswered(Loop) \/ PollEnds(Loop) \/ SaveApproval(Loop) \/ SaveApprovalFails(Loop)
           \/ SavePending(Loop) \/ RotateAnswered(Loop) \/ RotateUnanswered(Loop)
           \/ SaveRotated(Loop))
    BY <2>1 DEF LoopLabels, Sending, PollAnswered, PollEnds, SaveApproval, SaveApprovalFails,
       SavePending, RotateAnswered, RotateUnanswered, SaveRotated
  <2>3. CASE UnpairAnswered(Loop) \/ UnpairUnanswered(Loop)
    <3>1. /\ UNCHANGED stateVars /\ (\A t \in Handlers : pc'[t] = pc[t])
          /\ pc[Loop] = "retrying" /\ pc'[Loop] \in {"revoked", "idle"}
      BY <1>1, <2>1, <2>3 DEF UnpairAnswered, UnpairUnanswered, Unpairing, Return, Finish,
         Continue, Goto, LoopLabels, Sending
    <3>2. QED
      BY <3>1 DEF stateVars, AloneInv, Sending
  <2>4. CASE SaveCleared(Loop)
    <3>1. /\ (\A t \in Handlers : pc'[t] = pc[t]) /\ pc'[Loop] = "idle"
          /\ mem'[Service] = disk'
      BY <1>1, <2>4 DEF SaveCleared, SaveFails, Update, stateVars, Return, Finish, Continue, Goto
    <3>2. QED
      BY <3>1 DEF AloneInv, Sending
  <2>5. QED
    BY <1>4, <2>2, <2>3, <2>4 DEF PairingStep
<1>5. ASSUME NEW t \in Task, TaskStep(t) \/ OpenCommand(t) \/ Operate(t) PROVE AloneInv'
  BY <1>3, <1>4, <1>5, HandlersRest, LoopTaskOnly DEF LoopAlone
<1>6. ASSUME NEW p \in Process, Crash(p) PROVE AloneInv'
  <2>1. p = Service
    BY DEF LoopAlone, LoopWithUnpairing
  <2>2. mem'[Service] = disk' /\ \A t \in Task : pc'[t] = "idle"
    BY <1>1, <1>6, <2>1 DEF Crash, Open
  <2>3. QED
    BY <1>1, <2>2 DEF AloneInv, Sending
<1>7. CASE Outside
  BY <1>7 DEF Outside, DayPasses, taskVars, stateVars, AloneInv
<1>8. CASE UNCHANGED vars
  BY <1>8 DEF vars, AloneInv
<1>9. QED
  BY <1>2, <1>5, <1>6, <1>7, <1>8 DEF Next

LEMMA AloneInvariant == LoopAlone => (Spec => [](IInv /\ LoopInv /\ AloneInv))
<1> SUFFICES ASSUME LoopAlone PROVE Spec => [](IInv /\ LoopInv /\ AloneInv)
  OBVIOUS
<1>1. LoopWithUnpairing
  BY DEF LoopAlone
<1>2. Init => AloneInv
  BY InitAlone
<1>3. IInv /\ LoopInv /\ AloneInv /\ [Next]_vars => AloneInv'
  BY StepAlone
<1>4. QED
  BY <1>1, <1>2, <1>3, LoopInvariant, PTL DEF Spec

-----------------------------------------------------------------------------
(* The loop alone is a channel. *)

(* The batches of a queue, by their ids, as the channel sees them. *)
Ids(q) == [k \in 1 .. Len(q) |-> q[k].id]

LEMMA IdsOfNone == Ids(<<>>) = <<>>
BY DEF Ids

LEMMA IdsTyped ==
  ASSUME NEW q \in Seq(Batch)
  PROVE  /\ Ids(q) \in Seq(Nat) /\ Len(Ids(q)) = Len(q)
         /\ \A k \in 1 .. Len(q) : Ids(q)[k] = q[k].id
<1>1. Len(q) \in Nat /\ \A k \in 1 .. Len(q) : q[k].id \in Nat
  <2>1. Len(q) \in Nat /\ \A k \in 1 .. Len(q) : q[k] \in Batch
    OBVIOUS
  <2>2. QED
    BY <2>1 DEF Batch
<1>2. QED
  BY <1>1 DEF Ids

LEMMA SameEntries ==
  ASSUME NEW r \in Seq(Nat), NEW s \in Seq(Nat), Len(r) = Len(s),
         \A k \in 1 .. Len(s) : r[k] = s[k]
  PROVE  r = s
<1>1. r = [k \in 1 .. Len(r) |-> r[k]] /\ s = [k \in 1 .. Len(s) |-> s[k]]
  OBVIOUS
<1>2. QED
  BY <1>1

LEMMA IdsOfMore ==
  ASSUME NEW q \in Seq(Batch), NEW b \in Batch
  PROVE  /\ Ids(Append(q, b)) # <<>>
         /\ Front(Ids(Append(q, b))) = Ids(q)
         /\ Last(Ids(Append(q, b))) = b.id
<1> DEFINE r == Append(q, b)
           i == Ids(r)
<1>1. /\ r \in Seq(Batch) /\ Len(q) \in Nat /\ Len(r) = Len(q) + 1
      /\ \A k \in 1 .. Len(q) : r[k] = q[k]
      /\ r[Len(q) + 1] = b
  OBVIOUS
<1> HIDE DEF r
<1>2. /\ i \in Seq(Nat) /\ Len(i) = Len(q) + 1
      /\ \A k \in 1 .. Len(q) + 1 : i[k] = r[k].id
  BY <1>1, IdsTyped
<1>3. /\ Ids(q) \in Seq(Nat) /\ Len(Ids(q)) = Len(q)
      /\ \A k \in 1 .. Len(q) : Ids(q)[k] = q[k].id
  BY IdsTyped
<1> HIDE DEF i
<1>4. i # <<>> /\ i[Len(i)] = b.id
  BY <1>1, <1>2
<1>5. SubSeq(i, 1, Len(i) - 1) \in Seq(Nat) /\ Len(SubSeq(i, 1, Len(i) - 1)) = Len(q)
      /\ \A k \in 1 .. Len(q) : SubSeq(i, 1, Len(i) - 1)[k] = i[k]
  BY <1>1, <1>2
<1> DEFINE front == SubSeq(i, 1, Len(i) - 1)
<1>6. ASSUME NEW k \in 1 .. Len(q) PROVE front[k] = Ids(q)[k]
  <2>1. front[k] = i[k] /\ k \in 1 .. Len(q) + 1
    BY <1>1, <1>5
  <2>2. QED
    BY <1>1, <1>2, <1>3, <2>1
<1>7. front \in Seq(Nat) /\ Len(front) = Len(q)
  BY <1>5
<1> HIDE DEF front
<1>8. front = Ids(q)
  BY <1>3, <1>6, <1>7, SameEntries
<1>9. QED
  BY <1>4, <1>8 DEF Front, Last, front, i, r

LEMMA IdsOfTail ==
  ASSUME NEW q \in Seq(Batch), q # <<>>
  PROVE  /\ Ids(q) # <<>> /\ Head(Ids(q)) = q[1].id
         /\ Ids(Tail(q)) = Tail(Ids(q))
<1>1. /\ Tail(q) \in Seq(Batch) /\ Len(q) \in Nat /\ Len(q) >= 1 /\ Len(Tail(q)) = Len(q) - 1
      /\ \A k \in 1 .. Len(q) - 1 : Tail(q)[k] = q[k + 1]
  OBVIOUS
<1>2. /\ Ids(q) \in Seq(Nat) /\ Len(Ids(q)) = Len(q)
      /\ \A k \in 1 .. Len(q) : Ids(q)[k] = q[k].id
  BY IdsTyped
<1>3. /\ Ids(Tail(q)) \in Seq(Nat) /\ Len(Ids(Tail(q))) = Len(q) - 1
      /\ \A k \in 1 .. Len(q) - 1 : Ids(Tail(q))[k] = Tail(q)[k].id
  BY <1>1, IdsTyped
<1>4. Ids(q) # <<>> /\ Head(Ids(q)) = q[1].id
  BY <1>1, <1>2
<1>5. Tail(Ids(q)) \in Seq(Nat) /\ Len(Tail(Ids(q))) = Len(q) - 1
      /\ \A k \in 1 .. Len(q) - 1 : Tail(Ids(q))[k] = Ids(q)[k + 1] /\ k + 1 \in 1 .. Len(q)
  BY <1>1, <1>2, <1>4
<1>6. \A k \in 1 .. Len(q) - 1 : Ids(Tail(q))[k] = Tail(Ids(q))[k]
  BY <1>1, <1>2, <1>3, <1>5
<1>7. Ids(Tail(q)) = Tail(Ids(q))
  BY <1>3, <1>5, <1>6, SameEntries
<1>8. QED
  BY <1>4, <1>7

LEMMA InitChannel ==
  ASSUME LoopAlone, Init
  PROVE  Durable!Init
<1>1. StartPaired
  BY DEF LoopAlone, LoopWithUnpairing
<1>2. received = {} /\ horizon = 0
  BY DEF Init
<1>3. PICK p \in Posts, revoking \in BOOLEAN :
        LET s == [Connected(FirstRun, p, <<1, 1>>) EXCEPT !.revoking = revoking]
        IN disk = s \/ disk = Rotated(s, <<1, 2>>)
  BY <1>1 DEF Init, InitWith
<1>4. disk.queue = <<>> /\ disk.dropped = 0
  BY <1>3 DEF Connected, EmptyDelivery, FirstRun, Rotated
<1>5. [k \in 1 .. Len(disk.queue) |-> disk.queue[k].id] = <<>>
  BY <1>4, IdsOfNone DEF Ids
<1>6. QED
  BY <1>2, <1>4, <1>5 DEF Durable!Init

(* What the channel sees of a step that changes neither the file nor what  *)
(* Watchpost received.                                                     *)
LEMMA ChannelStutters ==
  ASSUME UNCHANGED <<disk, received, horizon>>
  PROVE  UNCHANGED Durable!vars
BY DEF Durable!vars

(* The channel's view of the file while the loop sends. *)
LEMMA ChannelView ==
  ASSUME IInv, LoopAlone, LoopInv, AloneInv
  PROVE  /\ Memory(Loop) = disk /\ disk \in State /\ disk.queue \in Seq(Batch)
         /\ \A i \in 1 .. Len(disk.queue) : disk.queue[i] \in Batch
         /\ pc[Loop] \in Sending => disk.credential # None
BY Facts DEF LoopAlone, AloneInv, State

(* Changes that leave the queue as it is. *)
LEMMA SameQueueStutters ==
  ASSUME disk'.queue = disk.queue, disk'.dropped = disk.dropped,
         disk'.credential # None, disk.credential # None, UNCHANGED <<received, horizon>>
  PROVE  UNCHANGED Durable!vars
BY DEF Durable!vars

LEMMA CollectChannel ==
  ASSUME IInv, LoopAlone, LoopInv, AloneInv, Enqueue(Loop)
  PROVE  Durable!Collect
<1>1. /\ Memory(Loop) = disk /\ disk \in State /\ disk.queue \in Seq(Batch)
      /\ pc[Loop] = "collecting" /\ disk.credential # None
      /\ clock \in Nat /\ snap[Loop] \in State /\ Loop \in Task /\ received \subseteq Nat
  BY ChannelView, Facts DEF Enqueue, Sending, LoopAlone
<1>2. PICK width \in Widths : disk' = Enqueued(disk, NewBatch(disk, snap[Loop].postID, width))
  BY <1>1 DEF Enqueue, Update
<1> DEFINE b == NewBatch(disk, snap[Loop].postID, width)
<1>3. width \in Nat /\ width >= 1 /\ FirstSequence(disk) \in Nat
  BY <1>1, DeliveryAssumption, QueueTyped DEF FirstSequence
<1>4. b \in Batch /\ b.id = clock + 1
  BY <1>1, <1>3 DEF NewBatch, Batch, State
<1> HIDE DEF b
<1>5. /\ disk'.queue = Append(disk.queue, b) /\ disk'.credential = disk.credential
      /\ disk'.dropped = disk.dropped
  BY <1>1, <1>2 DEF Enqueued, State, b
<1>6. /\ Ids(disk'.queue) # <<>> /\ Front(Ids(disk'.queue)) = Ids(disk.queue)
      /\ Last(Ids(disk'.queue)) = clock + 1
  BY <1>1, <1>4, <1>5, IdsOfMore
<1>7. clock + 1 \notin received
  <2>1. \A x \in received : x <= clock
    BY DEF LoopInv, WorldInv
  <2>2. QED
    BY <1>1, <2>1
<1>8. \A k \in 1 .. Len(Ids(disk.queue)) : Ids(disk.queue)[k] < clock + 1
  <2>1. /\ Len(Ids(disk.queue)) = Len(disk.queue)
        /\ \A k \in 1 .. Len(disk.queue) : Ids(disk.queue)[k] = disk.queue[k].id
    BY <1>1, IdsTyped
  <2>2. \A k \in 1 .. Len(disk.queue) : disk.queue[k].id <= clock /\ disk.queue[k].id \in Nat
    BY <1>1, QueueTyped, WorldFields DEF LoopInv, Sound, Ordered
  <2>3. QED
    BY <1>1, <2>1, <2>2
<1>9. UNCHANGED <<received, horizon>>
  BY DEF Enqueue, serverVars
<1>10. /\ [k \in 1 .. Len(disk.queue) |-> disk.queue[k].id] = Ids(disk.queue)
       /\ [k \in 1 .. Len(disk'.queue) |-> disk'.queue[k].id] = Ids(disk'.queue)
  BY DEF Ids
<1>11. QED
  BY <1>1, <1>5, <1>6, <1>7, <1>8, <1>9, <1>10 DEF Durable!Collect, Durable!Front, Durable!Last, Front, Last

(* The head leaves the queue. *)
LEMMA ReleaseChannel ==
  ASSUME IInv, LoopAlone, LoopInv, AloneInv, pc[Loop] \in Sending,
         disk.queue # <<>>, disk'.queue = Tail(disk.queue), disk'.credential # None,
         UNCHANGED <<received, horizon>>
  PROVE  /\ disk.queue[1].id \in received /\ disk'.dropped = disk.dropped => Durable!Release
         /\ disk.queue[1].id <= horizon /\ disk'.dropped = disk.dropped + 1 => Durable!Drop
<1>1. disk.queue \in Seq(Batch) /\ disk.credential # None
  BY ChannelView
<1>2. /\ Ids(disk.queue) # <<>> /\ Head(Ids(disk.queue)) = disk.queue[1].id
      /\ Ids(disk'.queue) = Tail(Ids(disk.queue))
  BY <1>1, IdsOfTail
<1>3. /\ [k \in 1 .. Len(disk.queue) |-> disk.queue[k].id] = Ids(disk.queue)
      /\ [k \in 1 .. Len(disk'.queue) |-> disk'.queue[k].id] = Ids(disk'.queue)
  BY DEF Ids
<1>4. QED
  BY <1>1, <1>2, <1>3 DEF Durable!Release, Durable!Drop

(* Watchpost takes the head, whether the loop learns of it or not. *)
LEMMA ReceiveChannel ==
  ASSUME IInv, LoopAlone, LoopInv, AloneInv, PostAccepted(Loop) \/ PostAnswerLost(Loop)
  PROVE  Durable!Receive
<1>1. /\ pc[Loop] \in {"posting", "postingPrevious"} /\ UNCHANGED <<stateVars, timeVars>>
      /\ received' = received \cup {InHand(Loop).id}
  BY DEF PostAccepted, PostAnswerLost, InFlight, Observe
<1>2. /\ disk.queue \in Seq(Batch) /\ disk.credential # None /\ mem[Service] = disk
      /\ snap[Loop].queue \in Seq(Batch)
  BY <1>1, ChannelView, Facts DEF Sending, AloneInv, LoopAlone, State
<1>3. snap[Loop].queue # <<>> /\ Holds(snap[Loop], disk)
  BY <1>1, <1>2 DEF LoopInv, Doing, Empty, Unpaired
<1>4. disk.queue # <<>> /\ InHand(Loop).id = disk.queue[1].id
  BY <1>2, <1>3 DEF Holds, InHand
<1>5. Ids(disk.queue) # <<>> /\ Head(Ids(disk.queue)) = disk.queue[1].id
  BY <1>2, <1>4, IdsOfTail
<1>6. [k \in 1 .. Len(disk.queue) |-> disk.queue[k].id] = Ids(disk.queue)
  BY DEF Ids
<1>7. UNCHANGED <<disk, horizon>>
  BY <1>1 DEF stateVars, timeVars
<1>8. QED
  BY <1>1, <1>2, <1>4, <1>5, <1>6, <1>7 DEF Durable!Receive

(* The connection ends. *)
CloseSaved == disk.credential # None /\ disk' = Cleared(disk)

LEMMA CloseChannel ==
  ASSUME IInv, LoopAlone, CloseSaved, UNCHANGED <<received, horizon>>
  PROVE  Durable!Close
<1>1. disk \in State
  BY Facts DEF LoopAlone
<1>2. disk'.queue = <<>> /\ disk'.dropped = 0 /\ disk'.credential = None
  BY <1>1 DEF CloseSaved, Cleared, Connected, EmptyDelivery, State
<1>3. [k \in 1 .. Len(disk'.queue) |-> disk'.queue[k].id] = <<>>
  BY <1>2, IdsOfNone DEF Ids
<1>4. QED
  BY <1>2, <1>3 DEF CloseSaved, Durable!Close

LEMMA AgeChannel ==
  ASSUME DayPasses
  PROVE  Durable!Age
BY DEF DayPasses, stateVars, serverVars, Durable!Age

(* A step of Send is a step of the channel. *)
LEMMA SendChannel ==
  ASSUME IInv, LoopAlone, LoopInv, AloneInv, SendStep(Loop)
  PROVE  [Durable!Next]_(Durable!vars)
<1> DEFINE s == mem[Service]
<1>1. /\ Memory(Loop) = disk /\ s = disk /\ disk \in State /\ horizon \in Nat
      /\ pc[Loop] \in Sending => disk.credential # None
  BY ChannelView, Facts DEF AloneInv, LoopAlone
<1>2. CASE SendStart(Loop) \/ CollectFails(Loop) \/ EnqueueRefused(Loop) \/ EnqueueSaveFails(Loop)
           \/ EnqueueBeyondBound(Loop) \/ StillBackingOff(Loop) \/ BackoffOver(Loop)
           \/ FlushHead(Loop) \/ PostFails(Loop) \/ PostRefused(Loop) \/ SaveDeliveredFails(Loop)
  <2>1. UNCHANGED <<disk, received, horizon>>
    BY <1>2 DEF SendStart, CollectFails, EnqueueRefused, EnqueueSaveFails, EnqueueBeyondBound,
       StillBackingOff, BackoffOver, FlushHead, PostFails, PostRefused, SaveDeliveredFails,
       SaveFails, stateVars, serverVars, timeVars
  <2>2. QED
    BY <2>1, ChannelStutters
<1>3. CASE Enqueue(Loop)
  BY <1>3, CollectChannel DEF Durable!Next
<1>4. CASE PostAccepted(Loop) \/ PostAnswerLost(Loop)
  BY <1>4, ReceiveChannel DEF Durable!Next
<1>5. CASE DropStale(Loop)
  <2>1. UNCHANGED <<received, horizon>> /\ pc[Loop] = "stale" /\ pc[Loop] \in Sending
    BY <1>5 DEF DropStale, serverVars, timeVars, Sending
  <2>2. CASE UNCHANGED disk
    BY <2>1, <2>2, ChannelStutters
  <2>3. CASE disk' = StaleDropped(disk)
    <3>1. disk.queue # <<>> /\ disk.queue[1].id <= horizon
      BY <1>1, <2>1 DEF LoopInv, Doing, Holds, Empty, Unpaired
    <3>2. /\ disk'.queue = Tail(disk.queue) /\ disk'.credential = disk.credential
          /\ disk'.dropped = disk.dropped + 1
      BY <1>1, <2>3, <3>1 DEF StaleDropped, Popped, State
    <3>3. QED
      BY <1>1, <2>1, <3>1, <3>2, ReleaseChannel DEF Durable!Next
  <2>4. QED
    BY <1>1, <1>5, <2>2, <2>3 DEF DropStale, Update, SaveFails, stateVars
<1>6. CASE SaveDelivered(Loop)
  <2>1. UNCHANGED <<received, horizon>> /\ pc[Loop] \in Sending
    BY <1>6 DEF SaveDelivered, serverVars, timeVars, Sending
  <2>2. disk.queue # <<>> /\ disk.queue[1].id \in received
    <3>1. pc[Loop] \in {"accepted", "acceptedPrevious"}
      BY <1>6 DEF SaveDelivered
    <3>2. Empty(disk) \/ Taken(disk, World)
      BY <1>1, <3>1 DEF LoopInv, Doing
    <3>3. ~Empty(disk)
      BY <1>1, <2>1 DEF Empty, Unpaired
    <3>4. QED
      BY <3>2, <3>3, WorldFields DEF Taken
  <2>3. /\ disk' = DeliveredWithCurrent(disk) \/ disk' = DeliveredWithPrevious(disk)
        /\ SendSaves(disk')
    BY <1>1, <1>6 DEF SaveDelivered, Update, SendSaves
  <2>4. disk'.credential # None
    BY <2>1, <2>3, SendKeeps
  <2>5. disk'.queue = Tail(disk.queue) /\ disk'.dropped = disk.dropped
    BY <1>1, <2>2, <2>3 DEF DeliveredWithCurrent, DeliveredWithPrevious, Popped, State
  <2>6. QED
    BY <2>1, <2>2, <2>4, <2>5, ReleaseChannel DEF Durable!Next
<1>7. CASE MarkFailure(Loop)
  <2>1. /\ UNCHANGED <<received, horizon>> /\ pc[Loop] \in Sending
        /\ disk' = Failed(disk) \/ disk' = disk
    BY <1>1, <1>7 DEF MarkFailure, Update, SaveFails, stateVars, serverVars, timeVars, Sending
  <2>2. /\ disk'.queue = disk.queue /\ disk'.dropped = disk.dropped
        /\ disk'.credential = disk.credential
    BY <1>1, <2>1 DEF Failed, State
  <2>3. QED
    BY <1>1, <2>1, <2>2, SameQueueStutters
<1>8. QED
  BY <1>2, <1>3, <1>4, <1>5, <1>6, <1>7 DEF SendStep

(* So is a step of the retried revocation. *)
LEMMA RetryChannel ==
  ASSUME IInv, LoopAlone, LoopInv, AloneInv, PairingStep(Loop)
  PROVE  [Durable!Next]_(Durable!vars)
<1>1. pc[Loop] \in LoopLabels /\ Memory(Loop) = disk
  BY ChannelView DEF LoopInv
<1>2. UnpairAnswered(Loop) \/ UnpairUnanswered(Loop) \/ SaveCleared(Loop)
  BY <1>1 DEF PairingStep, LoopLabels, Sending, PollAnswered, PollEnds, SaveApproval,
     SaveApprovalFails, SavePending, RotateAnswered, RotateUnanswered, SaveRotated
<1>3. CASE UnpairAnswered(Loop) \/ UnpairUnanswered(Loop)
  <2>1. UNCHANGED <<disk, received, horizon>>
    BY <1>3 DEF UnpairAnswered, UnpairUnanswered, Revoke, stateVars, serverVars, timeVars
  <2>2. QED
    BY <2>1, ChannelStutters
<1>4. CASE SaveCleared(Loop)
  <2>1. /\ UNCHANGED <<received, horizon>> /\ disk.credential # None
        /\ disk' = Cleared(disk) \/ disk' = disk
    BY <1>1, <1>4 DEF SaveCleared, AloneInv, Update, SaveFails, stateVars, serverVars, timeVars,
       pairingFrame
  <2>2. CASE disk' = disk
    BY <2>1, <2>2, ChannelStutters
  <2>3. CASE disk' = Cleared(disk)
    BY <2>1, <2>3, CloseChannel DEF CloseSaved, Durable!Next
  <2>4. QED
    BY <2>1, <2>2, <2>3
<1>5. QED
  BY <1>2, <1>3, <1>4

LEMMA StepChannel ==
  ASSUME IInv, LoopAlone, LoopInv, AloneInv, [Next]_vars
  PROVE  [Durable!Next]_(Durable!vars)
<1>1. CASE LoopStep
  <2>1. UNCHANGED <<disk, received, horizon>>
    BY <1>1 DEF LoopStep, Wake, WakeWithoutReload, Reloaded, ReloadPublish, Cycle, RetryStart,
       stateVars, serverVars, timeVars, pairingFrame
  <2>2. QED
    BY <2>1, ChannelStutters
<1>2. ASSUME NEW t \in Task, TaskStep(t) \/ OpenCommand(t) \/ Operate(t)
      PROVE  [Durable!Next]_(Durable!vars)
  <2>1. t = Loop
    BY <1>2, HandlersRest
  <2>2. SendStep(Loop) \/ PairingStep(Loop)
    BY <1>2, <2>1, LoopTaskOnly DEF LoopAlone
  <2>3. QED
    BY <2>2, SendChannel, RetryChannel
<1>3. ASSUME NEW p \in Process, Crash(p) PROVE [Durable!Next]_(Durable!vars)
  <2>1. UNCHANGED <<disk, received, horizon>>
    BY <1>3 DEF Crash, Open, serverVars, timeVars, pairingFrame
  <2>2. QED
    BY <2>1, ChannelStutters
<1>4. CASE Outside
  <2>1. CASE DayPasses
    BY <2>1, AgeChannel DEF Durable!Next
  <2>2. CASE ~DayPasses
    <3>1. UNCHANGED <<disk, received, horizon>>
      BY <1>4, <2>2 DEF Outside, Approve, Lapse, OwnerRevokes, stateVars, timeVars
    <3>2. QED
      BY <3>1, ChannelStutters
  <2>3. QED
    BY <2>1, <2>2
<1>5. CASE UNCHANGED vars
  BY <1>5, ChannelStutters DEF vars, stateVars, serverVars, timeVars
<1>6. QED
  BY <1>1, <1>2, <1>3, <1>4, <1>5 DEF Next

(* With the delivery loop alone, the file and Watchpost hold a channel     *)
(* (ImplementsChannel): the loop delivers at least once and oldest first,  *)
(* and loses nothing but what is too old, which it counts, and what the    *)
(* end of the connection takes.                                            *)
THEOREM LoopIsAChannel == LoopAlone => (Spec => ImplementsChannel)
<1> SUFFICES ASSUME LoopAlone PROVE Spec => ImplementsChannel
  OBVIOUS
<1>1. Init => Durable!Init
  BY InitChannel
<1>2. IInv /\ LoopInv /\ AloneInv /\ [Next]_vars => [Durable!Next]_(Durable!vars)
  BY StepChannel
<1>3. QED
  BY <1>1, <1>2, AloneInvariant, PTL DEF Spec, ImplementsChannel, Durable!Spec

=============================================================================
