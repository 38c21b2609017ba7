---------------------------- MODULE AccessProofs ----------------------------
(***************************************************************************)
(* Proofs about Access, for every set of addresses and proxies, every      *)
(* configuration, every number of hops and everything a client may write.  *)
(* The invariant reads the header as the agent will: some entries of the   *)
(* client's own, then the way of the request but for its last hop.         *)
(***************************************************************************)
EXTENDS Access, SequenceTheorems, WellFoundedInduction, TLAPS

Message ==
  [ chain : Seq(Address \cup {Malformed}), forwarded : Address \cup {Malformed, None},
    proto : Scheme \cup {None}, fhost : Host \cup {AgentHost, None},
    scheme : Scheme, host : Host \cup {AgentHost}, origin : Origin \cup {None},
    claim : [role : {"none", "viewer", "technician", "admin"}, csrf : BOOLEAN,
             route : [role : {"viewer", "technician", "admin"}, write : BOOLEAN]] ]

Typed ==
  /\ config \in Config
  /\ stage \in {"idle", "travelling", "answered"}
  /\ message \in Message
  /\ path \in Seq(Address)
  /\ target \in Origin

(* How many entries of the header the client wrote. *)
Ahead == Len(message.chain) + 1 - Len(path)

(* The header ends with the way of the request, and begins with nothing if *)
(* its client is trusted.                                                  *)
Chained ==
  /\ Len(path) >= 1 /\ Ahead >= 0
  /\ \A k \in 1 .. Len(path) - 1 : message.chain[Ahead + k] = path[k]
  /\ path[1] \in config.trusted => Ahead = 0 /\ message.forwarded = None

(* The last hop says, or passes on, how the client addressed the first.    *)
Addressed ==
  /\ Len(path) = 1 => /\ message.scheme = target.scheme /\ message.host = target.host
                      /\ message.fhost = None
                      /\ path[1] \in config.trusted => message.proto = None
  /\ Len(path) > 1 => message.proto = target.scheme /\ message.fhost = target.host
  /\ path[1] \notin Proxy
  /\ \A k \in 2 .. Len(path) : path[k] \in Proxy

Answered == stage = "answered" => answer = Require(config, message, Peer)

IInv == Typed /\ (stage # "idle" => Chained /\ Addressed) /\ Answered

-----------------------------------------------------------------------------
LEMMA BlankMessage == Blank \in Message /\ [scheme |-> "http", host |-> AgentHost] \in Origin
<1>1. <<>> \in Seq(Address \cup {Malformed})
  OBVIOUS
<1>2. QED
  BY <1>1 DEF Blank, Message, Origin, Scheme

LEMMA InitInv == AccessInit => IInv
<1> SUFFICES ASSUME AccessInit PROVE IInv
  OBVIOUS
<1>1. <<>> \in Seq(Address)
  OBVIOUS
<1>2. QED
  BY <1>1, BlankMessage DEF AccessInit, IInv, Typed, Answered

(* What a client sends. *)
LEMMA SendInv == ASSUME IInv, NEW client \in Address \ Proxy, Send(client) PROVE IInv'
<1>1. PICK chain \in Forged, forwarded \in ForgedEntry \cup {None}, proto \in Scheme \cup {None},
           site \in Origin, origin \in Origin \cup {None}, claim \in Claim :
       /\ client \in config.trusted => chain = <<>> /\ forwarded = None /\ proto = None
       /\ target' = site
       /\ message' =
            [ chain |-> chain, forwarded |-> forwarded, proto |-> proto, fhost |-> None,
              scheme |-> site.scheme, host |-> site.host, origin |-> origin, claim |-> claim ]
  BY ZenonT(30) DEF Send
<1>2. path' = <<client>> /\ stage' = "travelling" /\ config' = config
  BY DEF Send
<1>3. chain \in Seq(Address \cup {Malformed})
  <2>1. PICK n \in 0 .. MaxForged : chain \in [1 .. n -> ForgedEntry]
    BY DEF Forged
  <2>2. n \in Nat /\ chain \in [1 .. n -> Address \cup {Malformed}]
    BY <2>1, AccessAssumption
  <2>3. QED
    BY <2>2, SeqDef
<1>4. message' \in Message
  BY <1>1, <1>3, AccessAssumption DEF Message, Origin
<1>5. path' \in Seq(Address) /\ Len(path') = 1 /\ path'[1] = client
  BY <1>2
<1>6. /\ message'.chain = chain /\ message'.forwarded = forwarded /\ message'.proto = proto
      /\ message'.fhost = None /\ message'.scheme = site.scheme /\ message'.host = site.host
  BY <1>1
<1>7. Len(chain) \in Nat /\ (chain = <<>> => Len(chain) = 0)
  BY <1>3
<1>8. Typed'
  BY <1>1, <1>2, <1>4, <1>5 DEF IInv, Typed
<1>9. Chained'
  BY <1>1, <1>2, <1>5, <1>6, <1>7 DEF Chained, Ahead
<1>10. Addressed'
  BY <1>1, <1>2, <1>5, <1>6 DEF Addressed
<1>11. Answered'
  BY <1>2 DEF Answered
<1>12. QED
  BY <1>8, <1>9, <1>10, <1>11 DEF IInv

(* What a proxy passes on. *)
LEMMA PassedMessage ==
  ASSUME NEW m \in Message, NEW from \in Address
  PROVE  LET p == Passed(m, from) IN
           /\ p \in Message
           /\ p.chain = Append(m.chain, from) /\ p.forwarded = m.forwarded
           /\ p.proto = IF from \in Proxy THEN Effective(m.proto, m.scheme) ELSE m.scheme
           /\ p.fhost = IF from \in Proxy THEN Effective(m.fhost, m.host) ELSE m.host
<1> DEFINE proto == IF from \in Proxy THEN Effective(m.proto, m.scheme) ELSE m.scheme
           fhost == IF from \in Proxy THEN Effective(m.fhost, m.host) ELSE m.host
           chain == Append(m.chain, from)
<1>1. m.chain \in Seq(Address \cup {Malformed})
  BY DEF Message
<1>2. chain \in Seq(Address \cup {Malformed})
  BY <1>1
<1>3. proto \in Scheme \cup {None} /\ fhost \in Host \cup {AgentHost, None}
  BY DEF Message, Effective
<1> HIDE DEF proto, fhost, chain
<1>4. Passed(m, from) = [m EXCEPT !.chain = chain, !.proto = proto, !.fhost = fhost,
                                  !.scheme = "http", !.host = AgentHost]
  BY DEF Passed, proto, fhost, chain
<1>5. Passed(m, from) =
        [ chain |-> chain, forwarded |-> m.forwarded, proto |-> proto, fhost |-> fhost,
          scheme |-> "http", host |-> AgentHost, origin |-> m.origin, claim |-> m.claim ]
  BY <1>4 DEF Message
<1>6. Passed(m, from) \in Message
  BY <1>2, <1>3, <1>5 DEF Message, Scheme
<1>7. QED
  BY <1>5, <1>6 DEF proto, fhost, chain

(* Two facts of arithmetic. *)
LEMMA OneOrMore == ASSUME NEW n \in Nat, n >= 1 PROVE n = 1 \/ n > 1
  OBVIOUS

LEMMA Shifted ==
  ASSUME NEW n \in Nat, NEW h \in Nat, n + 1 - h >= 0
  PROVE  /\ (n + 1) + 1 - (h + 1) = n + 1 - h
         /\ n + 1 - h \in Nat
         /\ (n + 1 - h) + h = n + 1
  OBVIOUS

LEMMA ForwardInv == ASSUME IInv, NEW proxy \in Proxy, Forward(proxy) PROVE IInv'
<1>1. /\ stage = "travelling" /\ message' = Passed(message, Peer)
      /\ path' = Append(path, proxy)
      /\ UNCHANGED <<config, stage, target, answer>>
  BY DEF Forward
<1>2. /\ path \in Seq(Address) /\ Len(path) \in Nat /\ Len(path) >= 1
      /\ message \in Message /\ message.chain \in Seq(Address \cup {Malformed})
      /\ Len(message.chain) \in Nat
  BY <1>1 DEF IInv, Typed, Chained, Message
<1>3. Peer \in Address /\ proxy \in Address
  BY <1>2, AccessAssumption DEF Peer
<1>4. /\ message' \in Message
      /\ message'.chain = Append(message.chain, Peer)
      /\ message'.forwarded = message.forwarded
      /\ message'.proto = IF Peer \in Proxy THEN Effective(message.proto, message.scheme)
                                            ELSE message.scheme
      /\ message'.fhost = IF Peer \in Proxy THEN Effective(message.fhost, message.host)
                                            ELSE message.host
  BY <1>1, <1>2, <1>3, PassedMessage
<1>5. /\ path' \in Seq(Address) /\ Len(path') = Len(path) + 1
      /\ path'[Len(path) + 1] = proxy
      /\ \A k \in 1 .. Len(path) : path'[k] = path[k]
  BY <1>1, <1>2, <1>3
<1>6. /\ Len(message'.chain) = Len(message.chain) + 1
      /\ message'.chain[Len(message.chain) + 1] = Peer
      /\ \A k \in 1 .. Len(message.chain) : message'.chain[k] = message.chain[k]
  BY <1>2, <1>3, <1>4
<1>7. Typed'
  BY <1>1, <1>4, <1>5 DEF IInv, Typed
<1>8. Chained'
  <2>1. Ahead' = Ahead /\ Ahead \in Nat /\ Ahead + Len(path) = Len(message.chain) + 1
    <3>1. Ahead = Len(message.chain) + 1 - Len(path)
          /\ Ahead' = Len(message'.chain) + 1 - Len(path')
      BY DEF Ahead
    <3>2. Ahead >= 0
      BY <1>1 DEF IInv, Chained
    <3>3. Len(message'.chain) = Len(message.chain) + 1 /\ Len(path') = Len(path) + 1
      BY <1>5, <1>6
    <3>4. Len(message.chain) \in Nat /\ Len(path) \in Nat /\ Len(message.chain) + 1 - Len(path) >= 0
      BY <3>1, <3>2, <1>2
    <3>5. Ahead' = (Len(message.chain) + 1) + 1 - (Len(path) + 1)
      BY <3>1, <3>3
    <3>6. QED
      BY ONLY <3>1, <3>4, <3>5, Shifted
  <2>2. \A k \in 1 .. Len(path) - 1 : message.chain[Ahead + k] = path[k]
    BY <1>1 DEF IInv, Chained
  <2>3. ASSUME NEW k \in 1 .. Len(path') - 1
        PROVE  message'.chain[Ahead + k] = path'[k]
    <3>1. k \in 1 .. Len(path)
      BY <1>2, <1>5
    <3>2. CASE k = Len(path)
      BY <3>1, <3>2, <2>1, <1>2, <1>5, <1>6 DEF Peer
    <3>3. CASE k < Len(path)
      <4>1. k \in 1 .. Len(path) - 1 /\ Ahead + k \in 1 .. Len(message.chain)
        BY <3>1, <3>3, <2>1, <1>2
      <4>2. QED
        BY <4>1, <3>1, <2>2, <1>5, <1>6
    <3>4. QED
      BY <3>1, <3>2, <3>3, <1>2
  <2>4. path[1] \in config.trusted => Ahead = 0 /\ message.forwarded = None
    BY <1>1 DEF IInv, Chained
  <2>5. QED
    <3>1. Len(path') >= 1 /\ path'[1] = path[1] /\ Ahead' >= 0
      BY <2>1, <1>2, <1>5
    <3>2. QED
      BY <3>1, <2>1, <2>3, <2>4, <1>1, <1>4 DEF Chained
<1>9. Addressed'
  <2>1. Addressed /\ target \in Origin
    BY <1>1 DEF IInv, Typed
  <2>2. target.scheme # None /\ target.host # None
    BY <2>1, AccessAssumption DEF Origin, Scheme
  <2>3. message'.proto = target.scheme /\ message'.fhost = target.host
    <3>1. CASE Len(path) = 1
      BY <3>1, <2>1, <1>4 DEF Addressed, Peer
    <3>2. CASE Len(path) > 1
      <4>1. Peer \in Proxy
        BY <3>2, <2>1, <1>2 DEF Addressed, Peer
      <4>2. QED
        BY <4>1, <3>2, <2>1, <2>2, <1>4 DEF Addressed, Effective
    <3>3. Len(path) = 1 \/ Len(path) > 1
      BY <1>2, OneOrMore
    <3>4. QED
      BY <3>1, <3>2, <3>3
  <2>4. path'[1] \notin Proxy
    BY <2>1, <1>2, <1>5 DEF Addressed
  <2>5. \A k \in 2 .. Len(path') : path'[k] \in Proxy
    BY <2>1, <1>2, <1>5 DEF Addressed
  <2>6. QED
    BY <2>3, <2>4, <2>5, <1>1, <1>2, <1>5 DEF Addressed
<1>10. Answered'
  BY <1>1 DEF Answered
<1>11. QED
  BY <1>7, <1>8, <1>9, <1>10 DEF IInv

LEMMA StepInv == IInv /\ [AccessNext]_accessVars => IInv'
<1> SUFFICES ASSUME IInv, [AccessNext]_accessVars PROVE IInv'
  OBVIOUS
<1>1. CASE Receive
  <2>1. /\ stage = "travelling" /\ stage' = "answered" /\ answer' = Require(config, message, Peer)
        /\ UNCHANGED <<config, message, path, target>>
    BY <1>1 DEF Receive
  <2>2. Typed'
    BY <2>1 DEF IInv, Typed
  <2>3. Chained' /\ Addressed'
    BY <2>1 DEF IInv, Chained, Addressed, Ahead
  <2>4. Require(config', message', Peer') = Require(config, message, Peer)
    BY <2>1 DEF Peer
  <2>5. QED
    BY <2>1, <2>2, <2>3, <2>4 DEF IInv, Answered
<1>2. CASE Done
  <2>1. <<>> \in Seq(Address)
    OBVIOUS
  <2>2. QED
    BY <1>2, <2>1, BlankMessage DEF Done, IInv, Typed, Answered
<1>3. CASE UNCHANGED accessVars
  <2>1. UNCHANGED <<config, stage, message, path, target, answer>>
    BY <1>3 DEF accessVars
  <2>2. Typed' /\ (stage' # "idle" => Chained' /\ Addressed')
    BY <2>1 DEF IInv, Typed, Chained, Addressed, Ahead
  <2>3. Require(config', message', Peer') = Require(config, message, Peer)
    BY <2>1 DEF Peer
  <2>4. QED
    BY <2>1, <2>2, <2>3 DEF IInv, Answered
<1>4. QED
  BY <1>1, <1>2, <1>3, SendInv, ForwardInv DEF AccessNext

-----------------------------------------------------------------------------
(* The client that the agent resolves. *)

(* The largest of some places is the one that no other exceeds. *)
LEMMA LargestPlace ==
  ASSUME NEW n \in Nat, NEW S \in SUBSET (1 .. n), NEW x \in S, \A y \in S : y <= x
  PROVE  Max(S) = x
<1>1. \A y \in S : y \in Int
  OBVIOUS
<1>2. \E m \in S : \A y \in S : m >= y
  BY <1>1
<1>3. Max(S) \in S /\ \A y \in S : Max(S) >= y
  BY <1>2 DEF Max
<1>4. Max(S) \in Int /\ Max(S) >= x /\ Max(S) <= x
  BY <1>1, <1>3
<1>5. QED
  BY <1>1, <1>4

LEMMA LargestExists ==
  ASSUME NEW n \in Nat, NEW S \in SUBSET (1 .. n), S # {}
  PROVE  \E x \in S : \A y \in S : y <= x
<1> DEFINE T == {n - y : y \in S}
<1>1. T \subseteq Nat /\ T # {}
  <2>1. ASSUME NEW y \in S PROVE n - y \in Nat
    OBVIOUS
  <2>2. PICK y \in S : TRUE
    OBVIOUS
  <2>3. n - y \in T
    OBVIOUS
  <2>4. QED
    BY <2>1, <2>3
<1>2. PICK x \in T : \A y \in T : ~ (<<y, x>> \in OpToRel(<, Nat))
  BY <1>1, NatLessThanWellFounded, WFMin
<1>3. \A y \in T : ~ (y < x)
  BY <1>1, <1>2 DEF OpToRel
<1>4. PICK z \in S : x = n - z
  OBVIOUS
<1>5. ASSUME NEW y \in S PROVE y <= z
  <2>1. ~ (n - y < n - z)
    BY <1>3, <1>4
  <2>2. QED
    BY <2>1
<1>6. QED
  BY <1>5

(* A way p of h hops with a trusted last one, whose other hops are the     *)
(* last entries of a header c after a others: the last entry and the last  *)
(* hop outside T are the same.                                             *)
Distrusted(s, n, T) == {k \in 1 .. n : s[k] \notin T}

EndsWith(c, a, p, h, T) ==
  /\ h \in Nat /\ h >= 1 /\ a \in Nat
  /\ \A k \in 1 .. h - 1 : c[a + k] = p[k]
  /\ p[h] \in T /\ Distrusted(p, h, T) # {}

LEMMA SameLastPlace ==
  ASSUME NEW h, NEW a, NEW p, NEW c, NEW T, EndsWith(c, a, p, h, T)
  PROVE  /\ Distrusted(c, a + h - 1, T) # {}
         /\ c[Max(Distrusted(c, a + h - 1, T))] = p[Max(Distrusted(p, h, T))]
<1> DEFINE others == {k \in 1 .. h : p[k] \notin T}
           unsure == {k \in 1 .. a + h - 1 : c[k] \notin T}
<1> USE DEF EndsWith, Distrusted
<1>1. PICK x \in others : \A y \in others : y <= x
  <2>1. others \in SUBSET (1 .. h) /\ others # {}
    OBVIOUS
  <2>2. QED
    BY <2>1, LargestExists
<1>2. x \in 1 .. h - 1 /\ p[x] \notin T
  OBVIOUS
<1>3. a + x \in unsure /\ c[a + x] = p[x]
  BY <1>2
<1>4. ASSUME NEW y \in unsure PROVE y <= a + x
  <2>1. SUFFICES ASSUME y > a + x PROVE FALSE
    BY <1>2
  <2>2. y - a \in 1 .. h - 1 /\ c[a + (y - a)] = p[y - a] /\ a + (y - a) = y
    BY <1>2, <2>1
  <2>3. y - a \in others
    BY <2>2
  <2>4. QED
    BY <1>1, <1>2, <2>1, <2>3
<1>5. Max(unsure) = a + x
  <2>1. unsure \in SUBSET (1 .. a + h - 1) /\ a + h - 1 \in Nat
    OBVIOUS
  <2>2. QED
    BY <1>3, <1>4, <2>1, LargestPlace
<1>6. Max(others) = x
  <2>1. others \in SUBSET (1 .. h)
    OBVIOUS
  <2>2. QED
    BY <1>1, <2>1, LargestPlace
<1>7. QED
  BY <1>3, <1>5, <1>6

(* The path and the header of a request on its way, by their lengths.      *)
LEMMA OnTheWay ==
  ASSUME IInv, stage # "idle"
  PROVE  /\ Len(path) \in Nat /\ Len(path) >= 1 /\ Peer \in Address
         /\ Ahead \in Nat /\ Len(message.chain) = Ahead + Len(path) - 1
         /\ message.chain \in Seq(Address \cup {Malformed})
         /\ \A k \in 1 .. Len(path) : path[k] \in Address
<1>1. /\ path \in Seq(Address) /\ Len(path) >= 1 /\ Ahead >= 0
      /\ message.chain \in Seq(Address \cup {Malformed})
  BY DEF IInv, Typed, Chained, Message
<1>2. Len(path) \in Nat /\ Len(message.chain) \in Nat
  BY <1>1
<1>3. \A k \in 1 .. Len(path) : path[k] \in Address
  BY <1>1
<1>4. Peer \in Address
  BY <1>1, <1>2, <1>3 DEF Peer
<1>5. Len(message.chain) + 1 - Len(path) >= 0
  BY <1>1 DEF Ahead
<1>6. \A n, h \in Nat : n + 1 - h >= 0 =>
        n + 1 - h \in Nat /\ n = (n + 1 - h) + h - 1
  OBVIOUS
<1>7. QED
  BY ONLY <1>1, <1>2, <1>3, <1>4, <1>5, <1>6 DEF Ahead

(* What the agent resolves, and that it is no stand-in for an address.     *)
LEMMA Resolved ==
  ASSUME IInv, stage # "idle"
  PROVE  LET ip == ResolveClientIP(config, message, Peer) IN
           \/ ip \in Address /\ ip = RealClient
           \/ ip = Unresolved /\ Peer \in config.trusted /\ (RealClient = None \/ Garbled)
<1> DEFINE ip == ResolveClientIP(config, message, Peer)
           others == {k \in 1 .. Len(path) : path[k] \notin config.trusted}
<1>1. /\ Len(path) \in Nat /\ Len(path) >= 1 /\ Peer \in Address
      /\ Ahead \in Nat /\ Len(message.chain) = Ahead + Len(path) - 1
      /\ message.chain \in Seq(Address \cup {Malformed})
      /\ \A k \in 1 .. Len(path) : path[k] \in Address
  BY OnTheWay
<1>2. /\ \A k \in 1 .. Len(path) - 1 : message.chain[Ahead + k] = path[k]
      /\ path[1] \in config.trusted => Ahead = 0 /\ message.forwarded = None
  BY DEF IInv, Chained
<1>3. Peer # None /\ None # Unresolved /\ None \notin Address /\ None \notin Seq(Address)
  BY <1>1, AccessAssumption
<1>4. Peer = path[Len(path)]
  BY DEF Peer
<1>5. RealClient = IF others = {} THEN None ELSE path[Max(others)]
  BY DEF RealClient
<1>6. CASE Peer \notin config.trusted
  <2>1. ip = Peer
    BY <1>3, <1>6 DEF ResolveClientIP
  <2>2. Len(path) \in others /\ \A y \in others : y <= Len(path)
    BY <1>1, <1>4, <1>6
  <2>3. others \in SUBSET (1 .. Len(path))
    OBVIOUS
  <2>4. Max(others) = Len(path)
    BY <1>1, <2>2, <2>3, LargestPlace
  <2>5. QED
    BY <1>1, <1>4, <1>5, <2>1, <2>2, <2>4
<1>7. CASE Peer \in config.trusted
  <2>1. PolicyActive(config)
    BY <1>7 DEF PolicyActive
  <2>2. CASE message.chain = <<>>
    <3>1. Len(path) = 1
      <4>1. Len(message.chain) = 0
        BY <2>2
      <4>2. \A a, h \in Nat : h >= 1 /\ 0 = a + h - 1 => h = 1
        OBVIOUS
      <4>3. QED
        BY <1>1, <4>1, <4>2
    <3>2. path[1] \in config.trusted
      BY <1>4, <1>7, <3>1
    <3>3. others = {}
      BY <3>1, <3>2
    <3>4. ForwardedChain(message) = None
      BY <1>2, <1>3, <2>2, <3>2 DEF ForwardedChain
    <3>5. QED
      BY <1>3, <1>5, <1>7, <2>1, <3>3, <3>4 DEF ResolveClientIP
  <2>3. CASE message.chain # <<>> /\ Garbled
    <3>1. ForwardedChain(message) = None
      BY <2>3 DEF ForwardedChain, Garbled
    <3>2. QED
      BY <1>3, <1>7, <2>1, <2>3, <3>1 DEF ResolveClientIP
  <2>4. CASE message.chain # <<>> /\ ~ Garbled
    <3>1. ForwardedChain(message) = message.chain
      BY <2>4 DEF ForwardedChain, Garbled
    <3>2. message.chain # None
      <4>1. \A k \in 1 .. Len(message.chain) : message.chain[k] \in Address
        BY <1>1, <2>4 DEF Garbled
      <4>2. message.chain \in Seq(Address)
        BY <1>1, <4>1, SeqDef, LenProperties
      <4>3. QED
        BY <1>3, <4>2
    <3>3. ip = LastUntrusted(config, message.chain)
      BY <1>3, <1>7, <3>1, <3>2 DEF ResolveClientIP
    <3>4. Untrusted(config, message.chain)
            = {k \in 1 .. Ahead + Len(path) - 1 : message.chain[k] \notin config.trusted}
      BY <1>1 DEF Untrusted
    <3>5. CASE others = {}
      <4>1. path[1] \in config.trusted
        BY <1>1, <3>5
      <4>2. Ahead = 0
        BY <1>2, <4>1
      <4>3. \A k \in 1 .. Ahead + Len(path) - 1 : message.chain[k] \in config.trusted
        <5>1. SUFFICES ASSUME NEW k \in 1 .. Ahead + Len(path) - 1
                       PROVE  message.chain[k] \in config.trusted
          OBVIOUS
        <5>2. k \in 1 .. Len(path) - 1 /\ k \in 1 .. Len(path) /\ Ahead + k = k
          BY <1>1, <4>2
        <5>3. path[k] \in config.trusted
          BY <3>5, <5>2
        <5>4. QED
          BY <1>2, <5>2, <5>3
      <4>4. Untrusted(config, message.chain) = {}
        BY <3>4, <4>3
      <4>5. QED
        BY <1>5, <1>7, <3>3, <3>5, <4>4 DEF LastUntrusted
    <3>6. CASE others # {}
      <4>1. path[Len(path)] \in config.trusted
        BY <1>4, <1>7
      <4>2. /\ Untrusted(config, message.chain) # {}
            /\ message.chain[Max(Untrusted(config, message.chain))] = path[Max(others)]
        <5>1. EndsWith(message.chain, Ahead, path, Len(path), config.trusted)
          BY <1>1, <1>2, <3>6, <4>1 DEF EndsWith, Distrusted
        <5>2. /\ Untrusted(config, message.chain)
                   = Distrusted(message.chain, Ahead + Len(path) - 1, config.trusted)
              /\ others = Distrusted(path, Len(path), config.trusted)
          BY <3>4 DEF Distrusted
        <5> HIDE DEF others
        <5>3. /\ Distrusted(message.chain, Ahead + Len(path) - 1, config.trusted) # {}
              /\ message.chain[Max(Distrusted(message.chain, Ahead + Len(path) - 1, config.trusted))]
                   = path[Max(Distrusted(path, Len(path), config.trusted))]
          BY <5>1, SameLastPlace
        <5>4. QED
          BY ONLY <5>2, <5>3
      <4>3. PICK x \in others : \A y \in others : y <= x
        <5>1. others \in SUBSET (1 .. Len(path))
          OBVIOUS
        <5>2. QED
          BY <1>1, <3>6, <5>1, LargestExists
      <4>4. Max(others) = x
        <5>1. others \in SUBSET (1 .. Len(path))
          OBVIOUS
        <5>2. QED
          BY <1>1, <4>3, <5>1, LargestPlace
      <4>5. path[Max(others)] \in Address
        BY <1>1, <4>4
      <4>6. QED
        BY <1>5, <3>3, <3>6, <4>2, <4>5 DEF LastUntrusted
    <3>7. QED
      BY <3>5, <3>6
  <2>5. QED
    BY <2>2, <2>3, <2>4
<1>8. QED
  BY <1>6, <1>7

-----------------------------------------------------------------------------
LEMMA Invariance == AccessSpec => []IInv
<1>1. QED
  BY InitInv, StepInv, PTL DEF AccessSpec

(* Whatever a client writes in the headers and however many proxies pass   *)
(* its request on, the agent resolves the last sender that is no trusted   *)
(* proxy, or none (resolveClientIP).                                       *)
THEOREM ResolvesTheClient == AccessSpec => []ClientIsReal
<1>1. IInv => ClientIsReal
  BY Resolved DEF ClientIsReal
<1>2. QED
  BY <1>1, Invariance, PTL

(* The allow and deny lists bind the real client (clientAllowed): no       *)
(* header lets a denied one in or shuts a permitted one out.               *)
THEOREM ListsBindTheClient == AccessSpec => []PolicyOnRealClient
<1>1. ASSUME IInv, stage = "answered", Listed PROVE
        /\ answer # "403" => RealClient # None /\ Permitted(RealClient)
        /\ RealClient # None /\ Permitted(RealClient) /\ ~Garbled /\ message.claim.role = "none" =>
             answer = "401"
  <2> DEFINE ip == ResolveClientIP(config, message, Peer)
  <2>1. answer = Require(config, message, Peer)
    BY <1>1 DEF IInv, Answered
  <2>2. \/ ip \in Address /\ ip = RealClient
        \/ ip = Unresolved /\ (RealClient = None \/ Garbled)
    BY <1>1, Resolved
  <2>3. /\ Unresolved \notin Address /\ Unresolved # None /\ None \notin Address
        /\ Loopback \subseteq Address
    BY AccessAssumption
  <2>4. ClientAllowed(config, message, Peer) <=>
          ip = RealClient /\ RealClient # None /\ Permitted(RealClient)
    BY <1>1, <2>2, <2>3 DEF ClientAllowed, Permitted, Listed
  <2>5. answer # "403" => ClientAllowed(config, message, Peer)
    BY <2>1 DEF Require
  <2>6. ClientAllowed(config, message, Peer) /\ message.claim.role = "none" => answer = "401"
    BY <2>1 DEF Require
  <2>7. QED
    BY <2>2, <2>4, <2>5, <2>6
<1>2. IInv => PolicyOnRealClient
  BY <1>1 DEF PolicyOnRealClient
<1>3. QED
  BY <1>2, Invariance, PTL

(* Behind trusted proxies sameOrigin compares with the origin the browser  *)
(* asked for, so an administrator's change is accepted from its own pages  *)
(* and from no other.                                                      *)
THEOREM AcceptsOwnPages == AccessSpec => []OwnPageOnly
<1> DEFINE sound == AllTrusted /\ RealClient # None /\ Permitted(RealClient) /\ ~Garbled
<1>1. ASSUME IInv, stage = "answered", sound, message.claim.role = "admin",
             message.claim.route.write, message.claim.csrf
      PROVE  answer = "served" <=> message.origin \in {None, target}
  <2>1. /\ answer = Require(config, message, Peer) /\ message \in Message
        /\ target \in Origin /\ Addressed
    BY <1>1 DEF IInv, Answered, Typed
  <2>2. ResolveClientIP(config, message, Peer) = RealClient /\ RealClient \in Address
    BY <1>1, Resolved
  <2>3. ClientAllowed(config, message, Peer)
    BY <1>1, <2>2 DEF ClientAllowed, Permitted, Listed
  <2>4. ~ (rank[message.claim.role] < rank[message.claim.route.role])
    <3>1. message.claim.route.role \in {"viewer", "technician", "admin"}
      BY <2>1 DEF Message
    <3>2. QED
      BY <1>1, <3>1 DEF rank
  <2>5. answer = "served" <=> SameOrigin(config, message, Peer)
    BY <1>1, <2>1, <2>3, <2>4 DEF Require
  <2>6. target = [scheme |-> target.scheme, host |-> target.host]
        /\ target.scheme # None /\ target.host # None
    BY <2>1, AccessAssumption DEF Origin, Scheme
  <2>7. SameOrigin(config, message, Peer) <=> message.origin \in {None, target}
    <3>1. Len(path) \in Nat /\ Len(path) >= 1
      BY <1>1, OnTheWay
    <3>2. CASE Len(path) = 1
      BY <2>1, <2>6, <3>2 DEF Addressed, SameOrigin, Effective, Peer
    <3>3. CASE Len(path) > 1
      <4>1. Len(path) \in 2 .. Len(path)
        BY <3>1, <3>3
      <4>2. Peer \in config.trusted
        BY <1>1, <4>1 DEF AllTrusted, Peer
      <4>3. message.proto = target.scheme /\ message.fhost = target.host
        BY <2>1, <3>3 DEF Addressed
      <4>4. QED
        BY <2>6, <4>2, <4>3 DEF SameOrigin, Effective
    <3>4. QED
      BY <3>1, <3>2, <3>3, OneOrMore
  <2>8. QED
    BY <2>5, <2>7
<1>2. IInv => OwnPageOnly
  BY <1>1 DEF OwnPageOnly
<1>3. QED
  BY <1>2, Invariance, PTL
=============================================================================
