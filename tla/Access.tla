------------------------------- MODULE Access -------------------------------
(***************************************************************************)
(* Who may do what over HTTP (internal/app/app.go): the address a request  *)
(* comes from, the origin of the page that makes it, and the session,      *)
(* role and CSRF token it carries.                                         *)
(*                                                                         *)
(* A request travels from its client over any number of proxies to the     *)
(* agent.  A client writes what it likes in the forwarding headers; a      *)
(* proxy appends the address it was contacted from to X-Forwarded-For and  *)
(* says in X-Forwarded-Proto and -Host how its client addressed it.  The   *)
(* agent sees the headers and its immediate peer only.                     *)
(***************************************************************************)
EXTENDS Integers, Sequences, FiniteSetsExt

CONSTANTS
  Address,     (* of clients and proxies                                    *)
  Loopback,    (* those of the agent's own host                             *)
  Proxy,       (* those a reverse proxy answers at                          *)
  Malformed,   (* an entry of a header that is no address                   *)
  None,        (* an absent header, no address                              *)
  Unresolved,  (* the error of resolveClientIP                              *)
  Config,      (* records of trusted, allow and deny: sets of addresses     *)
  Host,        (* host names a browser may ask for                          *)
  AgentHost,   (* the name proxies use for the agent                        *)
  Claim,       (* records of role, csrf and route: what requests bring      *)
  ForgedEntry, (* what a client may write in a forwarding header            *)
  MaxForged,   (* bound: entries a client writes in X-Forwarded-For         *)
  MaxHops      (* bound: proxies on the way                                 *)

ASSUME AccessAssumption ==
  /\ Loopback \subseteq Address /\ Proxy \subseteq Address
  /\ {Malformed, None, Unresolved} \cap Address = {}
  /\ Malformed # None /\ None # Unresolved
  /\ None \notin Seq(Address) /\ None \notin {"http", "https", AgentHost} \cup Host
  /\ Config \subseteq [trusted : SUBSET Address, allow : SUBSET Address, deny : SUBSET Address]
  /\ Claim \subseteq [role : {"none", "viewer", "technician", "admin"}, csrf : BOOLEAN,
                      route : [role : {"viewer", "technician", "admin"}, write : BOOLEAN]]
  /\ ForgedEntry \subseteq Address \cup {Malformed}
  /\ MaxForged \in Nat /\ MaxHops \in Nat

VARIABLES
  config,    (* the options of the service                                  *)
  stage,     (* "idle", "travelling" or "answered"                          *)
  message,   (* the request as the next hop receives it                     *)
  path,      (* where it has really been: its client and the proxies        *)
  target,    (* the origin the client really asked for                      *)
  answer     (* what became of it                                           *)

accessVars == <<config, stage, message, path, target, answer>>

Scheme == {"http", "https"}
Origin == [scheme : Scheme, host : Host \cup {AgentHost}]

(* chain is X-Forwarded-For, element by element; forwarded is the for=     *)
(* field of Forwarded; scheme and host are those of the last connection;   *)
(* a claim is the role of the session the cookie names, whether the        *)
(* request has its CSRF token, and the route, by what Handler asks for.    *)
Blank ==
  [ chain |-> <<>>, forwarded |-> None, proto |-> None, fhost |-> None,
    scheme |-> "http", host |-> AgentHost, origin |-> None,
    claim |-> [role |-> "none", csrf |-> FALSE, route |-> [role |-> "viewer", write |-> FALSE]] ]

-----------------------------------------------------------------------------
(* The decisions of the agent.  c is its configuration, m the request, and *)
(* peer the address of the connection it came over, None if that is no     *)
(* address.                                                                *)

PolicyActive(c) == c.allow # {} \/ c.deny # {} \/ c.trusted # {}

(* The entries of a chain that are not trusted, by their places. *)
Untrusted(c, chain) == {k \in 1..Len(chain) : chain[k] \notin c.trusted}

(* forwardedChain: None for a header that is missing or malformed.  The    *)
(* header is one list: Header.Get reads the first line of that name, and a *)
(* proxy that adds a second line is left out.                              *)
ForwardedChain(m) ==
  CASE m.chain # <<>> -> IF \E k \in 1..Len(m.chain) : m.chain[k] = Malformed
                         THEN None ELSE m.chain
    [] m.chain = <<>> /\ m.forwarded \in Address -> <<m.forwarded>>
    [] OTHER -> None

(* Mistake: the first untrusted address of the chain instead of the last. *)
LeftmostUntrusted(c, chain) ==
  IF Untrusted(c, chain) = {} THEN Unresolved ELSE chain[Min(Untrusted(c, chain))]

(* The address that contacted the outermost of the trusted proxies. *)
LastUntrusted(c, chain) ==
  IF Untrusted(c, chain) = {} THEN Unresolved ELSE chain[Max(Untrusted(c, chain))]

ResolveClientIP(c, m, peer) ==
  CASE peer = None -> IF PolicyActive(c) THEN Unresolved ELSE None
    [] peer # None /\ peer \notin c.trusted -> peer
    [] peer # None /\ peer \in c.trusted /\ ForwardedChain(m) = None ->
         IF PolicyActive(c) THEN Unresolved ELSE peer
    [] OTHER -> LastUntrusted(c, ForwardedChain(m))

(* Mistake: an address that cannot be resolved is let in. *)
ClientAllowedOpen(c, m, peer) ==
  LET ip == ResolveClientIP(c, m, peer)
  IN  \/ c.allow = {} /\ c.deny = {}
      \/ ip \in Loopback \cup {None, Unresolved}
      \/ ip \in Address /\ (c.allow # {} => ip \in c.allow) /\ ip \notin c.deny

ClientAllowed(c, m, peer) ==
  LET ip == ResolveClientIP(c, m, peer)
  IN  \/ c.allow = {} /\ c.deny = {}
      \/ ip \in Loopback \cup {None}
      \/ ip \in Address /\ (c.allow # {} => ip \in c.allow) /\ ip \notin c.deny

Effective(header, seen) == IF header # None THEN header ELSE seen

(* Mistake: the forwarded scheme is forgotten, so that no origin matches   *)
(* behind a proxy that terminates TLS.                                     *)
SameOriginHostOnly(c, m, peer) ==
  \/ m.origin = None
  \/ m.origin = [scheme |-> m.scheme,
                 host |-> IF peer \in c.trusted THEN Effective(m.fhost, m.host) ELSE m.host]

SameOrigin(c, m, peer) ==
  \/ m.origin = None
  \/ m.origin = IF peer \in c.trusted
                THEN [scheme |-> Effective(m.proto, m.scheme), host |-> Effective(m.fhost, m.host)]
                ELSE [scheme |-> m.scheme, host |-> m.host]

rank == [admin |-> 3, technician |-> 2, viewer |-> 1, none |-> 0]

(* require: the handler runs if none of its early returns does. *)
Require(c, m, peer) ==
  CASE ~ClientAllowed(c, m, peer) -> "403"
    [] ClientAllowed(c, m, peer) /\ m.claim.role = "none" -> "401"
    [] OTHER ->
         IF \/ rank[m.claim.role] < rank[m.claim.route.role]
            \/ m.claim.route.write /\ ~(SameOrigin(c, m, peer) /\ m.claim.csrf)
         THEN "403" ELSE "served"

-----------------------------------------------------------------------------
(* The way of a request. *)

AccessInit ==
  /\ config \in Config
  /\ stage = "idle" /\ answer = "none"
  /\ message = Blank /\ path = <<>> /\ target = [scheme |-> "http", host |-> AgentHost]

Forged == UNION {[1..n -> ForgedEntry] : n \in 0..MaxForged}

Peer == path[Len(path)]

(* A client that is no trusted proxy writes headers of its own making; one *)
(* behind a trusted address writes none.                                   *)
Send(client) ==
  /\ stage = "idle"
  /\ \E chain \in Forged, forwarded \in ForgedEntry \cup {None}, proto \in Scheme \cup {None},
        site \in Origin, origin \in Origin \cup {None}, claim \in Claim :
       /\ client \in config.trusted => chain = <<>> /\ forwarded = None /\ proto = None
       /\ site.host \in Host
       /\ target' = site
       /\ message' =
            [ chain |-> chain, forwarded |-> forwarded, proto |-> proto, fhost |-> None,
              scheme |-> site.scheme, host |-> site.host, origin |-> origin, claim |-> claim ]
  /\ path' = <<client>>
  /\ stage' = "travelling"
  /\ UNCHANGED <<config, answer>>

(* What a proxy makes of a request: it believes the headers of another     *)
(* proxy only.                                                             *)
Passed(m, from) ==
  [m EXCEPT !.chain = Append(m.chain, from),
            !.proto = IF from \in Proxy THEN Effective(m.proto, m.scheme) ELSE m.scheme,
            !.fhost = IF from \in Proxy THEN Effective(m.fhost, m.host) ELSE m.host,
            !.scheme = "http", !.host = AgentHost]

Forward(proxy) ==
  /\ stage = "travelling" /\ Len(path) <= MaxHops
  /\ message' = Passed(message, Peer)
  /\ path' = Append(path, proxy)
  /\ UNCHANGED <<config, stage, target, answer>>

Receive ==
  /\ stage = "travelling"
  /\ answer' = Require(config, message, Peer)
  /\ stage' = "answered"
  /\ UNCHANGED <<config, message, path, target>>

(* The next request. *)
Done ==
  /\ stage = "answered"
  /\ stage' = "idle" /\ answer' = "none"
  /\ message' = Blank /\ path' = <<>> /\ target' = [scheme |-> "http", host |-> AgentHost]
  /\ UNCHANGED config

AccessNext ==
  \/ \E client \in Address \ Proxy : Send(client)
  \/ \E proxy \in Proxy : Forward(proxy)
  \/ Receive \/ Done

AccessSpec == AccessInit /\ [][AccessNext]_accessVars

-----------------------------------------------------------------------------
(* What was really the case, read off the path. *)

(* The last of the senders that is no trusted proxy, if there is one. *)
RealClient ==
  LET others == {k \in 1..Len(path) : path[k] \notin config.trusted}
  IN  IF others = {} THEN None ELSE path[Max(others)]

Listed == config.allow # {} \/ config.deny # {}

Permitted(a) ==
  \/ ~Listed
  \/ a \in Loopback
  \/ a \in Address /\ (config.allow # {} => a \in config.allow) /\ a \notin config.deny

(* The client wrote something into the header that is no address. *)
Garbled == \E k \in 1..Len(message.chain) : message.chain[k] = Malformed

AllTrusted == \A k \in 2..Len(path) : path[k] \in config.trusted

(* The types of the variables. *)
AccessTypeOK ==
  /\ config \in Config
  /\ stage \in {"idle", "travelling", "answered"}
  /\ answer \in {"none", "served", "401", "403"} /\ (stage = "answered" <=> answer # "none")
  /\ path \in Seq(Address) /\ target \in Origin
  /\ message.chain \in Seq(Address \cup {Malformed})
  /\ message.claim \in Claim \cup {Blank.claim}

(* However many proxies a request passed and whatever its client wrote in  *)
(* the headers, the address the agent resolves is that of the last sender  *)
(* that is no trusted proxy; it resolves none if there is no such sender   *)
(* or the header is garbled.                                               *)
ClientIsReal ==
  stage # "idle" =>
    LET ip == ResolveClientIP(config, message, Peer)
    IN  \/ ip = RealClient
        \/ ip = Unresolved /\ Peer \in config.trusted /\ (RealClient = None \/ Garbled)

(* With allow or deny lists a request gets past the address check exactly  *)
(* if its real client is permitted: no header lets a denied client in, and *)
(* none but a garbled one shuts a permitted client out.                    *)
PolicyOnRealClient ==
  stage = "answered" /\ Listed =>
    /\ answer # "403" => RealClient # None /\ Permitted(RealClient)
    /\ RealClient # None /\ Permitted(RealClient) /\ ~Garbled /\ message.claim.role = "none" =>
         answer = "401"

(* Behind trusted proxies, however they are chained, an administrator's    *)
(* change is accepted from a page of the origin the browser asked for and  *)
(* from no other.                                                          *)
OwnPageOnly ==
  LET claim == message.claim
      sound == AllTrusted /\ RealClient # None /\ Permitted(RealClient) /\ ~Garbled
  IN  stage = "answered" /\ sound /\ claim.role = "admin" /\ claim.route.write /\ claim.csrf =>
        (answer = "served" <=> message.origin \in {None, target})
=============================================================================
