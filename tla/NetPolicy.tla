----------------------------- MODULE NetPolicy -----------------------------
EXTENDS Integers, Sequences, FiniteSets
LOCAL INSTANCE SequencesExt

(***************************************************************************)
(* The egress policy of a box, terra-policy: the rules a recipe's network  *)
(* section compiles to (runtime.rs, rules.rs), the names it resolves, the  *)
(* addresses it learns from answers, and what it authorizes when.          *)
(*                                                                         *)
(* An address is a value; a CIDR is the set of addresses in it; a host     *)
(* name is the sequence of its labels; port 0 stands for "every port".     *)
(***************************************************************************)

CONSTANTS Gateways,        \* GATEWAY_ADDRESSES, which stand for the host in the guest
          Loopbacks,       \* 127.0.0.1 and ::1 of the host
          Floored,         \* addresses that are not public (address.rs)
          LearnedCapacity, \* LEARNED_ADDRESSES_CAPACITY
          LearnedTtl,      \* LEARNED_DNS_TTL_SECS
          MaxExpanded,     \* MAX_EXPANDED_RULES
          MaxResolved      \* MAX_RESOLVED_ADDRESSES

DnsPort == 53
Never == 0
Forever == 1000

-----------------------------------------------------------------------------
(* LRU caches: sequences of [key, value], the least recent first.           *)

LOCAL HasKey(cache, key) == \E k \in DOMAIN cache : cache[k].key = key
LOCAL Without(cache, key) == SelectSeq(cache, LAMBDA entry : entry.key # key)
LOCAL ValueOf(cache, key) == cache[CHOOSE k \in DOMAIN cache : cache[k].key = key].value
LOCAL Fresh(cache, key, value) == Append(Without(cache, key), [key |-> key, value |-> value])

\* put on a cache with a capacity: the least recent entry makes room.
PutBounded(cache, capacity, key, value) ==
    IF Len(cache) >= capacity /\ ~HasKey(cache, key) THEN Fresh(Tail(cache), key, value)
    ELSE Fresh(cache, key, value)

\* get: the value, or `Never`, and the cache with the entry most recent.
Get(cache, key) ==
    IF HasKey(cache, key) THEN [value |-> ValueOf(cache, key), cache |-> Fresh(cache, key, ValueOf(cache, key))]
    ELSE [value |-> Never, cache |-> cache]

-----------------------------------------------------------------------------
(* Compiling the configuration. *)

LOCAL NoPolicy == [ok |-> FALSE]

\* name_covers: exactly the name, or for a wildcard any name below it.
NameCovers(rule, name) ==
    IF rule.wild THEN Len(name) > Len(rule.name) /\ IsSuffix(rule.name, name) ELSE rule.name = name

\* blocks_direct_dns.
BlocksDirectDns(p) == p.mode = "allowlist" \/ p.static # {}

\* add_dns_record: a name has one record.
AddDnsRecord(p, record) ==
    IF ~p.ok \/ \E other \in p.static : other.name = record.name THEN NoPolicy
    ELSE [p EXCEPT !.static = @ \cup {record}]

\* add_allow_rule.  A name rule that a static record answers opens what the
\* record says, and is kept for the names resolved upstream.
AddAllowRule(p, rule) ==
    LET covered == UNION {r.addrs : r \in {r \in p.static : NameCovers(rule, r.name)}}
        grown == [p EXCEPT
                    !.addresses = @ \cup {[cidr |-> {a}, port |-> rule.port] : a \in covered \ Gateways},
                    !.hostGrants = IF covered \cap Gateways # {} THEN @ \cup {rule.port} ELSE @,
                    !.names = @ \cup {rule}, !.expanded = @ + Cardinality(covered)]
    IN  IF ~p.ok \/ (rule.port = DnsPort /\ BlocksDirectDns(p)) THEN NoPolicy
        ELSE CASE rule.kind = "host" -> [p EXCEPT !.hostGrants = @ \cup {rule.port}, !.expanded = @ + 1]
               [] rule.kind = "addr" ->
                     IF \E g \in Gateways : rule.cidr = {g} THEN NoPolicy
                     ELSE [p EXCEPT !.addresses = @ \cup {[cidr |-> rule.cidr, port |-> rule.port]},
                                    !.expanded = @ + 1]
               [] rule.kind = "name" ->
                     IF covered = {} /\ p.mode = "unrestricted" THEN NoPolicy ELSE grown

\* BoxPolicy::with_clock: the records, then the rules, within the limits.
WithClock(net) ==
    LET empty == [ok |-> TRUE, mode |-> net.mode, addresses |-> {}, names |-> {}, static |-> {},
                  hostGrants |-> {}, expanded |-> 0, hosts |-> net.hostAddresses]
        limited(p) == IF p.ok /\ p.expanded > MaxExpanded THEN NoPolicy ELSE p
    IN  FoldLeft(LAMBDA p, rule : limited(AddAllowRule(p, rule)),
                 FoldLeft(AddDnsRecord, empty, net.hosts), net.allow)

-----------------------------------------------------------------------------
(* Names. *)

\* grants_for.
GrantsFor(p, name) == {rule.port : rule \in {r \in p.names : NameCovers(r, name)}}

\* lookup_name: answered from the records, resolved upstream, or denied.
LookupName(p, name) ==
    IF \E r \in p.static : r.name = name THEN "static"
    ELSE IF p.mode = "allowlist" /\ GrantsFor(p, name) = {} THEN "denied" ELSE "resolve"

\* accept_resolved: which of the upstream addresses the guest is told.
PolicyAccepted(p, name, addresses) ==
  IF p.mode = "allowlist" /\ GrantsFor(p, name) = {} THEN <<>>
  ELSE SelectSeq(SubSeq(addresses, 1, IF Len(addresses) < MaxResolved THEN Len(addresses) ELSE MaxResolved),
                 LAMBDA a : a \notin Floored \cup Gateways \cup p.hosts)

\* accept_resolved: what is learned from them, per address and granted port.
Learn(p, learned, now, name, accepted) ==
    LET keys == {<<a, port>> : a \in Range(accepted), port \in GrantsFor(p, name)}
        put(cache, key) ==
            LET old == IF HasKey(cache, key) THEN ValueOf(cache, key) ELSE Never
            IN  PutBounded(cache, LearnedCapacity, key, IF old > now + LearnedTtl THEN old ELSE now + LearnedTtl)
    IN  IF p.mode = "allowlist" THEN FoldLeft(put, learned, SetToSeq(keys)) ELSE learned

-----------------------------------------------------------------------------
(* Authorization. *)

\* One key of allowed_until: an entry that has expired is dropped.
LOCAL Learned(cache, key, now) ==
    LET got == Get(cache, key)
    IN  IF got.value > now THEN got ELSE [value |-> Never, cache |-> Without(cache, key)]

\* A mutant: only the grant for every port is looked up.
AllowedOnEveryPort(p, learned, now, ip, port) == Learned(learned, <<ip, 0>>, now)

\* allowed_until on an address no rule names: the learned grants, for every
\* port and for this one.
LearnedUntil(p, learned, now, ip, port) ==
    LET every == Learned(learned, <<ip, 0>>, now)
        this == Learned(every.cache, <<ip, port>>, now)
    IN  [value |-> IF every.value > this.value THEN every.value ELSE this.value, cache |-> this.cache]

\* authorized_until with allowed_until: `Never`, or the time the grant ends.
AuthorizedUntil(p, learned, now, ip, port) ==
    LET is(until) == [value |-> until, cache |-> learned]
        opens(grant) == grant = 0 \/ grant = port
    IN  IF port = DnsPort /\ BlocksDirectDns(p) THEN is(Never)
        ELSE IF ip \in Loopbacks /\ \E grant \in p.hostGrants : opens(grant) THEN is(Forever)
        ELSE IF ip \in Gateways THEN is(Never)
        ELSE IF \E rule \in p.addresses : ip \in rule.cidr /\ opens(rule.port) THEN is(Forever)
        ELSE IF ip \in p.hosts \cup Floored THEN is(Never)
        ELSE IF p.mode = "unrestricted" THEN is(Forever)
        ELSE LearnedUntil(p, learned, now, ip, port)

Authorizes(p, learned, now, ip, port) == AuthorizedUntil(p, learned, now, ip, port).value > Never

-----------------------------------------------------------------------------
(* What the configuration means, said of its text: the reference the        *)
(* compiled policy and its caches are compared with.  `answers` are the     *)
(* upstream answers there have been: [ip, name, at].                        *)
Granted(net, answers, now, ip, port) ==
    LET opens(rule) == rule.port \in {0, port}
        records(rule) == {r \in Range(net.hosts) : rule.kind = "name" /\ NameCovers(rule, r.name)}
        named(a) == \E rule \in Range(net.allow) : opens(rule) /\ \E r \in records(rule) : a \in r.addrs
        hostOpen == \E rule \in Range(net.allow) :
                       opens(rule) /\ (rule.kind = "host" \/ \E r \in records(rule) : r.addrs \cap Gateways # {})
        listed == \E rule \in Range(net.allow) : rule.kind = "addr" /\ opens(rule) /\ ip \in rule.cidr
        public == ip \notin Floored \cup net.hostAddresses
        answered == \E a \in answers, rule \in Range(net.allow) :
                       /\ a.ip = ip /\ now < a.at + LearnedTtl
                       /\ rule.kind = "name" /\ opens(rule) /\ NameCovers(rule, a.name)
        direct == port # DnsPort \/ (net.mode = "unrestricted" /\ net.hosts = <<>>)
    IN  /\ direct
        /\ \/ ip \in Loopbacks /\ hostOpen
           \/ /\ ip \notin Gateways
              /\ \/ listed \/ named(ip)
                 \/ public /\ (net.mode = "unrestricted" \/ answered)

------------------------------------------------------------------------------
(***************************************************************************)
(* One UDP resource of the broker (terra-network server/udp.rs): its two   *)
(* bounded caches of peers, the policy they stand for, the datagrams it    *)
(* sends and the ones it lets in, while time passes and the guest resolves *)
(* names (server/dns.rs).                                                  *)
(***************************************************************************)

CONSTANTS NetConfigs,       \* network sections of recipes
          UdpAddresses, UdpPorts, \* the peers there are
          UpstreamAnswers,  \* [name, addrs]: what the host's resolver may answer
          PeerCapacity,     \* MAX_UDP_OUTBOUND_PEERS, MAX_UDP_PUBLICATION_PEERS
          PeerTtl,          \* UDP_PEER_TTL
          MaxClock, MaxAnswers \* bounds on time and on lookups

VARIABLES net,      \* the configuration
          now,      \* the clock
          learned,  \* the policy's learned_dns
          upstreamAnswered,  \* every accepted upstream answer
          udp,      \* the resource: published, remembered peers, authorized peers
          sending,  \* the datagram send_entry is at
          egress, ingress \* the peer of the datagram the last step let out, or in

udpVars == <<net, now, learned, upstreamAnswered, udp, sending, egress, ingress>>
policyOf == WithClock(net)

LOCAL Peers == [ip : UdpAddresses, port : UdpPorts]
LOCAL NoPeer == [ip |-> "none", port |-> 0]
LOCAL Idle == [pc |-> "idle", peer |-> NoPeer]
LOCAL NoDatagram == egress' = NoPeer /\ ingress' = NoPeer

UdpInit ==
    /\ net \in {n \in NetConfigs : WithClock(n).ok}
    /\ now = 1 /\ learned = <<>> /\ upstreamAnswered = {}
    /\ udp \in {[published |-> p, remembered |-> <<>>, authorized |-> <<>>] : p \in BOOLEAN}
    /\ sending = Idle /\ egress = NoPeer /\ ingress = NoPeer

Tick == /\ now < MaxClock /\ now' = now + 1
        /\ NoDatagram /\ UNCHANGED <<net, learned, upstreamAnswered, udp, sending>>

\* dns::resolve: a name the policy lets through is resolved by the host, and
\* the addresses the policy accepts are learned and told to the guest.
ResolveName ==
    /\ Cardinality(upstreamAnswered) < MaxAnswers
    /\ \E upstream \in UpstreamAnswers :
          LET accepted == PolicyAccepted(policyOf, upstream.name, upstream.addrs)
          IN  /\ LookupName(policyOf, upstream.name) = "resolve"
              /\ learned' = Learn(policyOf, learned, now, upstream.name, accepted)
              /\ upstreamAnswered' = upstreamAnswered \cup {[ip |-> a, name |-> upstream.name, at |-> now] : a \in Range(accepted)}
    /\ NoDatagram /\ UNCHANGED <<net, now, udp, sending>>

-----------------------------------------------------------------------------

\* forget_expired: from the least recent on, while expired.
ForgetExpired(remembered) ==
    LET live == {k \in DOMAIN remembered : remembered[k].value > now}
        first == IF live = {} THEN Len(remembered) + 1 ELSE CHOOSE k \in live : \A j \in live : k <= j
    IN  SubSeq(remembered, first, Len(remembered))

\* remember_peer.
RememberPeer(u, peer) ==
    [u EXCEPT !.remembered = PutBounded(ForgetExpired(@), PeerCapacity, peer, now + PeerTtl)]

\* knows_peer.
KnowsPeer(u, peer) == \E k \in DOMAIN ForgetExpired(u.remembered) : ForgetExpired(u.remembered)[k].key = peer

LOCAL Permission(ok, u, l) == [ok |-> ok, udp |-> u, learned |-> l]

\* authorize: the cached grant while it lasts, then the policy.
Authorize(u, peer) ==
    LET cached == Get(u.authorized, peer)
        until == AuthorizedUntil(policyOf, learned, now, peer.ip, peer.port)
    IN  IF cached.value > now THEN Permission(TRUE, [u EXCEPT !.authorized = cached.cache], learned)
        ELSE IF until.value > Never
        THEN Permission(TRUE, [u EXCEPT !.authorized = PutBounded(cached.cache, PeerCapacity, peer, until.value)], until.cache)
        ELSE Permission(FALSE, [u EXCEPT !.authorized = SelectSeq(@, LAMBDA e : e.key # peer)], until.cache)

\* authorize_send.
AuthorizeSend(u, peer) ==
    IF u.published THEN Permission(KnowsPeer(u, peer), [u EXCEPT !.remembered = ForgetExpired(@)], learned)
    ELSE Authorize(u, peer)

\* send_entry: the peer is checked, the socket waited for, the peer checked
\* again, and what the socket takes is sent; a socket that would block part of
\* the way is waited for once more, and another error ends the send.
StartSend ==
    /\ sending.pc = "idle"
    /\ \E peer \in Peers :
          LET permission == AuthorizeSend(udp, peer)
          IN  /\ udp' = permission.udp /\ learned' = permission.learned
              /\ sending' = IF permission.ok THEN [pc |-> "writable", peer |-> peer] ELSE Idle
    /\ NoDatagram /\ UNCHANGED <<net, now, upstreamAnswered>>

SendWhenWritable ==
    /\ sending.pc = "writable"
    /\ LET permission == AuthorizeSend(udp, sending.peer)
       IN  /\ learned' = permission.learned
           /\ \/ ~permission.ok /\ udp' = permission.udp /\ sending' = Idle /\ egress' = NoPeer
              \/ /\ permission.ok /\ sending' = Idle
                 /\ udp' = IF udp.published THEN permission.udp ELSE RememberPeer(permission.udp, sending.peer)
                 /\ egress' = sending.peer
              \/ /\ permission.ok /\ udp' = permission.udp
                 /\ sending' \in {[sending EXCEPT !.pc = "blocked"], Idle}
                 /\ egress' \in {NoPeer, sending.peer}
    /\ ingress' = NoPeer /\ UNCHANGED <<net, now, upstreamAnswered>>

\* send_pending met WouldBlock: the loop starts over with its first check.
SendAgain ==
    /\ sending.pc = "blocked"
    /\ LET permission == AuthorizeSend(udp, sending.peer)
       IN  /\ udp' = permission.udp /\ learned' = permission.learned
           /\ sending' = IF permission.ok THEN [sending EXCEPT !.pc = "writable"] ELSE Idle
    /\ NoDatagram /\ UNCHANGED <<net, now, upstreamAnswered>>

\* accept_datagram_from, for a run of datagrams that reaches the socket.
ReceiveRun ==
    /\ \E peer \in Peers :
          LET permission == Authorize([udp EXCEPT !.remembered = ForgetExpired(@)], peer)
          IN  IF udp.published
              THEN /\ peer.ip \in Loopbacks
                   /\ udp' = RememberPeer(udp, peer) /\ learned' = learned
                   /\ ingress' = peer
              ELSE /\ KnowsPeer(udp, peer)
                   /\ udp' = permission.udp /\ learned' = permission.learned
                   /\ ingress' = IF permission.ok THEN peer ELSE NoPeer
    /\ egress' = NoPeer /\ UNCHANGED <<net, now, upstreamAnswered, sending>>

UdpNext == Tick \/ ResolveName \/ StartSend \/ SendWhenWritable \/ SendAgain \/ ReceiveRun
UdpSpec == UdpInit /\ [][UdpNext]_udpVars

-----------------------------------------------------------------------------
(* Properties *)

UdpTypeOK == /\ sending.pc \in {"idle", "writable", "blocked"} /\ now \in 1..MaxClock
             /\ Len(udp.remembered) <= PeerCapacity /\ Len(udp.authorized) <= PeerCapacity

\* The compiled policy and the learned addresses authorize at every moment
\* exactly what the configuration grants, as long as nothing was evicted.
PolicyMatchesConfig ==
    Len(learned) < LearnedCapacity =>
        \A peer \in Peers : Authorizes(policyOf, learned, now, peer.ip, peer.port)
                            <=> Granted(net, upstreamAnswered, now, peer.ip, peer.port)

\* A datagram leaves an outbound socket only for a peer the configuration
\* grants at that moment, whatever the caches of the socket say; one that is
\* let in comes from such a peer, or through a publication from this host.
DatagramsAreGranted ==
    /\ (egress # NoPeer /\ ~udp.published) => Granted(net, upstreamAnswered, now, egress.ip, egress.port)
    /\ (ingress # NoPeer) => IF udp.published THEN ingress.ip \in Loopbacks
                             ELSE Granted(net, upstreamAnswered, now, ingress.ip, ingress.port)

------------------------------------------------------------------------------
(***************************************************************************)
(* DNS queries and responses (terra-protocol dns.rs): what a query must be *)
(* for its question to be read, and the response to it over a datagram or  *)
(* a stream, with the sizes the code uses.  A query is its header fields,  *)
(* its labels and what follows them; addresses are counted by family.      *)
(***************************************************************************)

CONSTANTS DnsIds, LabelLengths, MaxLabels, AddressCounts, QueryTypes

VARIABLES query, addresses, transport, response

dnsMessageVars == <<query, addresses, transport, response>>

HeaderBytes == 12
QuestionFixedBytes == 4
UdpResponseBytes == 512
MaxDnsBytes == 4096
MaxLabelBytes == 63
MaxNameBytes == 253
TypeA == 1
TypeAaaa == 28
LOCAL NoResponse == [is |-> "none"]
LOCAL SumOf(s) == FoldLeft(+, 0, s)

-----------------------------------------------------------------------------

(* The dotted length of the first n labels.                                *)
LOCAL NameBytes(labels, n) == SumOf(SubSeq(labels, 1, n)) + (IF n = 0 THEN 0 ELSE n - 1)

(* Question::parse: one question, plain labels, and the bytes the counts   *)
(* promise.                                                                *)
Parses(q) ==
  /\ q.count = 1 /\ q.text = "utf8" /\ q.whole
  /\ \A i \in DOMAIN q.labels : q.labels[i] <= MaxLabelBytes /\ NameBytes(q.labels, i) <= MaxNameBytes

WireBytes(q) == SumOf(q.labels) + Len(q.labels) + 1 + QuestionFixedBytes

(* start_response echoes the id and the recursion bit; header_only_response*)
(* adds the question when it could be read.                                *)
StartResponse(q, flags, answers) ==
  [is |-> "response", id |-> q.id, recursion |-> q.recursion, flags |-> flags, answers |-> answers,
   question |-> FALSE, bytes |-> HeaderBytes]

HeaderOnlyResponse(q, flags) ==
  LET start == StartResponse(q, flags, 0) IN
  IF Parses(q) THEN [start EXCEPT !.question = TRUE, !.bytes = @ + WireBytes(q)] ELSE start

ErrorResponse(q, rcode) == HeaderOnlyResponse(q, rcode)

LOCAL Matching(q, ips) == IF q.type = TypeA THEN ips.v4 ELSE IF q.type = TypeAaaa THEN ips.v6 ELSE 0
LOCAL RecordBytes(q) == 2 + 2 + 2 + 4 + 2 + (IF q.type = TypeA THEN 4 ELSE 16)

(* full_answer: the addresses of the question's family.                    *)
FullAnswer(q, ips) ==
  [StartResponse(q, "none", Matching(q, ips))
     EXCEPT !.question = TRUE, !.bytes = @ + WireBytes(q) + Matching(q, ips) * RecordBytes(q)]

(* An answer that does not fit a datagram is sent whole all the same.      *)
AnswerUncut(q, ips, via) ==
  LET full == FullAnswer(q, ips) IN
  IF full.bytes <= MaxDnsBytes THEN full ELSE HeaderOnlyResponse(q, "servfail")

(* Question::answer                                                        *)
Answer(q, ips, via) ==
  LET full == FullAnswer(q, ips)
      max == IF via = "datagram" THEN UdpResponseBytes ELSE MaxDnsBytes IN
  IF full.bytes <= max THEN full
  ELSE HeaderOnlyResponse(q, IF via = "datagram" THEN "truncated" ELSE "servfail")

-----------------------------------------------------------------------------

DnsMessageInit ==
  /\ \E n \in 0..MaxLabels : \E ls \in [1..n -> LabelLengths] :
       query \in [id : DnsIds, recursion : BOOLEAN, count : {0, 1}, labels : {ls},
                  text : {"utf8", "other"}, type : QueryTypes, whole : BOOLEAN]
  /\ addresses \in [v4 : AddressCounts, v6 : AddressCounts]
  /\ transport = "datagram" /\ response = NoResponse

(* The resolver answers, finds no such name, or cannot read the query.     *)
DnsRespond ==
  /\ response = NoResponse
  /\ \/ Parses(query) /\ response' = Answer(query, addresses, transport)
     \/ Parses(query) /\ response' = HeaderOnlyResponse(query, "nxdomain")
     \/ ~Parses(query) /\ response' = ErrorResponse(query, "servfail")
  /\ UNCHANGED <<query, addresses, transport>>

(* The client asks again over a stream, as it should when told the answer  *)
(* was cut.                                                                *)
Retry ==
  /\ response.is = "response" /\ response.flags = "truncated" /\ transport = "datagram"
  /\ transport' = "stream" /\ response' = NoResponse
  /\ UNCHANGED <<query, addresses>>

DnsMessageNext == DnsRespond \/ Retry

DnsMessageSpec == DnsMessageInit /\ [][DnsMessageNext]_dnsMessageVars

-----------------------------------------------------------------------------

(* A response fits its transport and echoes the query's id, and its        *)
(* question when there is one; an answer has all the addresses of the      *)
(* family asked for or none, and none of the other; over a stream it is    *)
(* never cut (answer, header_only_response; the const assertion at         *)
(* dns.rs:40).                                                             *)
DnsResponsesFit ==
  response.is = "response" =>
    /\ response.bytes <= IF transport = "datagram" THEN UdpResponseBytes ELSE MaxDnsBytes
    /\ response.id = query.id /\ response.recursion = query.recursion
    /\ response.question => query.count = 1
    /\ response.flags = "none" => response.answers = Matching(query, addresses)
    /\ response.flags # "none" => response.answers = 0
    /\ response.flags = "truncated" => transport = "datagram" /\ Matching(query, addresses) > 0
==============================================================================
