----------------------------- MODULE MCNetwork ------------------------------
(***************************************************************************)
(* A box's network, for TLC: the TCP and UDP flows, the broker, the egress *)
(* policy, the guest's DNS service and its messages. The machines share no *)
(* state; a behaviour is one machine's, named by scenario.                 *)
(***************************************************************************)
EXTENDS NetFlows, NetPolicy

VARIABLE scenario   \* the machine that runs (rigid)

allVars == <<scenario, tcpVars, uvars, netVars, udpVars, dnsVars, dnsMessageVars>>

-----------------------------------------------------------------------------
MCBatches == <<<<"ok","ok">>, <<"bad","ok">>>>

Op(k,g) == [kind |-> k, grant |-> g]
MCOpens == {Op("tcp",0), Op("resolve",0), Op("accept",1), Op("published",2)}
Lis(g, v6, tcp) == [grant |-> g, port |-> 80, ipv6 |-> v6, tcp |-> tcp, loopback |-> TRUE]
MCListeners == {Lis(1, TRUE, TRUE), Lis(2, FALSE, FALSE), Lis(3, FALSE, TRUE)}

Name(n, p) == [kind |-> "name", cidr |-> {}, wild |-> FALSE, name |-> n, port |-> p]
Wild(n, p) == [kind |-> "name", cidr |-> {}, wild |-> TRUE, name |-> n, port |-> p]
Addr(c, p) == [kind |-> "addr", cidr |-> c, wild |-> FALSE, name |-> <<>>, port |-> p]
Host(p) == [kind |-> "host", cidr |-> {}, wild |-> FALSE, name |-> <<>>, port |-> p]
Net(m, allow, hosts) == [mode |-> m, allow |-> allow, hosts |-> hosts, hostAddresses |-> {"host"}]
MCNetConfigs == {
  Net("allowlist", <<Name(<<"a","x">>, 80), Wild(<<"x">>, 0)>>, <<>>),
  Net("allowlist", <<Name(<<"a","x">>, 80)>>, <<>>),
  Net("allowlist", <<Name(<<"a","x">>, 80), Addr({"lan"}, 0)>>, <<[name |-> <<"a","x">>, addrs |-> {"gw"}]>>),
  Net("unrestricted", <<Host(80)>>, <<>>),
  Net("unrestricted", <<Name(<<"b","x">>, 0)>>, <<[name |-> <<"b","x">>, addrs |-> {"lan"}]>>),
  Net("unrestricted", <<Name(<<"b","x">>, 0)>>, <<>>) }
MCAnswers == {[name |-> <<"a","x">>, addrs |-> <<"pub", "lan">>], [name |-> <<"b","x">>, addrs |-> <<"pub", "host">>], [name |-> <<"x">>, addrs |-> <<"pub">>]}

-----------------------------------------------------------------------------
\* A machine that does not run has no state to speak of.
TcpOff == guestEnd = 0 /\ upload = 0 /\ tcpReader = 0 /\ tcpFlow = 0 /\ download = 0
          /\ link = 0 /\ relay = 0 /\ peer = 0
UdpOff == ucall = 0 /\ uflow = 0 /\ urun = 0 /\ ulink = 0 /\ userver = 0 /\ uhost = 0
PolicyOff == net = 0 /\ now = 0 /\ learned = 0 /\ upstreamAnswered = 0 /\ udp = 0
             /\ sending = 0 /\ egress = 0 /\ ingress = 0
MessageOff == query = 0 /\ addresses = 0 /\ transport = 0 /\ response = 0

MCInit ==
  /\ scenario \in {"tcp", "udp", "broker", "policy", "dns", "message"}
  /\ IF scenario = "tcp" THEN TcpInit ELSE TcpOff
  /\ IF scenario = "udp" THEN UFlowInit ELSE UdpOff
  /\ NetInit /\ (scenario = "broker" \/ (nopen = [s \in NetStreams |-> Op("tcp", 0)] /\ listeners = CHOOSE l \in BindListeners : TRUE))
  /\ IF scenario = "policy" THEN UdpInit ELSE PolicyOff
  /\ DnsInit
  /\ IF scenario = "message" THEN DnsMessageInit ELSE MessageOff

MCNext ==
  \/ /\ scenario = "tcp" /\ TcpNext
     /\ UNCHANGED <<scenario, uvars, netVars, udpVars, dnsVars, dnsMessageVars>>
  \/ /\ scenario = "udp" /\ UFlowNext
     /\ UNCHANGED <<scenario, tcpVars, netVars, udpVars, dnsVars, dnsMessageVars>>
  \/ /\ scenario = "broker" /\ NetNext
     /\ UNCHANGED <<scenario, tcpVars, uvars, udpVars, dnsVars, dnsMessageVars>>
  \/ /\ scenario = "policy" /\ UdpNext
     /\ UNCHANGED <<scenario, tcpVars, uvars, netVars, dnsVars, dnsMessageVars>>
  \/ /\ scenario = "dns" /\ DnsNext
     /\ UNCHANGED <<scenario, tcpVars, uvars, netVars, udpVars, dnsMessageVars>>
  \/ /\ scenario = "message" /\ DnsMessageNext
     /\ UNCHANGED <<scenario, tcpVars, uvars, netVars, udpVars, dnsVars>>

\* Every task of a TCP flow is polled when woken, and the guest reads or drops its
\* stream; those of a UDP flow are polled while they can move, and a send ends: the
\* socket becomes writable or fails.  No datagram need ever come.
FlowsFair ==
  /\ WF_tcpVars(scenario = "tcp" /\ UploadStep) /\ WF_tcpVars(scenario = "tcp" /\ ReaderStep)
  /\ WF_tcpVars(scenario = "tcp" /\ RelayStep) /\ WF_tcpVars(scenario = "tcp" /\ RelayUpStep)
  /\ WF_tcpVars(scenario = "tcp" /\ GuestReads)
  /\ \A c \in Calls : WF_uvars(scenario = "udp" /\ CallStep(c))
  /\ WF_uvars(scenario = "udp" /\ TaskStep) /\ WF_uvars(scenario = "udp" /\ (ServeRequest \/ ServeEnds))
  /\ WF_uvars(scenario = "udp" /\ ServeSent)

\* The broker's handlers are polled while they can move.  A connection need never come, a
\* relay never end, a resolver thread never return.
BrokerFair == \A s \in NetStreams : WF_netVars(scenario = "broker" /\ HandlerStep(s))

\* Deadlines pass, tasks that can run do, and the frontend ends a stream the guest has
\* closed.
DnsFair ==
  /\ WF_dnsVars(scenario = "dns" /\ AwaitNetworkReady) /\ WF_dnsVars(scenario = "dns" /\ ReceiveResult)
  /\ WF_dnsVars(scenario = "dns" /\ ResultsEnd) /\ WF_dnsVars(scenario = "dns" /\ DropServices)
  /\ \A c \in DnsClients :
       WF_dnsVars(scenario = "dns" /\ (LockWriter(c) \/ (cancelled /\ AbandonWrite(c)) \/ ReleaseWriter(c)
                                        \/ (cancelled /\ EndQuery(c)) \/ QueryRespond(c)))
  /\ WF_dnsVars(scenario = "dns" /\ ServeControl) /\ WF_dnsVars(scenario = "dns" /\ DeliverReady)
  /\ WF_dnsVars(scenario = "dns" /\ MustEnd /\ DisableNetworking)
  /\ WF_dnsVars(scenario = "dns" /\ ReadQuery) /\ WF_dnsVars(scenario = "dns" /\ ResolveQuestion)
  /\ WF_dnsVars(scenario = "dns" /\ ~guestOpen /\ answering # {} /\ DisableNetworking)

MCSpec == MCInit /\ [][MCNext]_allVars /\ FlowsFair /\ BrokerFair /\ DnsFair

-----------------------------------------------------------------------------
\* A flow tells the guest what happened to it: a send that succeeded was written, an end
\* of stream is the peer's, a reply is the call's own; and what the policy and the
\* answers of DNS let through is what the configuration grants.
NetworkHolds ==
  /\ scenario = "tcp" => SentMeansWritten /\ EndMeansEof
  /\ scenario = "udp" => RepliesAreOwn /\ OneRequestOfAKind
  /\ scenario = "policy" => PolicyMatchesConfig /\ DatagramsAreGranted
  /\ scenario = "message" => DnsResponsesFit

\* What was begun ends: a send, the wait for a free grant, and networking on both sides
\* of a control stream that broke.
NetworkAnswers ==
  []<>(/\ scenario = "tcp" => SendsComplete
       /\ scenario = "udp" => UdpSendsReturn
       /\ scenario = "broker" => FreeGrantsAreTaken
       /\ scenario = "dns" => NetworkEndsTogether)
=============================================================================
