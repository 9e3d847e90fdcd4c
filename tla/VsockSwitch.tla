----------------------------- MODULE VsockSwitch -----------------------------
(***************************************************************************)
(* The vsock switch of components/vsock-device/src/switch.rs: a fixed      *)
(* agent and a fixed control endpoint followed by at most                  *)
(* NetworkSocketCapacity flows, connection numbers that tell one           *)
(* connection of a port pair from the next, and the rotation in which      *)
(* queued replies leave.                                                   *)
(*                                                                         *)
(* A packet of the guest is any header over the sets below: the guest is   *)
(* not assumed to follow the protocol.                                     *)
(***************************************************************************)
EXTENDS StreamConnection, FiniteSets

CONSTANTS
  FlowGuestPorts,          \* guest ports that pass is_flow_guest_port
  PublicationHostPorts,    \* PUBLICATION_HOST_PORTS
  NetworkSocketCapacity,   \* min(configured, MAX_NETWORK_SOCKETS)
  MAX_REJECTED_RESETS,
  NetworkAtStart,          \* network_enabled at construction
  MaxNumber,               \* where the connection counter aborts (2^64 - 1)
  GuestPairs,              \* the <<guest port, host port>> of a guest's packets
  Headers,                 \* the headers a guest sends
  SendLengths,             \* the lengths deliver is called with
  ReadLengths              \* the limits consume_upstream and take_reply are given

AGENT_PORT == "agent"
CONTROL_PORT == "control"
TCP_PORT == "tcp"
UDP_PORT == "udp"
PUBLICATION_PORT == "publication"
FIXED_ENDPOINTS == 2
REPLY_CLASSES == FIXED_ENDPOINTS + 1

Port == {AGENT_PORT, CONTROL_PORT, TCP_PORT, UDP_PORT, PUBLICATION_PORT}
          \cup FlowGuestPorts \cup PublicationHostPorts

ASSUME SwitchAssumption ==
  /\ NetworkSocketCapacity \in Nat
  /\ MAX_REJECTED_RESETS \in Nat
  /\ NetworkAtStart \in BOOLEAN
  /\ MaxNumber \in Nat
  /\ GuestPairs \subseteq Port \X Port
  /\ Headers \subseteq Header
  /\ SendLengths \subseteq Nat /\ ReadLengths \subseteq Nat
  /\ FlowGuestPorts \cap {AGENT_PORT, CONTROL_PORT, PUBLICATION_PORT} = {}
  /\ PublicationHostPorts \cap {AGENT_PORT, CONTROL_PORT, TCP_PORT, UDP_PORT} = {}

VARIABLES
  endpoints,
  next_connection_number,
  network_enabled,
  next_reply,
  next_flow_reply,
  rejected,
  ended                    \* history: the numbers of connections that are over

vars == <<endpoints, next_connection_number, network_enabled, next_reply,
          next_flow_reply, rejected, ended>>

rotation == <<next_reply, next_flow_reply>>

NewEndpoint(role, guest_port, host_port, number) ==
  [role |-> role, guest_port |-> guest_port, host_port |-> host_port,
   stream |-> NewStream(role), connection_number |-> number, retiring |-> None]

Init ==
  /\ endpoints = <<NewEndpoint("Agent", AGENT_PORT, AGENT_PORT, 1),
                   NewEndpoint("Control", CONTROL_PORT, CONTROL_PORT, 2)>>
  /\ next_connection_number = 3
  /\ network_enabled = NetworkAtStart
  /\ next_reply = 0
  /\ next_flow_reply = 0
  /\ rejected = <<>>
  /\ ended = {}

-----------------------------------------------------------------------------
(* The role of a port pair, None where the pair is not served.             *)
Classify(guest_port, host_port) ==
  CASE guest_port = AGENT_PORT /\ host_port = AGENT_PORT -> "Agent"
    [] ~network_enabled /\ ~(guest_port = AGENT_PORT /\ host_port = AGENT_PORT) -> None
    [] network_enabled /\ guest_port = CONTROL_PORT /\ host_port = CONTROL_PORT -> "Control"
    [] network_enabled /\ guest_port \in FlowGuestPorts /\ host_port = TCP_PORT -> "Tcp"
    [] network_enabled /\ guest_port \in FlowGuestPorts /\ host_port = UDP_PORT -> "Udp"
    [] network_enabled /\ guest_port = PUBLICATION_PORT
         /\ host_port \in PublicationHostPorts -> "Publication"
    [] OTHER -> None

IsAt(e, guest_port, host_port) ==
  e.guest_port = guest_port /\ e.host_port = host_port

HasEndpoint(guest_port, host_port) ==
  \E i \in DOMAIN endpoints : IsAt(endpoints[i], guest_port, host_port)

Connected(e) == e.stream.connection # None
NetworkSocketCount == Len(endpoints) - FIXED_ENDPOINTS
Flows == {i \in DOMAIN endpoints : i > FIXED_ENDPOINTS}

(* allocate_connection_number: the counter may be advanced n times.        *)
CanAllocate(n) == next_connection_number + n <= MaxNumber

(* Endpoint::retire with a fresh number.                                   *)
Retired(e, number) ==
  LET renumbered == IF IsLive(e.stream) \/ e.retiring = None
                    THEN [e EXCEPT !.retiring = e.connection_number,
                                   !.connection_number = number]
                    ELSE e
  IN  [renumbered EXCEPT !.stream = RetireStream(@)]

(* rejected keeps only the resets of other port pairs.                     *)
ForgetRejected(guest_port, host_port) ==
  Retain(rejected, {k \in DOMAIN rejected : ~IsAt(rejected[k], guest_port, host_port)})

RejectedReset(guest_port, host_port) ==
  [guest_port |-> guest_port, host_port |-> host_port,
   connection_number |->
     IF HasEndpoint(guest_port, host_port)
     THEN endpoints[CHOOSE i \in DOMAIN endpoints :
                      IsAt(endpoints[i], guest_port, host_port)].connection_number
     ELSE 0]

Reject(guest_port, host_port, h) ==
  /\ rejected' = IF h.op # "RST" /\ Len(rejected) < MAX_REJECTED_RESETS
                 THEN Append(rejected, RejectedReset(guest_port, host_port))
                 ELSE rejected
  /\ UNCHANGED <<endpoints, next_connection_number, network_enabled, rotation, ended>>

(* Replaces the stream of endpoint i after a call; a connection that the   *)
(* call ended is retired in the same step.                                 *)
UpdateStream(i, s) ==
  LET e == endpoints[i]
      updated == [e EXCEPT !.stream = s]
  IN  IF IsLive(e.stream) /\ ~IsLive(s)
      THEN /\ CanAllocate(1)
           /\ endpoints' = [endpoints EXCEPT ![i] = Retired(updated, next_connection_number)]
           /\ next_connection_number' = next_connection_number + 1
           /\ ended' = ended \cup {e.connection_number}
      ELSE /\ endpoints' = [endpoints EXCEPT ![i] = updated]
           /\ UNCHANGED <<next_connection_number, ended>>

-----------------------------------------------------------------------------
(* VsockSwitch::rx, by the way a packet leaves it.                         *)

RxUnserved(guest_port, host_port, h) ==
  /\ Classify(guest_port, host_port) = None
  /\ Reject(guest_port, host_port, h)

(* A first request on a flow pair that is free, while there is room.       *)
Admissible(guest_port, host_port, h) ==
  /\ Classify(guest_port, host_port) \in {"Tcp", "Udp"}
  /\ h.op = "REQUEST" /\ h.well_formed /\ h.len = 0 /\ h.fwd_cnt = 0
  /\ NetworkSocketCount < NetworkSocketCapacity

RxRefused(guest_port, host_port, h) ==
  /\ Classify(guest_port, host_port) # None
  /\ ~HasEndpoint(guest_port, host_port)
  /\ ~Admissible(guest_port, host_port, h)
  /\ Reject(guest_port, host_port, h)

RxAdmitted(guest_port, host_port, h) ==
  /\ ~HasEndpoint(guest_port, host_port)
  /\ Admissible(guest_port, host_port, h)
  /\ CanAllocate(1)
  /\ LET e == NewEndpoint(Classify(guest_port, host_port), guest_port, host_port,
                          next_connection_number)
     IN  endpoints' = Append(endpoints, [e EXCEPT !.stream = StreamRx(@, h)])
  /\ next_connection_number' = next_connection_number + 1
  /\ rejected' = ForgetRejected(guest_port, host_port)
  /\ UNCHANGED <<network_enabled, rotation, ended>>

RxRetiring(guest_port, host_port, h) ==
  /\ Classify(guest_port, host_port) # None
  /\ \E i \in DOMAIN endpoints :
       IsAt(endpoints[i], guest_port, host_port) /\ endpoints[i].retiring # None
  /\ Reject(guest_port, host_port, h)

RxEndpoint(guest_port, host_port, h) ==
  /\ Classify(guest_port, host_port) # None
  /\ \E i \in DOMAIN endpoints :
       /\ IsAt(endpoints[i], guest_port, host_port)
       /\ endpoints[i].retiring = None
       /\ UpdateStream(i, StreamRx(endpoints[i].stream, h))
  /\ UNCHANGED <<network_enabled, rotation, rejected>>

Rx ==
  \E p \in GuestPairs, h \in Headers :
    \/ RxUnserved(p[1], p[2], h)
    \/ RxRefused(p[1], p[2], h)
    \/ RxAdmitted(p[1], p[2], h)
    \/ RxRetiring(p[1], p[2], h)
    \/ RxEndpoint(p[1], p[2], h)

-----------------------------------------------------------------------------
(* Host calls.  Each names a connection by its ConnectionId and is refused *)
(* unless that connection is the connected one, so the enabled calls are   *)
(* those on connected endpoints.                                           *)

ConnectPublication(host_port) ==
  /\ network_enabled
  /\ NetworkSocketCount < NetworkSocketCapacity
  /\ ~HasEndpoint(PUBLICATION_PORT, host_port)
  /\ CanAllocate(1)
  /\ LET e == NewEndpoint("Publication", PUBLICATION_PORT, host_port,
                          next_connection_number)
     IN  endpoints' = Append(endpoints, [e EXCEPT !.stream = Request(@)])
  /\ next_connection_number' = next_connection_number + 1
  /\ UNCHANGED <<network_enabled, rotation, rejected, ended>>

HostCall(i, s) ==
  /\ Connected(endpoints[i])
  /\ UpdateStream(i, s)
  /\ UNCHANGED <<network_enabled, rotation, rejected>>

SwitchDeliver(i, len) == HostCall(i, Deliver(endpoints[i].stream, len))
SwitchShutdown(i) == HostCall(i, Shutdown(endpoints[i].stream))
SwitchRequestCredit(i) == HostCall(i, RequestCredit(endpoints[i].stream))
ConsumeUpstream(i, len) == HostCall(i, StreamConsume(endpoints[i].stream, len))

(* Endpoint i reset from the host side: a reset is queued if it fits.      *)
ResetEndpoint(e, number) == Retired([e EXCEPT !.stream = Rst(@)], number)

ResetConnection(i) ==
  /\ IsLive(endpoints[i].stream)
  /\ CanAllocate(1)
  /\ endpoints' = [endpoints EXCEPT ![i] = ResetEndpoint(@, next_connection_number)]
  /\ next_connection_number' = next_connection_number + 1
  /\ ended' = ended \cup {endpoints[i].connection_number}
  /\ UNCHANGED <<network_enabled, rotation, rejected>>

(* The fresh number of the i-th endpoint when every live endpoint from     *)
(* index first on takes one, in order.                                     *)
LiveFrom(first) == {i \in DOMAIN endpoints : i >= first /\ IsLive(endpoints[i].stream)}

(* Mutant of NumberOf: one number for a whole pass.                        *)
OneNumberForAll(first, i) == next_connection_number

NumberOf(first, i) ==
  next_connection_number + Cardinality({j \in LiveFrom(first) : j < i})

EndAll(first) ==
  /\ CanAllocate(Cardinality(LiveFrom(first)))
  /\ next_connection_number' = next_connection_number + Cardinality(LiveFrom(first))
  /\ ended' = ended \cup {endpoints[i].connection_number : i \in LiveFrom(first)}

(* Device reset and worker exit: nothing queued survives.                  *)
ResetConnections ==
  /\ EndAll(1)
  /\ endpoints' =
       [i \in DOMAIN endpoints |->
          LET e == IF i \in LiveFrom(1) THEN Retired(endpoints[i], NumberOf(1, i))
                   ELSE endpoints[i]
          IN  [e EXCEPT !.stream.replies = <<>>]]
  /\ rejected' = <<>>
  /\ UNCHANGED <<network_enabled, rotation>>

(* disable_network, and with it reset_network_connections: every endpoint  *)
(* but the agent's is reset.                                               *)
DisableNetwork ==
  /\ EndAll(FIXED_ENDPOINTS)
  /\ network_enabled' = FALSE
  /\ endpoints' =
       [i \in DOMAIN endpoints |->
          IF i \in LiveFrom(FIXED_ENDPOINTS)
          THEN ResetEndpoint(endpoints[i], NumberOf(FIXED_ENDPOINTS, i))
          ELSE endpoints[i]]
  /\ UNCHANGED <<rotation, rejected>>

RemoveEndpoint(i) ==
  [j \in 1 .. Len(endpoints) - 1 |-> IF j < i THEN endpoints[j] ELSE endpoints[j + 1]]

(* retire_connection: frees the slot of a flow, renumbers a fixed endpoint. *)
CanRetire(i) == endpoints[i].retiring # None /\ endpoints[i].stream.replies = <<>>

RetireConnection(i) ==
  /\ CanRetire(i)
  /\ rejected' = ForgetRejected(endpoints[i].guest_port, endpoints[i].host_port)
  /\ IF i > FIXED_ENDPOINTS
     THEN /\ endpoints' = RemoveEndpoint(i)
          /\ UNCHANGED next_connection_number
     ELSE /\ CanAllocate(1)
          /\ endpoints' = [endpoints EXCEPT ![i].retiring = None,
                                            ![i].connection_number = next_connection_number]
          /\ next_connection_number' = next_connection_number + 1
  /\ UNCHANGED <<network_enabled, rotation, ended>>

-----------------------------------------------------------------------------
(* Replies leave in a rotation over the agent, the control endpoint and    *)
(* the flows as one class, and within that class in a rotation over flows. *)

(* The flow at an offset from the rotation's start, as an endpoint index.  *)
FlowAt(offset) ==
  FIXED_ENDPOINTS + 1 + ((next_flow_reply + offset) % NetworkSocketCount)

(* The endpoint that take_flow_reply serves, None where no head fits.      *)
FlowServed(max) ==
  LET fits == {o \in 0 .. NetworkSocketCount - 1 :
                 CanTake(endpoints[FlowAt(o)].stream, max)}
  IN  IF fits = {} THEN None
      ELSE FlowAt(CHOOSE o \in fits : \A p \in fits : o <= p)

ClassServed(class, max) ==
  IF class = FIXED_ENDPOINTS THEN FlowServed(max)
  ELSE IF CanTake(endpoints[class + 1].stream, max) THEN class + 1 ELSE None

(* The class take_reply serves first, None where only rejected are left.   *)
NextClass(max) ==
  LET at(offset) == (next_reply + offset) % REPLY_CLASSES
      ready == {o \in 0 .. REPLY_CLASSES - 1 : ClassServed(at(o), max) # None}
  IN  IF ready = {} THEN None ELSE at(CHOOSE o \in ready : \A p \in ready : o <= p)

TakeEndpointReply(max) ==
  LET class == NextClass(max)
      i == ClassServed(class, max)
  IN  /\ class # None
      /\ endpoints' = [endpoints EXCEPT ![i].stream = StreamTake(@)]
      /\ next_reply' = (class + 1) % REPLY_CLASSES
      /\ next_flow_reply' = IF class = FIXED_ENDPOINTS
                            THEN (i - FIXED_ENDPOINTS) % NetworkSocketCount
                            ELSE next_flow_reply
      /\ UNCHANGED <<next_connection_number, network_enabled, rejected, ended>>

TakeRejected(max) ==
  /\ NextClass(max) = None
  /\ rejected # <<>>
  /\ rejected' = Tail(rejected)
  /\ UNCHANGED <<endpoints, next_connection_number, network_enabled, rotation, ended>>

TakeReply(max) == TakeEndpointReply(max) \/ TakeRejected(max)

-----------------------------------------------------------------------------
Next ==
  \/ Rx
  \/ \E host_port \in PublicationHostPorts : ConnectPublication(host_port)
  \/ \E i \in DOMAIN endpoints, len \in SendLengths : SwitchDeliver(i, len)
  \/ \E i \in DOMAIN endpoints, max \in ReadLengths : ConsumeUpstream(i, max)
  \/ \E i \in DOMAIN endpoints :
       SwitchShutdown(i) \/ SwitchRequestCredit(i) \/ ResetConnection(i)
         \/ RetireConnection(i)
  \/ \E max \in ReadLengths : TakeReply(max)
  \/ ResetConnections
  \/ DisableNetwork

Spec == Init /\ [][Next]_vars

-----------------------------------------------------------------------------
Endpoint ==
  [role : Role, guest_port : Port, host_port : Port, stream : Stream,
   connection_number : Nat, retiring : Nat \cup {None}]

(* Every variable has its type, and the queues and the flow table stay     *)
(* within their limits.                                                    *)
TypeOK ==
  /\ endpoints \in Seq(Endpoint)
  /\ Len(endpoints) \in FIXED_ENDPOINTS .. FIXED_ENDPOINTS + NetworkSocketCapacity
  /\ \A i \in DOMAIN endpoints :
       /\ endpoints[i].stream.role = endpoints[i].role
       /\ Len(endpoints[i].stream.replies) <= MAX_QUEUED_REPLIES
  /\ next_connection_number \in Nat
  /\ network_enabled \in BOOLEAN
  /\ next_reply \in 0 .. REPLY_CLASSES - 1
  /\ next_flow_reply \in Nat
  /\ rejected \in Seq([guest_port : Port, host_port : Port, connection_number : Nat])
  /\ Len(rejected) <= MAX_REJECTED_RESETS
  /\ ended \subseteq Nat

(* ReceiveWindow on every endpoint: the receive counters agree with the    *)
(* buffer they describe, and the buffer stays within its window.           *)
ReceiveWindowHolds == \A i \in DOMAIN endpoints : ReceiveWindow(endpoints[i].stream)

(* SendBudget on every endpoint: reply_bytes is the payload queued, and    *)
(* neither it nor the unacknowledged bytes exceed the send budget.         *)
SendBudgetHolds == \A i \in DOMAIN endpoints : SendBudget(endpoints[i].stream)

(* CreditReported on every endpoint: consumption the guest has not been    *)
(* told of stays under half a window, and is nothing once it has asked.    *)
CreditReportedHolds == \A i \in DOMAIN endpoints : CreditReported(endpoints[i].stream)

(* DataBeforeClose on every endpoint: no data behind a SHUTDOWN, towards a *)
(* closed receiver or on a connection that is over.                        *)
DataBeforeCloseHolds == \A i \in DOMAIN endpoints : DataBeforeClose(endpoints[i].stream)

(* Every flow in the table is live or retiring, so its slot is going to be *)
(* freed; an endpoint that retires is dead and holds only resets; and no   *)
(* two endpoints answer for one port pair (rx, connect_publication,        *)
(* retire, retire_connection).                                             *)
SlotsAreOwned ==
  /\ \A i \in DOMAIN endpoints :
       LET e == endpoints[i]
       IN  /\ i \in Flows => IsLive(e.stream) \/ e.retiring # None
           /\ e.retiring # None =>
                /\ ~IsLive(e.stream)
                /\ \A k \in DOMAIN e.stream.replies : e.stream.replies[k].op = "RST"
  /\ \A i, j \in DOMAIN endpoints :
       IsAt(endpoints[i], endpoints[j].guest_port, endpoints[j].host_port) => i = j

(* A connection number is held by one endpoint, and never again by a       *)
(* connection after the one it named is over: a ConnectionId kept by a     *)
(* relay across an await cannot reach a later connection of the same ports *)
(* (allocate_connection_number, retire, retire_connection).                *)
NumbersAreFresh ==
  /\ \A i, j \in DOMAIN endpoints :
       endpoints[i].connection_number = endpoints[j].connection_number => i = j
  /\ \A i \in DOMAIN endpoints : endpoints[i].connection_number \notin ended
=============================================================================
