------------------------------ MODULE MCVsock -------------------------------
(***************************************************************************)
(* The vsock device, for TLC: its switch, and the frontend with its rings, *)
(* which share no state here.  The switch has three scenarios that differ  *)
(* in what the guest and the host do and in the length of the reply        *)
(* queues: the host sends to a guest that acknowledges anything, the guest *)
(* sends to the host, and flows come and go.  The frontend has one, with a *)
(* driver that uses one of the two queues.                                 *)
(***************************************************************************)
EXTENDS VsockSwitch, VsockFrontend

CONSTANTS Window, Budget

VARIABLE scenario

Acknowledgements == 0 .. 2 * HalfWrap - 1

MCRxAlloc == [r \in Role |-> Window]
MCMaxTxBytes == [r \in Role |-> Budget]

Packet(op, len, rcv, send, buf_alloc, fwd_cnt, well_formed) ==
  [op |-> op, rcv |-> rcv, send |-> send, len |-> len,
   buf_alloc |-> buf_alloc, fwd_cnt |-> fwd_cnt, well_formed |-> well_formed]

CreditPackets(windows, acknowledged) ==
  {Packet("CREDIT_UPDATE", 0, FALSE, FALSE, b, f, TRUE) : b \in windows, f \in acknowledged}
    \cup {Packet("CREDIT_REQUEST", 0, FALSE, FALSE, Window, 0, TRUE)}

DataPackets(lengths) ==
  {Packet("RW", n, FALSE, FALSE, Window, 0, TRUE) : n \in lengths}

ShutdownPackets ==
  {Packet("SHUTDOWN", 0, r, ~r, Window, 0, TRUE) : r \in BOOLEAN}

OpeningPackets(windows, acknowledged) ==
  {Packet(op, 0, FALSE, FALSE, b, f, TRUE) :
     op \in {"REQUEST", "RESPONSE"}, b \in windows, f \in acknowledged}

OtherPackets ==
  {Packet("RST", 0, FALSE, FALSE, 0, 0, TRUE), Packet("RST", 0, FALSE, FALSE, 0, 0, FALSE),
   Packet("RW", 0, FALSE, FALSE, 0, 0, FALSE)}

SendingHeaders ==
  CreditPackets({2}, Acknowledgements) \cup CreditPackets({1}, {0, 1}) \cup ShutdownPackets
    \cup OpeningPackets({1, 2}, {0, 1}) \cup OtherPackets

ReceivingHeaders ==
  CreditPackets({2}, {0}) \cup DataPackets({1, 4}) \cup ShutdownPackets
    \cup OpeningPackets({4}, {0, 1}) \cup OtherPackets

FlowingHeaders == OpeningPackets({Window}, {0}) \cup OtherPackets

ControlPairs == {<<CONTROL_PORT, CONTROL_PORT>>}
FlowPairs == {<<"p1", TCP_PORT>>, <<"p1", UDP_PORT>>, <<PUBLICATION_PORT, "h1">>}

Sending == INSTANCE VsockSwitch WITH
  PublicationHostPorts <- {}, MaxNumber <- 4, GuestPairs <- ControlPairs,
  Headers <- SendingHeaders,
  SendLengths <- {1, 2}, ReadLengths <- {1, 2}

Receiving == INSTANCE VsockSwitch WITH
  MAX_QUEUED_REPLIES <- 2, MAX_PACKET_DATA_BYTES <- 1,
  PublicationHostPorts <- {}, MaxNumber <- 4, GuestPairs <- ControlPairs,
  Headers <- ReceivingHeaders,
  SendLengths <- {}, ReadLengths <- {1, 3}

Flowing == INSTANCE VsockSwitch WITH
  MAX_QUEUED_REPLIES <- 2,
  GuestPairs <- FlowPairs,
  Headers <- FlowingHeaders,
  SendLengths <- {}, ReadLengths <- {1}

OneQueue == {{RX}, {TX}}

MCInit ==
  /\ scenario \in {"sending", "receiving", "flowing", "rings"}
  /\ Init
  /\ FrontendInit /\ (scenario = "rings" \/ driver.queues = {TX})

MCNext ==
  \/ scenario = "sending" /\ Sending!Next /\ UNCHANGED <<scenario, frontendVars>>
  \/ scenario = "receiving" /\ Receiving!Next /\ UNCHANGED <<scenario, frontendVars>>
  \/ scenario = "flowing" /\ Flowing!Next /\ UNCHANGED <<scenario, frontendVars>>
  \/ scenario = "rings" /\ FrontendNext /\ UNCHANGED <<scenario, vars>>

MCSpec == MCInit /\ [][MCNext]_<<vars, frontendVars, scenario>>
=============================================================================
