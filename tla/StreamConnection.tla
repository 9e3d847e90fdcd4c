-------------------------- MODULE StreamConnection --------------------------
(***************************************************************************)
(* One virtio-vsock stream of the device: the struct StreamConnection of   *)
(* components/vsock-device/src/switch.rs as a record, and each of its      *)
(* methods as an operator from the stream before to the stream after.      *)
(*                                                                         *)
(* Payloads are abstracted to their length.  Counters keep their width:    *)
(* they live in 0 .. Wrap-1 and wrap as the u32 counters do.               *)
(***************************************************************************)
EXTENDS Integers, Sequences

CONSTANTS
  HalfWrap,                      \* 2^31 in the code
  MAX_QUEUED_REPLIES,
  RESERVED_CONTROL_REPLY_SLOTS,
  MAX_PACKET_DATA_BYTES,
  RxAlloc,                       \* role -> receive window (Role::buffers().0)
  MaxTxBytes,                    \* role -> send budget    (Role::buffers().1)
  None                           \* Option::None

Role == {"Agent", "Control", "Tcp", "Udp", "Publication"}

Wrap == 2 * HalfWrap
Word == 0 .. Wrap - 1

(* A window is at most half of the counter space, so that a difference of  *)
(* two counters is unambiguous, and at least one reply fits in a queue.    *)
ASSUME StreamAssumption ==
  /\ HalfWrap \in Nat \ {0}
  /\ MAX_QUEUED_REPLIES \in Nat
  /\ RESERVED_CONTROL_REPLY_SLOTS \in 0 .. MAX_QUEUED_REPLIES - 1
  /\ MAX_PACKET_DATA_BYTES \in Nat \ {0}
  /\ RxAlloc \in [Role -> 1 .. HalfWrap - 1]
  /\ MaxTxBytes \in [Role -> 1 .. HalfWrap - 1]

WrappingAdd(a, b) == IF a + b >= Wrap THEN a + b - Wrap ELSE a + b
WrappingSub(a, b) == IF a >= b THEN a - b ELSE a - b + Wrap
SaturatingSub(a, b) == IF a >= b THEN a - b ELSE 0
Least(a, b) == IF a <= b THEN a ELSE b

-----------------------------------------------------------------------------
(* Packets.  well_formed stands for the carrier checks that open rx: type, *)
(* addresses, length against operation and payload, shutdown flags, and a  *)
(* known operation.                                                        *)

Op == {"REQUEST", "RESPONSE", "RST", "SHUTDOWN", "RW",
       "CREDIT_UPDATE", "CREDIT_REQUEST"}

Header ==
  [op : Op, rcv : BOOLEAN, send : BOOLEAN, len : Nat,
   buf_alloc : Word, fwd_cnt : Word, well_formed : BOOLEAN]

Reply == {r \in [op : Op, len : Nat, fwd_cnt : Word] : r.op # "RW" => r.len = 0}

Connection ==
  [peer_buf_alloc : Word, peer_fwd_cnt : Word, rx_received : Word,
   rx_fwd_cnt : Word, rx_credit_update_fwd_cnt : Word,
   is_receive_credit_requested : BOOLEAN, tx_fwd_cnt : Word,
   is_credit_requested : BOOLEAN, tx_shutdown : BOOLEAN,
   peer_receive_closed : BOOLEAN, rx_shutdown : BOOLEAN]

ASSUME NoneAssumption == None \notin Connection /\ None \notin Nat

Stream ==
  [role : Role, connection : Connection \cup {None}, is_connecting : BOOLEAN,
   upstream : Nat, replies : Seq(Reply), reply_bytes : Nat]

NewConnection(buf_alloc) ==
  [peer_buf_alloc |-> buf_alloc, peer_fwd_cnt |-> 0, rx_received |-> 0,
   rx_fwd_cnt |-> 0, rx_credit_update_fwd_cnt |-> 0,
   is_receive_credit_requested |-> FALSE, tx_fwd_cnt |-> 0,
   is_credit_requested |-> FALSE, tx_shutdown |-> FALSE,
   peer_receive_closed |-> FALSE, rx_shutdown |-> FALSE]

NewStream(role) ==
  [role |-> role, connection |-> None, is_connecting |-> FALSE,
   upstream |-> 0, replies |-> <<>>, reply_bytes |-> 0]

QueuedBytes(c) == WrappingSub(c.rx_received, c.rx_fwd_cnt)
UnackedBytes(sent, acknowledged) == WrappingSub(sent, acknowledged)
AckAhead(acknowledged, sent) ==
  acknowledged # sent /\ WrappingSub(acknowledged, sent) < HalfWrap
UnreportedBytes(c) == WrappingSub(c.rx_fwd_cnt, c.rx_credit_update_fwd_cnt)

IsLive(s) == s.connection # None \/ s.is_connecting

-----------------------------------------------------------------------------
(* The reply queue.                                                        *)

CanQueueReply(s, len) ==
  /\ Len(s.replies) < MAX_QUEUED_REPLIES
  /\ s.reply_bytes + len <= MaxTxBytes[s.role]

(* Records that a credit update carrying fwd_cnt is queued.                *)
NoteCreditUpdate(s, fwd_cnt) ==
  IF s.connection = None THEN s
  ELSE [s EXCEPT !.connection.rx_credit_update_fwd_cnt = fwd_cnt]

(* A reply that does not fit is lost: the stream is unchanged.             *)
QueueReply(s, r) ==
  IF ~CanQueueReply(s, r.len) THEN s
  ELSE LET queued == [s EXCEPT !.replies = Append(@, r),
                               !.reply_bytes = @ + r.len]
       IN  IF r.op = "CREDIT_UPDATE" THEN NoteCreditUpdate(queued, r.fwd_cnt)
           ELSE queued

Control(op, fwd_cnt) == [op |-> op, len |-> 0, fwd_cnt |-> fwd_cnt]

Rst(s) == QueueReply(s, Control("RST", 0))

EndsInCreditUpdate(s) ==
  s.replies # <<>> /\ s.replies[Len(s.replies)].op = "CREDIT_UPDATE"

(* respond returns false exactly when this is false.                       *)
CanRespond(s, op) ==
  (op = "CREDIT_UPDATE" /\ EndsInCreditUpdate(s)) \/ CanQueueReply(s, 0)

(* A credit update overwrites one that already ends the queue.             *)
Respond(s, op, fwd_cnt) ==
  IF op = "CREDIT_UPDATE" /\ EndsInCreditUpdate(s)
  THEN NoteCreditUpdate(
         [s EXCEPT !.replies[Len(s.replies)].fwd_cnt = fwd_cnt], fwd_cnt)
  ELSE QueueReply(s, Control(op, fwd_cnt))

(* VecDeque::retain: the elements of queue at the positions in keep, in     *)
(* order.  (A recursive function, so that it can be reasoned about.)       *)
Retain(queue, keep) ==
  LET kept[i \in 0 .. Len(queue)] ==
        IF i = 0 THEN <<>>
        ELSE IF i \in keep THEN Append(kept[i - 1], queue[i])
        ELSE kept[i - 1]
  IN  kept[Len(queue)]

RetainOps(replies, ops) ==
  Retain(replies, {k \in DOMAIN replies : replies[k].op \in ops})

(* Mutant of DropConnection: the received bytes stay behind.               *)
DropConnectionKeepingUpstream(s) ==
  [s EXCEPT !.connection = None, !.is_connecting = FALSE]

DropConnection(s) ==
  [s EXCEPT !.connection = None, !.is_connecting = FALSE, !.upstream = 0]

(* Sends the update, or gives the connection up where it does not fit.     *)
UpdateCreditOrDrop(s) ==
  IF CanRespond(s, "CREDIT_UPDATE")
  THEN Respond(s, "CREDIT_UPDATE", s.connection.rx_fwd_cnt)
  ELSE DropConnection(s)

-----------------------------------------------------------------------------
(* Packets from the guest.                                                 *)

RejectPacket(s, h) ==
  LET answered == IF h.op = "RST" THEN s ELSE Rst(s)
  IN  IF IsLive(answered) THEN DropConnection(answered) ELSE answered

(* The peer's window and acknowledgement, taken over; more credit than     *)
(* before answers the host's open credit request.                          *)
TakePeerCredit(s, h) ==
  LET c == s.connection
      before == SaturatingSub(c.peer_buf_alloc, UnackedBytes(c.tx_fwd_cnt, c.peer_fwd_cnt))
      now == SaturatingSub(h.buf_alloc, UnackedBytes(c.tx_fwd_cnt, h.fwd_cnt))
  IN  [s EXCEPT !.connection =
         [c EXCEPT !.peer_buf_alloc = h.buf_alloc,
                   !.peer_fwd_cnt = h.fwd_cnt,
                   !.is_credit_requested = c.is_credit_requested /\ now <= before]]

(* An acknowledgement behind the last one, or too far behind what was sent. *)
IsStaleCredit(s, h) ==
  LET c == s.connection
  IN  \/ h.fwd_cnt # c.peer_fwd_cnt /\ ~AckAhead(h.fwd_cnt, c.peer_fwd_cnt)
      \/ UnackedBytes(c.tx_fwd_cnt, h.fwd_cnt) > MaxTxBytes[s.role]

(* The peer's credit in a packet on a connected stream.  The caller goes   *)
(* on only if the connection survives.                                     *)
NotePeerCredit(s, h) ==
  IF AckAhead(h.fwd_cnt, s.connection.tx_fwd_cnt) THEN DropConnection(Rst(s))
  ELSE IF IsStaleCredit(s, h) THEN s
  ELSE IF h.buf_alloc < s.connection.peer_buf_alloc /\ UnreportedBytes(s.connection) # 0
  THEN UpdateCreditOrDrop(TakePeerCredit(s, h))
  ELSE TakePeerCredit(s, h)

(* Mutant of OnShutdown: data queued for the closed receiver stays.        *)
OnShutdownKeepingData(s, h) ==
  [s EXCEPT !.connection =
     [s.connection EXCEPT !.tx_shutdown = @ \/ h.rcv,
                          !.peer_receive_closed = @ \/ h.rcv,
                          !.rx_shutdown = @ \/ h.send]]

OnShutdown(s, h) ==
  LET c == s.connection
      closed == [s EXCEPT !.connection =
                   [c EXCEPT !.tx_shutdown = c.tx_shutdown \/ h.rcv,
                             !.peer_receive_closed = c.peer_receive_closed \/ h.rcv,
                             !.rx_shutdown = c.rx_shutdown \/ h.send]]
  IN  IF h.rcv THEN [closed EXCEPT !.replies = RetainOps(@, Op \ {"RW"}),
                                   !.reply_bytes = 0]
      ELSE closed

OnData(s, h) ==
  IF \/ QueuedBytes(s.connection) + h.len > RxAlloc[s.role]
     \/ s.upstream + h.len > RxAlloc[s.role]
  THEN DropConnection(Rst(s))
  ELSE [s EXCEPT !.connection.rx_received = WrappingAdd(@, h.len),
                 !.upstream = @ + h.len]

OnCreditRequest(s) ==
  UpdateCreditOrDrop([s EXCEPT !.connection.is_receive_credit_requested =
                                 QueuedBytes(s.connection) # 0])

OnConnected(s, h) ==
  IF s.connection = None THEN Rst(s)
  ELSE IF h.op = "RW" /\ s.connection.rx_shutdown THEN RejectPacket(s, h)
  ELSE LET noted == NotePeerCredit(s, h)
       IN  IF noted.connection = None THEN noted
           ELSE CASE h.op = "SHUTDOWN" -> OnShutdown(noted, h)
                  [] h.op = "RW" -> OnData(noted, h)
                  [] h.op = "CREDIT_REQUEST" -> OnCreditRequest(noted)
                  [] OTHER -> noted

OnRequest(s, h) ==
  IF h.fwd_cnt # 0 \/ IsLive(s) THEN RejectPacket(s, h)
  ELSE IF CanRespond(s, "RESPONSE")
  THEN [Respond(s, "RESPONSE", 0) EXCEPT !.connection = NewConnection(h.buf_alloc)]
  ELSE s

OnResponse(s, h) ==
  IF ~s.is_connecting \/ h.fwd_cnt # 0
  THEN [RejectPacket(s, h) EXCEPT !.is_connecting = FALSE]
  ELSE [s EXCEPT !.is_connecting = FALSE,
                 !.connection = NewConnection(h.buf_alloc)]

OnRst(s) == IF IsLive(s) THEN DropConnection(s) ELSE s

StreamRx(s, h) ==
  IF ~h.well_formed \/ (s.is_connecting /\ h.op \notin {"RESPONSE", "RST"})
  THEN RejectPacket(s, h)
  ELSE CASE h.op = "REQUEST" -> OnRequest(s, h)
         [] h.op = "RESPONSE" -> OnResponse(s, h)
         [] h.op = "RST" -> OnRst(s)
         [] OTHER -> OnConnected(s, h)

-----------------------------------------------------------------------------
(* Calls from the host.                                                    *)

(* Only for a fresh stream, whose empty queue accepts the request.         *)
Request(s) ==
  IF IsLive(s) \/ ~CanQueueReply(s, 0) THEN s
  ELSE [QueueReply(s, Control("REQUEST", 0)) EXCEPT !.is_connecting = TRUE]

RequestCredit(s) ==
  IF s.connection = None THEN s
  ELSE IF s.connection.is_credit_requested \/ ~CanQueueReply(s, 0) THEN s
  ELSE [QueueReply(s, Control("CREDIT_REQUEST", s.connection.rx_fwd_cnt))
          EXCEPT !.connection.is_credit_requested = TRUE]

AvailableSendCredit(s) ==
  IF s.connection = None THEN 0
  ELSE IF s.connection.tx_shutdown THEN 0
  ELSE LET unacked == UnackedBytes(s.connection.tx_fwd_cnt, s.connection.peer_fwd_cnt)
       IN  Least(SaturatingSub(s.connection.peer_buf_alloc, unacked),
                 SaturatingSub(MaxTxBytes[s.role], unacked))

SendCapacity(s) ==
  IF Len(s.replies) >= MAX_QUEUED_REPLIES - RESERVED_CONTROL_REPLY_SLOTS THEN 0
  ELSE Least(Least(AvailableSendCredit(s), MAX_PACKET_DATA_BYTES),
             SaturatingSub(MaxTxBytes[s.role], s.reply_bytes))

(* deliver accepts len bytes; otherwise it leaves them with its caller.    *)
CanDeliver(s, len) ==
  s.connection # None /\ ~s.connection.tx_shutdown /\ len <= SendCapacity(s)

Deliver(s, len) ==
  IF s.connection = None \/ len = 0 THEN s
  ELSE IF s.connection.tx_shutdown THEN s
  ELSE IF CanDeliver(s, len) /\ CanQueueReply(s, len)
  THEN QueueReply([s EXCEPT !.connection.tx_fwd_cnt = WrappingAdd(@, len)],
                  [op |-> "RW", len |-> len, fwd_cnt |-> s.connection.rx_fwd_cnt])
  ELSE IF len <= MaxTxBytes[s.role] /\ len > AvailableSendCredit(s)
  THEN RequestCredit(s)
  ELSE s

(* respond cannot fail here: can_queue_reply(0) was asked just before.     *)
Shutdown(s) ==
  IF s.connection = None THEN s
  ELSE IF s.connection.tx_shutdown \/ ~CanQueueReply(s, 0) THEN s
  ELSE Respond([s EXCEPT !.connection.tx_shutdown = TRUE],
               "SHUTDOWN", s.connection.rx_fwd_cnt)

(* Whether consumption is worth telling the guest.  The request flag is    *)
(* read before an emptied queue clears it.                                 *)
MustReport(s, requested) ==
  \/ s.role = "Agent"
  \/ requested
  \/ UnreportedBytes(s.connection)
       >= Least(RxAlloc[s.role], s.connection.peer_buf_alloc) \div 2
  \/ EndsInCreditUpdate(s)

AdvanceReceiveCredit(s, count) ==
  LET requested == s.connection.is_receive_credit_requested
      moved == [s EXCEPT !.connection.rx_fwd_cnt = WrappingAdd(@, count)]
      advanced == [moved EXCEPT !.connection.is_receive_credit_requested =
                                  @ /\ QueuedBytes(moved.connection) # 0]
  IN  IF MustReport(advanced, requested) THEN UpdateCreditOrDrop(advanced)
      ELSE advanced

StreamConsume(s, max) ==
  LET count == Least(max, s.upstream)
  IN  IF s.connection = None \/ count = 0 THEN s
      ELSE AdvanceReceiveCredit([s EXCEPT !.upstream = @ - count], count)

CanTake(s, max) == s.replies # <<>> /\ s.replies[1].len <= max

StreamTake(s) ==
  [s EXCEPT !.replies = Tail(@), !.reply_bytes = @ - s.replies[1].len]

(* Mutant of RetireStream: what was queued outlives the connection.        *)
RetireStreamKeepingReplies(s) == DropConnection(s)

(* What Endpoint::retire does to the stream.                               *)
RetireStream(s) ==
  [DropConnection(s) EXCEPT !.replies = RetainOps(@, {"RST"}), !.reply_bytes = 0]
-----------------------------------------------------------------------------
(* What every stream keeps to.                                             *)

(* The receive counters agree with the buffer they describe, across their  *)
(* wrap-around, and the buffer stays within the window advertised to the   *)
(* guest (on_data, advance_receive_credit, drop_connection).               *)
ReceiveWindow(s) ==
  /\ s.upstream <= RxAlloc[s.role]
  /\ s.upstream = IF s.connection = None THEN 0 ELSE QueuedBytes(s.connection)

(* t is the total payload of a reply queue: rest[k] is what replies k, k+1 *)
(* .. hold together.                                                       *)
IsPayloadOf(t, replies) ==
  \E rest \in [1 .. Len(replies) + 1 -> 0 .. t] :
    /\ rest[1] = t
    /\ rest[Len(replies) + 1] = 0
    /\ \A k \in DOMAIN replies : rest[k] = replies[k].len + rest[k + 1]

(* reply_bytes is exactly the payload in the queue through every push,     *)
(* pop, discard and retirement, and neither it nor the bytes the guest has *)
(* yet to acknowledge exceed the send budget (deliver, take_reply,         *)
(* on_shutdown, retire, note_peer_credit).                                 *)
SendBudget(s) ==
  /\ s.reply_bytes <= MaxTxBytes[s.role]
  /\ IsPayloadOf(s.reply_bytes, s.replies)
  /\ s.connection # None =>
       UnackedBytes(s.connection.tx_fwd_cnt, s.connection.peer_fwd_cnt)
         <= MaxTxBytes[s.role]

(* What was consumed but not yet reported to the guest is less than half   *)
(* of the smaller window, so a guest that waits for credit is told; it is  *)
(* nothing at all on the agent stream and while a credit request of the    *)
(* guest is open (advance_receive_credit, note_peer_credit,                *)
(* on_credit_request).                                                     *)
CreditReported(s) ==
  s.connection # None =>
    \/ UnreportedBytes(s.connection) = 0
    \/ /\ s.role # "Agent"
       /\ ~s.connection.is_receive_credit_requested
       /\ UnreportedBytes(s.connection)
            < Least(RxAlloc[s.role], s.connection.peer_buf_alloc) \div 2

(* No data is queued behind the host's SHUTDOWN, none once the guest has   *)
(* closed its receiving side, and a stream without a connection holds no   *)
(* data at all (deliver, shutdown, on_shutdown, retire).                   *)
DataBeforeClose(s) ==
  /\ \A j, k \in DOMAIN s.replies :
       s.replies[j].op = "SHUTDOWN" /\ s.replies[k].op = "RW" => k < j
  /\ \A k \in DOMAIN s.replies :
       s.replies[k].op = "RW" =>
         s.connection # None /\ ~s.connection.peer_receive_closed
=============================================================================
