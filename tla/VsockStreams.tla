--------------------------- MODULE VsockStreams ---------------------------
EXTENDS Integers, Sequences, FiniteSets
LOCAL INSTANCE Functions

(***************************************************************************)
(* The flows of the vsock frontend (vsock-frontend network.rs, publish.rs, *)
(* tcp.rs, worker.rs): the worker's turn retires connections, moves        *)
(* packets and starts, collects and resets flows; each flow has a task     *)
(* that opens and relays; the listener of a published UDP port connects    *)
(* again and again.                                                        *)
(*                                                                         *)
(* The component runs on one thread: a step is a task up to its next       *)
(* await, or one turn of the worker. The switch is taken by its interface  *)
(* (VsockSwitch has its inside): per connection a state and the replies    *)
(* that wait for a buffer of the guest, at most one of them (queues are    *)
(* not counted here).                                                      *)
(***************************************************************************)

CONSTANTS MaxConnections,  \* connections in a behaviour, numbered in order
          FlowCapacity     \* network_socket_capacity

VARIABLES conn,      \* per connection: [st, role, reply, closed, flow, task, waiting]
          listener,  \* the UDP publication: [pc, conn, waiting, held]
          flowWorker,    \* "turn" or "asleep"
          bell,      \* WORK: rung since the worker last looked
          buffer,    \* the guest has posted a receive buffer
          flowEnabled,   \* the network has its configuration
          cutOff     \* a drained flow was reset over a reply (a ghost)

flowVars == <<conn, listener, flowWorker, bell, buffer, flowEnabled, cutOff>>

Connections == 1..MaxConnections
LOCAL NoConn == 0
LOCAL Unused == [st |-> "none", role |-> "flow", reply |-> FALSE, closed |-> FALSE,
                 flow |-> "none", task |-> "none", waiting |-> FALSE]

FlowsInit ==
    /\ conn = [i \in Connections |-> Unused]
    /\ listener = [pc |-> "start", conn |-> NoConn, waiting |-> FALSE, held |-> FALSE]
    /\ flowWorker = "turn" /\ bell = FALSE /\ buffer = FALSE /\ flowEnabled = TRUE /\ cutOff = FALSE

LOCAL Slots == {i \in Connections : conn[i].st \in {"connecting", "current", "retiring"}}
LOCAL HasSlot == Cardinality(Slots) < FlowCapacity
LOCAL FlowFresh == {i \in Connections : conn[i].st = "none" /\ \A j \in 1..(i - 1) : conn[j].st # "none"}

-----------------------------------------------------------------------------
(* What the worker's turn does to one connection *)

\* reset_flow: a reset waits for a buffer, the connection for its retirement.
Reset(c) == IF c.st \in {"connecting", "current"} THEN [c EXCEPT !.st = "retiring", !.reply = TRUE] ELSE c

\* retire_connections: the slot is free and whoever waits is woken.
Retires(c) == c.st = "retiring" /\ ~c.reply
Retire(c) == IF Retires(c) THEN [c EXCEPT !.st = "gone", !.waiting = FALSE, !.closed = FALSE] ELSE c

\* is_flow_drained.
IsFlowDrained(c) == c.flow = "finished" /\ (c.st = "current" => ~c.reply)

\* service: a flow without its connection is dropped, a new connection gets
\* its task, a drained flow is reset.
Drops(c) == c.flow # "none" /\ c.st \notin {"connecting", "current"}
LOCAL Dropped(c) == IF Drops(c) THEN [c EXCEPT !.flow = "none", !.task = "ended"] ELSE c
Starts(c) == c.flow = "none" /\ c.st = "current"
LOCAL Started(c) ==
    IF ~Starts(c) THEN c
    ELSE IF flowEnabled /\ c.role = "flow" THEN [c EXCEPT !.flow = "running", !.task = "opening"] ELSE Reset(c)
LOCAL Collected(c) == IF IsFlowDrained(c) THEN [Reset(c) EXCEPT !.flow = "none"] ELSE c

Service(c) == Collected(Started(Dropped(c)))
LOCAL ServiceMoves(c) == Drops(c) \/ Starts(c) \/ IsFlowDrained(c)

-----------------------------------------------------------------------------
(* The worker *)

\* notify_connection and notify_admission for the connections retired.
StillWaiting(retired) ==
    listener.waiting /\ ~(\/ listener.pc = "retired" /\ listener.conn \in retired
                          \/ listener.pc = "capacity" /\ retired # {})

\* process_pending: one waiting reply goes out in the guest's buffer.
LOCAL Sendable == {i \in Connections : conn[i].reply}

\* run: one turn of the worker, and to sleep when nothing moved.
WorkerTurn ==
    /\ flowWorker = "turn"
    /\ \E sent \in IF buffer /\ Sendable # {} THEN {{i} : i \in Sendable} ELSE {{}} :
         LET first == [i \in Connections |-> Retire(conn[i])]
             moved == [i \in Connections |-> IF i \in sent /\ first[i].reply
                                              THEN [first[i] EXCEPT !.reply = FALSE, !.waiting = FALSE] ELSE first[i]]
             second == [i \in Connections |-> Retire(moved[i])]
             retired == {i \in Connections : conn[i].st # "gone" /\ second[i].st = "gone"}
             progressed == sent # {} \/ retired # {} \/ \E i \in Connections : ServiceMoves(second[i]) IN
         /\ conn' = [i \in Connections |-> Service(second[i])]
         /\ cutOff' = (cutOff \/ \E i \in Connections : IsFlowDrained(second[i]) /\ second[i].st = "current" /\ second[i].reply)
         /\ listener' = [listener EXCEPT !.waiting = StillWaiting(retired)]
         /\ buffer' = (buffer /\ sent = {})
         /\ flowWorker' = IF progressed THEN "turn" ELSE "asleep"
    /\ UNCHANGED <<bell, flowEnabled>>

WakeWorker ==
    /\ flowWorker = "asleep" /\ bell
    /\ flowWorker' = "turn" /\ bell' = FALSE
    /\ UNCHANGED <<conn, listener, buffer, flowEnabled, cutOff>>

-----------------------------------------------------------------------------
(* The guest. Its packets are handled in a turn of the worker: a step of its *)
(* own here, with the worker awake, that wakes the connection's waiters.     *)

LOCAL GuestTurn == flowWorker' = "turn" /\ UNCHANGED <<bell, flowEnabled, cutOff>>

GuestConnects ==
    /\ flowEnabled /\ HasSlot
    /\ \E i \in FlowFresh : conn' = [conn EXCEPT ![i].st = "current"]
    /\ GuestTurn /\ UNCHANGED <<listener, buffer>>

GuestPosts ==
    /\ ~buffer
    /\ buffer' = TRUE
    /\ GuestTurn /\ UNCHANGED <<conn, listener>>

LOCAL Notified(i) == [listener EXCEPT !.waiting = @ /\ ~(listener.pc = "retired" /\ listener.conn = i)]

GuestAccepts(i) ==
    /\ conn[i].st = "connecting"
    /\ conn' = [conn EXCEPT ![i].st = "current", ![i].waiting = FALSE]
    /\ listener' = Notified(i)
    /\ GuestTurn /\ UNCHANGED buffer

GuestCloses(i) ==
    /\ conn[i].st = "current" /\ ~conn[i].closed
    /\ conn' = [conn EXCEPT ![i].closed = TRUE, ![i].waiting = FALSE]
    /\ listener' = Notified(i)
    /\ GuestTurn /\ UNCHANGED buffer

GuestResets(i) ==
    /\ conn[i].st \in {"connecting", "current"}
    /\ conn' = [conn EXCEPT ![i].st = "retiring", ![i].reply = FALSE, ![i].waiting = FALSE]
    /\ listener' = Notified(i)
    /\ GuestTurn /\ UNCHANGED buffer

-----------------------------------------------------------------------------
(* The tasks of the flows *)

Polls(i, pc) == conn[i].task = pc /\ ~conn[i].waiting
LOCAL Becomes(i, c) == conn' = [conn EXCEPT ![i] = c]
LOCAL TaskStep == UNCHANGED <<listener, flowWorker, buffer, flowEnabled, cutOff>>

\* A mutant: the flow's end is noted, and nobody told.
FinishQuietly(i, c) ==
    /\ Becomes(i, [c EXCEPT !.task = "ended", !.flow = IF @ = "none" THEN @ ELSE "finished"])
    /\ UNCHANGED bell

\* finish_flow.
FinishFlow(i, c) ==
    /\ Becomes(i, [c EXCEPT !.task = "ended", !.flow = IF @ = "none" THEN @ ELSE "finished"])
    /\ bell' = TRUE

\* open_socket: the outcome is delivered before the deadline, or the stream
\* is reset or shut with what fits (reject_opening).
OpenSocket(i) ==
    /\ Polls(i, "opening")
    /\ LET c == conn[i] IN
       \/ /\ c.st = "current" /\ ~c.reply                     \* opened: relay
          /\ Becomes(i, [c EXCEPT !.reply = TRUE, !.task = "relaying"]) /\ bell' = TRUE
       \/ /\ c.st = "current" /\ ~c.reply                     \* refused or late, and told
          /\ FinishFlow(i, [c EXCEPT !.reply = TRUE])
       \/ FinishFlow(i, Reset(c))                             \* no room to tell
    /\ TaskStep

\* wait_connected and open_publication; a late or refused one is reset.
OpenPublication(i) ==
    /\ Polls(i, "connecting")
    /\ LET c == conn[i] IN
       \/ /\ c.st = "current" /\ ~c.reply
          /\ Becomes(i, [c EXCEPT !.reply = TRUE, !.task = "relaying"]) /\ bell' = TRUE
       \/ /\ c.st = "connecting"
          /\ Becomes(i, [c EXCEPT !.waiting = TRUE]) /\ UNCHANGED bell
       \/ FinishFlow(i, Reset(c))
    /\ TaskStep

\* The deadline of a task that waits for its connection.
MissDeadline(i) ==
    /\ conn[i].task = "connecting" /\ conn[i].waiting
    /\ FinishFlow(i, Reset([conn[i] EXCEPT !.waiting = FALSE]))
    /\ TaskStep

\* tcp::relay: both ways to their ends, or a reset. The host's end shuts the
\* stream; the guest's is waited for.
Relay(i) ==
    /\ Polls(i, "relaying")
    /\ LET c == conn[i] IN
       \/ /\ c.st = "current" /\ ~c.reply                     \* the host's end: pump_downstream
          /\ Becomes(i, [c EXCEPT !.reply = TRUE, !.task = "half"]) /\ bell' = TRUE
       \/ FinishFlow(i, Reset(c))                             \* a broken socket, or no connection
    /\ TaskStep

\* The guest's end: pump_upstream.
RelayUpstream(i) ==
    /\ Polls(i, "half")
    /\ LET c == conn[i] IN
       IF c.st # "current" \/ c.closed THEN FinishFlow(i, c)
       ELSE Becomes(i, [c EXCEPT !.waiting = TRUE]) /\ UNCHANGED bell
    /\ TaskStep

-----------------------------------------------------------------------------
(* Publications *)

\* connect_publication and register_flow.
LOCAL ConnectPublication(role, i) ==
    conn' = [conn EXCEPT ![i] = [Unused EXCEPT !.st = "connecting", !.role = role, !.flow = "running",
                                               !.task = "connecting", !.reply = TRUE]]

\* accept: an accepted host connection, dropped when there is no slot.
AcceptTcp ==
    /\ flowEnabled /\ HasSlot
    /\ \E i \in FlowFresh : ConnectPublication("tcp", i)
    /\ bell' = TRUE
    /\ UNCHANGED <<listener, flowWorker, buffer, flowEnabled, cutOff>>

LOCAL ListenerStep == UNCHANGED <<flowWorker, buffer, flowEnabled, cutOff>>

\* start_listeners, and wait_publication_capacity after a datagram came.
ListenerConnects ==
    /\ flowEnabled /\ listener.pc \in {"start", "capacity"} /\ ~listener.waiting /\ HasSlot
    /\ \E i \in FlowFresh :
         /\ ConnectPublication("udp", i)
         /\ listener' = [listener EXCEPT !.pc = "publish", !.conn = i]
    /\ bell' = TRUE
    /\ ListenerStep

ListenerWaitsForSlot ==
    /\ listener.pc = "capacity" /\ ~listener.waiting /\ ~HasSlot
    /\ listener' = [listener EXCEPT !.waiting = TRUE]
    /\ UNCHANGED <<conn, bell>> /\ ListenerStep

\* serve_udp_listener: the relay ended or was aborted; wait_retired.
ListenerWaitsRetired ==
    /\ \/ listener.pc = "publish" /\ conn[listener.conn].task = "ended"
       \/ listener.pc = "retired" /\ ~listener.waiting
    /\ listener' = IF conn[listener.conn].st \in {"connecting", "current", "retiring"}
                   THEN [listener EXCEPT !.pc = "retired", !.waiting = TRUE, !.held = FALSE]
                   ELSE [listener EXCEPT !.pc = "first", !.waiting = FALSE, !.held = FALSE]
    /\ UNCHANGED <<conn, bell>> /\ ListenerStep

\* published_udp and the first datagram, or the listener ends.
FirstDatagram ==
    /\ listener.pc = "first"
    /\ \/ listener' = [listener EXCEPT !.pc = "capacity", !.held = TRUE]
       \/ listener' = [listener EXCEPT !.pc = "ended"]
    /\ UNCHANGED <<conn, bell>> /\ ListenerStep

\* disable_networking: the switch resets what is connected, the tasks and the
\* listener are dropped.
DisableFlows ==
    /\ flowEnabled
    /\ flowEnabled' = FALSE
    /\ conn' = [i \in Connections |-> IF conn[i].st = "none" THEN conn[i]
                                      ELSE [Reset(conn[i]) EXCEPT !.flow = "none", !.task = "ended", !.waiting = FALSE]]
    /\ listener' = [listener EXCEPT !.pc = "ended", !.waiting = FALSE]
    /\ bell' = TRUE
    /\ UNCHANGED <<flowWorker, buffer, cutOff>>

FlowsNext ==
    \/ WorkerTurn \/ WakeWorker \/ GuestConnects \/ GuestPosts \/ AcceptTcp \/ DisableFlows
    \/ ListenerConnects \/ ListenerWaitsForSlot \/ ListenerWaitsRetired \/ FirstDatagram
    \/ \E i \in Connections :
         \/ GuestAccepts(i) \/ GuestCloses(i) \/ GuestResets(i)
         \/ OpenSocket(i) \/ OpenPublication(i) \/ MissDeadline(i) \/ Relay(i) \/ RelayUpstream(i)

FlowsSpec == FlowsInit /\ [][FlowsNext]_flowVars

-----------------------------------------------------------------------------
(* Properties *)

FlowsTypeOK ==
    /\ \A i \in Connections :
         /\ conn[i].st \in {"none", "connecting", "current", "retiring", "gone"}
         /\ conn[i].flow \in {"none", "running", "finished"}
         /\ conn[i].task \in {"none", "opening", "connecting", "relaying", "half", "ended"}
    /\ listener.pc \in {"start", "publish", "retired", "first", "capacity", "ended"}
    /\ Cardinality(Slots) <= FlowCapacity

\* A worker that sleeps with nobody to wake it has left nothing behind: no
\* connection to retire, no flow to start, drop or reset (finish_flow and
\* reset_flow ring it); and a finished flow is reset only when what it told the
\* guest last has gone out.
WorkerLeavesNothing ==
    /\ ~cutOff
    /\ flowWorker = "asleep" /\ ~bell =>
             \A i \in Connections : /\ ~Retires(conn[i]) /\ ~Drops(conn[i]) /\ ~Starts(conn[i])
                                    /\ ~(conn[i].flow = "finished" /\ ~conn[i].reply)

\* A published UDP port never waits for a slot while one is free, and a
\* connection that ended gives its slot back.
SlotsReturn ==
    /\ ~(listener.pc = "capacity" /\ HasSlot /\ FlowFresh # {} /\ flowEnabled)
    /\ \A i \in Connections : conn[i].st # "retiring" /\ conn[i].flow # "finished"

------------------------------------------------------------------------------
(***************************************************************************)
(* The channels that carry a component's streams to host tasks             *)
(* (terra-runtime component/relay.rs): ByteSink and ByteReceiver, through  *)
(* which the network frontend's bytes reach the host in bounded chunks,    *)
(* merged again by a receiver that fell behind; and Stream's produce,      *)
(* which answers a component's reads, readiness probes and cancelled reads *)
(* from a host stream. The component may cancel a write or drop its stream *)
(* at any time.                                                            *)
(***************************************************************************)

CONSTANTS BytesToWrite, MaxChunk, QueuedChunks, ItemsToRead

VARIABLES source,     \* the component's write: the next byte, and whether one is under way
          channelQueue,      \* the chunks in the channel
          sinkOpen,   \* the sink has not been dropped
          channelCancelled,  \* the token
          gaveUp,     \* the component has cancelled a write
          carried,    \* ByteReceiver::carried
          taken,      \* the bytes the host task got
          ended,      \* what it saw last: "no", "clean", "cancelled"
          items,      \* the host stream: what has come, its end, and a peeked item
          handed      \* what the component read, and its last read's answer

channelVars == <<source, channelQueue, sinkOpen, channelCancelled, gaveUp, carried, taken, ended, items, handed>>

ChannelInit ==
    /\ source = [next |-> 1, writing |-> FALSE] /\ channelQueue = <<>>
    /\ sinkOpen = TRUE /\ channelCancelled = FALSE /\ gaveUp = FALSE
    /\ carried = <<>> /\ taken = <<>> /\ ended = "no"
    /\ items = [queued |-> <<>>, sent |-> 0, closed |-> FALSE, peeked |-> <<>>]
    /\ handed = [read |-> <<>>, result |-> "none"]

LOCAL ReadSide == <<items, handed>>
LOCAL WriteSide == <<source, channelQueue, sinkOpen, channelCancelled, gaveUp, carried, taken, ended>>
LOCAL Least(a, b) == IF a < b THEN a ELSE b

-----------------------------------------------------------------------------
(* ByteSink *)

StartWrite ==
    /\ sinkOpen /\ ~gaveUp /\ ~source.writing /\ source.next <= BytesToWrite
    /\ source' = [source EXCEPT !.writing = TRUE]
    /\ UNCHANGED <<channelQueue, sinkOpen, channelCancelled, gaveUp, carried, taken, ended, ReadSide>>

\* poll_consume: a slot is reserved, then a chunk is taken from the source.
ConsumeChunk ==
    /\ source.writing /\ Len(channelQueue) < QueuedChunks /\ ended = "no"
    /\ \E count \in 1..Least(MaxChunk, BytesToWrite - source.next + 1) :
         /\ channelQueue' = Append(channelQueue, [i \in 1..count |-> source.next + i - 1])
         /\ source' = [next |-> source.next + count, writing |-> FALSE]
    /\ UNCHANGED <<sinkOpen, channelCancelled, gaveUp, carried, taken, ended, ReadSide>>

\* A mutant: a cancelled write is only given up.
CancelQuietly ==
    /\ source.writing
    /\ source' = [source EXCEPT !.writing = FALSE] /\ gaveUp' = TRUE
    /\ UNCHANGED <<channelQueue, sinkOpen, channelCancelled, carried, taken, ended, ReadSide>>

\* poll_consume with finish: the write is cancelled, and the receiver told.
CancelWrite ==
    /\ source.writing
    /\ source' = [source EXCEPT !.writing = FALSE] /\ channelCancelled' = TRUE /\ gaveUp' = TRUE
    /\ UNCHANGED <<channelQueue, sinkOpen, carried, taken, ended, ReadSide>>

\* The stream ends, with every write complete or after a cancelled one.
DropSink ==
    /\ sinkOpen /\ ~source.writing
    /\ sinkOpen' = FALSE
    /\ UNCHANGED <<source, channelQueue, channelCancelled, gaveUp, carried, taken, ended, ReadSide>>

-----------------------------------------------------------------------------
(* ByteReceiver *)

LOCAL Joined(first, chunks, n) ==
    LET flat[i \in 0..n] == IF i = 0 THEN first ELSE flat[i - 1] \o chunks[i] IN flat[n]

\* merge_queued: as many queued chunks as fit; the next one is carried.
MergeQueued(first, chunks) ==
    LET fits == {n \in 0..Len(chunks) : Len(Joined(first, chunks, n)) <= MaxChunk}
        count == CHOOSE n \in fits : \A m \in fits : m <= n IN
    [bytes |-> Joined(first, chunks, count),
     carried |-> IF count < Len(chunks) THEN chunks[count + 1] ELSE <<>>,
     rest |-> SubSeq(chunks, count + 2, Len(chunks))]

LOCAL Take(first, chunks) ==
    LET merged == MergeQueued(first, chunks) IN
    /\ taken' = taken \o merged.bytes /\ carried' = merged.carried /\ channelQueue' = merged.rest

\* next: what was carried, else a cancellation, else a chunk or the clean end.
ReceiveNext ==
    /\ ended = "no"
    /\ \/ /\ carried # <<>>
          /\ Take(carried, channelQueue) /\ UNCHANGED ended
       \/ /\ carried = <<>> /\ channelCancelled
          /\ ended' = "cancelled" /\ UNCHANGED <<taken, carried, channelQueue>>
       \/ /\ carried = <<>> /\ ~channelCancelled /\ channelQueue # <<>>
          /\ Take(Head(channelQueue), Tail(channelQueue)) /\ UNCHANGED ended
       \/ /\ carried = <<>> /\ ~channelCancelled /\ channelQueue = <<>> /\ ~sinkOpen
          /\ ended' = "clean" /\ UNCHANGED <<taken, carried, channelQueue>>
    /\ UNCHANGED <<source, sinkOpen, channelCancelled, gaveUp, ReadSide>>

-----------------------------------------------------------------------------
(* Stream: host items to the component *)

SendItem ==
    /\ ~items.closed /\ items.sent < ItemsToRead
    /\ items' = [items EXCEPT !.queued = Append(@, items.sent + 1), !.sent = @ + 1]
    /\ UNCHANGED <<handed, WriteSide>>

EndItems ==
    /\ ~items.closed
    /\ items' = [items EXCEPT !.closed = TRUE]
    /\ UNCHANGED <<handed, WriteSide>>

\* poll_next for a zero-length read: the item stays, peeked.
ChannelProbe ==
  /\ items.peeked # <<>> \/ items.queued # <<>> \/ items.closed
  /\ \/ items.peeked # <<>> /\ handed' = [handed EXCEPT !.result = "ready"] /\ UNCHANGED items
     \/ /\ items.peeked = <<>> /\ items.queued # <<>>
        /\ items' = [items EXCEPT !.peeked = <<Head(items.queued)>>, !.queued = Tail(@)]
        /\ handed' = [handed EXCEPT !.result = "ready"]
     \/ items.peeked = <<>> /\ items.queued = <<>> /\ handed' = [handed EXCEPT !.result = "dropped"] /\ UNCHANGED items
  /\ UNCHANGED WriteSide

\* produce: the next item, the end, or nothing, for a read that is cancelled.
Produce ==
    LET next == items.peeked \o items.queued IN
    /\ \/ /\ next # <<>>
          /\ handed' = [read |-> Append(handed.read, Head(next)), result |-> "completed"]
          /\ items' = [items EXCEPT !.peeked = <<>>, !.queued = Tail(next)]
       \/ /\ next = <<>>
          /\ handed' = [handed EXCEPT !.result = IF items.closed THEN "dropped" ELSE "cancelled"]
          /\ UNCHANGED items
    /\ UNCHANGED WriteSide

ChannelNext ==
    \/ StartWrite \/ ConsumeChunk \/ CancelWrite \/ DropSink \/ ReceiveNext
    \/ SendItem \/ EndItems \/ ChannelProbe \/ Produce

ChannelSpec == ChannelInit /\ [][ChannelNext]_channelVars

-----------------------------------------------------------------------------
(* Properties *)

\* The host task gets the component's bytes in order and none twice, however
\* they were cut and merged; a clean end means it got all that was written,
\* never that a write was cancelled; and a component that reads the end of a
\* host stream, after probes and cancelled reads, has read all of it.
ChannelsKeepBytes ==
    /\ taken = [i \in 1..Len(taken) |-> i]
    /\ ended = "clean" => Len(taken) = source.next - 1 /\ ~gaveUp
    /\ handed.read = [i \in 1..Len(handed.read) |-> i]
    /\ handed.result = "dropped" => Len(handed.read) = items.sent

------------------------------------------------------------------------------
(***************************************************************************)
(* The byte pipe between the vsock frontend (side 0) and the agent         *)
(* component (side 1), in host memory (terra-runtime                       *)
(* component/vsock/streams.rs), and the stream ends that two component     *)
(* stores read and write it through (component/relay.rs, DirectSource,     *)
(* DirectSink and Retry). The frontend makes one numbered connection after *)
(* another; the agent accepts one.                                         *)
(*                                                                         *)
(* An end is <<connection, side, way>>. An attempt that moves nothing is   *)
(* repeated after a change of the pipe; the stores run on threads of their *)
(* own, so a change may come between any two steps of an end.              *)
(***************************************************************************)

CONSTANTS MaxPipeConnections, PipeBytes, PipeCapacity

VARIABLES streamPipe,      \* Pipe
          ends,      \* of each end: its place, and its armed wait
          role,      \* the agent's accept: "look", "wait", "taken", "ended", and its wake-up
          written,   \* bytes written, by connection and side
          got,       \* bytes read, by connection and reading side
          finished   \* the ends that read the peer's close

pipeVars == <<streamPipe, ends, role, written, got, finished>>

Sides == {0, 1}
LOCAL Numbers == 1..MaxPipeConnections
Ends == Numbers \X Sides \X {"in", "out"}
LOCAL Absent == [at |-> "absent", armed |-> "none"]
LOCAL Fresh == [at |-> "try", armed |-> "none"]
LOCAL Peer(side) == 1 - side

PipeInit ==
    /\ streamPipe = [number |-> 0, last |-> 0, retired |-> FALSE, open |-> [s \in Sides |-> FALSE],
                     claims |-> 0, queue |-> [s \in Sides |-> <<>>]]
    /\ ends = [e \in Ends |-> Absent]
    /\ role = [at |-> "look", fired |-> FALSE, number |-> 0]
    /\ written = [e \in Numbers \X Sides |-> 0] /\ got = [e \in Numbers \X Sides |-> <<>>]
    /\ finished = {}

\* Pipe::notify, as the ends and the accept see it.
Fire(es) == [e \in Ends |-> IF es[e].armed = "armed" THEN [es[e] EXCEPT !.armed = "fired"] ELSE es[e]]
LOCAL RoleFired == role' = [role EXCEPT !.fired = TRUE]

PipeIsCurrent(n) == streamPipe.number = n

EndConnection(p) == [p EXCEPT !.number = 0, !.open = [s \in Sides |-> FALSE], !.queue = [s \in Sides |-> <<>>]]

-----------------------------------------------------------------------------
(* Connecting *)

\* connect, in order of number, with the frontend's two ends attached.
PipeConnect(n) ==
    /\ ~streamPipe.retired /\ n > streamPipe.last /\ streamPipe.number = 0
    /\ streamPipe' = [streamPipe EXCEPT !.number = n, !.last = n, !.open = [s \in Sides |-> TRUE], !.claims = 2,
                                        !.queue = [s \in Sides |-> <<>>]]
    /\ ends' = [Fire(ends) EXCEPT ![<<n, 0, "in">>] = Fresh, ![<<n, 0, "out">>] = Fresh]
    /\ RoleFired /\ UNCHANGED <<written, got, finished>>

\* role_stream::accept looks, and waits for a change it has not seen.
RoleLooks ==
    /\ role.at = "look"
    /\ role' = [role EXCEPT !.at = IF streamPipe.retired THEN "ended" ELSE IF streamPipe.number # 0 THEN "attach" ELSE "wait",
                            !.number = streamPipe.number]
    /\ UNCHANGED <<streamPipe, ends, written, got, finished>>

RoleWakes ==
    /\ role.at = "wait" /\ role.fired
    /\ role' = [role EXCEPT !.at = "look", !.fired = FALSE]
    /\ UNCHANGED <<streamPipe, ends, written, got, finished>>

\* attach, on the connection seen, which may have ended since.
RoleAttaches ==
    /\ role.at = "attach"
    /\ role' = [role EXCEPT !.at = "taken"]
    /\ ends' = [ends EXCEPT ![<<role.number, 1, "in">>] = Fresh, ![<<role.number, 1, "out">>] = Fresh]
    /\ UNCHANGED <<streamPipe, written, got, finished>>

\* The frontend's store retires.
PipeRetires ==
    /\ ~streamPipe.retired
    /\ streamPipe' = [EndConnection(streamPipe) EXCEPT !.retired = TRUE]
    /\ ends' = Fire(ends) /\ RoleFired
    /\ UNCHANGED <<written, got, finished>>

-----------------------------------------------------------------------------
(* An end's attempts *)

\* release_frontend_end.
ReleaseFrontendEnd(p, n, side) ==
    IF side # 0 \/ p.number # n THEN p
    ELSE IF p.claims = 1 THEN [EndConnection(p) EXCEPT !.claims = 0] ELSE [p EXCEPT !.claims = @ - 1]

\* InputEnd::drop: stop_input, then the claim.
DropInput(n, side) ==
    IF streamPipe.number # n THEN streamPipe
    ELSE ReleaseFrontendEnd([streamPipe EXCEPT !.open[Peer(side)] = FALSE, !.queue[Peer(side)] = <<>>], n, side)

\* OutputEnd::drop: close, then the claim.
DropOutput(n, side) ==
    IF streamPipe.number # n THEN streamPipe
    ELSE ReleaseFrontendEnd([streamPipe EXCEPT !.open[side] = FALSE], n, side)

LOCAL DropEnd(e) ==
    /\ streamPipe' = IF e[3] = "in" THEN DropInput(e[1], e[2]) ELSE DropOutput(e[1], e[2])
    /\ ends' = [(IF streamPipe.number = e[1] THEN Fire(ends) ELSE ends) EXCEPT ![e] = [at |-> "gone", armed |-> "none"]]
    /\ IF streamPipe.number = e[1] THEN RoleFired ELSE UNCHANGED role

\* An attempt that moved nothing arms a wait, or waits on the one it armed.
MovedNothing(e) == ends' = [ends EXCEPT ![e].at = IF ends[e].armed = "none" THEN "arm" ELSE "wait"]

LOCAL Moved(e) == ends' = [Fire(ends) EXCEPT ![e] = Fresh]

\* read_into: what it answers.
ReadInto(e) ==
    LET from == Peer(e[2]) IN
    IF ~PipeIsCurrent(e[1]) THEN "stale"
    ELSE IF streamPipe.queue[from] # <<>> THEN "bytes"
    ELSE IF streamPipe.open[from] THEN "none" ELSE "closed"

\* poll_produce, by what the read answers; an error ends the stream.
AttemptRead(e) ==
    /\ e[3] = "in" /\ ends[e].at = "try"
    /\ \/ /\ ReadInto(e) \in {"stale", "closed"}
          /\ DropEnd(e)
          /\ finished' = IF ReadInto(e) = "closed" THEN finished \cup {e} ELSE finished
          /\ UNCHANGED got
       \/ /\ ReadInto(e) = "bytes"
          /\ got' = [got EXCEPT ![<<e[1], e[2]>>] = Append(@, Head(streamPipe.queue[Peer(e[2])]))]
          /\ streamPipe' = [streamPipe EXCEPT !.queue[Peer(e[2])] = Tail(@)]
          /\ Moved(e) /\ RoleFired /\ UNCHANGED finished
       \/ /\ ReadInto(e) = "none"
          /\ MovedNothing(e) /\ UNCHANGED <<streamPipe, role, got, finished>>
    /\ UNCHANGED written

\* try_write: what it answers.
TryWrite(e) ==
    IF ~PipeIsCurrent(e[1]) THEN "stale"
    ELSE IF ~streamPipe.open[e[2]] THEN "closed"
    ELSE IF Len(streamPipe.queue[e[2]]) < PipeCapacity THEN "bytes" ELSE "none"

\* poll_consume; a component with no bytes left drops its writer.
AttemptWrite(e) ==
    LET k == written[<<e[1], e[2]>>] IN
    /\ e[3] = "out" /\ ends[e].at = "try"
    /\ \/ /\ k = PipeBytes \/ TryWrite(e) \in {"stale", "closed"}
          /\ DropEnd(e) /\ UNCHANGED written
       \/ /\ k < PipeBytes /\ TryWrite(e) = "bytes"
          /\ streamPipe' = [streamPipe EXCEPT !.queue[e[2]] = Append(@, <<e[1], e[2], k + 1>>)]
          /\ written' = [written EXCEPT ![<<e[1], e[2]>>] = @ + 1]
          /\ Moved(e) /\ RoleFired
       \/ /\ k < PipeBytes /\ TryWrite(e) = "none"
          /\ MovedNothing(e) /\ UNCHANGED <<streamPipe, role, written>>
    /\ UNCHANGED <<got, finished>>

\* Retry::poll arms, counting changes from now, and has the attempt repeated.
ArmWait(e) ==
    /\ ends[e].at = "arm"
    /\ ends' = [ends EXCEPT ![e] = [at |-> "try", armed |-> "armed"]]
    /\ UNCHANGED <<streamPipe, role, written, got, finished>>

\* Retry::poll, when the wait it armed is over.
WaitEnds(e) ==
    /\ ends[e].at = "wait" /\ ends[e].armed = "fired"
    /\ ends' = [ends EXCEPT ![e] = Fresh]
    /\ UNCHANGED <<streamPipe, role, written, got, finished>>

\* The component drops its end.
ComponentDropsEnd(e) ==
    /\ ends[e].at = "wait"
    /\ DropEnd(e) /\ UNCHANGED <<written, got, finished>>

PipeProgress ==
    \/ RoleLooks \/ RoleWakes \/ RoleAttaches
    \/ \E e \in Ends : AttemptRead(e) \/ AttemptWrite(e) \/ ArmWait(e) \/ WaitEnds(e)

PipeNext ==
    \/ \E n \in Numbers : PipeConnect(n)
    \/ RoleLooks \/ RoleWakes \/ RoleAttaches \/ PipeRetires
    \/ \E e \in Ends : AttemptRead(e) \/ AttemptWrite(e) \/ ArmWait(e) \/ WaitEnds(e) \/ ComponentDropsEnd(e)

PipeSpec == PipeInit /\ [][PipeNext]_pipeVars

-----------------------------------------------------------------------------
(* Properties *)

\* What an end reads is what the other side of the same connection wrote, in
\* order and from the start, whatever connections came before and after; and
\* an end that reads the other side's close has read all of it.
PipeKeepsConnections ==
    \A n \in Numbers, side \in Sides :
        LET read == got[<<n, side>>] IN
        /\ read = [k \in 1..Len(read) |-> <<n, Peer(side), k>>]
        /\ Len(read) <= written[<<n, Peer(side)>>]
        /\ <<n, side, "in">> \in finished => Len(read) = written[<<n, Peer(side)>>]

LOCAL CouldMove(e) ==
    \/ streamPipe.number # e[1]
    \/ e[3] = "in" /\ (streamPipe.queue[Peer(e[2])] # <<>> \/ ~streamPipe.open[Peer(e[2])])
    \/ e[3] = "out" /\ (Len(streamPipe.queue[e[2]]) < PipeCapacity \/ ~streamPipe.open[e[2]])

\* No end sleeps on a pipe it could read, write or leave, and the agent does
\* not wait for a connection that is there.
NoEndSleeps ==
    /\ \A e \in Ends : ~(ends[e].at = "wait" /\ CouldMove(e))
    /\ ~(role.at = "wait" /\ (streamPipe.number # 0 \/ streamPipe.retired))

------------------------------------------------------------------------------
(***************************************************************************)
(* The agent component and its host (components/agent, terra-runtime       *)
(* component/agent.rs and agent/host.rs): the session with the guest's     *)
(* agent over its carrier, the lifecycle events and diagnostics that go to *)
(* the host, the terminals' sockets bridged into the session, and the end  *)
(* of the component, which the host asks for or the loss of the carrier    *)
(* brings.                                                                 *)
(*                                                                         *)
(* The guest sends "ready" and then "exit" on its control stream, and      *)
(* diagnostics on a second one; it leaves the carrier open to the end, but *)
(* may crash at any time.                                                  *)
(***************************************************************************)

CONSTANTS AgentClients, MaxClientStreams, MaxDiagnostics, EventCapacity, DiagnosticCapacity

VARIABLES carrier,    \* the pipe to the guest: "none", "open", "ended"
          agentControl,    \* the control stream: frames written by the guest, not read
          guestSent,  \* how many of its control frames the guest has written
          console,    \* diagnostics written by the guest: number, and not read
          agentSession,    \* run_session: its place
          events,     \* the lifecycle channel
          notes,      \* the diagnostics channel
          writing,    \* what forward_events is writing, or "none"
          closed,     \* CLOSED
          host,       \* the host's loop
          delivered,  \* what deliver_events has handled
          file,       \* the diagnostics the sink's thread has written
          agentClient      \* of each client: its place and its leases

agentCompVars == <<carrier, agentControl, guestSent, console, agentSession, events, notes, writing, closed, host, delivered, file, agentClient>>

LOCAL Frames == <<"ready", "exit">>
\* HostClient::connect: the resource and its two streams hold the lease.
LeaseHolders == {"resource", "input", "output"}
LOCAL NotThere == [at |-> "new", leases |-> {}]

AgentCompInit ==
    /\ carrier = "none" /\ agentControl = <<>> /\ guestSent = 0 /\ console = [sent |-> 0, unread |-> 0]
    /\ agentSession = "accept" /\ events = <<>> /\ notes = <<>> /\ writing = "none"
    /\ closed = FALSE
    /\ host = [asked |-> FALSE, at |-> "running", result |-> "none"]
    /\ delivered = <<>> /\ file = 0
    /\ agentClient = [c \in AgentClients |-> NotThere]

LOCAL WorkerRuns == agentSession # "over"
LOCAL Note(kind) == kind \in {"note", "lost"}

-----------------------------------------------------------------------------
(* The guest *)

AgentGuestConnects ==
  /\ carrier = "none" /\ carrier' = "open"
  /\ UNCHANGED <<agentControl, guestSent, console, agentSession, events, notes, writing, closed, host, delivered, file, agentClient>>

GuestReports ==
    /\ carrier = "open" /\ guestSent < Len(Frames)
    /\ agentControl' = Append(agentControl, Frames[guestSent + 1]) /\ guestSent' = guestSent + 1
    /\ UNCHANGED <<carrier, console, agentSession, events, notes, writing, closed, host, delivered, file, agentClient>>

GuestLogs ==
    /\ carrier = "open" /\ console.sent < MaxDiagnostics
    /\ console' = [sent |-> console.sent + 1, unread |-> console.unread + 1]
    /\ UNCHANGED <<carrier, agentControl, guestSent, agentSession, events, notes, writing, closed, host, delivered, file, agentClient>>

\* The guest, or the vsock device between, is gone.
CarrierEnds ==
    /\ carrier = "open" /\ carrier' = "ended"
    /\ UNCHANGED <<agentControl, guestSent, console, agentSession, events, notes, writing, closed, host, delivered, file, agentClient>>

-----------------------------------------------------------------------------
(* The component *)

\* accept_carrier, and the Connected event.
AcceptCarrier ==
    /\ agentSession = "accept" /\ carrier # "none" /\ Len(events) < EventCapacity
    /\ events' = Append(events, "connected") /\ agentSession' = "mux"
    /\ UNCHANGED <<carrier, agentControl, guestSent, console, notes, writing, closed, host, delivered, file, agentClient>>

\* read_lifecycle, a frame.
ReadLifecycle ==
    /\ agentSession = "mux" /\ agentControl # <<>> /\ Len(events) < EventCapacity
    /\ events' = Append(events, Head(agentControl)) /\ agentControl' = Tail(agentControl)
    /\ UNCHANGED <<carrier, guestSent, console, agentSession, notes, writing, closed, host, delivered, file, agentClient>>

ReadDiagnostics ==
    /\ agentSession = "mux" /\ console.unread > 0 /\ Len(notes) < DiagnosticCapacity
    /\ notes' = Append(notes, "note") /\ console' = [console EXCEPT !.unread = @ - 1]
    /\ UNCHANGED <<carrier, agentControl, guestSent, agentSession, events, writing, closed, host, delivered, file, agentClient>>

\* What ends when run_mux returns: the bridges, and the clients not taken.
DropClients == [c \in AgentClients |-> IF agentClient[c].at \in {"queued", "bridged"} THEN [at |-> "done", leases |-> {}] ELSE agentClient[c]]

\* run_mux returns: the carrier's end is seen by serve_clients, before or
\* after what the streams still hold is read.
SessionEnds ==
    /\ agentSession = "mux" /\ carrier = "ended"
    /\ agentSession' = "report" /\ agentClient' = DropClients
    /\ UNCHANGED <<carrier, agentControl, guestSent, console, events, notes, writing, closed, host, delivered, file>>

ReportDisconnected ==
    /\ agentSession = "report" /\ Len(events) < EventCapacity
    /\ events' = Append(events, "disconnected") /\ agentSession' = "explain"
    /\ UNCHANGED <<carrier, agentControl, guestSent, console, notes, writing, closed, host, delivered, file, agentClient>>

ExplainLoss ==
    /\ agentSession = "explain" /\ Len(notes) < DiagnosticCapacity
    /\ notes' = Append(notes, "lost") /\ agentSession' = "delivery"
    /\ UNCHANGED <<carrier, agentControl, guestSent, console, events, writing, closed, host, delivered, file, agentClient>>

\* The session is over once the host took the explanation (delivery.await); a
\* writer that is gone drops the sender, too.
FinishSession ==
    /\ agentSession = "delivery" /\ "lost" \notin Range(notes) /\ writing # "lost"
    /\ agentSession' = "over"
    /\ UNCHANGED <<carrier, agentControl, guestSent, console, events, notes, writing, closed, host, delivered, file, agentClient>>

\* forward_events: lifecycle events go before diagnostics.
AgentForwardEvent ==
  /\ WorkerRuns /\ writing = "none"
  /\ \/ events # <<>> /\ writing' = Head(events) /\ events' = Tail(events) /\ UNCHANGED notes
     \/ events = <<>> /\ notes # <<>> /\ writing' = Head(notes) /\ notes' = Tail(notes) /\ UNCHANGED events
  /\ UNCHANGED <<carrier, agentControl, guestSent, console, agentSession, closed, host, delivered, file, agentClient>>

\* run_worker: wait_closed ends the session, wherever it is; a write is
\* cancelled, or was just taken.
WorkerCloses ==
    /\ closed /\ WorkerRuns
    /\ agentSession' = "over" /\ agentClient' = DropClients /\ writing' \in {writing, "none"}
    /\ UNCHANGED <<carrier, agentControl, guestSent, console, events, notes, closed, host, delivered, file>>

-----------------------------------------------------------------------------
(* The host's loop *)

\* deliver_events, an event taken from the relay.
DeliverEvent ==
    /\ host.at \in {"running", "closing"} /\ writing # "none"
    /\ delivered' = Append(delivered, writing) /\ writing' = "none"
    /\ UNCHANGED <<carrier, agentControl, guestSent, console, agentSession, events, notes, closed, host, file, agentClient>>

\* Agent::close_async.
AskClose ==
    /\ ~host.asked
    /\ host' = [host EXCEPT !.asked = TRUE]
    /\ UNCHANGED <<carrier, agentControl, guestSent, console, agentSession, events, notes, writing, closed, delivered, file, agentClient>>

\* The loop hears of it, and calls close.
CallClose ==
    /\ host.asked /\ host.at = "running"
    /\ host' = [host EXCEPT !.at = "closing"] /\ closed' = TRUE
    /\ UNCHANGED <<carrier, agentControl, guestSent, console, agentSession, events, notes, writing, delivered, file, agentClient>>

\* The event stream has ended; it is an error unless the end was asked for.
DeliveryEnds ==
    /\ host.at \in {"running", "closing"} /\ ~WorkerRuns /\ writing = "none"
    /\ host' = [host EXCEPT !.at = "flushing", !.result = IF host.asked THEN "ok" ELSE "disconnected"]
    /\ UNCHANGED <<carrier, agentControl, guestSent, console, agentSession, events, notes, writing, closed, delivered, file, agentClient>>

LOCAL Notes(s) == Len(SelectSeq(s, Note))

\* The sink's thread writes a batch.
WriteDiagnostic ==
    /\ file < Notes(delivered)
    /\ file' = file + 1
    /\ UNCHANGED <<carrier, agentControl, guestSent, console, agentSession, events, notes, writing, closed, host, delivered, agentClient>>

\* DiagnosticSink::finish, then the completion.
FinishHost ==
    /\ host.at = "flushing" /\ file = Notes(delivered)
    /\ host' = [host EXCEPT !.at = "done"]
    /\ UNCHANGED <<carrier, agentControl, guestSent, console, agentSession, events, notes, writing, closed, delivered, file, agentClient>>

-----------------------------------------------------------------------------
(* Clients *)

SlotsUsed == Cardinality({c \in AgentClients : agentClient[c].leases # {}})

\* accept_client: with no slot, the socket is closed at once.
AcceptClient(c) ==
    /\ agentClient[c].at = "new" /\ agentSession = "mux"
    /\ agentClient' = [agentClient EXCEPT ![c] = IF SlotsUsed < MaxClientStreams
                                                 THEN [at |-> "queued", leases |-> {"resource"}]
                                                 ELSE [at |-> "refused", leases |-> {}]]
    /\ UNCHANGED <<carrier, agentControl, guestSent, console, agentSession, events, notes, writing, closed, host, delivered, file>>

LOCAL Bridges == Cardinality({c \in AgentClients : agentClient[c].at = "bridged"})

\* serve_clients takes the client: a stream of its own, or none to spare.
TakeClient(c) ==
    /\ agentClient[c].at = "queued" /\ agentSession = "mux" /\ carrier = "open"
    /\ agentClient' = [agentClient EXCEPT ![c] = IF Bridges < MaxClientStreams
                                                 THEN [at |-> "bridged", leases |-> LeaseHolders]
                                                 ELSE [at |-> "dropped", leases |-> {}]]
    /\ UNCHANGED <<carrier, agentControl, guestSent, console, agentSession, events, notes, writing, closed, host, delivered, file>>

\* A direction of the bridge ends: an end of stream, or an error.
DirectionEnds(c, part) ==
    /\ agentClient[c].at = "bridged" /\ part \in agentClient[c].leases \ {"resource"}
    /\ agentClient' = [agentClient EXCEPT ![c].leases = @ \ {part}]
    /\ UNCHANGED <<carrier, agentControl, guestSent, console, agentSession, events, notes, writing, closed, host, delivered, file>>

\* Both have: the bridge's future is done, and drops the client.
BridgeEnds(c) ==
    /\ agentClient[c].at = "bridged" /\ agentClient[c].leases \subseteq {"resource"}
    /\ agentClient' = [agentClient EXCEPT ![c] = [at |-> "done", leases |-> {}]]
    /\ UNCHANGED <<carrier, agentControl, guestSent, console, agentSession, events, notes, writing, closed, host, delivered, file>>

AgentCompProgress ==
    \/ AcceptCarrier \/ ReadLifecycle \/ ReadDiagnostics \/ SessionEnds \/ ReportDisconnected \/ ExplainLoss
    \/ FinishSession \/ AgentForwardEvent \/ WorkerCloses \/ DeliverEvent \/ CallClose \/ DeliveryEnds
    \/ WriteDiagnostic \/ FinishHost
    \/ \E c \in AgentClients : TakeClient(c) \/ BridgeEnds(c)

AgentCompNext ==
    \/ AgentGuestConnects \/ GuestReports \/ GuestLogs \/ CarrierEnds
    \/ AcceptCarrier \/ ReadLifecycle \/ ReadDiagnostics \/ SessionEnds \/ ReportDisconnected \/ ExplainLoss
    \/ FinishSession \/ AgentForwardEvent \/ WorkerCloses
    \/ DeliverEvent \/ AskClose \/ CallClose \/ DeliveryEnds \/ WriteDiagnostic \/ FinishHost
    \/ \E c \in AgentClients :
        \/ AcceptClient(c) \/ TakeClient(c) \/ BridgeEnds(c)
        \/ \E part \in LeaseHolders : DirectionEnds(c, part)

AgentCompSpec == AgentCompInit /\ [][AgentCompNext]_agentCompVars

-----------------------------------------------------------------------------
(* Properties *)

LOCAL Lifecycle == SelectSeq(delivered, LAMBDA e : ~Note(e))

\* The host hears of the session in the order it happened, the loss of the
\* carrier last and explained only after it was reported; no slot is kept
\* by a client that is gone, nor given away while its bridge runs, so a client
\* that got a slot is bridged; and when the agent has ended, all that was
\* delivered of its diagnostics is in the file.
AgentTellsInOrder ==
    /\ Lifecycle \in {SubSeq(<<"connected", "ready", "exit">>, 1, n) \o tail : n \in 0..3, tail \in {<<>>, <<"disconnected">>}}
    /\ "lost" \in Range(delivered) => "disconnected" \in Range(delivered)
    /\ SlotsUsed <= MaxClientStreams /\ \A c \in AgentClients : agentClient[c].at # "dropped"
    /\ host.at = "done" => file = Notes(delivered)

\* An agent asked to close does; and one whose guest is lost ends with the host
\* told so and why, unless it was asked to close.
AgentIsOver ==
    /\ host.asked => host.at = "done"
    /\ carrier = "ended" =>
           /\ host.at = "done"
           /\ host.result = "ok" \/ {"disconnected", "lost"} \subseteq Range(delivered)
==============================================================================
