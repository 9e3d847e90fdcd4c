----------------------------- MODULE NetFlows -----------------------------
EXTENDS Integers, Sequences, FiniteSets

(***************************************************************************)
(* One TCP flow of a box: the guest's send and receive calls on the broker *)
(* interface (terra-runtime component/network/broker_linker.rs), the       *)
(* flow's client (terra-network client/tcp.rs), the yamux stream between   *)
(* them and the broker, and the broker's relay to the socket               *)
(* (server/tcp.rs).                                                        *)
(*                                                                         *)
(* Chunks of data are numbered; a direction is a first-in first-out queue. *)
(***************************************************************************)

CONSTANTS UpChunks,        \* chunks the guest sends
          DownChunks,      \* chunks the peer sends
          MaxQueuedFrames, \* MAX_QUEUED_FRAMES
          StreamWindow     \* frames the yamux stream holds per direction

ASSUME TcpBounds == {UpChunks, DownChunks, MaxQueuedFrames, StreamWindow} \subseteq Nat \ {0}

VARIABLES guestEnd,  \* the guest: chunks written, its stream ended, the halves it dropped
          upload,    \* the task of upload_chunks, with TcpUpload
          tcpReader,    \* the task of run_reader
          tcpFlow,      \* FlowState, is_fin_sent and the close token
          download,  \* the receive stream: queued items and how it ended
          link,      \* the yamux stream, both directions
          relay,     \* the broker's relay
          peer       \* the socket and the process behind it

tcpVars == <<guestEnd, upload, tcpReader, tcpFlow, download, link, relay, peer>>

LOCAL Room(queue) == Len(queue) < StreamWindow
None == "none"

TcpInit ==
    /\ guestEnd = [wrote |-> 0, chunks |-> <<>>, ended |-> FALSE, cancelled |-> FALSE]
    /\ upload = [pc |-> "next", chunk |-> 0, result |-> None]
    /\ tcpReader = [pc |-> "read", hasData |-> TRUE, item |-> 0]
    /\ tcpFlow = [shutdown |-> None, failure |-> FALSE, finSent |-> FALSE, closed |-> FALSE]
    /\ download = [items |-> <<>>, ended |-> FALSE, got |-> 0, result |-> None]
    /\ link = [up |-> <<>>, down |-> <<>>, up_end |-> FALSE, down_end |-> FALSE]
    /\ relay = [down |-> "read", up |-> "read", event |-> None, chunk |-> 0, ended |-> FALSE]
    /\ peer = [got |-> 0, sawEnd |-> FALSE, sent |-> 0, read |-> 0, fin |-> FALSE, reset |-> FALSE]

-----------------------------------------------------------------------------
(* The guest. *)

GuestWrites ==
    /\ guestEnd.wrote < UpChunks /\ ~guestEnd.ended /\ ~guestEnd.cancelled /\ guestEnd.chunks = <<>>
    /\ guestEnd' = [guestEnd EXCEPT !.wrote = @ + 1, !.chunks = <<guestEnd.wrote + 1>>]
    /\ UNCHANGED <<upload, tcpReader, tcpFlow, download, link, relay, peer>>

GuestEndsStream ==
    /\ ~guestEnd.ended /\ ~guestEnd.cancelled
    /\ \/ guestEnd.wrote = UpChunks /\ guestEnd' = [guestEnd EXCEPT !.ended = TRUE]
       \/ guestEnd' = [guestEnd EXCEPT !.cancelled = TRUE]
    /\ UNCHANGED <<upload, tcpReader, tcpFlow, download, link, relay, peer>>

\* Drop for BrokerTcp: the resource goes away while its streams are in use.
DropResource ==
    /\ ~tcpFlow.closed
    /\ tcpFlow' = [tcpFlow EXCEPT !.closed = TRUE]
    /\ UNCHANGED <<guestEnd, upload, tcpReader, download, link, relay, peer>>

\* The receive stream is dropped: the download half goes, the flow keeps uploading.
DropDownload ==
    /\ download.result = None
    /\ download' = [download EXCEPT !.result = "dropped", !.items = <<>>]
    /\ UNCHANGED <<guestEnd, upload, tcpReader, tcpFlow, link, relay, peer>>

\* A mutant: the end of the queue is the peer's Eof.
NextChunkEnd == "ok"

\* The end of next_chunk: a flow that was closed did not end with Eof.
ChunkEnd == IF tcpFlow.closed THEN "closed" ELSE "ok"

\* next_chunk and finish_on_end.
GuestReads ==
    /\ download.result = None
    /\ \/ /\ download.items # <<>> /\ Head(download.items) # -1
          /\ download' = [download EXCEPT !.items = Tail(@), !.got = Head(download.items)]
       \/ /\ download.items # <<>> /\ Head(download.items) = -1
          /\ download' = [download EXCEPT !.items = <<>>, !.result = "failed"]
       \/ /\ download.items = <<>> /\ download.ended
          /\ download' = [download EXCEPT !.result = ChunkEnd]
    /\ UNCHANGED <<guestEnd, upload, tcpReader, tcpFlow, link, relay, peer>>

-----------------------------------------------------------------------------
(* The upload task (upload_chunks, TcpUpload).                              *)

LOCAL UploadEnds(result) == upload' = [upload EXCEPT !.pc = "done", !.result = result]

\* The biased select: the resource was dropped, or the guest's write cancelled.
UploadCancelled ==
    /\ upload.pc # "done" /\ (tcpFlow.closed \/ guestEnd.cancelled)
    /\ UploadEnds("cancelled")
    /\ UNCHANGED <<guestEnd, tcpReader, tcpFlow, download, link, relay, peer>>

\* wait_failed, and the failure that write, finish and wait_for look for.
UploadFails ==
    /\ upload.pc \in {"next", "write", "wait"} /\ tcpFlow.failure /\ ~tcpFlow.closed /\ ~guestEnd.cancelled
    /\ upload.pc = "wait" => tcpFlow.shutdown = None
    /\ UploadEnds("failed")
    /\ tcpFlow' = [tcpFlow EXCEPT !.closed = TRUE]
    /\ UNCHANGED <<guestEnd, tcpReader, download, link, relay, peer>>

\* The loop of upload_chunks: the next chunk, or the end of the guest's stream.
UploadNext ==
    /\ upload.pc = "next" /\ ~tcpFlow.closed /\ ~guestEnd.cancelled
    /\ \/ /\ guestEnd.chunks # <<>>
          /\ upload' = [upload EXCEPT !.pc = "write", !.chunk = Head(guestEnd.chunks)]
          /\ guestEnd' = [guestEnd EXCEPT !.chunks = <<>>]
          /\ UNCHANGED <<tcpFlow, link>>
       \/ /\ guestEnd.chunks = <<>> /\ guestEnd.ended /\ ~tcpFlow.failure
          /\ upload' = [upload EXCEPT !.pc = "fin"]
          /\ tcpFlow' = [tcpFlow EXCEPT !.finSent = TRUE]
          /\ UNCHANGED <<guestEnd, link>>
    /\ UNCHANGED <<tcpReader, download, relay, peer>>

UploadWrites ==
    /\ upload.pc = "write" /\ ~tcpFlow.failure /\ ~tcpFlow.closed /\ ~guestEnd.cancelled
    /\ \/ /\ ~link.down_end /\ Room(link.up)
          /\ link' = [link EXCEPT !.up = Append(@, upload.chunk)]
          /\ upload' = [upload EXCEPT !.pc = "next"]
          /\ tcpFlow' = tcpFlow
       \/ /\ link.down_end
          /\ UploadEnds("failed") /\ tcpFlow' = [tcpFlow EXCEPT !.closed = TRUE] /\ link' = link
    /\ UNCHANGED <<guestEnd, tcpReader, download, relay, peer>>

\* finish: the stream is shut down for writing.
UploadShutsDown ==
    /\ upload.pc = "fin" /\ ~tcpFlow.closed /\ ~guestEnd.cancelled
    /\ \/ ~link.down_end /\ upload' = [upload EXCEPT !.pc = "wait"] /\ link' = [link EXCEPT !.up_end = TRUE] /\ tcpFlow' = tcpFlow
       \/ link.down_end /\ UploadEnds("failed") /\ tcpFlow' = [tcpFlow EXCEPT !.closed = TRUE] /\ link' = link
    /\ UNCHANGED <<guestEnd, tcpReader, download, relay, peer>>

\* finish: the broker said how the shutdown went, or the reader ended without.
UploadFinishes ==
    /\ upload.pc = "wait" /\ ~tcpFlow.closed /\ ~guestEnd.cancelled
    /\ \/ tcpFlow.shutdown # None /\ UploadEnds(tcpFlow.shutdown)
       \/ tcpFlow.shutdown = None /\ ~tcpFlow.failure /\ tcpReader.pc = "ended" /\ UploadEnds("failed")
    /\ tcpFlow' = [tcpFlow EXCEPT !.closed = @ \/ upload'.result # "ok"]
    /\ UNCHANGED <<guestEnd, tcpReader, download, link, relay, peer>>

-----------------------------------------------------------------------------
(* The reader task. *)

\* The task is gone: the sender of the items is dropped with it.
LOCAL ReaderEnds == /\ tcpReader' = [tcpReader EXCEPT !.pc = "ended", !.hasData = FALSE]
                    /\ download' = [download EXCEPT !.ended = TRUE]

\* run_reader: the flow is closed, or both halves are dropped.
ReaderCancelled ==
    /\ tcpReader.pc # "ended"
    /\ tcpFlow.closed \/ (upload.pc = "done" /\ download.result # None)
    /\ ReaderEnds
    /\ UNCHANGED <<guestEnd, upload, tcpFlow, link, relay, peer>>

\* Reader::fail sets the failure and, while the data half is open, queues it.
LOCAL Fail == /\ tcpFlow' = [tcpFlow EXCEPT !.failure = TRUE]
              /\ tcpReader' = [tcpReader EXCEPT !.pc = IF tcpReader.hasData THEN "failing" ELSE "return"]

ReaderReads ==
    /\ tcpReader.pc = "read" /\ link.down # <<>>
    /\ link' = [link EXCEPT !.down = Tail(@)]
    /\ LET event == Head(link.down)
       IN  CASE event.kind = "data" /\ tcpReader.hasData ->
                  tcpReader' = [tcpReader EXCEPT !.pc = "sending", !.item = event.chunk] /\ UNCHANGED <<tcpFlow, download>>
             [] event.kind = "eof" /\ tcpReader.hasData ->
                  /\ tcpReader' = [tcpReader EXCEPT !.hasData = FALSE,
                                                    !.pc = IF tcpFlow.shutdown # None THEN "return" ELSE "read"]
                  /\ download' = [download EXCEPT !.ended = TRUE] /\ tcpFlow' = tcpFlow
             [] event.kind = "shutdown" /\ tcpFlow.shutdown = None /\ tcpFlow.finSent ->
                  /\ tcpFlow' = [tcpFlow EXCEPT !.shutdown = event.result]
                  /\ tcpReader' = [tcpReader EXCEPT !.pc = IF tcpReader.hasData THEN "read" ELSE "return"]
                  /\ download' = download
             [] OTHER -> Fail /\ download' = download
    /\ UNCHANGED <<guestEnd, upload, relay, peer>>

\* The stream ended: a failure, unless the reader had returned before.
ReaderSeesEnd ==
    /\ tcpReader.pc = "read" /\ link.down = <<>> /\ link.down_end
    /\ Fail
    /\ UNCHANGED <<guestEnd, upload, download, link, relay, peer>>

\* data.send: waits for room, and goes on at once when the download is gone.
ReaderDelivers ==
    /\ tcpReader.pc \in {"sending", "failing"}
    /\ \/ /\ download.result = None /\ Len(download.items) < MaxQueuedFrames
          /\ download' = [download EXCEPT !.items = Append(@, IF tcpReader.pc = "sending" THEN tcpReader.item ELSE -1)]
       \/ download.result # None /\ download' = download
    /\ tcpReader' = [tcpReader EXCEPT !.pc = IF tcpReader.pc = "sending" THEN "read" ELSE "return"]
    /\ UNCHANGED <<guestEnd, upload, tcpFlow, link, relay, peer>>

ReaderReturns ==
    /\ tcpReader.pc = "return" /\ ReaderEnds
    /\ UNCHANGED <<guestEnd, upload, tcpFlow, link, relay, peer>>

\* Both halves of the client's stream are dropped: the broker reads an end.
StreamDropped == upload.pc = "done" /\ tcpReader.pc = "ended"

-----------------------------------------------------------------------------
(* The broker's relay. *)

LOCAL Event(kind, chunk, result) == [kind |-> kind, chunk |-> chunk, result |-> result]
LOCAL RelayEnds == /\ relay' = [relay EXCEPT !.ended = TRUE, !.down = "done", !.up = "done"]
                   /\ link' = [link EXCEPT !.down_end = TRUE]

\* download: read_some, then the event is sent.
RelayReads ==
    /\ ~relay.ended /\ relay.down = "read"
    /\ \/ peer.reset /\ relay' = [relay EXCEPT !.down = "send", !.event = Event("failed", 0, None)] /\ peer' = peer
       \/ /\ ~peer.reset /\ peer.read < peer.sent
          /\ relay' = [relay EXCEPT !.down = "send", !.event = Event("data", peer.read + 1, None)]
          /\ peer' = [peer EXCEPT !.read = @ + 1]
       \/ /\ ~peer.reset /\ peer.read = peer.sent /\ peer.fin
          /\ relay' = [relay EXCEPT !.down = "send", !.event = Event("eof", 0, None)] /\ peer' = peer
    /\ UNCHANGED <<guestEnd, upload, tcpReader, tcpFlow, download, link>>

RelaySends ==
    /\ ~relay.ended /\ relay.down = "send"
    /\ \/ StreamDropped /\ RelayEnds
       \/ /\ ~StreamDropped /\ Room(link.down)
          /\ LET sent == [link EXCEPT !.down = Append(@, relay.event)]
             IN  CASE relay.event.kind = "data" -> relay' = [relay EXCEPT !.down = "read"] /\ link' = sent
                   [] relay.event.kind = "eof" /\ relay.up # "done" ->
                        relay' = [relay EXCEPT !.down = "done"] /\ link' = sent
                   [] OTHER -> /\ relay' = [relay EXCEPT !.ended = TRUE, !.down = "done", !.up = "done"]
                               /\ link' = [sent EXCEPT !.down_end = TRUE]
    /\ UNCHANGED <<guestEnd, upload, tcpReader, tcpFlow, download, peer>>

\* upload: what the stream gives next; a dropped stream reads as its end.
RelayTakes ==
    /\ ~relay.ended /\ relay.up = "read"
    /\ \/ /\ link.up # <<>>
          /\ relay' = [relay EXCEPT !.up = "write", !.chunk = Head(link.up)]
          /\ link' = [link EXCEPT !.up = Tail(@)] /\ peer' = peer
       \/ /\ link.up = <<>> /\ (link.up_end \/ StreamDropped)
          /\ relay' = [relay EXCEPT !.up = IF peer.reset THEN "say failed" ELSE "say ok"]
          /\ peer' = [peer EXCEPT !.sawEnd = ~peer.reset] /\ link' = link
    /\ UNCHANGED <<guestEnd, upload, tcpReader, tcpFlow, download>>

\* write_all.
RelayWrites ==
    /\ ~relay.ended /\ relay.up = "write"
    /\ \/ /\ ~peer.reset /\ relay' = [relay EXCEPT !.up = "read"]
          /\ peer' = [peer EXCEPT !.got = relay.chunk] /\ link' = link
       \/ peer.reset /\ relay' = [relay EXCEPT !.up = "fail"] /\ UNCHANGED <<peer, link>>
    /\ UNCHANGED <<guestEnd, upload, tcpReader, tcpFlow, download>>

\* upload's last event: WriteShutdown with its result, or Failed.
RelaySaysShutdown ==
    /\ ~relay.ended /\ relay.up \in {"say ok", "say failed", "fail"}
    /\ \/ StreamDropped /\ RelayEnds
       \/ /\ ~StreamDropped /\ Room(link.down)
          /\ LET last == IF relay.up = "fail" THEN Event("failed", 0, None)
                         ELSE Event("shutdown", 0, IF relay.up = "say ok" THEN "ok" ELSE "failed")
                 ends == relay.up = "fail" \/ relay.down = "done"
             IN  /\ link' = [link EXCEPT !.down = Append(@, last), !.down_end = ends]
                 /\ relay' = IF ends THEN [relay EXCEPT !.ended = TRUE, !.down = "done", !.up = "done"]
                             ELSE [relay EXCEPT !.up = "done"]
    /\ UNCHANGED <<guestEnd, upload, tcpReader, tcpFlow, download, peer>>

\* wait_tcp_error: after Eof only the upload and the socket's error are watched.
RelaySeesError ==
    /\ ~relay.ended /\ relay.down = "done" /\ relay.up # "done" /\ peer.reset
    /\ \/ StreamDropped /\ RelayEnds
       \/ /\ ~StreamDropped /\ Room(link.down)
          /\ link' = [link EXCEPT !.down = Append(@, Event("failed", 0, None)), !.down_end = TRUE]
          /\ relay' = [relay EXCEPT !.ended = TRUE, !.down = "done", !.up = "done"]
    /\ UNCHANGED <<guestEnd, upload, tcpReader, tcpFlow, download, peer>>

\* The broker dies, or the channel to it is lost, with everything it held.
BrokerGone ==
    /\ ~relay.ended /\ RelayEnds
    /\ UNCHANGED <<guestEnd, upload, tcpReader, tcpFlow, download, peer>>

\* The process at the other end.
PeerActs ==
    /\ ~peer.reset
    /\ \/ peer.sent < DownChunks /\ ~peer.fin /\ peer' = [peer EXCEPT !.sent = @ + 1]
       \/ ~peer.fin /\ peer' = [peer EXCEPT !.fin = TRUE]
       \/ peer' = [peer EXCEPT !.reset = TRUE]
    /\ UNCHANGED <<guestEnd, upload, tcpReader, tcpFlow, download, link, relay>>

TcpNext ==
    \/ GuestWrites \/ GuestEndsStream \/ DropResource \/ DropDownload \/ GuestReads
    \/ UploadCancelled \/ UploadFails \/ UploadNext \/ UploadWrites \/ UploadShutsDown \/ UploadFinishes
    \/ ReaderCancelled \/ ReaderReads \/ ReaderSeesEnd \/ ReaderDelivers \/ ReaderReturns
    \/ RelayReads \/ RelaySends \/ RelayTakes \/ RelayWrites \/ RelaySaysShutdown \/ RelaySeesError
    \/ BrokerGone \/ PeerActs

TcpSpec == TcpInit /\ [][TcpNext]_tcpVars

UploadStep == \/ UploadCancelled \/ UploadFails \/ UploadNext \/ UploadWrites
              \/ UploadShutsDown \/ UploadFinishes
ReaderStep == ReaderCancelled \/ ReaderReads \/ ReaderSeesEnd \/ ReaderDelivers \/ ReaderReturns
RelayStep == RelayReads \/ RelaySends \/ RelaySeesError
RelayUpStep == RelayTakes \/ RelayWrites \/ RelaySaysShutdown

-----------------------------------------------------------------------------
(* Properties *)

TcpTypeOK == /\ upload.result \in {None, "ok", "failed", "cancelled"}
             /\ download.result \in {None, "ok", "failed", "closed", "dropped"}
             /\ Len(download.items) <= MaxQueuedFrames /\ Len(link.down) <= StreamWindow

\* A send that completes without an error put every byte the guest wrote into
\* the socket, and shut it down (client/tcp.rs:190).
SentMeansWritten == upload.result = "ok" => peer.got = UpChunks /\ peer.sawEnd

\* A receive stream that ends without an error gave the guest every byte the
\* peer sent before its end of stream (broker_linker.rs:192).
EndMeansEof == download.result = "ok" => peer.fin /\ download.got = peer.sent

\* A send whose stream the guest ended always completes: with the result of
\* the shutdown, or with the failure of the flow.
SendsComplete == guestEnd.ended \/ guestEnd.cancelled => upload.result # None

------------------------------------------------------------------------------
(***************************************************************************)
(* A UDP flow between the network component's host and the broker: send-to *)
(* and receive calls (terra-runtime broker_linker.rs) on a shared handle,  *)
(* the flow's task (terra-network client/udp.rs), and the broker's loop    *)
(* over the requests (server/udp.rs).  A call may be dropped at every      *)
(* wait; the handle may be closed; the broker's socket may fail.           *)
(***************************************************************************)

CONSTANTS UdpBatches,   \* per send call, the entries of its batch: "ok" or "bad" to forward
          UdpReceives,  \* the receive calls
          MaxUdpDrops   \* bound on the calls that are dropped

VARIABLES ucall,   \* per call: pc, result
          uflow,   \* Inner: outstanding flags, reply locks and queues, request queue, closed
          urun,    \* the flow's task: "run" or "ended"
          ulink,   \* the frames in each direction
          userver, \* the broker's loop: the requests in progress
          uhost    \* what the broker did: failures per request, batches received; and drops

uvars == <<ucall, uflow, urun, ulink, userver, uhost>>

LOCAL Sends == DOMAIN UdpBatches
Calls == Sends \cup UdpReceives
LOCAL Kind(c) == IF c \in Sends THEN "send" ELSE "receive"
LOCAL Kinds == {"send", "receive"}
LOCAL UdpNone == 0

\* A mutant: room for one request frame.
RequestCapacityOne == 1

\* UdpFlow::start: the capacity of the request channel.
RequestCapacity == 2

UFlowInit ==
    /\ ucall = [c \in Calls |-> [pc |-> "new", result |-> {}]]
    /\ uflow = [outstanding |-> [k \in Kinds |-> FALSE], lock |-> [k \in Kinds |-> UdpNone],
                replies |-> [k \in Kinds |-> <<>>], requests |-> <<>>,
                closed |-> FALSE, rejected |-> FALSE]
    /\ urun = "run" /\ ulink = [up |-> <<>>, down |-> <<>>]
    /\ userver = [pc |-> "serve", send |-> UdpNone, receive |-> UdpNone]
    /\ uhost = [failed |-> [c \in Sends |-> {}], served |-> {}, received |-> 0, delivered |-> <<>>, drops |-> 0]

-----------------------------------------------------------------------------
(* send_datagrams of broker_linker.rs: entries that cannot be forwarded fail *)
(* here; the others go in one request, and its failures come back by their   *)
(* place in that request.                                                    *)

Rejected(c) == {i \in DOMAIN UdpBatches[c] : UdpBatches[c][i] = "bad"}
ForwardedCount(c) == Cardinality(DOMAIN UdpBatches[c] \ Rejected(c))

\* guest_indices: the guest's index of the n-th forwarded entry.
GuestIndex(c, n) ==
    CHOOSE i \in DOMAIN UdpBatches[c] \ Rejected(c) :
        Cardinality({j \in DOMAIN UdpBatches[c] \ Rejected(c) : j <= i}) = n

-----------------------------------------------------------------------------
(* The calls. *)

LOCAL Return(c, pc, result, flow) ==
    /\ ucall' = [ucall EXCEPT ![c] = [pc |-> pc, result |-> result]]
    /\ uflow' = [flow EXCEPT !.lock[Kind(c)] = IF @ = c THEN UdpNone ELSE @]

\* requests.send: it waits while the channel is full and fails once the task
\* has ended; the flag is set before.
Request(c, flow) ==
    LET asked == [flow EXCEPT !.outstanding[Kind(c)] = TRUE]
    IN  IF urun = "ended" THEN Return(c, "failed", {}, asked)
        ELSE IF Len(flow.requests) < RequestCapacity
        THEN /\ ucall' = [ucall EXCEPT ![c].pc = "wait"]
             /\ uflow' = [asked EXCEPT !.requests = Append(@, c)]
        ELSE ucall' = [ucall EXCEPT ![c].pc = "full"] /\ uflow' = asked

StartCall(c) ==
    /\ ucall[c].pc = "new"
    /\ IF c \in Sends /\ ForwardedCount(c) = 0 THEN Return(c, "done", Rejected(c), uflow)
       ELSE ucall' = [ucall EXCEPT ![c].pc = "lock"] /\ UNCHANGED uflow
    /\ UNCHANGED <<urun, ulink, userver, uhost>>

\* The lock of the kind's replies.  A send whose predecessor was dropped takes
\* that reply first; a receive takes it as its own.
TakeReplies(c) ==
    /\ ucall[c].pc = "lock" /\ uflow.lock[Kind(c)] = UdpNone
    /\ LET flow == [uflow EXCEPT !.lock[Kind(c)] = c]
       IN  IF uflow.outstanding[Kind(c)]
           THEN /\ ucall' = [ucall EXCEPT ![c].pc = IF c \in Sends THEN "drain" ELSE "wait"]
                /\ uflow' = flow
           ELSE Request(c, flow)
    /\ UNCHANGED <<urun, ulink, userver, uhost>>

LOCAL HasReply(c) == uflow.replies[Kind(c)] # <<>>
LOCAL Popped(c) == [uflow EXCEPT !.replies[Kind(c)] = Tail(@), !.outstanding[Kind(c)] = FALSE]

DrainReply(c) ==
    /\ ucall[c].pc = "drain"
    /\ \/ HasReply(c) /\ Request(c, Popped(c))
       \/ ~HasReply(c) /\ urun = "ended" /\ Return(c, "failed", {}, uflow)
    /\ UNCHANGED <<urun, ulink, userver, uhost>>

FindRoom(c) ==
    /\ ucall[c].pc = "full"
    /\ \/ urun = "ended" /\ Return(c, "failed", {}, uflow)
       \/ /\ urun = "run" /\ Len(uflow.requests) < RequestCapacity
          /\ ucall' = [ucall EXCEPT ![c].pc = "wait"]
          /\ uflow' = [uflow EXCEPT !.requests = Append(@, c)]
    /\ UNCHANGED <<urun, ulink, userver, uhost>>

\* The reply of the call.  Failures must lie within the batch, or the client
\* disconnects from the broker.
TakeReply(c) ==
    /\ ucall[c].pc = "wait"
    /\ \/ ~HasReply(c) /\ urun = "ended" /\ Return(c, "failed", {}, uflow) /\ UNCHANGED uhost
       \/ /\ HasReply(c)
          /\ LET reply == Head(uflow.replies[Kind(c)])
             IN  IF c \in UdpReceives
                 THEN /\ Return(c, "done", {reply.n}, Popped(c))
                      /\ uhost' = [uhost EXCEPT !.delivered = Append(@, reply.n)]
                 ELSE IF \A n \in reply.failed : n <= ForwardedCount(c)
                 THEN /\ Return(c, "done", Rejected(c) \cup {GuestIndex(c, n) : n \in reply.failed}, Popped(c))
                      /\ UNCHANGED uhost
                 ELSE Return(c, "failed", {}, [Popped(c) EXCEPT !.rejected = TRUE]) /\ UNCHANGED uhost
    /\ UNCHANGED <<urun, ulink, userver>>

\* The guest drops a call at one of its waits.
DropCall(c) ==
    /\ ucall[c].pc \in {"lock", "drain", "full", "wait"} /\ uhost.drops < MaxUdpDrops
    /\ Return(c, "dropped", {}, uflow)
    /\ uhost' = [uhost EXCEPT !.drops = @ + 1]
    /\ UNCHANGED <<urun, ulink, userver>>

\* BrokerUdp::drop: the resource goes, and every call with it.
CloseFlow ==
    /\ ~uflow.closed
    /\ ucall' = [c \in Calls |-> IF ucall[c].pc \in {"lock", "drain", "full", "wait"}
                                 THEN [pc |-> "failed", result |-> {}]
                                 ELSE IF ucall[c].pc = "new" THEN [ucall[c] EXCEPT !.pc = "dropped"] ELSE ucall[c]]
    /\ uflow' = [uflow EXCEPT !.closed = TRUE, !.lock = [k \in Kinds |-> UdpNone]]
    /\ UNCHANGED <<urun, ulink, userver, uhost>>

-----------------------------------------------------------------------------
(* run: the flow's task. *)

LOCAL EndRun == urun' = "ended"

RunStops ==
    /\ urun = "run" /\ (uflow.closed \/ uflow.rejected)
    /\ EndRun /\ UNCHANGED <<ucall, uflow, ulink, userver, uhost>>

RunWrites ==
    /\ urun = "run" /\ uflow.requests # <<>>
    /\ uflow' = [uflow EXCEPT !.requests = Tail(@)]
    /\ \/ userver.pc = "serve" /\ ulink' = [ulink EXCEPT !.up = Append(@, Head(uflow.requests))] /\ UNCHANGED urun
       \/ userver.pc # "serve" /\ EndRun /\ UNCHANGED ulink
    /\ UNCHANGED <<ucall, userver, uhost>>

\* A reply goes to the waiting call of its kind; one nobody asked for, or
\* that finds the queue full, disconnects the client.
RunReads ==
    /\ urun = "run" /\ ulink.down # <<>>
    /\ LET reply == Head(ulink.down)
       IN  IF reply.kind = "fail" THEN EndRun /\ UNCHANGED uflow
           ELSE IF uflow.outstanding[reply.kind] /\ uflow.replies[reply.kind] = <<>>
           THEN uflow' = [uflow EXCEPT !.replies[reply.kind] = <<reply>>] /\ UNCHANGED urun
           ELSE uflow' = [uflow EXCEPT !.rejected = TRUE] /\ EndRun
    /\ ulink' = [ulink EXCEPT !.down = Tail(@)]
    /\ UNCHANGED <<ucall, userver, uhost>>

RunSeesEnd ==
    /\ urun = "run" /\ ulink.down = <<>> /\ userver.pc # "serve"
    /\ EndRun /\ UNCHANGED <<ucall, uflow, ulink, userver, uhost>>

-----------------------------------------------------------------------------
(* serve: the broker's loop. *)

ServeRequest ==
    /\ userver.pc = "serve" /\ ulink.up # <<>>
    /\ LET c == Head(ulink.up)
       IN  userver' = IF userver[Kind(c)] = UdpNone THEN [userver EXCEPT ![Kind(c)] = c]
                      ELSE [userver EXCEPT !.pc = "concurrent"]
    /\ ulink' = [ulink EXCEPT !.up = Tail(@)]
    /\ UNCHANGED <<ucall, uflow, urun, uhost>>

ServeEnds ==
    /\ userver.pc = "serve" /\ ulink.up = <<>> /\ urun = "ended"
    /\ userver' = [userver EXCEPT !.pc = "ended"]
    /\ UNCHANGED <<ucall, uflow, urun, ulink, uhost>>

\* send_datagrams of the server: each entry is sent or fails.
ServeSent ==
    /\ userver.pc = "serve" /\ userver.send # UdpNone
    /\ LET c == userver.send
       IN  \E failed \in SUBSET (1..ForwardedCount(c)) :
              /\ ulink' = [ulink EXCEPT !.down = Append(@, [kind |-> "send", failed |-> failed, n |-> 0])]
              /\ uhost' = [uhost EXCEPT !.failed[c] = {GuestIndex(c, n) : n \in failed}, !.served = @ \cup {c}]
    /\ userver' = [userver EXCEPT !.send = UdpNone]
    /\ UNCHANGED <<ucall, uflow, urun>>

\* receive_datagrams: a batch, or the failure of the socket, which ends it.
ServeDatagrams ==
    /\ userver.pc = "serve" /\ userver.receive # UdpNone
    /\ \/ /\ uhost' = [uhost EXCEPT !.received = @ + 1]
          /\ ulink' = [ulink EXCEPT !.down = Append(@, [kind |-> "receive", failed |-> {}, n |-> uhost.received + 1])]
          /\ userver' = [userver EXCEPT !.receive = UdpNone]
       \/ /\ ulink' = [ulink EXCEPT !.down = Append(@, [kind |-> "fail", failed |-> {}, n |-> 0])]
          /\ userver' = [userver EXCEPT !.pc = "ended"]
          /\ UNCHANGED uhost
    /\ UNCHANGED <<ucall, uflow, urun>>

-----------------------------------------------------------------------------

CallStep(c) == StartCall(c) \/ TakeReplies(c) \/ DrainReply(c) \/ FindRoom(c) \/ TakeReply(c)
TaskStep == RunStops \/ RunWrites \/ RunReads \/ RunSeesEnd
LOCAL BrokerStep == ServeRequest \/ ServeEnds \/ ServeSent

UFlowNext ==
    \/ \E c \in Calls : CallStep(c) \/ DropCall(c)
    \/ CloseFlow \/ TaskStep \/ BrokerStep \/ ServeDatagrams

UFlowSpec == UFlowInit /\ [][UFlowNext]_uvars

-----------------------------------------------------------------------------
(* Properties *)

UFlowTypeOK ==
    /\ \A c \in Calls : ucall[c].pc \in {"new", "lock", "drain", "full", "wait", "done", "failed", "dropped"}
    /\ Len(uflow.requests) <= RequestCapacity /\ \A k \in Kinds : Len(uflow.replies[k]) <= 1

\* A send that returns reports exactly the entries of its own batch that were
\* not sent, by the guest's index, though calls before it were dropped with
\* their replies on the way; received batches arrive once and in order.
RepliesAreOwn ==
    /\ \A c \in Sends : ucall[c].pc = "done" =>
          ucall[c].result = Rejected(c) \cup uhost.failed[c] /\ (ForwardedCount(c) = 0 \/ c \in uhost.served)
    /\ \A i \in DOMAIN uhost.delivered : uhost.delivered[i] = i

\* The two sides keep to one request of a kind at a time: the broker never
\* meets a second one and the client never a reply that nobody waits for.
OneRequestOfAKind == userver.pc # "concurrent" /\ ~uflow.rejected

\* A send that is not dropped returns, whatever happened to the ones before.
UdpSendsReturn == \A c \in Sends : ucall[c].pc \in {"done", "failed", "dropped"}

------------------------------------------------------------------------------
(***************************************************************************)
(* The broker's streams (terra-network server.rs, server/dns.rs): each     *)
(* stream is one operation with a handler task.  Handlers share the        *)
(* resource, lookup and resolver permits and the owners of listener        *)
(* grants; a client may leave while its operation is prepared.             *)
(***************************************************************************)

CONSTANTS NetStreams,      \* the streams the client opens
          NetOpens,        \* what a stream may ask for: [kind, grant]
          NetListeners,    \* config.listeners: [grant, port, ipv6, tcp, loopback]
          MaxListeners,
          MaxResources, MaxDnsRequests, MaxResolvers

ASSUME NetAssumption == IsFiniteSet(NetStreams) /\ {MaxResources, MaxDnsRequests, MaxResolvers} \subseteq Nat

VARIABLES listeners, \* the listeners that were bound and handed over
          nopen,     \* per stream, the operation
          nstream,   \* per stream: pc, permit held, grant owned
          owned,     \* GrantOwners::owned
          enabled,   \* streams whose wait for a release is registered, and ...
          woken,     \* ... the ones a release has reached since
          lookups,   \* streams that hold a lookup permit
          threads    \* resolver threads that still run, with their permit

netVars == <<listeners, nopen, nstream, owned, enabled, woken, lookups, threads>>

StreamAt(s, pc) == nstream' = [nstream EXCEPT ![s].pc = pc]
PermitHolders == {s \in NetStreams : nstream[s].permit}
HasGrant(s) == nopen[s].kind \in {"accept", "published"}

\* validate_listener_grants: distinct grants on loopback ports.
ValidateListenerGrants(set) ==
    /\ Cardinality(set) <= MaxListeners
    /\ \A l \in set : l.grant # 0 /\ l.loopback /\ l.port # 0
    /\ \A l, m \in set : l.grant = m.grant => l = m

\* is_best_effort_ipv6: an IPv4 listener stands beside it.
IsBestEffortIpv6(l) ==
    l.ipv6 /\ \E other \in NetListeners : ~other.ipv6 /\ other.port = l.port /\ other.tcp = l.tcp

\* bind_listeners: only such a listener may be left out.
BindListeners == {bound \in SUBSET NetListeners : \A l \in NetListeners \ bound : IsBestEffortIpv6(l)}

\* Shared::listeners and Shared::udp_listeners, as adopt_listener fills them.
Adopted(tcp) == {l.grant : l \in {l \in listeners : l.tcp = tcp}}
NetGrants == Adopted(TRUE) \cup Adopted(FALSE)
IsGranted(s) == nopen[s].grant \in Adopted(nopen[s].kind = "accept")

NetInit ==
    /\ ValidateListenerGrants(NetListeners) /\ listeners \in BindListeners
    /\ nopen \in [NetStreams -> NetOpens]
    /\ nstream = [s \in NetStreams |-> [pc |-> "new", permit |-> FALSE, owner |-> FALSE]]
    /\ owned = {} /\ enabled = {} /\ woken = {} /\ lookups = {} /\ threads = {}

\* The handler returns: what it holds is dropped, the owner's drop wakes the
\* streams that wait at that moment.
OwnedWithout(s) == IF nstream[s].owner THEN owned \ {nopen[s].grant} ELSE owned
WakeWaiters(s) ==
    /\ enabled' = IF nstream[s].owner THEN {} ELSE enabled \ {s}
    /\ woken' = IF nstream[s].owner THEN woken \cup enabled ELSE woken \ {s}
Finish(s) ==
    /\ nstream' = [nstream EXCEPT ![s] = [pc |-> "done", permit |-> FALSE, owner |-> FALSE]]
    /\ owned' = OwnedWithout(s) /\ WakeWaiters(s)
    /\ lookups' = lookups \ {s}

\* handle_stream with the head of prepare: denied at once, or admitted.
OpenStream(s) ==
    /\ nstream[s].pc = "new"
    /\ \/ StreamAt(s, "done") /\ UNCHANGED <<owned, enabled, woken, lookups>>
       \/ /\ nopen[s].kind = "resolve" /\ Cardinality(lookups) < MaxDnsRequests
          /\ StreamAt(s, "lookup") /\ lookups' = lookups \cup {s} /\ UNCHANGED <<owned, enabled, woken>>
       \/ /\ nopen[s].kind = "resolve" /\ Cardinality(lookups) >= MaxDnsRequests
          /\ StreamAt(s, "reply") /\ UNCHANGED <<owned, enabled, woken, lookups>>
       \/ /\ HasGrant(s) /\ IsGranted(s)
          /\ StreamAt(s, "claim") /\ UNCHANGED <<owned, enabled, woken, lookups>>
       \/ /\ nopen[s].kind \in {"tcp", "udp"}
          /\ StreamAt(s, "permit") /\ UNCHANGED <<owned, enabled, woken, lookups>>
       \/ /\ HasGrant(s) /\ ~IsGranted(s)
          /\ StreamAt(s, "reply") /\ UNCHANGED <<owned, enabled, woken, lookups>>
    /\ UNCHANGED <<listeners, nopen, threads>>

-----------------------------------------------------------------------------
(* GrantOwners::claim.  The wait for a release is registered first, then the *)
(* grant is tried.                                                          *)

EnableWait(s) ==
    /\ nstream[s].pc = "claim"
    /\ enabled' = enabled \cup {s} /\ woken' = woken \ {s}
    /\ StreamAt(s, "insert") /\ UNCHANGED <<listeners, nopen, owned, lookups, threads>>

InsertGrant(s) ==
    /\ nstream[s].pc = "insert"
    /\ IF nopen[s].grant \notin owned
       THEN /\ owned' = owned \cup {nopen[s].grant} /\ enabled' = enabled \ {s} /\ woken' = woken \ {s}
            /\ nstream' = [nstream EXCEPT ![s].pc = "permit", ![s].owner = TRUE]
       ELSE StreamAt(s, "poll") /\ UNCHANGED <<owned, enabled, woken>>
    /\ UNCHANGED <<listeners, nopen, lookups, threads>>

\* released.await, polled for the first time and again when woken: a release
\* since it was registered lets the claim start over.
WaitReleased(s) ==
    /\ \/ /\ nstream[s].pc = "poll" /\ s \notin woken
          /\ StreamAt(s, "released") /\ enabled' = enabled \cup {s}
       \/ /\ nstream[s].pc \in {"poll", "released"} /\ s \in woken
          /\ StreamAt(s, "claim") /\ UNCHANGED enabled
    /\ UNCHANGED <<listeners, nopen, owned, woken, lookups, threads>>

-----------------------------------------------------------------------------

\* claim_resource, then connect, accept or open the sockets; a failure is
\* replied.  An accept keeps its owner only until the connection is there.
ClaimResource(s) ==
    /\ nstream[s].pc = "permit"
    /\ IF Cardinality(PermitHolders) < MaxResources
       THEN nstream' = [nstream EXCEPT ![s].pc = "prepare", ![s].permit = TRUE] /\ UNCHANGED <<owned, enabled, woken>>
       ELSE /\ nstream' = [nstream EXCEPT ![s].pc = "reply", ![s].owner = FALSE]
            /\ owned' = OwnedWithout(s) /\ WakeWaiters(s)
    /\ UNCHANGED <<listeners, nopen, lookups, threads>>

Prepare(s) ==
    /\ nstream[s].pc = "prepare"
    /\ \E ok \in BOOLEAN :
          LET keeps == ok /\ nopen[s].kind = "published"
          IN  /\ nstream' = [nstream EXCEPT ![s] = [pc |-> IF ok THEN "opened" ELSE "reply",
                                                    permit |-> ok, owner |-> keeps]]
              /\ owned' = (IF keeps THEN owned ELSE OwnedWithout(s))
              /\ IF keeps THEN UNCHANGED <<enabled, woken>> ELSE WakeWaiters(s)
    /\ UNCHANGED <<listeners, nopen, lookups, threads>>

\* dns::resolve: answered or denied by the policy, refused when every resolver
\* is busy, or resolved on a thread that takes the permit with it.
NetResolve(s) ==
  /\ nstream[s].pc = "lookup"
  /\ \/ StreamAt(s, "reply") /\ lookups' = lookups \ {s} /\ UNCHANGED threads
     \/ Cardinality(threads) < MaxResolvers /\ StreamAt(s, "resolving") /\ threads' = threads \cup {s} /\ UNCHANGED lookups
     \/ Cardinality(threads) >= MaxResolvers /\ StreamAt(s, "reply") /\ lookups' = lookups \ {s} /\ UNCHANGED threads
  /\ UNCHANGED <<listeners, nopen, owned, enabled, woken>>

\* The thread ends, and gives its permit back.
ThreadEnds(s) ==
    /\ s \in threads /\ threads' = threads \ {s}
    /\ UNCHANGED <<listeners, nopen, nstream, owned, enabled, woken, lookups>>

\* resolve_addresses: the thread's answer, or the timeout while it still runs.
NetResolved(s) ==
  /\ nstream[s].pc = "resolving"
  /\ StreamAt(s, "reply") /\ lookups' = lookups \ {s}
  /\ UNCHANGED <<listeners, nopen, owned, enabled, woken, threads>>

\* The reply is written, or cannot be; an operation with a flow is relayed
\* until either side ends it.
Reply(s) ==
    /\ nstream[s].pc \in {"reply", "opened"}
    /\ \/ nstream[s].pc = "opened" /\ StreamAt(s, "relay") /\ UNCHANGED <<owned, enabled, woken, lookups>>
       \/ Finish(s)
    /\ UNCHANGED <<listeners, nopen, threads>>

EndRelay(s) ==
    /\ nstream[s].pc = "relay" /\ Finish(s) /\ UNCHANGED <<listeners, nopen, threads>>

\* A mutant: the owner is forgotten with the work that is abandoned.
LeaveWithoutDrop(s) ==
    /\ nstream[s].pc \in {"claim", "insert", "poll", "released", "permit", "prepare", "lookup", "resolving"}
    /\ nstream' = [nstream EXCEPT ![s] = [pc |-> "done", permit |-> FALSE, owner |-> FALSE]]
    /\ lookups' = lookups \ {s} /\ enabled' = enabled \ {s} /\ woken' = woken \ {s}
    /\ UNCHANGED <<listeners, nopen, owned, threads>>

\* until_client_leaves: the stream is reset while the work is in progress.
ClientLeaves(s) ==
    /\ nstream[s].pc \in {"claim", "insert", "poll", "released", "permit", "prepare", "lookup", "resolving"}
    /\ Finish(s) /\ UNCHANGED <<listeners, nopen, threads>>

-----------------------------------------------------------------------------

HandlerStep(s) ==
    \/ OpenStream(s) \/ EnableWait(s) \/ InsertGrant(s) \/ WaitReleased(s)
    \/ ClaimResource(s) \/ NetResolve(s) \/ Reply(s)

NetNext == \E s \in NetStreams :
    HandlerStep(s) \/ Prepare(s) \/ NetResolved(s) \/ ThreadEnds(s) \/ EndRelay(s) \/ ClientLeaves(s)

NetSpec == NetInit /\ [][NetNext]_netVars

-----------------------------------------------------------------------------
(* Properties *)

NetTypeOK == /\ owned \subseteq NetGrants /\ enabled \subseteq NetStreams
             /\ Cardinality(lookups) <= MaxDnsRequests

\* A grant that is taken has exactly one stream that owns it, and no stream
\* that ended or was abandoned keeps one; resolver threads stay within their
\* permits though their lookups time out or are abandoned.
GrantsHaveOneOwner ==
    /\ \A g \in NetGrants :
          Cardinality({s \in NetStreams : nstream[s].owner /\ nopen[s].grant = g}) = IF g \in owned THEN 1 ELSE 0
    /\ Cardinality(threads) <= MaxResolvers /\ Cardinality(PermitHolders) <= MaxResources

\* A stream never waits for good for a grant that is free: the release that
\* races with its claim is not missed.
FreeGrantsAreTaken ==
    \A s \in NetStreams : ~(nstream[s].pc = "released" /\ nopen[s].grant \notin owned)

------------------------------------------------------------------------------
(***************************************************************************)
(* DNS for the guest (terra-agent/src/network.rs, vsock-frontend           *)
(* network/control.rs): the agent's DNS servers pass each query over one   *)
(* control stream to the frontend, which answers up to MaxDnsQueries at    *)
(* once in any order; identifiers match the answers.                       *)
(*                                                                         *)
(* A frame has a head and a tail, written and delivered in two steps, so   *)
(* that a writer that gives up in the middle is seen. A question stands    *)
(* for its query; what the answer says is left out. Identifiers are        *)
(* unique: the code's counter of 32 bits wraps far slower than a query     *)
(* times out.                                                              *)
(***************************************************************************)

CONSTANTS DnsClients,     \* queries the DNS servers have admitted at a time
          MaxDnsQueries,  \* MAX_DNS_QUERIES: permits, and answers in progress
          MaxQuestions,   \* queries in a behaviour
          ControlBytes    \* frame parts the stream holds in each direction

VARIABLES network,   \* the agent: "connect", "handshake", "serving", "failed"
          cancelled, \* the token of the network's services
          dns,       \* per client: [pc, id, question, answer]
          pendingIds,\* pending: the identifiers with a client to answer
          lockedBy,  \* writer: the client that holds it
          nextId, queryUp, down,
          results,   \* receive_results: "on" or "off"
          partial,   \* the head of a result it has read
          guestOpen, \* the agent's end of the stream
          control,   \* the frontend's side: "idle", "opening", "serving", "off"
          answering, \* the frontend's answers in progress: [id, question, st]
          confused   \* a reader took a part for another (a ghost)

dnsVars == <<network, cancelled, dns, pendingIds, lockedBy, nextId, queryUp, down, results,
             partial, guestOpen, control, answering, confused>>

NoQuery == 0
ASSUME DnsAssumption == NoQuery \notin DnsClients

ReadyPart == [id |-> NoQuery, question |-> NoQuery, part |-> "ready"]
FramePart(f, part) == [id |-> f.id, question |-> f.question, part |-> part]
ControlFits(wire) == Len(wire) < ControlBytes

DnsInit ==
    /\ network = "connect" /\ cancelled = FALSE
    /\ dns = [c \in DnsClients |-> [pc |-> "idle", id |-> NoQuery, question |-> NoQuery, answer |-> NoQuery]]
    /\ pendingIds = {} /\ lockedBy = NoQuery /\ nextId = 1
    /\ queryUp = <<>> /\ down = <<>>
    /\ results = "off" /\ partial = NoQuery /\ guestOpen = FALSE
    /\ control = "idle" /\ answering = {} /\ confused = FALSE

ClientState == <<dns, pendingIds, lockedBy, nextId>>
StreamState == <<queryUp, down, results, partial, guestOpen>>
FrontendState == <<control, answering>>

-----------------------------------------------------------------------------
(* The agent *)

\* connect_control.
ConnectControl ==
    /\ network = "connect"
    /\ network' = "handshake" /\ guestOpen' = TRUE
    /\ UNCHANGED <<cancelled, ClientState, queryUp, down, results, partial, FrontendState, confused>>

\* await_network_ready and the rest of start: the services run, or the
\* handshake failed and the stream is dropped.
AwaitNetworkReady ==
    /\ network = "handshake"
    /\ \/ /\ down # <<>> /\ Head(down) = ReadyPart
          /\ network' = "serving" /\ down' = Tail(down) /\ results' = "on" /\ UNCHANGED guestOpen
       \/ /\ network' = "failed" /\ guestOpen' = FALSE /\ UNCHANGED <<down, results>>
    /\ UNCHANGED <<cancelled, ClientState, queryUp, partial, FrontendState, confused>>

\* serve_udp_dns and serve_tcp_dns: an admitted query.
AdmitQuery(c) ==
    /\ network = "serving" /\ ~cancelled /\ dns[c].pc = "idle" /\ nextId <= MaxQuestions
    /\ dns' = [dns EXCEPT ![c].pc = "permit"]
    /\ UNCHANGED <<network, cancelled, pendingIds, lockedBy, nextId, StreamState, FrontendState, confused>>

QueryPermits == Cardinality({c \in DnsClients : dns[c].pc \in {"lock", "head", "tail", "wait", "unlock"}})

\* A mutant: identifiers are taken again once they are free.
TakeFreeId(c) ==
    /\ dns[c].pc = "permit" /\ nextId <= MaxQuestions
    /\ QueryPermits < MaxDnsQueries
    /\ LET id == CHOOSE i \in 1..MaxQuestions : i \notin pendingIds /\ \A j \in 1..(i-1) : j \in pendingIds IN
       /\ dns' = [dns EXCEPT ![c] = [pc |-> "lock", id |-> id, question |-> nextId, answer |-> NoQuery]]
       /\ pendingIds' = pendingIds \cup {id}
    /\ nextId' = nextId + 1
    /\ UNCHANGED <<network, cancelled, lockedBy, StreamState, FrontendState, confused>>

\* query: a permit, an identifier and its entry in pending.
BeginQuery(c) ==
    /\ dns[c].pc = "permit" /\ nextId <= MaxQuestions
    /\ QueryPermits < MaxDnsQueries
    /\ dns' = [dns EXCEPT ![c] = [pc |-> "lock", id |-> nextId, question |-> nextId, answer |-> NoQuery]]
    /\ pendingIds' = pendingIds \cup {nextId} /\ nextId' = nextId + 1
    /\ UNCHANGED <<network, cancelled, lockedBy, StreamState, FrontendState, confused>>

\* A query that returns drops its entry.
LeaveQuery(c, pc) ==
    /\ dns' = [dns EXCEPT ![c].pc = pc]
    /\ pendingIds' = pendingIds \ {dns[c].id}

\* send: the writer, unless networking is over.
LockWriter(c) ==
    /\ dns[c].pc = "lock" /\ lockedBy = NoQuery
    /\ IF cancelled THEN LeaveQuery(c, "failed") /\ UNCHANGED lockedBy
       ELSE dns' = [dns EXCEPT ![c].pc = "head"] /\ lockedBy' = c /\ UNCHANGED pendingIds
    /\ UNCHANGED <<network, cancelled, nextId, StreamState, FrontendState, confused>>

WritePart(c) ==
    /\ dns[c].pc \in {"head", "tail"} /\ ControlFits(queryUp)
    /\ queryUp' = Append(queryUp, FramePart(dns[c], dns[c].pc))
    /\ IF dns[c].pc = "head" THEN dns' = [dns EXCEPT ![c].pc = "tail"] /\ UNCHANGED lockedBy
       ELSE dns' = [dns EXCEPT ![c].pc = "wait"] /\ lockedBy' = NoQuery
    /\ UNCHANGED <<network, cancelled, pendingIds, nextId, down, results, partial, guestOpen, FrontendState, confused>>

\* A mutant: a write given up leaves the network as it was.
AbandonQuietly(c) ==
    /\ dns[c].pc \in {"head", "tail"}
    /\ LeaveQuery(c, "unlock")
    /\ UNCHANGED <<network, cancelled, lockedBy, nextId, StreamState, FrontendState, confused>>

\* send given up while it writes (the deadline, a broken stream or the end of
\* the services): the drop guard ends networking before the writer is free.
AbandonWrite(c) ==
    /\ dns[c].pc \in {"head", "tail"}
    /\ LeaveQuery(c, "unlock") /\ cancelled' = TRUE
    /\ UNCHANGED <<network, lockedBy, nextId, StreamState, FrontendState, confused>>

ReleaseWriter(c) ==
    /\ dns[c].pc = "unlock"
    /\ dns' = [dns EXCEPT ![c].pc = "failed"] /\ lockedBy' = NoQuery
    /\ UNCHANGED <<network, cancelled, pendingIds, nextId, StreamState, FrontendState, confused>>

\* DNS_TIMEOUT anywhere else, or the services ended.
EndQuery(c) ==
    /\ dns[c].pc \in {"permit", "lock", "wait"}
    /\ LeaveQuery(c, "failed")
    /\ UNCHANGED <<network, cancelled, lockedBy, nextId, StreamState, FrontendState, confused>>

\* resolve_dns: the client has its response, or SERVFAIL.
QueryRespond(c) ==
  /\ dns[c].pc \in {"answered", "failed"}
  /\ dns' = [dns EXCEPT ![c] = [pc |-> "idle", id |-> NoQuery, question |-> NoQuery, answer |-> NoQuery]]
  /\ UNCHANGED <<network, cancelled, pendingIds, lockedBy, nextId, StreamState, FrontendState, confused>>

\* receive_results: a whole result goes to the query that waits for it.
ReceiveResult ==
    /\ results = "on" /\ ~cancelled /\ down # <<>>
    /\ LET p == Head(down) IN
       IF partial = NoQuery
       THEN /\ partial' = p.id /\ confused' = (confused \/ p.part # "head")
            /\ UNCHANGED <<dns, pendingIds>>
       ELSE /\ partial' = NoQuery /\ confused' = (confused \/ p.part # "tail" \/ p.id # partial)
            /\ pendingIds' = pendingIds \ {p.id}
            /\ dns' = [c \in DnsClients |->
                         IF p.id \in pendingIds /\ dns[c].id = p.id /\ dns[c].pc = "wait"
                         THEN [dns[c] EXCEPT !.pc = "answered", !.answer = p.question] ELSE dns[c]]
    /\ down' = Tail(down)
    /\ UNCHANGED <<network, cancelled, lockedBy, nextId, queryUp, results, guestOpen, FrontendState>>

\* receive_results at the end of the stream: every query waiting fails, and
\* the failed service ends networking (run_network_service).
ResultsEnd ==
    /\ results = "on" /\ control = "off" /\ down = <<>> /\ ~cancelled
    /\ results' = "off" /\ pendingIds' = {} /\ cancelled' = TRUE
    /\ dns' = [c \in DnsClients |-> IF dns[c].pc = "wait" THEN [dns[c] EXCEPT !.pc = "failed"] ELSE dns[c]]
    /\ UNCHANGED <<network, lockedBy, nextId, queryUp, down, partial, guestOpen, FrontendState, confused>>

\* Another service fails, or the agent shuts down.
CancelServices ==
    /\ network = "serving" /\ ~cancelled
    /\ cancelled' = TRUE
    /\ UNCHANGED <<network, ClientState, StreamState, FrontendState, confused>>

\* The services are dropped, and with the last of them the stream.
DropServices ==
    /\ cancelled /\ guestOpen /\ \A c \in DnsClients : dns[c].pc = "idle"
    /\ results' = "off" /\ guestOpen' = FALSE
    /\ UNCHANGED <<network, cancelled, ClientState, queryUp, down, partial, FrontendState, confused>>

-----------------------------------------------------------------------------
(* The frontend *)

\* synchronize_control, and run's Ready within its deadline.
ServeControl ==
    /\ control = "idle" /\ guestOpen
    /\ control' = "opening"
    /\ UNCHANGED <<network, cancelled, ClientState, StreamState, answering, confused>>

DeliverReady ==
    /\ control = "opening"
    /\ \/ guestOpen /\ ControlFits(down) /\ down' = Append(down, ReadyPart) /\ control' = "serving"
       \/ control' = "off" /\ UNCHANGED down
    /\ UNCHANGED <<network, cancelled, ClientState, queryUp, results, partial, guestOpen, answering, confused>>

\* read_message: nothing is consumed before the whole frame is there.
ReadQuery ==
    /\ control = "serving" /\ Cardinality(answering) < MaxDnsQueries /\ Len(queryUp) >= 2
    /\ confused' = (confused \/ queryUp[1].part # "head" \/ queryUp[2].part # "tail" \/ queryUp[1].id # queryUp[2].id)
    /\ answering' = answering \cup {[id |-> queryUp[1].id, question |-> queryUp[1].question, st |-> "resolve"]}
    /\ queryUp' = SubSeq(queryUp, 3, Len(queryUp))
    /\ UNCHANGED <<network, cancelled, ClientState, down, results, partial, guestOpen, control>>

MoveAnswer(a, st) == answering' = (answering \ {a}) \cup {[a EXCEPT !.st = st]}

\* resolve: the broker answers in its own time.
ResolveQuestion ==
    /\ control = "serving"
    /\ \E a \in answering : a.st = "resolve" /\ MoveAnswer(a, "lock")
    /\ UNCHANGED <<network, cancelled, ClientState, StreamState, control, confused>>

\* answer: its result is delivered whole, under the writer's lock.
LockResults ==
    /\ control = "serving" /\ \A a \in answering : a.st \notin {"head", "tail"}
    /\ \E a \in answering : a.st = "lock" /\ MoveAnswer(a, "head")
    /\ UNCHANGED <<network, cancelled, ClientState, StreamState, control, confused>>

DeliverResult ==
    /\ control = "serving" /\ guestOpen /\ ControlFits(down)
    /\ \E a \in answering :
         /\ a.st \in {"head", "tail"}
         /\ down' = Append(down, FramePart(a, a.st))
         /\ IF a.st = "head" THEN MoveAnswer(a, "tail") ELSE answering' = answering \ {a}
    /\ UNCHANGED <<network, cancelled, ClientState, queryUp, results, partial, guestOpen, control, confused>>

\* serve's end: the guest closed, a message was cut short, a delivery failed,
\* or the broker is gone; disable_networking retires the stream.
DisableNetworking ==
    /\ control = "serving"
    /\ control' = "off" /\ answering' = {}
    /\ UNCHANGED <<network, cancelled, ClientState, StreamState, confused>>

MustEnd == ~guestOpen /\ Len(queryUp) < 2

DnsNext ==
    \/ ConnectControl \/ AwaitNetworkReady \/ ReceiveResult \/ ResultsEnd \/ CancelServices \/ DropServices
    \/ \E c \in DnsClients :
         \/ AdmitQuery(c) \/ BeginQuery(c) \/ LockWriter(c) \/ WritePart(c) \/ AbandonWrite(c)
         \/ ReleaseWriter(c) \/ EndQuery(c) \/ QueryRespond(c)
    \/ ServeControl \/ DeliverReady \/ ReadQuery \/ ResolveQuestion \/ LockResults \/ DeliverResult
    \/ DisableNetworking

DnsSpec == DnsInit /\ [][DnsNext]_dnsVars

-----------------------------------------------------------------------------
(* Properties *)

FrameParts == [id : 0..MaxQuestions, question : 0..MaxQuestions, part : {"head", "tail", "ready"}]
DnsTypeOK ==
    /\ network \in {"connect", "handshake", "serving", "failed"}
    /\ pendingIds \subseteq 1..MaxQuestions /\ lockedBy \in DnsClients \cup {NoQuery}
    /\ queryUp \in Seq(FrameParts) /\ down \in Seq(FrameParts)
    /\ control \in {"idle", "opening", "serving", "off"}

\* The frames of the control stream stay whole both ways, although a query
\* may be given up at any moment (the drop guard of send), and a query is
\* answered with the answer to its own question, however late the answers of
\* the queries before it come.
AnswersAreOwn ==
    /\ ~confused
    /\ \A c \in DnsClients : dns[c].pc = "answered" => dns[c].answer = dns[c].question

\* When networking ends on one side, a failed service of the agent or the
\* frontend's, it ends on the other.
NetworkEndsTogether ==
    cancelled \/ network = "failed" \/ control = "off" =>
        (cancelled \/ network = "failed") /\ control \in {"idle", "off"}
==============================================================================
