---------------------------- MODULE WireFormats ----------------------------
EXTENDS Integers, Sequences, FiniteSets
LOCAL INSTANCE SequencesExt

(***************************************************************************)
(* The way of UDP datagrams (terra-protocol application.rs and network.rs, *)
(* terra-network server/udp.rs, vsock-frontend network/udp.rs, terra-agent *)
(* network.rs): the broker merges what its socket has into batches of      *)
(* runs, the frontend writes a run as a frame of the guest's byte stream,  *)
(* the agent reads the frames out of the stream and sends each datagram;   *)
(* and back.                                                               *)
(*                                                                         *)
(* A datagram's bytes are its number, repeated; a frame is a header unit   *)
(* and its bytes. The sizes are small, and related as the code's are.      *)
(***************************************************************************)

CONSTANTS DownScripts,       \* what the broker's socket reads, in order
          UpScripts,         \* replies of the guest's service, per peer
          MaxDatagramBytes,  \* MAX_NETWORK_DATAGRAM_BYTES
          MaxSegments,       \* MAX_DATAGRAM_SEGMENTS
          MaxRunBytes,       \* MAX_UDP_RUN_BYTES; a frame has one unit more
          PathMaxEntries,        \* MAX_NETWORK_DATAGRAMS
          MaxBatchBytes      \* MAX_NETWORK_DATAGRAM_BATCH_BYTES, a chunk too

ASSUME SizesFit == MaxRunBytes + 1 <= MaxBatchBytes /\ MaxDatagramBytes <= MaxRunBytes

VARIABLES pathScript,   \* [way, and the datagrams it starts with]
          arrived,  \* how much of it the socket has
          pathLeft,     \* PendingRun, or the replies not yet read, per peer
          batch,    \* a batch on its way to the frontend
          wire,     \* the byte stream
          decoder,  \* the agent's StreamDecoder: [bytes, start]
          minimum,  \* the frontend's minimum_bytes
          pathOut,      \* the datagrams sent at the end
          failed    \* a relay ended in error

pathVars == <<pathScript, arrived, pathLeft, batch, wire, decoder, minimum, pathOut, failed>>

LOCAL NoRun == [peer |-> "none", stride |-> 0, bytes |-> <<>>]
LOCAL EmptyBatch == [headers |-> <<>>, bytes |-> <<>>]
LOCAL Drop(s, n) == SubSeq(s, n + 1, Len(s))
LOCAL Take(s, n) == SubSeq(s, 1, n)
LOCAL CeilDiv(a, b) == (a + b - 1) \div b

-----------------------------------------------------------------------------
(* Runs *)

IsValidSegmentedRun(length, segment) ==
    /\ segment \in 1..MaxDatagramBytes
    /\ length > segment /\ length <= MaxRunBytes
    /\ CeilDiv(length, segment) <= MaxSegments

IsValidUdpRun(length, segment) ==
    IF segment = 0 THEN length <= MaxDatagramBytes ELSE IsValidSegmentedRun(length, segment)

ExtendsUdpRun(run_bytes, segment, length) ==
    /\ length # 0 /\ length <= segment
    /\ run_bytes % segment = 0
    /\ IsValidSegmentedRun(run_bytes + length, segment)

\* The datagrams of a run (chunks).
Chunks(bytes, stride) ==
    IF stride = 0 \/ bytes = <<>> THEN <<bytes>>
    ELSE [i \in 1..CeilDiv(Len(bytes), stride) |->
            SubSeq(bytes, (i - 1) * stride + 1, IF i * stride < Len(bytes) THEN i * stride ELSE Len(bytes))]

LOCAL WithPeer(peer, datagrams) == [i \in DOMAIN datagrams |-> [peer |-> peer, bytes |-> datagrams[i]]]

\* is_within_datagram_batch_limits: an entry costs the frame it becomes.
IsWithinLimits(entries, bytes) == entries <= PathMaxEntries /\ bytes + entries <= MaxBatchBytes

\* DatagramBatch::push: [taken, batch].
Push(b, peer, datagram) ==
    LET count == Len(b.headers)
        last == b.headers[count]
        segment == IF last.segment = 0 THEN last.length ELSE last.segment
        n == Len(datagram) IN
    IF /\ count > 0 /\ last.peer = peer /\ ExtendsUdpRun(last.length, segment, n)
       /\ Len(b.bytes) + count + n <= MaxBatchBytes
    THEN [taken |-> TRUE, batch |->
            [headers |-> [b.headers EXCEPT ![count] = [peer |-> peer, length |-> last.length + n, segment |-> segment]],
             bytes |-> b.bytes \o datagram]]
    ELSE IF n > MaxDatagramBytes \/ ~IsWithinLimits(count + 1, Len(b.bytes) + n)
    THEN [taken |-> FALSE, batch |-> b]
    ELSE [taken |-> TRUE, batch |->
            [headers |-> Append(b.headers, [peer |-> peer, length |-> n, segment |-> 0]),
             bytes |-> b.bytes \o datagram]]

\* push_run: [taken bytes, batch, whether all fitted so far].
PushRun(b, run) ==
    FoldLeft(LAMBDA acc, datagram :
               LET pushed == Push(acc.batch, run.peer, datagram) IN
               IF acc.fits /\ pushed.taken
               THEN [taken |-> acc.taken + Len(datagram), batch |-> pushed.batch, fits |-> TRUE]
               ELSE [acc EXCEPT !.fits = FALSE],
             [taken |-> 0, batch |-> b, fits |-> TRUE], Chunks(run.bytes, run.stride))

-----------------------------------------------------------------------------
(* Frames *)

\* append_frame of a run; a segment that splits nothing is written as none.
Frame(peer, segment, bytes) ==
    <<[peer |-> peer, segment |-> IF Len(bytes) > segment THEN segment ELSE 0, length |-> Len(bytes)]>>
        \o [i \in DOMAIN bytes |-> [peer |-> "byte", segment |-> 0, length |-> bytes[i]]]

LOCAL Payload(units) == [i \in 1..(Len(units) - 1) |-> units[i + 1].length]

\* decode_frame: the units of the next whole frame, or none.
FrameUnits(bytes) ==
    IF bytes = <<>> \/ Len(bytes) < 1 + bytes[1].length THEN 0 ELSE 1 + bytes[1].length

DecodedRun(units) == [peer |-> units[1].peer, segment |-> units[1].segment, bytes |-> Payload(units)]

\* The sender's split of a run (send_publication_datagrams, send_pending).
SendRun(run) == WithPeer(run.peer, Chunks(run.bytes, run.segment))

-----------------------------------------------------------------------------

PathInit ==
    /\ pathScript \in DownScripts \cup UpScripts
    /\ arrived = 0
    /\ pathLeft = NoRun /\ batch = EmptyBatch /\ wire = <<>>
    /\ decoder = [bytes |-> <<>>, start |-> 0] /\ minimum = 1
    /\ pathOut = <<>> /\ failed = FALSE

\* A read becomes possible on the socket, or a reply arrives at one.
Arrive ==
    /\ arrived < Len(pathScript.reads)
    /\ arrived' = arrived + 1
    /\ UNCHANGED <<pathScript, pathLeft, batch, wire, decoder, minimum, pathOut, failed>>

-----------------------------------------------------------------------------
(* To the guest *)

LOCAL Down == pathScript.way = "down"

\* move_pending_into.
PutInto(st, run) ==
    LET pushed == PushRun(st.batch, run) IN
    [st EXCEPT !.batch = pushed.batch,
               !.pending = IF pushed.taken = Len(run.bytes) THEN NoRun ELSE [run EXCEPT !.bytes = Drop(@, pushed.taken)]]

\* try_receive_run: a read of larger datagrams is dropped.
KeepsRun(run) == run.stride <= MaxDatagramBytes

\* receive_datagrams over the reads that have arrived.
ReceiveDatagrams ==
    /\ Down /\ batch = EmptyBatch /\ (pathLeft # NoRun \/ arrived > 0)
    /\ LET start == PutInto([batch |-> EmptyBatch, pending |-> NoRun, used |-> 0], pathLeft)
           begun == IF pathLeft = NoRun THEN [batch |-> EmptyBatch, pending |-> NoRun, used |-> 0] ELSE start
           st == FoldLeft(LAMBDA acc, run :
                            IF acc.pending # NoRun \/ ~IsWithinLimits(Len(acc.batch.headers) + 1, Len(acc.batch.bytes) + MaxDatagramBytes)
                            THEN acc
                            ELSE LET read == [acc EXCEPT !.used = @ + 1] IN
                                 IF KeepsRun(run) THEN PutInto(read, run) ELSE read,
                          begun, Take(pathScript.reads, arrived)) IN
       /\ batch' = st.batch /\ pathLeft' = st.pending
       /\ pathScript' = [pathScript EXCEPT !.reads = Drop(@, st.used)]
       /\ arrived' = arrived - st.used
    /\ UNCHANGED <<wire, decoder, minimum, pathOut, failed>>

\* check_udp_run, on the frames a writer makes.
ChecksRuns(units) == \A i \in DOMAIN units : units[i].peer # "byte" => IsValidUdpRun(units[i].length, units[i].segment)

\* deliver_datagrams: the batch becomes frames.
DeliverDatagrams ==
    /\ Down /\ batch # EmptyBatch
    /\ LET ends == [i \in 0..Len(batch.headers) |-> FoldLeft(LAMBDA a, h : a + h.length, 0, Take(batch.headers, i))]
           frames == [i \in DOMAIN batch.headers |->
                        Frame(batch.headers[i].peer, batch.headers[i].segment,
                              SubSeq(batch.bytes, ends[i - 1] + 1, ends[i]))] IN
       /\ wire' = wire \o FlattenSeq(frames)
       /\ failed' = (failed \/ ~ChecksRuns(FlattenSeq(frames)))
    /\ batch' = EmptyBatch
    /\ UNCHANGED <<pathScript, arrived, pathLeft, decoder, minimum, pathOut>>

\* StreamDecoder::read_buffer.
ReadBuffer(d) ==
    IF Len(d.bytes) = MaxRunBytes + 1 /\ d.start > 0 THEN [bytes |-> Drop(d.bytes, d.start), start |-> 0] ELSE d

\* next_frame until there is none: [decoder, datagrams].
RECURSIVE NextFrames(_, _)
NextFrames(d, sent) ==
    LET units == FrameUnits(Drop(d.bytes, d.start)) IN
    IF units = 0 THEN [decoder |-> d, sent |-> sent]
    ELSE LET run == DecodedRun(SubSeq(d.bytes, d.start + 1, d.start + units))
             start == d.start + units IN
         NextFrames(IF start = Len(d.bytes) THEN [bytes |-> <<>>, start |-> 0] ELSE [d EXCEPT !.start = start],
                    sent \o SendRun(run))

\* relay_udp_publication: one read of the stream, and its whole frames. A
\* full buffer reads nothing, which is taken for the stream's end.
ReadFrames ==
    /\ Down /\ wire # <<>> /\ ~failed
    /\ LET d == ReadBuffer(decoder)
           free == MaxRunBytes + 1 - Len(d.bytes) IN
       IF free = 0 THEN failed' = TRUE /\ UNCHANGED <<wire, decoder, pathOut>>
       ELSE \E n \in 1..(IF free < Len(wire) THEN free ELSE Len(wire)) :
              LET read == NextFrames([d EXCEPT !.bytes = @ \o Take(wire, n)], <<>>) IN
              /\ wire' = Drop(wire, n)
              /\ decoder' = read.decoder /\ pathOut' = pathOut \o read.sent
              /\ UNCHANGED failed
    /\ UNCHANGED <<pathScript, arrived, pathLeft, batch, minimum>>

-----------------------------------------------------------------------------
(* From the guest *)

LOCAL Up == pathScript.way = "up"

\* read_publication_replies: equal datagrams of one socket become a run.
MergeReplies(peer, replies) ==
    LET finish(acc) == [frames |-> acc.frames \o Frame(peer, acc.segment, acc.run), run |-> <<>>, segment |-> 0]
        step(acc, datagram) ==
            LET n == Len(datagram)
                joins == ExtendsUdpRun(Len(acc.run), acc.segment, n)
                fresh == IF joins \/ acc.segment = 0 THEN acc ELSE finish(acc)
                grown == [fresh EXCEPT !.run = @ \o datagram, !.segment = IF joins THEN @ ELSE n] IN
            IF n = 0 \/ n < grown.segment THEN finish(grown) ELSE grown
        merged == FoldLeft(step, [frames |-> <<>>, run |-> <<>>, segment |-> 0], replies) IN
    IF merged.segment # 0 THEN finish(merged).frames ELSE merged.frames

\* forward_peer_replies for one peer: up to MaxSegments of its replies.
ReadReplies ==
    /\ Up /\ arrived > 0
    /\ LET here == Take(pathScript.reads, arrived) IN
       \E peer \in {here[i].peer : i \in 1..arrived} :
         LET its == SelectSeq(here, LAMBDA r : r.peer = peer)
             read == Take(its, IF Len(its) < MaxSegments THEN Len(its) ELSE MaxSegments)
             kept == Drop(its, Len(read))
             others == SelectSeq(here, LAMBDA r : r.peer # peer) IN
         /\ LET frames == MergeReplies(peer, [i \in DOMAIN read |-> read[i].bytes]) IN
            /\ wire' = wire \o frames
            /\ failed' = (failed \/ ~ChecksRuns(frames))
         /\ pathScript' = [pathScript EXCEPT !.reads = kept \o others \o Drop(pathScript.reads, arrived)]
         /\ arrived' = arrived - Len(read)
    /\ UNCHANGED <<pathLeft, batch, decoder, minimum, pathOut>>

\* The frames of a burst that fit a batch: [used units, headers, bytes, runs].
RECURSIVE BatchFrames(_, _)
BatchFrames(queued, acc) ==
    LET units == FrameUnits(Drop(queued, acc.used)) IN
    IF units = 0 THEN acc
    ELSE LET run == DecodedRun(SubSeq(queued, acc.used + 1, acc.used + units)) IN
         IF ~IsWithinLimits(Len(acc.runs) + 1, acc.bytes + Len(run.bytes)) THEN acc
         ELSE BatchFrames(queued, [used |-> acc.used + units, bytes |-> acc.bytes + Len(run.bytes),
                                   runs |-> Append(acc.runs, run)])

\* send_datagrams: a burst of frames goes to the broker as one batch, whose
\* entries it sends (send_entry). Without a whole frame it waits for more.
SendDatagrams ==
    /\ Up /\ ~failed /\ Len(wire) >= minimum
    /\ \E n \in minimum..(IF Len(wire) < MaxBatchBytes THEN Len(wire) ELSE MaxBatchBytes) :
         LET burst == BatchFrames(Take(wire, n), [used |-> 0, bytes |-> 0, runs |-> <<>>]) IN
         IF burst.used = 0 THEN minimum' = n + 1 /\ UNCHANGED <<wire, pathOut>>
         ELSE /\ minimum' = 1 /\ wire' = Drop(wire, burst.used)
              /\ pathOut' = pathOut \o FlattenSeq([i \in DOMAIN burst.runs |-> SendRun(burst.runs[i])])
    /\ UNCHANGED <<pathScript, arrived, pathLeft, batch, decoder, failed>>

PathNext == Arrive \/ ReceiveDatagrams \/ DeliverDatagrams \/ ReadFrames \/ ReadReplies \/ SendDatagrams
PathSpec == PathInit /\ [][PathNext]_pathVars

-----------------------------------------------------------------------------
(* Properties *)

\* The datagrams a script has, with the peers they are from or for.
LOCAL Datagrams(runs) ==
    FlattenSeq([i \in DOMAIN runs |-> IF runs[i].stride > MaxDatagramBytes THEN <<>>
                                      ELSE WithPeer(runs[i].peer, Chunks(runs[i].bytes, runs[i].stride))])
LOCAL OfPeer(datagrams, peer) == SelectSeq(datagrams, LAMBDA d : d.peer = peer)
LOCAL Quiet == pathScript.reads = <<>> /\ pathLeft = NoRun /\ batch = EmptyBatch /\ wire = <<>>

\* Every datagram the path takes comes out whole, once, for its peer and in
\* its peer's order, however they were merged into runs and batches and
\* however the stream cut the frames; and no relay fails on the way.
DatagramsArriveAsSent ==
    LET sent == Datagrams(pathScript.all) IN
    /\ ~failed
    /\ \A peer \in {sent[i].peer : i \in DOMAIN sent} : IsPrefix(OfPeer(pathOut, peer), OfPeer(sent, peer))
    /\ Quiet => Len(pathOut) = Len(sent)

------------------------------------------------------------------------------
(***************************************************************************)
(* The binary frames between the guest kernel's terra sockets and the      *)
(* network frontend (terra-protocol application.rs): what append writes,   *)
(* what decode reads back, and what decode makes of a stream in which one  *)
(* field is wrong.  A frame is a sequence of fields, each a 16-bit word, a *)
(* length, an address half or a datagram byte.                             *)
(***************************************************************************)

CONSTANTS FieldValues,        \* what a wrong field may hold
          PortValues, AddressHalves, DatagramBytes,
          MaxDatagramLength,  \* MAX_NETWORK_DATAGRAM_BYTES
          MaxRunLength,       \* MAX_UDP_RUN_BYTES
          MaxRunSegments,     \* MAX_DATAGRAM_SEGMENTS
          MaxKeepaliveSecs, MaxKeepaliveProbes,
          SocketErrors,       \* the codes of socket::Error, 1 upwards
          MaxFramesSent       \* bound: frames in a stream

VARIABLES stream, sentFrames, gotFrames, decoding, altered

frameVars == <<stream, sentFrames, gotFrames, decoding, altered>>

-----------------------------------------------------------------------------
(* Frames                                                                  *)

LOCAL OpcodeOf == [tcpOpen |-> 1, udpSend |-> 3, opened |-> 257, udpDatagram |-> 259, udpError |-> 260]
LOCAL FromGuest == {"tcpOpen", "udpSend"}

LOCAL Peers == [family : {4}, port : PortValues, high : AddressHalves, low : {0}, scoped : {FALSE}]
         \cup [family : {6}, port : PortValues, high : AddressHalves, low : AddressHalves, scoped : BOOLEAN]

(* TcpKeepalive::new                                                       *)
IsKeepalive(idle, interval, probes) ==
  idle \in 1..MaxKeepaliveSecs /\ interval \in 1..MaxKeepaliveSecs /\ probes \in 1..MaxKeepaliveProbes

LOCAL Keepalives == {k \in [idle : 1..MaxKeepaliveSecs, interval : {1}, probes : 1..MaxKeepaliveProbes] :
                       IsKeepalive(k.idle, k.interval, k.probes)}
LOCAL NoKeepalive == [idle |-> 0, interval |-> 0, probes |-> 0]
LOCAL Options == [urgent : BOOLEAN, keepalive : Keepalives \cup {NoKeepalive}]

LOCAL RunsOf(n) == UNION {[1..k -> DatagramBytes] : k \in 0..n}
LOCAL UdpRuns == [peer : Peers, segment : 0..MaxDatagramLength, bytes : RunsOf(MaxRunLength + 1)]

GuestFrames == [kind : {"tcpOpen"}, peer : Peers, options : Options]
          \cup {[kind |-> "udpSend", run |-> r] : r \in UdpRuns}
HostFrames == [kind : {"opened"}, error : SocketErrors \cup {0}]
         \cup [kind : {"udpError"}, error : SocketErrors, peer : Peers]
         \cup {[kind |-> "udpDatagram", run |-> r] : r \in UdpRuns}

(* is_valid_udp_run                                                        *)
LOCAL Ceil(a, b) == (a + b - 1) \div b
FrameIsValidSegmentedRun(length, segment) ==
  /\ segment \in 1..MaxDatagramLength /\ length > segment /\ length <= MaxRunLength
  /\ Ceil(length, segment) <= MaxRunSegments
FrameIsValidUdpRun(length, segment) ==
  IF segment = 0 THEN length <= MaxDatagramLength ELSE FrameIsValidSegmentedRun(length, segment)

-----------------------------------------------------------------------------
(* Writing                                                                 *)

LOCAL Refused == <<-1>>                        \* FrameError

PutPeer(p) == IF p.scoped THEN Refused ELSE <<p.family, p.port, p.high, p.low>>

PutTcpOpen(peer, options) ==
  LET flags == (IF options.urgent THEN 1 ELSE 0) + (IF options.keepalive # NoKeepalive THEN 2 ELSE 0)
      k == options.keepalive IN
  IF PutPeer(peer) = Refused THEN Refused
  ELSE <<flags, k.probes, k.idle, k.interval>> \o PutPeer(peer)

PutStatus(error) == <<error, 0>>

(* A segment that splits nothing is written as it is.                      *)
PutUdpBodyAsGiven(run) ==
  IF ~FrameIsValidUdpRun(Len(run.bytes), IF Len(run.bytes) > run.segment THEN run.segment ELSE 0)
     \/ PutPeer(run.peer) = Refused THEN Refused
  ELSE PutPeer(run.peer) \o <<run.segment, 0>> \o run.bytes

(* A segment that splits nothing is written as 0.                          *)
PutUdpBody(run) ==
  LET segment == IF Len(run.bytes) > run.segment THEN run.segment ELSE 0 IN
  IF ~FrameIsValidUdpRun(Len(run.bytes), segment) \/ PutPeer(run.peer) = Refused THEN Refused
  ELSE PutPeer(run.peer) \o <<segment, 0>> \o run.bytes

GuestPayload(f) == IF f.kind = "tcpOpen" THEN PutTcpOpen(f.peer, f.options) ELSE PutUdpBody(f.run)
HostPayload(f) ==
  CASE f.kind = "opened" -> PutStatus(f.error)
    [] f.kind = "udpDatagram" -> PutUdpBody(f.run)
    [] OTHER -> IF PutPeer(f.peer) = Refused THEN Refused ELSE PutStatus(f.error) \o PutPeer(f.peer)

(* append_frame: a refused frame leaves the stream as it was.              *)
AppendFrame(out, f) ==
  LET payload == IF f.kind \in FromGuest THEN GuestPayload(f) ELSE HostPayload(f) IN
  IF payload = Refused THEN out ELSE out \o <<OpcodeOf[f.kind], 0, Len(payload)>> \o payload

-----------------------------------------------------------------------------
(* Reading: a reader returns the value and what is left, or nothing.       *)

LOCAL Bad == [ok |-> FALSE]
LOCAL Good(value, rest) == [ok |-> TRUE, value |-> value, rest |-> rest]
LOCAL From(s, i) == SubSeq(s, i, Len(s))

ReadPeer(s) ==
  IF Len(s) < 4 \/ s[1] \notin {4, 6} \/ (s[1] = 4 /\ s[4] # 0) THEN Bad
  ELSE Good([family |-> s[1], port |-> s[2], high |-> s[3], low |-> s[4], scoped |-> FALSE], From(s, 5))

ReadStatus(s) ==
  IF Len(s) < 2 \/ s[2] # 0 \/ s[1] \notin SocketErrors \cup {0} THEN Bad ELSE Good(s[1], From(s, 3))

ReadTcpOpen(s) ==
  IF Len(s) < 4 \/ s[1] > 3 THEN Bad
  ELSE LET fields == <<s[2], s[3], s[4]>>
           kept == s[1] >= 2
           peer == ReadPeer(From(s, 5)) IN
       IF (IF kept THEN ~IsKeepalive(s[3], s[4], s[2]) ELSE fields # <<0, 0, 0>>) \/ ~peer.ok THEN Bad
       ELSE Good([kind |-> "tcpOpen", peer |-> peer.value,
                  options |-> [urgent |-> s[1] % 2 = 1,
                               keepalive |-> [idle |-> s[3], interval |-> s[4], probes |-> s[2]]]],
                 peer.rest)

(* The reserved field behind a run's segment size goes unread.             *)
ReadUdpBody(s) ==
  LET peer == ReadPeer(s) IN
  IF ~peer.ok THEN Bad
  ELSE LET rest == peer.rest IN
       IF Len(rest) < 2 THEN Bad
       ELSE IF rest[2] # 0 \/ ~FrameIsValidUdpRun(Len(rest) - 2, rest[1]) THEN Bad
       ELSE Good([peer |-> peer.value, segment |-> rest[1], bytes |-> From(rest, 3)], <<>>)

LOCAL RunFrame(kind, r) == IF r.ok THEN Good([kind |-> kind, run |-> r.value], r.rest) ELSE Bad

GuestDecodePayload(kind, s) ==
  CASE kind = "tcpOpen" -> ReadTcpOpen(s)
    [] kind = "udpSend" -> RunFrame(kind, ReadUdpBody(s))
    [] OTHER -> Bad

HostDecodePayload(kind, s) ==
  CASE kind = "udpDatagram" -> RunFrame(kind, ReadUdpBody(s))
    [] kind = "opened" -> (LET r == ReadStatus(s) IN
         IF r.ok THEN Good([kind |-> kind, error |-> r.value], r.rest) ELSE Bad)
    [] kind = "udpError" -> (LET r == ReadStatus(s) IN
         IF ~r.ok THEN Bad
         ELSE IF r.value = 0 THEN Bad
         ELSE LET p == ReadPeer(r.rest) IN
              IF p.ok THEN Good([kind |-> kind, error |-> r.value, peer |-> p.value], p.rest) ELSE Bad)
    [] OTHER -> Bad

LOCAL MaxPayload == 6 + MaxRunLength
LOCAL HeaderFields == 3

(* read_header and decode_frame: a frame and its length, nothing yet, or   *)
(* an error.                                                               *)
ReadHeader(s) ==
  IF (\E k \in DOMAIN OpcodeOf : OpcodeOf[k] = s[1]) /\ s[2] = 0 /\ s[3] <= MaxPayload
  THEN [ok |-> TRUE, kind |-> CHOOSE k \in DOMAIN OpcodeOf : OpcodeOf[k] = s[1], length |-> s[3]]
  ELSE [ok |-> FALSE]

DecodeFrame(s, side) ==
  IF Len(s) < HeaderFields THEN [is |-> "more"]
  ELSE LET h == ReadHeader(s) IN
       IF ~h.ok THEN [is |-> "error"]
       ELSE IF Len(s) < HeaderFields + h.length THEN [is |-> "more"]
       ELSE LET payload == SubSeq(s, HeaderFields + 1, HeaderFields + h.length)
                r == IF side = "guest" THEN GuestDecodePayload(h.kind, payload)
                     ELSE HostDecodePayload(h.kind, payload) IN
            IF ~r.ok THEN [is |-> "error"]
            ELSE IF r.rest # <<>> THEN [is |-> "error"]
            ELSE [is |-> "frame", frame |-> r.value, length |-> HeaderFields + h.length]

-----------------------------------------------------------------------------

FrameInit ==
  /\ stream = <<>> /\ sentFrames = <<>> /\ gotFrames = <<>> /\ altered = FALSE
  /\ decoding \in {"guest", "host"}

Send(f) ==
  /\ Len(sentFrames) < MaxFramesSent /\ gotFrames = <<>> /\ ~altered
  /\ AppendFrame(stream, f) # stream
  /\ stream' = AppendFrame(stream, f) /\ sentFrames' = Append(sentFrames, f)
  /\ UNCHANGED <<gotFrames, decoding, altered>>

(* One field of the stream is another than was written.                    *)
Alter ==
  /\ ~altered /\ gotFrames = <<>> /\ altered' = TRUE
  /\ \E i \in DOMAIN stream, v \in FieldValues : v # stream[i] /\ stream' = [stream EXCEPT ![i] = v]
  /\ UNCHANGED <<sentFrames, gotFrames, decoding>>

(* StreamDecoder::next_frame                                               *)
NextFrame ==
  LET r == DecodeFrame(stream, decoding) IN
  /\ r.is = "frame"
  /\ gotFrames' = Append(gotFrames, r.frame) /\ stream' = From(stream, r.length + 1)
  /\ UNCHANGED <<sentFrames, decoding, altered>>

FrameNext ==
  \/ \E f \in GuestFrames : decoding = "guest" /\ Send(f)
  \/ \E f \in HostFrames : decoding = "host" /\ Send(f)
  \/ Alter \/ NextFrame

FrameSpec == FrameInit /\ [][FrameNext]_frameVars

-----------------------------------------------------------------------------

LOCAL Normal(f) ==
  IF f.kind \in {"udpSend", "udpDatagram"} /\ Len(f.run.bytes) <= f.run.segment
  THEN [f EXCEPT !.run.segment = 0] ELSE f

(* Frames arrive as they were sent, a run's idle segment size aside, and   *)
(* every frame has one encoding: what the decoder accepts, from a stream   *)
(* with a wrong field too, encodes to the very fields it was read from,    *)
(* and the other side's frames are refused (append_frame, decode_frame,    *)
(* put_udp_body).                                                          *)
FramesAreCanonical ==
  /\ ~altered => /\ \A i \in DOMAIN gotFrames : gotFrames[i] = Normal(sentFrames[i])
                 /\ stream = <<>> => Len(gotFrames) = Len(sentFrames)
                 /\ DecodeFrame(stream, decoding).is # "error"
  /\ LET r == DecodeFrame(stream, decoding) IN
       r.is = "frame" => /\ AppendFrame(<<>>, r.frame) = SubSeq(stream, 1, r.length)
                         /\ DecodeFrame(stream, IF decoding = "guest" THEN "host" ELSE "guest").is = "error"

------------------------------------------------------------------------------
(***************************************************************************)
(* The framed messages of the host/guest channels (terra-protocol          *)
(* frames.rs, bounded.rs) with the sync messages they carry (sync.rs) as   *)
(* the example: a length prefix and a payload, written whole and read from *)
(* a stream that may end at any byte, and what the deserializers let       *)
(* through.  A prefix is two units, a payload is its message's units.      *)
(***************************************************************************)

CONSTANTS PathParts,          \* components of a path; "" empty, "." and "..", "nul" with a NUL
          MaxPathParts,       \* bound on the paths tried
          MaxPathLength,      \* MAX_SYNC_PATH_BYTES, in components
          MaxPayloadUnits,    \* T::MAX_PAYLOAD_BYTES
          MaxFileSize,        \* MAX_SYNC_FILE_BYTES
          FileSizes, NanosPerSecond, NanosStep, Nanos,
          MaxMessages         \* bound on the messages of a stream

VARIABLES messages,    \* what the writer framed
          channel,     \* units on the way; a payload's first unit holds the message
          received, readResult, messageEnded

messageVars == <<messages, channel, received, readResult, messageEnded>>

-----------------------------------------------------------------------------
(* Validation (sync.rs)                                                    *)

TruncateNanos(n) == (n \div NanosStep) * NanosStep

ValidateWirePath(path) == Len(path) <= MaxPathLength /\ \A i \in DOMAIN path : path[i] # "nul"

ValidateRelativePath(path) ==
  path = <<>> \/ (ValidateWirePath(path) /\ \A i \in DOMAIN path : path[i] \notin {"", ".", ".."})

(* deserialize_abs_path: a path that starts with '/' has an empty first    *)
(* component.                                                              *)
ValidateAbsPath(path) == path # <<>> /\ path[1] = "" /\ ValidateWirePath(path)

ValidateFileSize(size) == size <= MaxFileSize
ValidateNanos(n) == n < NanosPerSecond

-----------------------------------------------------------------------------

LOCAL Paths == UNION {[1..n -> PathParts] : n \in 0..MaxPathParts}

SyncRequests ==
  [kind : {"begin"}, path : Paths, size : {0}, nanos : {0}]
  \cup [kind : {"path"}, path : Paths, size : {0}, nanos : {0}]
  \cup [kind : {"write"}, path : {<<"a">>}, size : FileSizes, nanos : Nanos]

(* The fields of a message the deserializers accept.                       *)
Deserializes(m) ==
  /\ IF m.kind = "begin" THEN ValidateAbsPath(m.path) ELSE ValidateRelativePath(m.path)
  /\ ValidateFileSize(m.size) /\ ValidateNanos(m.nanos)

LOCAL Units(m) == 1 + Len(m.path)

PayloadLenWithinLimit(n) == n <= MaxPayloadUnits

(* encode_frame: the units of a frame; only the first of a payload matters *)
LOCAL Prefix(n) == <<[is |-> "length", value |-> n], [is |-> "length", value |-> n]>>
LOCAL MessagePayload(m) == [i \in 1..Units(m) |-> [is |-> "payload", message |-> m, last |-> i = Units(m)]]
EncodeFrame(m) == Prefix(Units(m)) \o MessagePayload(m)

-----------------------------------------------------------------------------

MessageInit ==
  /\ messages = <<>> /\ channel = <<>> /\ received = <<>> /\ readResult = "reading" /\ messageEnded = FALSE

(* write_frame_async: a message over the limit is refused, and nothing of  *)
(* it is written.                                                          *)
WriteFrame(m) ==
  /\ ~messageEnded /\ Len(messages) < MaxMessages /\ PayloadLenWithinLimit(Units(m))
  /\ messages' = Append(messages, m) /\ channel' = channel \o EncodeFrame(m)
  /\ UNCHANGED <<received, readResult, messageEnded>>

(* The stream ends, at any unit the writer had got to.                     *)
EndStream ==
  /\ ~messageEnded /\ messageEnded' = TRUE
  /\ \E n \in 0..Len(channel) : channel' = SubSeq(channel, 1, n)
  /\ UNCHANGED <<messages, received, readResult>>

(* A peer announces more than the limit; the payload behind it is never    *)
(* read.                                                                   *)
AnnounceTooMuch ==
  /\ ~messageEnded /\ Len(messages) < MaxMessages
  /\ messages' = Append(messages, [kind |-> "tooLong"])
  /\ channel' = channel \o Prefix(MaxPayloadUnits + 1)
  /\ UNCHANGED <<received, readResult, messageEnded>>

LOCAL PrefixUnits == 2

(* decode_frame_payload: the payload of one message with nothing behind    *)
(* it; mtimes are cut to the precision all file systems keep.              *)
DecodeFramePayload(payload) ==
  LET m == payload[1].message IN
  IF Len(payload) = Units(m) /\ Deserializes(m) THEN [m EXCEPT !.nanos = TruncateNanos(m.nanos)] ELSE <<>>

(* A stream that ends inside a frame's prefix counts as its clean end.     *)
(* The end is clean only before the first byte of a frame.                 *)
CleanEnd == Len(channel) = 0

(* read_frame_body!: what the reader does once the units it needs have     *)
(* arrived or the stream has ended.                                        *)
ReadFrame ==
  /\ readResult = "reading"
  /\ IF Len(channel) < PrefixUnits
     THEN /\ messageEnded
          /\ readResult' = (IF CleanEnd THEN "end" ELSE "error")
          /\ UNCHANGED <<channel, received>>
     ELSE LET n == channel[1].value IN
          IF ~PayloadLenWithinLimit(n) THEN readResult' = "error" /\ UNCHANGED <<channel, received>>
          ELSE IF Len(channel) < PrefixUnits + n
          THEN messageEnded /\ readResult' = "error" /\ UNCHANGED <<channel, received>>
          ELSE LET m == DecodeFramePayload(SubSeq(channel, PrefixUnits + 1, PrefixUnits + n)) IN
               /\ channel' = SubSeq(channel, PrefixUnits + n + 1, Len(channel))
               /\ readResult' = (IF m = <<>> THEN "error" ELSE "reading")
               /\ received' = (IF m = <<>> THEN received ELSE Append(received, m))
  /\ UNCHANGED <<messages, messageEnded>>

MessageNext ==
  \/ \E m \in SyncRequests : WriteFrame(m)
  \/ EndStream \/ AnnounceTooMuch \/ ReadFrame

MessageSpec == MessageInit /\ [][MessageNext]_messageVars

-----------------------------------------------------------------------------

(* Reading a stream of frames gives its messages in order and whole, with  *)
(* paths below the root only; "end" is said only where a frame ends, so a  *)
(* message cut short is never taken for the end; and a message that was    *)
(* read passes a second trip unchanged (read_frame_body!,                  *)
(* validate_relative_path, truncate_nanos).                                *)
MessagesArriveWhole ==
  /\ Len(received) <= Len(messages)
  /\ \A i \in DOMAIN received :
       /\ received[i] = [messages[i] EXCEPT !.nanos = received[i].nanos]
       /\ received[i].nanos <= messages[i].nanos /\ messages[i].nanos - received[i].nanos < NanosStep
       /\ received[i].kind # "begin" => ".." \notin ToSet(received[i].path)
       /\ DecodeFramePayload(MessagePayload(received[i])) = received[i]
  /\ readResult = "end" => channel = <<>> /\ messageEnded
  /\ readResult = "error" =>
       \/ messageEnded
       \/ LET m == messages[Len(received) + 1] IN m.kind = "tooLong" \/ ~Deserializes(m)

------------------------------------------------------------------------------
(***************************************************************************)
(* The chunked container of the guest kernel and the boot disk             *)
(* (terra-protocol packed_image.rs, guest_image.rs): pack, parse, and      *)
(* reads at any offset through a cache of one decoded chunk.  LZ4 is       *)
(* external: a block decodes to its chunk, or fails having overwritten     *)
(* part of its output.  Byte i of the image holds i; a container is its    *)
(* header and one body of chunk table and payload units.                   *)
(***************************************************************************)

CONSTANTS ImageLengths,       \* lengths of the image packed
          ChunkBytes,         \* chunk_bytes of the kind
          MaxCompressed,      \* the longest block of a chunk
          WrongValues,        \* what a wrong field may hold
          MaxReads            \* bound on the reads

VARIABLES container, packedLength, packedSizes, broken, damaged,
          parsed, cachedIndex, cachedBytes, reading, reads

imageVars == <<container, packedLength, packedSizes, broken, damaged,
               parsed, cachedIndex, cachedBytes, reading, reads>>

LOCAL ImageCeil(a, b) == (a + b - 1) \div b
LOCAL SumOf(s) == FoldLeft(+, 0, s)
LOCAL NoRead == [at |-> "none"]
LOCAL NoImage == [ok |-> FALSE, size |-> 0]
LOCAL NoIndex == 0
LOCAL Garbage == -1

-----------------------------------------------------------------------------
(* pack: a header and, per chunk, its block's size and units.              *)

LOCAL ChunkCount(n) == ImageCeil(n, ChunkBytes)

Pack(n, sizes) ==
  [magic |-> TRUE, marker |-> TRUE, size |-> n,
   body |-> sizes \o [i \in 1..SumOf(sizes) |-> 1]]

(* parse with the check on the payload's length left out.                  *)
(* PackedImage::parse                                                      *)
Parse(c) ==
  LET n == ChunkCount(c.size) IN
  IF ~c.magic \/ ~c.marker \/ c.size = 0 \/ Len(c.body) < n THEN NoImage
  ELSE LET table == SubSeq(c.body, 1, n) IN
       IF \/ \E i \in 1..n : table[i] \notin 1..MaxCompressed
          \/ SumOf(table) # Len(c.body) - n THEN NoImage
       ELSE [ok |-> TRUE, size |-> c.size,
             blocks |-> [i \in 1..n |-> [from |-> SumOf(SubSeq(table, 1, i - 1)), length |-> table[i]]],
             payload |-> Len(c.body) - n]

ChunkLen(index) ==
  LET remaining == parsed.size - (index - 1) * ChunkBytes IN
  IF remaining < ChunkBytes THEN remaining ELSE ChunkBytes

-----------------------------------------------------------------------------

ImageInit ==
  /\ packedLength \in ImageLengths
  /\ packedSizes \in [1..ChunkCount(packedLength) -> 1..MaxCompressed]
  /\ container = Pack(packedLength, packedSizes)
  /\ broken \in SUBSET (1..ChunkCount(packedLength))
  /\ damaged = FALSE /\ parsed = NoImage /\ cachedIndex = NoIndex /\ cachedBytes = <<>>
  /\ reading = NoRead /\ reads = 0

(* The container at hand is not the one packed.                            *)
Damage ==
  /\ ~damaged /\ ~parsed.ok /\ damaged' = TRUE
  /\ \/ container' = [container EXCEPT !.magic = FALSE]
     \/ container' = [container EXCEPT !.marker = FALSE]
     \/ \E v \in WrongValues : container' = [container EXCEPT !.size = v]
     \/ \E i \in DOMAIN packedSizes, v \in WrongValues : container' = [container EXCEPT !.body[i] = v]
     \/ \E n \in 0..(Len(container.body) - 1) : container' = [container EXCEPT !.body = SubSeq(@, 1, n)]
     \/ container' = [container EXCEPT !.body = Append(@, 1)]
  /\ UNCHANGED <<packedLength, packedSizes, broken, parsed, cachedIndex, cachedBytes, reading, reads>>

ParseImage ==
  /\ ~parsed.ok /\ Parse(container).ok /\ parsed' = Parse(container)
  /\ UNCHANGED <<container, packedLength, packedSizes, broken, damaged, cachedIndex, cachedBytes, reading, reads>>

(* read_at: a read past the end is refused.                                *)
BeginRead(offset, length) ==
  /\ parsed.ok /\ reading = NoRead /\ reads < MaxReads
  /\ offset + length <= parsed.size
  /\ reading' = [at |-> "copying", offset |-> offset, length |-> length, buf |-> <<>>]
  /\ reads' = reads + 1
  /\ UNCHANGED <<container, packedLength, packedSizes, broken, damaged, parsed, cachedIndex, cachedBytes>>

LOCAL Copied == Len(reading.buf)
LOCAL Position == reading.offset + Copied
LOCAL Index == (Position \div ChunkBytes) + 1
LOCAL Within == Position % ChunkBytes
LOCAL Wanted == reading.length - Copied
LOCAL ChunkBytesOf(index, n) == [i \in 1..n |-> (index - 1) * ChunkBytes + i - 1]

(* decode_block: what was packed decodes to its chunk; a broken block, or  *)
(* a range that is no packed block, does not.                              *)
Decodes(index) ==
  /\ index \in DOMAIN packedSizes \ broken
  /\ parsed.blocks[index] = Parse(Pack(packedLength, packedSizes)).blocks[index]
  /\ \/ parsed.size = packedLength
     \/ index * ChunkBytes <= parsed.size /\ index * ChunkBytes <= packedLength

LOCAL WholeChunk == Within = 0 /\ Wanted >= ChunkLen(Index)

CopyWholeChunk ==
  /\ reading.at = "copying" /\ Wanted > 0 /\ WholeChunk
  /\ IF Decodes(Index)
     THEN reading' = [reading EXCEPT !.buf = @ \o ChunkBytesOf(Index, ChunkLen(Index))]
     ELSE reading' = [reading EXCEPT !.at = "failed"]
  /\ UNCHANGED <<container, packedLength, packedSizes, broken, damaged, parsed, cachedIndex, cachedBytes, reads>>

(* A partly read chunk is decoded over the cache while the cache still     *)
(* counts as the chunk it held.                                            *)
(* A partly read chunk is decoded into the cache, which counts as empty    *)
(* until it is.                                                            *)
FillCache ==
  /\ reading.at = "copying" /\ Wanted > 0 /\ ~WholeChunk /\ cachedIndex # Index
  /\ IF Decodes(Index)
     THEN /\ cachedIndex' = Index /\ cachedBytes' = ChunkBytesOf(Index, ChunkLen(Index))
          /\ UNCHANGED reading
     ELSE /\ cachedIndex' = NoIndex /\ cachedBytes' = [i \in 1..ChunkBytes |-> Garbage]
          /\ reading' = [reading EXCEPT !.at = "failed"]
  /\ UNCHANGED <<container, packedLength, packedSizes, broken, damaged, parsed, reads>>

CopyFromCache ==
  /\ reading.at = "copying" /\ Wanted > 0 /\ ~WholeChunk /\ cachedIndex = Index
  /\ LET left == ChunkLen(Index) - Within
         take == IF left < Wanted THEN left ELSE Wanted IN
       reading' = [reading EXCEPT !.buf = @ \o SubSeq(cachedBytes, Within + 1, Within + take)]
  /\ UNCHANGED <<container, packedLength, packedSizes, broken, damaged, parsed, cachedIndex, cachedBytes, reads>>

EndRead ==
  /\ reading # NoRead /\ (reading.at = "failed" \/ Copied = reading.length) /\ reading' = NoRead
  /\ UNCHANGED <<container, packedLength, packedSizes, broken, damaged, parsed, cachedIndex, cachedBytes, reads>>

ImageNext ==
  \/ Damage \/ ParseImage
  \/ \E o \in 0..parsed.size, n \in 0..parsed.size : BeginRead(o, n)
  \/ CopyWholeChunk \/ FillCache \/ CopyFromCache \/ EndRead

ImageSpec == ImageInit /\ [][ImageNext]_imageVars

-----------------------------------------------------------------------------

(* What a read has copied is the image at its offset, whatever reads came  *)
(* before it and however they ended; an accepted container's chunks lie    *)
(* one behind the other in its payload and fill it, so no read leaves it;  *)
(* and what pack writes is accepted (parse, read_at, pack).                *)
ReadsAreExact ==
  /\ reading # NoRead => \A i \in DOMAIN reading.buf : reading.buf[i] = reading.offset + i - 1
  /\ ~damaged => Parse(container).ok
  /\ parsed.ok =>
       /\ Len(parsed.blocks) = ChunkCount(parsed.size)
       /\ \A i \in DOMAIN parsed.blocks :
            parsed.blocks[i].from + parsed.blocks[i].length =
              IF i = Len(parsed.blocks) THEN parsed.payload ELSE parsed.blocks[i + 1].from
==============================================================================
