----------------------------- MODULE MCDevices ------------------------------
(***************************************************************************)
(* A box's devices and the streams behind them, for TLC: the block device, *)
(* the balloon, the watches of shared files, the file system device, the   *)
(* vsock frontend's flows, and the channels, pipes and sessions that carry *)
(* its streams. The machines share no state; a behaviour is one machine's, *)
(* named by scenario.                                                      *)
(***************************************************************************)
EXTENDS HostDevices, FsDevice, VsockStreams

VARIABLE scenario   \* the machine that runs (rigid)

allVars == <<scenario, blockVars, balloonVars, fileEventVars, fsVars, flowVars, channelVars,
              pipeVars, agentCompVars>>

-----------------------------------------------------------------------------
R(t, s, n, sh) == [type |-> t, sector |-> s, sectors |-> n, shape |-> sh, value |-> 1]
MCReqs == {R("out", 0, 1, "ok"), R("in", 1, 2, "ok"), R("flush", 0, 0, "ok"), R("discard", 0, 2, "ok"), R("in", 0, 1, "no_status")}

D(a,l,w) == [addr |-> a, len |-> l, write |-> w]
MCReports == {<<D(4,2,TRUE)>>, <<D(4,2,TRUE), D(6,2,TRUE)>>, <<D(3,2,TRUE)>>, <<D(0,2,TRUE)>>, <<D(6,4,TRUE)>>}

MCFsScripts == {<<"init", "lookup", "forget", "lookup", "lookup">>, <<"init", "create", "write", "write", "init">>,
                <<"init", "event", "lookup", "cancel", "event">>, <<"init", "opendir", "readdir", "releasedir">>,
                <<"init", "mkdir", "link", "rename">>, <<"init", "lookup", "open", "read">>,
                <<"malformed", "init", "getattr", "unlink">>}

-----------------------------------------------------------------------------
\* A machine that does not run has no state to speak of.
BalloonOff == balloon = 0 /\ balloonLoop = 0 /\ freed = 0 /\ context = 0 /\ driver = 0
EventsOff == tree = 0 /\ native = 0 /\ queue = 0 /\ watchOut = 0 /\ lastSeen = 0
             /\ others = 0 /\ watches = 0 /\ session = 0 /\ owed = 0
FsOff == fsScript = 0 /\ kernel = 0 /\ rings = 0 /\ table = 0 /\ io = 0 /\ share = 0
         /\ runner = 0 /\ watcher = 0
ChannelOff == source = 0 /\ channelQueue = 0 /\ sinkOpen = 0 /\ channelCancelled = 0
              /\ gaveUp = 0 /\ carried = 0 /\ taken = 0 /\ ended = 0 /\ items = 0
              /\ handed = 0
PipeOff == streamPipe = 0 /\ ends = 0 /\ role = 0 /\ written = 0 /\ got = 0 /\ finished = 0
AgentOff == carrier = 0 /\ agentControl = 0 /\ guestSent = 0 /\ console = 0
            /\ agentSession = 0 /\ events = 0 /\ notes = 0 /\ writing = 0 /\ closed = 0
            /\ host = 0 /\ delivered = 0 /\ file = 0 /\ agentClient = 0

MCInit ==
  /\ scenario \in {"block", "balloon", "events", "fs", "flows", "channel", "pipe", "agent"}
  /\ BlockInit /\ (scenario = "block" \/ ~blockDisk.readonly)
  /\ IF scenario = "balloon" THEN BalloonInit ELSE BalloonOff
  /\ IF scenario = "events" THEN FileEventsInit ELSE EventsOff
  /\ IF scenario = "fs" THEN FsInit ELSE FsOff
  /\ FlowsInit
  /\ IF scenario = "channel" THEN ChannelInit ELSE ChannelOff
  /\ IF scenario = "pipe" THEN PipeInit ELSE PipeOff
  /\ IF scenario = "agent" THEN AgentCompInit ELSE AgentOff

MCNext ==
  \/ /\ scenario = "block" /\ BlockNext
     /\ UNCHANGED <<scenario, balloonVars, fileEventVars, fsVars, flowVars, channelVars, pipeVars, agentCompVars>>
  \/ /\ scenario = "balloon" /\ BalloonNext
     /\ UNCHANGED <<scenario, blockVars, fileEventVars, fsVars, flowVars, channelVars, pipeVars, agentCompVars>>
  \/ /\ scenario = "events" /\ FileEventsNext
     /\ UNCHANGED <<scenario, blockVars, balloonVars, fsVars, flowVars, channelVars, pipeVars, agentCompVars>>
  \/ /\ scenario = "fs" /\ FsNext
     /\ UNCHANGED <<scenario, blockVars, balloonVars, fileEventVars, flowVars, channelVars, pipeVars, agentCompVars>>
  \/ /\ scenario = "flows" /\ FlowsNext
     /\ UNCHANGED <<scenario, blockVars, balloonVars, fileEventVars, fsVars, channelVars, pipeVars, agentCompVars>>
  \/ /\ scenario = "channel" /\ ChannelNext
     /\ UNCHANGED <<scenario, blockVars, balloonVars, fileEventVars, fsVars, flowVars, pipeVars, agentCompVars>>
  \/ /\ scenario = "pipe" /\ PipeNext
     /\ UNCHANGED <<scenario, blockVars, balloonVars, fileEventVars, fsVars, flowVars, channelVars, agentCompVars>>
  \/ /\ scenario = "agent" /\ AgentCompNext
     /\ UNCHANGED <<scenario, blockVars, balloonVars, fileEventVars, fsVars, flowVars, channelVars, pipeVars>>

\* The block device's tasks are polled and the blocking pool runs its jobs; a driver
\* notifies what it posted.
BlockFair ==
  /\ WF_blockVars(scenario = "block" /\ WorkerStep) /\ WF_blockVars(scenario = "block" /\ RunJob)
  /\ WF_blockVars(scenario = "block" /\ Notify)

\* The balloon's loop and the host's loop are polled when woken; the threads of the
\* watches run, and nobody has to read the events or to stop the session.
LoopsFair ==
  /\ WF_balloonVars(scenario = "balloon" /\ BalloonWake) /\ WF_balloonVars(scenario = "balloon" /\ ServeReport)
  /\ WF_balloonVars(scenario = "balloon" /\ ForwardLevel) /\ WF_balloonVars(scenario = "balloon" /\ BalloonNotify)
  /\ WF_fileEventVars(scenario = "events" /\ ForwardEvent) /\ WF_fileEventVars(scenario = "events" /\ StartWatches)
  /\ WF_fileEventVars(scenario = "events" /\ ReceiveEvent) /\ WF_fileEventVars(scenario = "events" /\ UpdateWatches)

\* The executor polls the file system's loop and its worker, the host ends its operations
\* and the guest rings the bell it owes.
FsFair ==
  /\ []<>(scenario = "fs" => ~RunReady) \/ []<><<scenario = "fs" /\ FsRun>>_fsVars
  /\ WF_fsVars(scenario = "fs" /\ HostStep) /\ WF_fsVars(scenario = "fs" /\ FsNotify)
  /\ WF_fsVars(scenario = "fs" /\ EventTake) /\ WF_fsVars(scenario = "fs" /\ EventAborted)
  /\ WF_fsVars(scenario = "fs" /\ FsSkip)

\* The frontend's worker and its runnable tasks are polled, and the guest posts buffers.
FlowsFair ==
  /\ WF_flowVars(scenario = "flows" /\ WorkerTurn) /\ WF_flowVars(scenario = "flows" /\ WakeWorker)
  /\ WF_flowVars(scenario = "flows" /\ GuestPosts) /\ WF_flowVars(scenario = "flows" /\ ListenerConnects)
  /\ WF_flowVars(scenario = "flows" /\ ListenerWaitsRetired)
  /\ \A i \in Connections : /\ WF_flowVars(scenario = "flows" /\ RelayUpstream(i))
                            /\ WF_flowVars(scenario = "flows" /\ OpenSocket(i))

\* Both ends of a pipe are polled when they have something to do, and so are the agent
\* component's tasks and the host's loop; what the guest, the clients and whoever closes
\* the box do is up to them.
StreamsFair ==
  /\ WF_pipeVars(scenario = "pipe" /\ PipeProgress)
  /\ WF_agentCompVars(scenario = "agent" /\ AgentCompProgress)

MCSpec == MCInit /\ [][MCNext]_allVars /\ BlockFair /\ LoopsFair /\ FsFair /\ FlowsFair /\ StreamsFair

-----------------------------------------------------------------------------
\* The other devices and what carries their bytes: a close leaves the disk written
\* (CloseIsDurable), a page is discarded only where the guest may read zeroes for it, a
\* change of a shared file is not swallowed, a file system request is answered once, in
\* its own life of the device, its file's writes keep their order, a node the guest holds
\* is kept, a channel's bytes and a pipe's are those written, of the same connection and in
\* order, and the host hears of the agent's session in order.
DevicesHold ==
  /\ scenario = "balloon" => DiscardIsSafe
  /\ scenario = "events" => ChangesReachTheGuest
  /\ scenario = "fs" => NoStaleReply /\ FileOrderHolds /\ HeldNodesAreKept
  /\ CloseIsDurable
  /\ scenario = "channel" => ChannelsKeepBytes
  /\ scenario = "pipe" => PipeKeepsConnections
  /\ scenario = "agent" => AgentTellsInOrder

\* What the guest asks of a device is answered, and what it is told it hears: requests
\* complete, reports come back, the interrupt level is forwarded, watches end with their
\* session, slots return, no end of a pipe sleeps on work, and the agent ends.
DevicesAnswer ==
  []<>(/\ scenario = "block" => RequestsComplete
       /\ scenario = "balloon" => LevelIsForwarded /\ ReportsAreReturned
       /\ scenario = "events" => WatchesEnd
       /\ scenario = "fs" => RequestsAreAnswered
       /\ scenario = "flows" => SlotsReturn
       /\ scenario = "pipe" => NoEndSleeps
       /\ scenario = "agent" => AgentIsOver)
=============================================================================
