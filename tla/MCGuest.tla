------------------------------ MODULE MCGuest -------------------------------
(***************************************************************************)
(* A box's guest, for TLC: the reaper, the agent from boot to stop, its    *)
(* services, the terminal session, executions, the root disk and the       *)
(* published ports. The machines share no state; a behaviour is one        *)
(* machine's, named by scenario.                                           *)
(***************************************************************************)
EXTENDS GuestInit, GuestSessions

VARIABLE scenario   \* the machine that runs (rigid)

allVars == <<scenario, reapVars, agentVars, serviceVars, sessionVars, execVars, bootDiskVars,
              publishVars>>

-----------------------------------------------------------------------------
-----------------------------------------------------------------------------
\* A machine that does not run has no state to speak of.
BootOff == boot = 0 /\ token = 0 /\ hook = 0 /\ work = 0 /\ daemon = 0 /\ stopper = 0
           /\ report = 0
ServicesOff == startup = 0 /\ shutdown = 0 /\ serveClosing = 0 /\ server = 0
               /\ serveQueue = 0 /\ serveConn = 0 /\ awaited = 0 /\ hint = 0 /\ bridge = 0
               /\ serveNotes = 0 /\ serveWriting = 0 /\ serveDelivered = 0 /\ recorded = 0
SessionOff == screen = 0 /\ terminal = 0 /\ termConn = 0 /\ task = 0 /\ asked = 0
ExecOff == execution = 0 /\ child = 0 /\ execStream = 0 /\ pump = 0 /\ input = 0
           /\ execPeer = 0 /\ execSent = 0
DisksOff == rootMode = 0 /\ image = 0 /\ fs = 0 /\ vm = 0 /\ bootMode = 0 /\ growing = 0
            /\ attempts = 0 /\ busy = 0 /\ places = 0 /\ failedBoot = 0 /\ warned = 0
            /\ baked = 0 /\ rootBoots = 0
PortsOff == publishPart = 0 /\ publishCarrier = 0 /\ tcpSlots = 0 /\ udpSlots = 0
            /\ carrierSlots = 0 /\ publicationsDown = 0 /\ peers = 0 /\ nextReply = 0
            /\ nextSocket = 0 /\ spokenFor = 0 /\ publishAnswers = 0 /\ toHost = 0
            /\ publishNow = 0 /\ hostDatagrams = 0

MCInit ==
  /\ scenario \in {"reaper", "boot", "services", "session", "exec", "disks", "ports"}
  /\ ReapInit
  /\ IF scenario = "boot" THEN AgentInit ELSE BootOff
  /\ IF scenario = "services" THEN ServiceInit ELSE ServicesOff
  /\ IF scenario = "session" THEN SessionInit ELSE SessionOff
  /\ IF scenario = "exec" THEN ExecInit ELSE ExecOff
  /\ IF scenario = "disks" THEN BootDiskInit ELSE DisksOff
  /\ IF scenario = "ports" THEN PublishInit ELSE PortsOff

MCNext ==
  \/ /\ scenario = "reaper" /\ ReapNext
     /\ UNCHANGED <<scenario, agentVars, serviceVars, sessionVars, execVars, bootDiskVars, publishVars>>
  \/ /\ scenario = "boot" /\ AgentNext
     /\ UNCHANGED <<scenario, reapVars, serviceVars, sessionVars, execVars, bootDiskVars, publishVars>>
  \/ /\ scenario = "services" /\ ServiceNext
     /\ UNCHANGED <<scenario, reapVars, agentVars, sessionVars, execVars, bootDiskVars, publishVars>>
  \/ /\ scenario = "session" /\ SessionNext
     /\ UNCHANGED <<scenario, reapVars, agentVars, serviceVars, execVars, bootDiskVars, publishVars>>
  \/ /\ scenario = "exec" /\ ExecNext
     /\ UNCHANGED <<scenario, reapVars, agentVars, serviceVars, sessionVars, bootDiskVars, publishVars>>
  \/ /\ scenario = "disks" /\ BootDiskNext
     /\ UNCHANGED <<scenario, reapVars, agentVars, serviceVars, sessionVars, execVars, publishVars>>
  \/ /\ scenario = "ports" /\ PublishNext
     /\ UNCHANGED <<scenario, reapVars, agentVars, serviceVars, sessionVars, execVars, bootDiskVars>>

\* The guest's tasks run while they can and timers run out; a killed process is dead.  No
\* process need ever exit by itself or on TERM.
GuestFair ==
  /\ WF_reapVars(scenario = "reaper" /\ ReaperWakes) /\ WF_reapVars(scenario = "reaper" /\ ReapOneOrphan)
  /\ \A c \in OwnedChildren : WF_reapVars(scenario = "reaper" /\ CollectStatus(c))
  /\ WF_agentVars(scenario = "boot" /\ BootStep)
  /\ \A d \in Daemons : WF_agentVars(scenario = "boot" /\ SupervisorStep(d))
  /\ \A s \in {"boot", "shutdown"} : WF_agentVars(scenario = "boot" /\ StopperStep(s))

\* Timers fire, tasks that were cancelled end, and a worker whose socket was shut down
\* ends; clients and the host's reader promise nothing.
ServicesFair ==
  /\ WF_serviceVars(scenario = "services" /\ InitialSessionFails) /\ WF_serviceVars(scenario = "services" /\ ServerEnds)
  /\ WF_serviceVars(scenario = "services" /\ TasksEnd) /\ WF_serviceVars(scenario = "services" /\ FinishDiagnostics)
  /\ WF_serviceVars(scenario = "services" /\ WriterEnds)
  /\ \A s \in Streams :
       /\ WF_serviceVars(scenario = "services" /\ ChooseNothing(s))
       /\ WF_serviceVars(scenario = "services" /\ WaitUntilStarted(s))
       /\ WF_serviceVars(scenario = "services" /\ StartService(s))
       /\ WF_serviceVars(scenario = "services" /\ shutdown /\ ServiceEnds(s))
       /\ WF_serviceVars(scenario = "services" /\ TransferStep(s))
       /\ WF_serviceVars(scenario = "services" /\ serveConn[s].shut /\ WorkerEnds(s))
       /\ WF_serviceVars(scenario = "services" /\ BridgeCloses(s))

\* An execution's task runs and its timers run out; the process need not exit or write,
\* and reading its output does not fail by itself.  The relay of a published port is
\* scheduled while a socket is readable.
SessionsFair ==
  /\ WF_execVars(scenario = "exec" /\ ExecStep) /\ WF_execVars(scenario = "exec" /\ ~execPeer.connected /\ EndInput)
  /\ \A s \in {"Out", "Err"} :
       /\ WF_execVars(scenario = "exec" /\ SendChunk(s))
       /\ WF_execVars(scenario = "exec" /\ (execPeer.shutdown \/ child.drained) /\ EndPump(s))
  /\ WF_publishVars(scenario = "ports" /\ publishPart = "relay" /\ ForwardPeerReplies)

MCSpec == MCInit /\ [][MCNext]_allVars /\ GuestFair /\ ServicesFair /\ SessionsFair

-----------------------------------------------------------------------------
\* In the guest: nothing runs when the file systems are left, services stay in their
\* place, output is seen once, an exit comes last, a disk grows safely and boots, and a
\* published port relays only its own.
GuestHolds ==
  /\ scenario = "boot" => NothingRunsAtTheEnd
  /\ scenario = "services" => ServicesKeepTheirPlace
  /\ scenario = "session" => OutputIsSeenOnce
  /\ scenario = "exec" => ExitComesLast
  /\ scenario = "disks" => BakedBoxBoots /\ GrowthIsSafe
  /\ scenario = "ports" => PublicationsAreOwn

\* What was begun ends: exited children are collected, a stopped box powers off, a closing
\* agent's services leave, an abandoned execution ends; and an answer of a published
\* service gets its turn.
GuestEnds ==
  /\ []<>(/\ scenario = "reaper" => ExitsAreCollected
          /\ scenario = "boot" => StopEndsTheBox
          /\ scenario = "services" => ServicesEnd
          /\ scenario = "exec" => ExecutionEnds)
  /\ \A s \in 1..MaxHostDatagrams : []<>(scenario = "ports" => AnswerIsTaken(s))
=============================================================================
