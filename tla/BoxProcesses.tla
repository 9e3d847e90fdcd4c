--------------------------- MODULE BoxProcesses ---------------------------
EXTENDS Integers, Sequences, FiniteSets
LOCAL INSTANCE SequencesExt

(***************************************************************************)
(* A box's supervisor process between the command that launched it and the *)
(* VM and network broker processes it owns (crates/terra/src/vm/           *)
(* {supervisor,boot}.rs, process.rs): startup, the readiness byte passed   *)
(* up, interrupts, the exits of its children, and its deadlines.           *)
(***************************************************************************)

VARIABLES
  sup,       \* the supervisor: where it is and what it has decided
  vmProc,    \* the VM process
  pipe,      \* the VM's startup pipe: "open", "ready" or "closed"
  reader,    \* what the startup reader thread has delivered
  broker,    \* the broker process: "none", "up", "ok", "bad" or "killed"
  signals,   \* interrupts of the supervisor: "none", "early", "pending", "taken"
  up,        \* the supervisor's own startup pipe, as for pipe
  front      \* the launching command

supVars == <<sup, vmProc, pipe, reader, broker, signals, up, front>>

LOCAL Goto(pc) == sup' = [sup EXCEPT !.pc = pc]
LOCAL At(pc) == sup.pc = pc
SupOver == sup.pc \in {"done", "dead"}

SupInit ==
  /\ \E network \in BOOLEAN, mode \in {"detached", "attach", "foreground"} :
       /\ sup = [pc |-> "broker", network |-> network, ready |-> FALSE, stopping |-> FALSE,
                 watched |-> TRUE, result |-> "none"]
       /\ front = [mode |-> mode, pc |-> "wait"]
  /\ vmProc = [state |-> "none", ready |-> FALSE, ok |-> FALSE, asked |-> FALSE]
  /\ pipe = "open" /\ reader = "reading" /\ broker = "none"
  /\ signals = "none" /\ up = "open"

-----------------------------------------------------------------------------
(* The VM process, its reader thread, the broker and the operator.          *)

\* write_agent_ready of the VM process.
VmReady ==
  /\ vmProc.state = "up" /\ ~vmProc.ready
  /\ vmProc' = [vmProc EXCEPT !.ready = TRUE]
  /\ pipe' = "ready"
  /\ UNCHANGED <<sup, reader, broker, signals, up, front>>

VmExit ==
  /\ vmProc.state = "up"
  /\ \E ok \in BOOLEAN : vmProc' = [vmProc EXCEPT !.state = "exited", !.ok = ok]
  /\ pipe' = IF pipe = "open" THEN "closed" ELSE pipe
  /\ UNCHANGED <<sup, reader, broker, signals, up, front>>

\* kill_vm_child reaches it, or its parent's death does.
VmDies ==
  /\ vmProc.state \in {"up", "killed"} /\ SupOver
  /\ vmProc' = [vmProc EXCEPT !.state = "exited"]
  /\ pipe' = IF pipe = "open" THEN "closed" ELSE pipe
  /\ UNCHANGED <<sup, reader, broker, signals, up, front>>

\* read_agent_ready: the byte, or an end of file.
ReadStartup ==
  /\ reader = "reading" /\ pipe # "open"
  /\ reader' = IF pipe = "ready" THEN "ready" ELSE "eof"
  /\ UNCHANGED <<sup, vmProc, pipe, broker, signals, up, front>>

BrokerExits ==
  /\ broker = "up" /\ broker' \in {"ok", "bad"}
  /\ UNCHANGED <<sup, vmProc, pipe, reader, signals, up, front>>

\* A signal before supervise starts shows in is_interrupted only.
Interrupt ==
  /\ ~SupOver /\ signals = "none"
  /\ signals' = IF sup.pc \in {"broker", "vm", "publish"} THEN "early" ELSE "pending"
  /\ UNCHANGED <<sup, vmProc, pipe, reader, broker, up, front>>

-----------------------------------------------------------------------------
(* run_box.                                                                 *)

\* Every way out drops the children: SupervisedChild::drop kills them.
Leave(result) ==
  /\ sup' = [sup EXCEPT !.pc = "done", !.result = result]
  /\ broker' = IF broker = "up" THEN "killed" ELSE broker
  /\ vmProc' = IF vmProc.state = "up" THEN [vmProc EXCEPT !.state = "killed"] ELSE vmProc
  /\ up' = IF up = "open" THEN "closed" ELSE up

\* start_optional_broker: bind, launch, exchange the configuration, and wait
\* for readiness up to BROKER_STARTUP_TIMEOUT.
StartBroker ==
  /\ At("broker")
  /\ \/ /\ broker' = IF sup.network THEN "up" ELSE "none"
        /\ Goto("vm") /\ UNCHANGED <<vmProc, up>>
     \/ sup.network /\ Leave("error")
  /\ UNCHANGED <<pipe, reader, signals, front>>

SpawnVm ==
  /\ At("vm")
  /\ \/ /\ vmProc' = [vmProc EXCEPT !.state = "up"]
        /\ Goto("publish") /\ UNCHANGED <<broker, up>>
     \/ Leave("error")
  /\ UNCHANGED <<pipe, reader, signals, front>>

\* publish_vm_pid, the boot specification, the reader thread, the sandbox;
\* supervise begins by refusing an early interrupt.
EnterLoop ==
  /\ At("publish")
  /\ \/ /\ signals # "early"
        /\ Goto("loop") /\ UNCHANGED <<broker, up, vmProc>>
     \/ Leave("error")
  /\ UNCHANGED <<pipe, reader, signals, front>>

-----------------------------------------------------------------------------
(* supervise: one branch of the select per action.                          *)

TakeInterrupt ==
  /\ At("loop") /\ signals = "pending" /\ ~sup.stopping
  /\ signals' = "taken"
  /\ IF sup.ready
     THEN /\ sup' = [sup EXCEPT !.stopping = TRUE]
          /\ vmProc' = [vmProc EXCEPT !.asked = TRUE]
          /\ UNCHANGED <<broker, up>>
     ELSE Leave("error")
  /\ UNCHANGED <<pipe, reader, front>>

TakeVmExit ==
  /\ At("loop") /\ vmProc.state = "exited"
  /\ Goto(IF sup.ready THEN "broker_end" ELSE "report")
  /\ UNCHANGED <<vmProc, pipe, reader, broker, signals, up, front>>

TakeBrokerExit ==
  /\ At("loop") /\ sup.watched /\ broker \in {"ok", "bad"}
  /\ CASE sup.ready ->
            sup' = [sup EXCEPT !.watched = FALSE] /\ UNCHANGED <<vmProc, broker, up>>
       [] ~sup.ready /\ broker = "ok" ->
            Goto("broker_wait") /\ UNCHANGED <<vmProc, broker, up>>
       [] OTHER -> Leave("error")
  /\ UNCHANGED <<pipe, reader, signals, front>>

TakeStartup ==
  /\ At("loop") /\ ~sup.ready /\ reader # "reading"
  /\ IF reader = "ready"
     THEN sup' = [sup EXCEPT !.ready = TRUE] /\ up' = "ready"
     ELSE Goto("startup_wait") /\ UNCHANGED up
  /\ UNCHANGED <<vmProc, pipe, reader, broker, signals, front>>

StartupDeadline ==
  /\ At("loop") /\ ~sup.ready
  /\ Leave("error") /\ UNCHANGED <<pipe, reader, signals, front>>

StopDeadline ==
  /\ At("loop") /\ sup.stopping
  /\ Leave("error") /\ UNCHANGED <<pipe, reader, signals, front>>

\* A broker that ended well, or a startup pipe that closed, may mean that the
\* VM is about to exit: CLEANUP_TIMEOUT for it to do so.
AwaitVmExit ==
  /\ sup.pc \in {"broker_wait", "startup_wait"}
  /\ \/ /\ vmProc.state = "exited"
        /\ Goto(IF At("broker_wait") THEN "report" ELSE "broker_end")
        /\ UNCHANGED <<vmProc, broker, up>>
     \/ vmProc.state # "exited" /\ Leave("error")
  /\ UNCHANGED <<pipe, reader, signals, front>>

\* report_vm_exit: the notification the loop did not read still goes up.  The
\* VM is gone, so its reader thread has something to deliver.
DropNotification ==
  /\ At("report") /\ Goto("broker_end")
  /\ UNCHANGED <<vmProc, pipe, reader, broker, signals, up, front>>

ReportReadiness ==
  /\ At("report") /\ reader # "reading"
  /\ up' = IF reader = "ready" THEN "ready" ELSE up
  /\ Goto("broker_end")
  /\ UNCHANGED <<vmProc, pipe, reader, broker, signals, front>>

ReportBroker ==
  /\ At("broker_end")
  /\ Leave(IF sup.watched /\ ~sup.ready /\ broker = "bad" THEN "error" ELSE "exit")
  /\ UNCHANGED <<pipe, reader, signals, front>>

-----------------------------------------------------------------------------
(* The launching command: wait_for_detached_agent, spawn_and_attach and     *)
(* spawn_foreground.                                                        *)

LOCAL Foremost(pc) == front' = [front EXCEPT !.pc = pc]

\* kill_and_reap_vm kills the supervisor, whose children die with it.
KillSupervisor ==
  /\ sup' = IF SupOver THEN sup ELSE [sup EXCEPT !.pc = "dead"]
  /\ broker' = IF broker = "up" THEN "killed" ELSE broker
  /\ vmProc' = IF vmProc.state = "up" THEN [vmProc EXCEPT !.state = "killed"] ELSE vmProc
  /\ up' = IF up = "open" THEN "closed" ELSE up

FrontReady ==
  /\ front.pc = "wait" /\ front.mode # "attach" /\ up = "ready"
  /\ Foremost(IF front.mode = "detached" THEN "started" ELSE "running")
  /\ UNCHANGED <<sup, vmProc, pipe, reader, broker, signals, up>>

\* The pipe closed before readiness: the supervisor has KILL_REAP_WAIT to end.
FrontClosed ==
  /\ front.pc = "wait" /\ front.mode # "attach" /\ up = "closed"
  /\ \/ SupOver /\ UNCHANGED <<sup, broker, vmProc, up>>
     \/ ~SupOver /\ KillSupervisor
  /\ Foremost("failed")
  /\ UNCHANGED <<pipe, reader, signals>>

FrontDeadline ==
  /\ front.pc = "wait" /\ up = "open"
  /\ KillSupervisor /\ Foremost("failed")
  /\ UNCHANGED <<pipe, reader, signals>>

\* spawn_and_attach joins the session of a ready agent, or learns that the
\* box ended before it had one.
FrontAttach ==
  /\ front.mode = "attach" /\ front.pc = "wait"
  /\ \/ vmProc.state = "up" /\ vmProc.ready /\ Foremost("running")
     \/ SupOver /\ Foremost("ended")
  /\ UNCHANGED <<sup, vmProc, pipe, reader, broker, signals, up>>

FrontDetach ==
  /\ front.mode = "attach" /\ front.pc = "running" /\ Foremost("detached")
  /\ UNCHANGED <<sup, vmProc, pipe, reader, broker, signals, up>>

\* The exit of the box is the exit of the command.
FrontEnds ==
  /\ front.pc = "running" /\ SupOver /\ Foremost("ended")
  /\ UNCHANGED <<sup, vmProc, pipe, reader, broker, signals, up>>

\* An interrupted foreground command relays a stop to the box.
FrontStop ==
  /\ front.mode = "foreground" /\ front.pc = "running"
  /\ vmProc.state = "up" /\ ~vmProc.asked
  /\ vmProc' = [vmProc EXCEPT !.asked = TRUE]
  /\ UNCHANGED <<sup, pipe, reader, broker, signals, up, front>>

-----------------------------------------------------------------------------
SupNext ==
  \/ VmReady \/ VmExit \/ VmDies \/ ReadStartup \/ BrokerExits \/ Interrupt
  \/ StartBroker \/ SpawnVm \/ EnterLoop
  \/ TakeInterrupt \/ TakeVmExit \/ TakeBrokerExit \/ TakeStartup
  \/ StartupDeadline \/ StopDeadline \/ AwaitVmExit \/ ReportReadiness \/ ReportBroker
  \/ FrontReady \/ FrontClosed \/ FrontDeadline \/ FrontAttach \/ FrontDetach
  \/ FrontEnds \/ FrontStop

SupSpec == SupInit /\ [][SupNext]_supVars

-----------------------------------------------------------------------------
\* "a VM that becomes ready and exits at once still reports readiness"
\* (supervisor.rs:298-299): a supervisor that ends by reporting its VM's exit
\* has passed up the readiness of a VM that was ready, and of no other.
ReadinessIsPassedUp ==
  /\ sup.result = "exit" /\ vmProc.ready => up = "ready"
  /\ up = "ready" => vmProc.ready

\* supervise and the stop deadline: a supervisor that was interrupted has ended, and its
\* VM with it, whatever the VM, the broker and the launcher do.
InterruptedIsOver == signals # "none" => SupOver /\ vmProc.state \in {"none", "exited"}

------------------------------------------------------------------------------
(***************************************************************************)
(* The host end of a box's session: how a terra command reaches the agent  *)
(* (connect_to_agent), asks one control question, or pumps a terminal:     *)
(* the stdin thread, the input task, the output loop and the raw terminal  *)
(* around them (crates/terra/src/session.rs).  The agent is what the       *)
(* client sees of it.                                                      *)
(***************************************************************************)

CONSTANTS Purposes,          \* of "session", "exec", "setup", "list", "detach", "detachAll"
          KeysTyped,         \* reads of stdin: "key", "escape" or "keyEscape"
          InputCapacity,     \* the input channel's
          MaxOutputs         \* output frames of the agent

VARIABLES purpose,           \* rigid
          typed,             \* rigid: what will be read from stdin
          boxState,          \* "running", "setup" or "stopped"
          agentSide,         \* "absent", "stale", "ready" or "other"
          agentEnd,          \* "open", "exit", "detached" or "closed"
          clientAt, clientResult,
          rawTerminal,
          stdinThread, completed, inputChannel, receiverOpen,
          inputTask,
          sentUp, wireDown, shown, outputs, stdoutOpen

sessVars == <<purpose, typed, boxState, agentSide, agentEnd, clientAt, clientResult, rawTerminal,
              stdinThread, completed, inputChannel, receiverOpen, inputTask, sentUp, wireDown, shown,
              outputs, stdoutOpen>>

LOCAL Peer == <<boxState, agentSide, agentEnd>>
LOCAL Stdin == <<stdinThread, completed, inputChannel, receiverOpen>>
LOCAL Flow == <<sentUp, wireDown, shown, outputs, stdoutOpen>>
LOCAL Fixed == <<purpose>>

SessInit ==
  /\ purpose \in Purposes /\ typed \in KeysTyped
  /\ boxState \in {"running", "setup", "stopped"} /\ agentSide = "absent" /\ agentEnd = "open"
  /\ clientAt = "waiting" /\ clientResult = "none" /\ rawTerminal = FALSE
  /\ stdinThread = "none" /\ completed = FALSE /\ inputChannel = <<>> /\ receiverOpen = FALSE
  /\ inputTask = "none" /\ sentUp = <<>> /\ wireDown = <<>> /\ shown = <<>> /\ outputs = 0
  /\ stdoutOpen = TRUE

-----------------------------------------------------------------------------
(* The box and its agent.                                                  *)

BoxStops ==
  /\ boxState # "stopped" /\ boxState' = "stopped"
  /\ agentSide' = "stale" /\ agentEnd' = IF agentEnd = "open" THEN "closed" ELSE agentEnd
  /\ UNCHANGED <<typed, clientAt, clientResult, rawTerminal, inputTask>>
  /\ UNCHANGED Fixed /\ UNCHANGED Stdin /\ UNCHANGED Flow

(* The VMM binds the socket before the guest's agent answers on it; an     *)
(* agent of another build says another hello.                              *)
AgentComesUp ==
  /\ boxState = "running" /\ agentSide # "ready" /\ agentSide # "other"
  /\ \/ agentSide = "absent" /\ agentSide' = "stale"
     \/ agentSide' \in {"ready", "other"}
  /\ UNCHANGED <<typed, boxState, agentEnd, clientAt, clientResult, rawTerminal, inputTask>>
  /\ UNCHANGED Fixed /\ UNCHANGED Stdin /\ UNCHANGED Flow

AgentOutputs ==
  /\ clientAt = "pump" /\ agentEnd = "open" /\ outputs < MaxOutputs
  /\ outputs' = outputs + 1 /\ wireDown' = Append(wireDown, outputs + 1)
  /\ UNCHANGED <<typed, clientAt, clientResult, rawTerminal, inputTask, sentUp, shown, stdoutOpen>>
  /\ UNCHANGED Fixed /\ UNCHANGED Stdin /\ UNCHANGED Peer

(* The last frame of the agent, or none before it closes.                  *)
AgentEnds ==
  /\ clientAt = "pump" /\ agentEnd = "open"
  /\ \E e \in {"exit", "detached", "closed"} : agentEnd' = e
  /\ UNCHANGED <<typed, boxState, agentSide, clientAt, clientResult, rawTerminal, inputTask>>
  /\ UNCHANGED Fixed /\ UNCHANGED Stdin /\ UNCHANGED Flow

-----------------------------------------------------------------------------
(* connect_to_agent                                                        *)

LOCAL Done(result) == clientAt' = "done" /\ clientResult' = result

(* still_waiting: the box must serve, and the deadline not be over.        *)
StillServing == boxState = "running" \/ (purpose = "setup" /\ boxState = "setup")

CheckServing ==
  /\ clientAt = "waiting"
  /\ \/ StillServing /\ clientAt' = "connect" /\ UNCHANGED clientResult
     \/ ~StillServing /\ Done("notServing")
     \/ Done("timedOut")
  /\ UNCHANGED <<typed, rawTerminal, inputTask>>
  /\ UNCHANGED Fixed /\ UNCHANGED Peer /\ UNCHANGED Stdin /\ UNCHANGED Flow

(* Nothing listens, or what does says no hello in time: try again.         *)
ConnectFails ==
  /\ clientAt = "connect" /\ agentSide \in {"absent", "stale"}
  /\ clientAt' = "waiting"
  /\ UNCHANGED <<typed, clientResult, rawTerminal, inputTask>>
  /\ UNCHANGED Fixed /\ UNCHANGED Peer /\ UNCHANGED Stdin /\ UNCHANGED Flow

ReadHello ==
  /\ clientAt = "connect" /\ agentSide \in {"ready", "other"}
  /\ \/ agentSide = "other" /\ Done("otherProtocol")
     \/ agentSide = "ready" /\ clientAt' = "selected" /\ UNCHANGED clientResult
     \/ clientAt' = "waiting" /\ UNCHANGED clientResult      \* the service frame fails
  /\ UNCHANGED <<typed, rawTerminal, inputTask>>
  /\ UNCHANGED Fixed /\ UNCHANGED Peer /\ UNCHANGED Stdin /\ UNCHANGED Flow

(* The agent's replies, and what each command takes for one.               *)
LOCAL ReplyTo == [list |-> {"clients"}, detach |-> {"detached", "missing"}, detachAll |-> {"detachedAll"}]
ListClients(reply) == IF reply = "clients" THEN "answered" ELSE "failed"
DetachClient(reply) == IF reply = "detached" THEN "answered" ELSE "failed"
DetachAll(reply) == IF reply = "detachedAll" THEN "answered" ELSE "failed"

(* One request and its one reply, within a second.                         *)
RequestControl ==
  /\ clientAt = "selected" /\ purpose \in DOMAIN ReplyTo
  /\ \/ /\ agentSide = "ready"
        /\ \E r \in ReplyTo[purpose] :
             Done(CASE purpose = "list" -> ListClients(r) [] purpose = "detach" -> DetachClient(r)
                    [] OTHER -> DetachAll(r))
     \/ Done("failed")
  /\ UNCHANGED <<typed, rawTerminal, inputTask>>
  /\ UNCHANGED Fixed /\ UNCHANGED Peer /\ UNCHANGED Stdin /\ UNCHANGED Flow

-----------------------------------------------------------------------------
(* The pump                                                                *)

BeginPump ==
  /\ clientAt = "selected" /\ purpose \in {"session", "exec", "setup"}
  /\ clientAt' = "pump"
  /\ rawTerminal' \in (CASE purpose = "session" -> {TRUE} [] purpose = "exec" -> BOOLEAN
                         [] OTHER -> {FALSE})
  /\ IF purpose = "setup" THEN UNCHANGED <<stdinThread, receiverOpen, inputTask>>
     ELSE stdinThread' = "reading" /\ receiverOpen' = TRUE /\ inputTask' = "waits"
  /\ UNCHANGED <<typed, clientResult, completed, inputChannel>>
  /\ UNCHANGED Fixed /\ UNCHANGED Peer /\ UNCHANGED Flow

(* spawn_stdin_reader: what one read of stdin becomes.                     *)
Keys(read) == IF read = "escape" THEN <<>> ELSE <<"keys">>
HasEscape(read) == purpose = "session" /\ read \in {"escape", "keyEscape"}

ReadStdin ==
  /\ stdinThread = "reading" /\ ~completed
  /\ IF typed = <<>> THEN stdinThread' = "eof" /\ UNCHANGED typed
     ELSE /\ typed' = Tail(typed)
          /\ stdinThread' = IF Keys(Head(typed)) # <<>> \/ ~HasEscape(Head(typed))
                            THEN (IF HasEscape(Head(typed)) THEN "sendThenDetach" ELSE "send")
                            ELSE "detach"
  /\ UNCHANGED <<clientAt, clientResult, rawTerminal, completed, inputChannel, receiverOpen, inputTask>>
  /\ UNCHANGED Fixed /\ UNCHANGED Peer /\ UNCHANGED Flow

(* The thread looks at the flag between two waits for input.               *)
NoticeCompleted ==
  /\ stdinThread = "reading" /\ completed /\ stdinThread' = "eof"
  /\ UNCHANGED <<typed, clientAt, clientResult, rawTerminal, completed, inputChannel, receiverOpen,
                 inputTask>>
  /\ UNCHANGED Fixed /\ UNCHANGED Peer /\ UNCHANGED Flow

(* blocking_send: waits for room; ends once the receiver is gone.          *)
LOCAL Item(at) == CASE at \in {"send", "sendThenDetach"} -> "keys"
                    [] at = "detach" -> "detach" [] OTHER -> "eof"

(* The thread does not end with the detach key.                            *)
SendAndReadOn ==
  /\ stdinThread \in {"send", "sendThenDetach", "detach", "eof"}
  /\ IF receiverOpen
     THEN /\ Len(inputChannel) < InputCapacity
          /\ inputChannel' = Append(inputChannel, Item(stdinThread))
          /\ stdinThread' = CASE stdinThread \in {"send", "detach"} -> "reading"
                              [] stdinThread = "sendThenDetach" -> "detach"
                              [] OTHER -> "ended"
     ELSE stdinThread' = "ended" /\ UNCHANGED inputChannel
  /\ UNCHANGED <<typed, clientAt, clientResult, rawTerminal, completed, receiverOpen, inputTask>>
  /\ UNCHANGED Fixed /\ UNCHANGED Peer /\ UNCHANGED Flow

SendInput ==
  /\ stdinThread \in {"send", "sendThenDetach", "detach", "eof"}
  /\ IF receiverOpen
     THEN /\ Len(inputChannel) < InputCapacity
          /\ inputChannel' = Append(inputChannel, Item(stdinThread))
          /\ stdinThread' = CASE stdinThread = "send" -> "reading"
                              [] stdinThread = "sendThenDetach" -> "detach"
                              [] OTHER -> "ended"
     ELSE stdinThread' = "ended" /\ UNCHANGED inputChannel
  /\ UNCHANGED <<typed, clientAt, clientResult, rawTerminal, completed, receiverOpen, inputTask>>
  /\ UNCHANGED Fixed /\ UNCHANGED Peer /\ UNCHANGED Flow

(* input_loop: one message written to the agent, or a failed write.        *)
WriteInput ==
  /\ inputTask = "waits" /\ inputChannel # <<>>
  /\ inputChannel' = Tail(inputChannel)
  /\ IF Head(inputChannel) = "detach" THEN inputTask' = "detached" /\ UNCHANGED sentUp
     ELSE \/ /\ agentEnd = "open" /\ inputTask' = "waits"
             /\ sentUp' = Append(sentUp, Head(inputChannel))
          \/ inputTask' = "blocked" /\ UNCHANGED sentUp      \* the peer reads nothing
          \/ agentEnd # "open" /\ inputTask' = "failed" /\ UNCHANGED sentUp
  /\ UNCHANGED <<typed, clientAt, clientResult, rawTerminal, stdinThread, completed, receiverOpen,
                 wireDown, shown, outputs, stdoutOpen>>
  /\ UNCHANGED Fixed /\ UNCHANGED Peer

(* The terminal's size is written by the same task.                        *)
WriteResize ==
  /\ inputTask = "waits" /\ agentEnd # "open" /\ inputTask' = "failed"
  /\ UNCHANGED <<typed, clientAt, clientResult, rawTerminal>>
  /\ UNCHANGED Fixed /\ UNCHANGED Peer /\ UNCHANGED Stdin /\ UNCHANGED Flow

StdoutCloses ==
  /\ clientAt = "pump" /\ stdoutOpen /\ stdoutOpen' = FALSE
  /\ UNCHANGED <<typed, clientAt, clientResult, rawTerminal, inputTask, sentUp, wireDown, shown, outputs>>
  /\ UNCHANGED Fixed /\ UNCHANGED Peer /\ UNCHANGED Stdin

(* output_loop: one frame shown; the first that cannot be ends the pump.   *)
ShowOutput ==
  /\ clientAt = "pump" /\ wireDown # <<>>
  /\ wireDown' = Tail(wireDown)
  /\ IF stdoutOpen THEN shown' = Append(shown, Head(wireDown)) /\ UNCHANGED <<clientAt, clientResult>>
     ELSE clientAt' = "shutdown" /\ clientResult' = "sigpipe" /\ UNCHANGED shown
  /\ UNCHANGED <<typed, rawTerminal, inputTask, sentUp, outputs, stdoutOpen>>
  /\ UNCHANGED Fixed /\ UNCHANGED Peer /\ UNCHANGED Stdin

OutputEnds ==
  /\ clientAt = "pump" /\ wireDown = <<>> /\ agentEnd # "open"
  /\ clientAt' = "shutdown" /\ clientResult' = agentEnd
  /\ UNCHANGED <<typed, rawTerminal, inputTask>>
  /\ UNCHANGED Fixed /\ UNCHANGED Peer /\ UNCHANGED Stdin /\ UNCHANGED Flow

(* The input task's end ends the pump: the user detached, or a write to    *)
(* the agent failed.                                                       *)
InputEnds ==
  /\ clientAt = "pump" /\ inputTask \in {"detached", "failed"}
  /\ clientAt' = "shutdown"
  /\ clientResult' = IF inputTask = "detached" THEN "detached" ELSE "inputFailed"
  /\ UNCHANGED <<typed, rawTerminal, inputTask>>
  /\ UNCHANGED Fixed /\ UNCHANGED Peer /\ UNCHANGED Stdin /\ UNCHANGED Flow

(* The input task is aborted, and with it the channel's receiver.          *)
ShutdownInput ==
  /\ clientAt = "shutdown"
  /\ clientAt' = "stopReader"
  /\ inputTask' = "none" /\ receiverOpen' = FALSE /\ inputChannel' = <<>>
  /\ UNCHANGED <<typed, clientResult, rawTerminal, stdinThread, completed>>
  /\ UNCHANGED Fixed /\ UNCHANGED Peer /\ UNCHANGED Flow

StopReader ==
  /\ clientAt = "stopReader" /\ completed' = TRUE /\ clientAt' = "join"
  /\ UNCHANGED <<typed, clientResult, rawTerminal, stdinThread, inputChannel, receiverOpen, inputTask>>
  /\ UNCHANGED Fixed /\ UNCHANGED Peer /\ UNCHANGED Flow

(* What each command makes of the pump's result.                           *)
ExecOutcome(result) == IF result \in {"detached", "closed"} THEN "failed" ELSE result
SessionOutcome(result) == IF result = "sigpipe" THEN "detached" ELSE result
SessionOutputOutcome(result) == IF result = "sigpipe" THEN "detached" ELSE result

JoinReader ==
  /\ clientAt = "join" /\ stdinThread \in {"none", "ended"}
  /\ clientAt' = "done" /\ rawTerminal' = FALSE
  /\ clientResult' = CASE purpose = "exec" -> ExecOutcome(clientResult)
                       [] purpose = "session" -> SessionOutcome(clientResult)
                       [] OTHER -> SessionOutputOutcome(clientResult)
  /\ UNCHANGED <<typed, inputTask>>
  /\ UNCHANGED Fixed /\ UNCHANGED Peer /\ UNCHANGED Stdin /\ UNCHANGED Flow

-----------------------------------------------------------------------------

ClientStep ==
  \/ CheckServing \/ ConnectFails \/ ReadHello \/ RequestControl \/ BeginPump
  \/ ShowOutput \/ OutputEnds \/ InputEnds \/ ShutdownInput \/ StopReader \/ JoinReader

StdinStep == NoticeCompleted \/ SendInput

SessNext ==
  \/ BoxStops \/ AgentComesUp \/ AgentOutputs \/ AgentEnds \/ StdoutCloses
  \/ CheckServing \/ ConnectFails \/ ReadHello \/ RequestControl \/ BeginPump
  \/ ShowOutput \/ OutputEnds \/ InputEnds \/ ShutdownInput \/ StopReader \/ JoinReader
  \/ ReadStdin \/ NoticeCompleted \/ SendInput \/ WriteInput \/ WriteResize

SessSpec == SessInit /\ [][SessNext]_sessVars

-----------------------------------------------------------------------------

(* A finished command has given the terminal back and left no thread on    *)
(* stdin; what it shows is the agent's output in order, all of it before   *)
(* an exit code is reported; and the agent is sent nothing that was typed  *)
(* behind the detach key (pump_output, RawTerminal, spawn_stdin_reader).   *)
TerminalIsRestored ==
  /\ clientAt = "done" => ~rawTerminal /\ stdinThread \in {"none", "ended"}
  /\ \A i \in DOMAIN shown : shown[i] = i
  /\ clientResult = "exit" => Len(shown) = outputs
  /\ inputTask = "detached" => stdinThread = "ended" /\ inputChannel = <<>>
  /\ clientAt = "done" /\ purpose = "exec" => clientResult # "detached"

(* A command whose box stops comes to its end: it stops waiting for the    *)
(* agent, or sees the session close, and no thread keeps it                *)
(* (connect_to_agent's still_waiting, pump_stream's shutdown before the    *)
(* reader is joined).                                                      *)
CommandIsOver == boxState = "stopped" => clientAt = "done"

------------------------------------------------------------------------------
(***************************************************************************)
(* A box's log (crates/terra/src/logs.rs) and `terra logs` that follows it *)
(* (crates/terra/src/cmd/logs.rs).  The VM process appends lines; when the *)
(* cap would be passed it first rewrites the file in place to its newest   *)
(* half, behind a marker line that counts the bytes trimmed in all.  The   *)
(* diagnostics of the guest are instead emptied at every boot and end at   *)
(* the cap.  A follower reads the same file with no lock.                  *)
(*                                                                         *)
(* A byte of the file is <<n, class>>: the n-th byte logged in all, with   *)
(* the class of text it is.  The marker line is one byte <<-1 - trimmed,   *)
(* "nl">>.                                                                 *)
(***************************************************************************)

CONSTANTS LogCap,        \* MAX_LOG_FILE_BYTES
          LogLines,      \* the lines logged, as sequences of "text", "lead", "cont", "nl"
          ReadSize,      \* the buffer of LogText::drain
          TailLines,     \* --tail, the numbers asked for; -1 is none
          MaxLogged,     \* bound: bytes logged in all
          MaxLogBoots    \* bound: boots of the box

ASSUME LogSizes == LogCap \in Nat /\ LogCap \div 2 >= 1 /\ ReadSize \in Nat \ {0}

VARIABLES log,           \* "terra" or "diagnostics" (rigid)
          content,       \* the file
          logged,        \* bytes logged in all
          lineStarts,    \* of them, those a line begins with
          writer,        \* [at, line, kept]
          running,       \* the box holds its lock
          boots,
          logReader,        \* [at, pos, trimmed, markerLen, alive, count, tail, len]
          held,          \* LogText::pending
          logShown,         \* ghost: what the follower wrote: the bytes, in order
          cutTo,         \* ghost: bytes before it were trimmed or emptied away
          restarted,     \* ghost: the log was emptied since the follower last looked
          torn,          \* ghost: a VM process ended between writing and shortening
          disturbed      \* ghost: a rewrite overlapped a pass of the follower

logVars == <<log, content, logged, lineStarts, writer, running, boots, logReader, held, logShown, cutTo, restarted, torn, disturbed>>

Idle == [at |-> "idle", line |-> <<>>, kept |-> <<>>]
NoPlace == [at |-> "open", pos |-> 0, trimmed |-> 0, markerLen |-> 0, alive |-> TRUE, count |-> 0, tail |-> -1, len |-> 0]

LogInit ==
    /\ log \in {"terra", "diagnostics"}
    /\ content = <<>> /\ logged = 0 /\ lineStarts = {} /\ writer = Idle
    /\ running = FALSE /\ boots = 0
    /\ \E t \in TailLines : logReader = [NoPlace EXCEPT !.tail = t]
    /\ held = <<>> /\ logShown = <<>> /\ cutTo = 0
    /\ restarted = FALSE /\ torn = FALSE /\ disturbed = FALSE

LOCAL Smaller(a, b) == IF a < b THEN a ELSE b
LOCAL Larger(a, b) == IF a > b THEN a ELSE b
LOCAL Class(byte) == byte[2]
LOCAL writerSide == <<content, logged, lineStarts, writer, running, boots, cutTo, torn>>
LOCAL readerSide == <<logReader, held, logShown>>

(***************************************************************************)
(* The marker.                                                             *)
(***************************************************************************)
TrimMarker(file) ==
    IF file # <<>> /\ file[1][1] < 0
    THEN [trimmed |-> -1 - file[1][1], lineLen |-> 1]
    ELSE [trimmed |-> 0, lineLen |-> 0]

MarkerLine(trimmed) == <<<<-1 - trimmed, "nl">>>>

\* The length of the first line of the bytes, its newline included.
FirstLine(bytes) ==
    LET newline == SelectInSeq(bytes, LAMBDA b : Class(b) = "nl")
    IN IF newline = 0 THEN Len(bytes) ELSE newline

\* trim_to_newest_half up to the writing.
NewestHalf(file) ==
    LET previous == TrimMarker(file)
        start == Larger(Len(file) - LogCap \div 2, previous.lineLen)
        kept == SubSeq(file, start + 1, Len(file))
        first == FirstLine(kept)
    IN MarkerLine(previous.trimmed + start + first - previous.lineLen) \o SubSeq(kept, first + 1, Len(kept))

(***************************************************************************)
(* The VM process.                                                         *)
(***************************************************************************)
MidPass == logReader.at \in {"tail", "tailScan", "follow", "resume", "drain", "last", "print"}

\* One boot: the lock is taken; terra.log is appended to (`init` logs its own line), the
\* diagnostics are created anew.
BoxStarts ==
    /\ ~running /\ boots < MaxLogBoots
    /\ running' = TRUE /\ boots' = boots + 1
    /\ IF log = "terra"
       THEN UNCHANGED <<content, cutTo, restarted, disturbed>>
       ELSE /\ content' = <<>> /\ cutTo' = logged
            /\ restarted' = (logReader.at # "open")
            /\ disturbed' = (disturbed \/ (MidPass /\ logReader.at # "follow"))
    /\ UNCHANGED <<log, logged, lineStarts, writer, torn, readerSide>>

\* The process ends, wherever it is.
BoxEnds ==
    /\ running
    /\ running' = FALSE /\ writer' = Idle
    /\ torn' = (torn \/ writer.at = "shorten")
    /\ UNCHANGED <<log, content, logged, lineStarts, boots, cutTo, restarted, disturbed, readerSide>>

\* BoxLog::append: under the file's mutex; the trim comes first where the line does not fit.
\* The diagnostics do not trim.
AppendLine ==
    /\ running /\ writer.at = "idle"
    /\ \E line \in LogLines :
          /\ logged + Len(line) <= MaxLogged
          /\ IF log = "terra" /\ Len(content) + Len(line) > LogCap
             THEN writer' = [at |-> "kept", line |-> line, kept |-> NewestHalf(content)]
             ELSE writer' = [at |-> "write", line |-> line, kept |-> <<>>]
    /\ UNCHANGED <<log, content, logged, lineStarts, running, boots, cutTo, restarted, torn, disturbed, readerSide>>

\* `write_all(&kept)` at the start: what was longer stays behind it for now.
WriteKept ==
    /\ writer.at = "kept"
    /\ content' = writer.kept \o SubSeq(content, Len(writer.kept) + 1, Len(content))
    /\ cutTo' = TrimMarker(writer.kept).trimmed
    /\ writer' = [writer EXCEPT !.at = "shorten"]
    /\ disturbed' = (disturbed \/ (MidPass /\ logReader.at # "follow"))
    /\ UNCHANGED <<log, logged, lineStarts, running, boots, restarted, torn, readerSide>>

Shorten ==
    /\ writer.at = "shorten"
    /\ content' = SubSeq(content, 1, Len(writer.kept))
    /\ writer' = [writer EXCEPT !.at = "write"]
    /\ disturbed' = (disturbed \/ (MidPass /\ logReader.at # "follow"))
    /\ UNCHANGED <<log, logged, lineStarts, running, boots, cutTo, restarted, torn, readerSide>>

Room(line) == Smaller(Len(line), Larger(LogCap - Len(content), 0))

\* What of the line fits, in one write.
WriteLine ==
    /\ writer.at = "write"
    /\ LET n == Room(writer.line)
       IN /\ content' = content \o [i \in 1..n |-> <<logged + i - 1, writer.line[i]>>]
          /\ logged' = logged + n
          /\ lineStarts' = IF n > 0 THEN lineStarts \cup {logged} ELSE lineStarts
    /\ writer' = Idle
    /\ UNCHANGED <<log, running, boots, cutTo, restarted, torn, disturbed, readerSide>>

(***************************************************************************)
(* `terra logs --follow`.                                                  *)
(***************************************************************************)
\* What is written is remembered while no rewrite has come between.
LOCAL Show(bytes) == IF disturbed \/ torn THEN <<>> ELSE logShown \o bytes

\* The file is opened and its marker read.
OpenLog ==
    /\ logReader.at = "open" /\ boots > 0
    /\ logReader' = [logReader EXCEPT !.at = IF logReader.tail >= 0 THEN "tail" ELSE "follow",
                                      !.trimmed = TrimMarker(content).trimmed,
                                      !.markerLen = TrimMarker(content).lineLen]
    /\ restarted' = FALSE
    /\ disturbed' = (disturbed \/ writer.at = "shorten")
    /\ UNCHANGED <<log, held, logShown, content, logged, lineStarts, writer, running, boots, cutTo, torn>>

\* seek_to_tail: the length, then the bytes from the end backwards.
TailLength ==
    /\ logReader.at = "tail"
    /\ logReader' = [logReader EXCEPT !.pos = Len(content), !.len = Len(content),
                                      !.at = IF content = <<>> \/ logReader.tail = 0 THEN "follow" ELSE "tailScan"]
    /\ UNCHANGED <<log, held, logShown, writerSide, restarted, disturbed>>

\* The position after the lines-th newline from the end, the last byte's own left out.
TailStart(bytes, lines) ==
    LET newlines == {i \in 1..(Len(bytes) - 1) : Class(bytes[i]) = "nl"}
        Behind(i) == {j \in newlines : j >= i}
        found == {i \in newlines : Cardinality(Behind(i)) = lines}
    IN IF found = {} THEN 0 ELSE CHOOSE i \in found : TRUE

TailScan ==
    /\ logReader.at = "tailScan"
    /\ logReader' = IF logReader.len > Len(content)
                    THEN [logReader EXCEPT !.at = "failed"]
                    ELSE [logReader EXCEPT !.at = "follow", !.pos = TailStart(SubSeq(content, 1, logReader.len), logReader.tail)]
    /\ UNCHANGED <<log, held, logShown, writerSide, restarted, disturbed>>

AssumeHeld ==
    /\ logReader.at = "follow"
    /\ logReader' = [logReader EXCEPT !.at = "resume", !.alive = TRUE, !.count = 0]
    /\ disturbed' = (disturbed \/ writer.at = "shorten")
    /\ UNCHANGED <<log, held, logShown, writerSide, restarted>>

\* Whether the box is held is read before the file is.
LookForHolder ==
    /\ logReader.at = "follow"
    /\ logReader' = [logReader EXCEPT !.at = "resume", !.alive = running, !.count = 0]
    /\ disturbed' = (disturbed \/ writer.at = "shorten")
    /\ UNCHANGED <<log, held, logShown, writerSide, restarted>>

\* The same logical byte in the trimmed file, or the first one left.
ResumedAt(current) ==
    LET logical == logReader.trimmed + Larger(logReader.pos - logReader.markerLen, 0)
    IN current.lineLen + Larger(logical - current.trimmed, 0)

\* resume_after_rewrite; a partial character ends at a rewrite.
ResumeAfterRewrite ==
    /\ logReader.at = "resume"
    /\ LET current == TrimMarker(content)
           isRestarted == \/ current.trimmed < logReader.trimmed
                          \/ current.trimmed = logReader.trimmed /\ Len(content) < logReader.pos
           isTrimmed == current.trimmed > logReader.trimmed
       IN /\ logReader' = [logReader EXCEPT !.at = "drain", !.trimmed = current.trimmed, !.markerLen = current.lineLen,
                                            !.pos = IF isRestarted THEN 0
                                                    ELSE IF isTrimmed THEN ResumedAt(current) ELSE @]
          /\ IF isRestarted \/ isTrimmed
             THEN held' = <<>> /\ logShown' = Show(held)
             ELSE UNCHANGED <<held, logShown>>
          /\ disturbed' = (disturbed \/ (restarted /\ ~isRestarted /\ logReader.pos > 0))
    /\ restarted' = FALSE
    /\ UNCHANGED <<log, writerSide>>

\* LogText::drain, one read: whole characters are written, a byte that is part of none is
\* replaced, and a lead byte at the end waits for the next read.
Waiting(bytes) == IF bytes # <<>> /\ Class(Last(bytes)) = "lead" THEN <<Last(bytes)>> ELSE <<>>

Drain ==
    /\ logReader.at = "drain"
    /\ LET chunk == SubSeq(content, logReader.pos + 1, Smaller(logReader.pos + ReadSize, Len(content)))
           all == held \o chunk
           rest == Waiting(all)
       IN IF chunk = <<>>
          THEN /\ logReader' = [logReader EXCEPT !.at = "print"]
               /\ UNCHANGED <<held, logShown>>
          ELSE /\ logReader' = [logReader EXCEPT !.pos = @ + Len(chunk), !.count = 1]
               /\ held' = rest
               /\ logShown' = Show(SubSeq(all, 1, Len(all) - Len(rest)))
    /\ UNCHANGED <<log, writerSide, restarted, disturbed>>

\* The end of a pass: nothing was read and the box was not held before it.
EndPass ==
    /\ logReader.at = "print"
    /\ IF logReader.count = 0 /\ ~logReader.alive
       THEN logReader' = [logReader EXCEPT !.at = "done"] /\ held' = <<>> /\ logShown' = Show(held)
       ELSE logReader' = [logReader EXCEPT !.at = "follow"] /\ UNCHANGED <<held, logShown>>
    /\ UNCHANGED <<log, writerSide, restarted, disturbed>>

Follow == OpenLog \/ TailLength \/ TailScan \/ LookForHolder \/ ResumeAfterRewrite \/ Drain \/ EndPass
Write == WriteKept \/ Shorten \/ WriteLine

LogNext == BoxStarts \/ BoxEnds \/ AppendLine \/ Write \/ Follow
LogSpec == LogInit /\ [][LogNext]_logVars

(***************************************************************************)
(* Properties.                                                             *)
(***************************************************************************)
LOCAL Bytes(s) == SelectSeq(s, LAMBDA b : b[1] >= 0)
LOCAL Numbers(s) == {s[i][1] : i \in 1..Len(s)}

\* The log never passes its cap, in the middle of a trim either; behind its marker it
\* begins with a line; and the marker counts every byte that is gone, so that marker and
\* length together give all that was logged (append and trim_to_newest_half).
LogKeepsItsCap ==
    /\ Len(content) <= LogCap
    /\ log = "terra" /\ ~torn /\ writer.at # "shorten" =>
          LET marker == TrimMarker(content)
              text == SubSeq(content, marker.lineLen + 1, Len(content))
          IN /\ marker.trimmed + Len(text) = logged
             /\ text # <<>> => text[1][1] \in lineStarts

\* What a follower writes: no byte twice, none out of order, and none left out that the
\* log still held when the follower passed - so a byte is only skipped if it was trimmed or
\* emptied away; and when it ends it has written all that is in the log.  Of passes that no
\* rewrite overlaps (resume_after_rewrite, write_log).
FollowerMissesNothing ==
    ~disturbed /\ ~torn =>
       LET all == Bytes(logShown \o held)
       IN /\ \A i \in 1..(Len(all) - 1) : all[i][1] < all[i + 1][1]
          /\ all # <<>> => \A n \in all[1][1]..all[Len(all)][1] : n \in Numbers(all) \/ n < cutTo
          /\ logReader.at = "done" /\ ~running /\ boots = 1 /\ all # <<>> =>
                   \A b \in ToSet(Bytes(content)) : b[1] >= all[1][1] => b[1] \in Numbers(logShown)

\* The follower of a box that has ended has ended too.
FollowIsOver == ~running => logReader.at \in {"open", "done", "failed"}
==============================================================================
