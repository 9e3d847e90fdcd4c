---------------------------- MODULE MCProcesses -----------------------------
(***************************************************************************)
(* The processes beside a box's VM, for TLC: the supervisor, the command   *)
(* that talks to the box, the log and its follower, the sandboxes the      *)
(* processes run in, and the vCPU backends. The machines share no state; a *)
(* behaviour is one machine's, named by scenario.                          *)
(***************************************************************************)
EXTENDS BoxProcesses, Sandbox, VcpuBackends

VARIABLE scenario   \* the machine that runs (rigid)

allVars == <<scenario, supVars, sessVars, logVars, scanVars, sandVars, socketVars, hvfVars,
              accessVars, lifeVars>>

-----------------------------------------------------------------------------
MCKeys == {<<>>, <<"key", "key", "key">>, <<"keyEscape", "key">>, <<"escape">>}

MCLines == {<<"text","nl">>, <<"lead","cont","nl">>, <<"text","text","text","text","text">>}
MCTails == {-1, 1}

I(op, d, s, v) == [op |-> op, dst |-> d, src |-> s, val |-> v]
Mov(d,v) == I("mov",d,"none",v)
Copy(d,s) == I("copy",d,s,0)
Sys == I("syscall","none","none",0)
Ret == I("ret","none","none",0)
Stop == I("stop","none","none",0)
Call(f) == I("call","none","none",f)
M1 == {Mov("a",1), Mov("n",2), I("lea","b","none",8), I("lea","s","none",12), Call(3)}
M2 == {Mov("a",2), Call(2), Call(3), I("callr","none","s",0), I("jcc","none","none",4), Sys, I("store","none","b",0)}
M3 == {Call(2), Call(3), I("tail","none","none",2), Sys}
W1 == {Copy("n","a"), I("copy32","n","a",0), Mov("n",1), I("load","n","none",0), I("lea","b","none",9), Copy("s","b")}
W2 == {I("add32","n","none",1), Call(3), I("jcc","none","none",4), I("jcc","none","none",1), I("callr","none","b",0), Sys, I("jmpr","none","b",0)}
F3 == {<<Sys, Ret>>, <<Mov("n",3), Ret>>, <<Copy("n","a"), Sys, I("tail","none","none",2)>>, <<Stop>>, <<I("callr","none","b",0), Ret>>}
Progs == {[functions |-> << <<m1, m2, m3, Stop>>, <<w1, w2, Sys, Ret>>, f3>>, data |-> {}] :
   m1 \in M1, m2 \in M2, m3 \in M3, w1 \in W1, w2 \in W2, f3 \in F3}

MCInstructions ==
  [op : {"load", "store"}, width : {1,2,4,8}, reg : {0, 31}, signed : BOOLEAN, wide : BOOLEAN, valid : BOOLEAN, place : {"device"}]
  \cup [op : {"load", "store"}, width : {1,2,3,4,8}, reg : {0}, signed : {FALSE}, wide : {TRUE}, valid : {TRUE}, place : {"device", "ram", "ioapic"}]
  \cup [op : {"in", "out"}, width : {1,2,4,8}, reg : {0}, signed : {FALSE}, wide : {TRUE}, valid : {TRUE}, place : {"device"}]
  \cup [op : {"debugRead", "debugWrite"}, width : {8}, reg : {0,31}, signed : {FALSE}, wide : {TRUE}, valid : {TRUE}, place : {"device"}]

C(v, rs, rd, f, g) == [vcpus |-> v, ranges |-> rs, redistributors |-> rd, fits |-> f, gsis |-> g]
MCConfigs == {C(2, {1, 2}, 2, TRUE, {11}), C(2, {1}, 1, TRUE, {5}), C(1, {1}, 1, FALSE, {}), C(3, {1}, 3, TRUE, {})}

-----------------------------------------------------------------------------
\* A machine that does not run has no state to speak of.
SupervisorOff == sup = 0 /\ vmProc = 0 /\ pipe = 0 /\ reader = 0 /\ broker = 0
                 /\ signals = 0 /\ up = 0 /\ front = 0
SessionOff == purpose = 0 /\ typed = 0 /\ boxState = 0 /\ agentSide = 0 /\ agentEnd = 0
              /\ clientAt = 0 /\ clientResult = 0 /\ rawTerminal = 0 /\ stdinThread = 0
              /\ completed = 0 /\ inputChannel = 0 /\ receiverOpen = 0 /\ inputTask = 0
              /\ sentUp = 0 /\ wireDown = 0 /\ shown = 0 /\ outputs = 0 /\ stdoutOpen = 0
LogOff == log = 0 /\ content = 0 /\ logged = 0 /\ lineStarts = 0 /\ writer = 0
          /\ running = 0 /\ boots = 0 /\ logReader = 0 /\ held = 0 /\ logShown = 0
          /\ cutTo = 0 /\ restarted = 0 /\ torn = 0 /\ disturbed = 0
ScanOff == program = 0 /\ scan = 0 /\ pc = 0 /\ regs = 0 /\ stack = 0
AclOff == writable = 0 /\ dacl = 0 /\ lock = 0 /\ aclPc = 0 /\ todo = 0 /\ aclCopy = 0
          /\ aclRecorded = 0 /\ aclWorker = 0 /\ parent = 0
SocketsOff == request = 0 /\ pending = 0 /\ launchRequests = 0 /\ replies = 0 /\ serving = 0
              /\ connects = 0 /\ connecting = 0 /\ launchReader = 0 /\ launchAnswers = 0
HvfOff == stopFlag = 0 /\ thread = 0 /\ kicking = 0 /\ handle = 0 /\ handleLock = 0
          /\ powered = 0 /\ powerLock = 0 /\ hvfCommands = 0 /\ vcpuAlive = 0
          /\ exitAsked = 0 /\ hvOwner = 0 /\ startSent = 0 /\ granted = 0 /\ cpuOns = 0
AccessOff == backend = 0 /\ stopRequested = 0 /\ runAt = 0 /\ instr = 0 /\ registers = 0
             /\ counter = 0 /\ accessSeen = 0 /\ answered = 0 /\ before = 0 /\ outcomes = 0
             /\ executed = 0
LifeOff == lifeHost = 0 /\ lifeConfig = 0 /\ lifeMaking = 0 /\ partition = 0
           /\ mappedRanges = 0 /\ vcpuState = 0 /\ vthread = 0 /\ machineOwners = 0
           /\ ramState = 0 /\ ramUsers = 0 /\ bootSet = 0

MCInit ==
  /\ scenario \in {"supervisor", "session", "log", "scan", "acl", "sockets", "hvf", "access", "life"}
  /\ IF scenario = "supervisor" THEN SupInit ELSE SupervisorOff
  /\ IF scenario = "session" THEN SessInit ELSE SessionOff
  /\ IF scenario = "log" THEN LogInit ELSE LogOff
  /\ IF scenario = "scan" THEN ScanInit ELSE ScanOff
  /\ IF scenario = "acl" THEN SandInit ELSE AclOff
  /\ IF scenario = "sockets" THEN SocketsInit ELSE SocketsOff
  /\ IF scenario = "hvf" THEN HvfInit ELSE HvfOff
  /\ IF scenario = "access" THEN AccessInit ELSE AccessOff
  /\ IF scenario = "life" THEN LifeInit ELSE LifeOff

MCNext ==
  \/ /\ scenario = "supervisor" /\ SupNext
     /\ UNCHANGED <<scenario, sessVars, logVars, scanVars, sandVars, socketVars, hvfVars, accessVars, lifeVars>>
  \/ /\ scenario = "session" /\ SessNext
     /\ UNCHANGED <<scenario, supVars, logVars, scanVars, sandVars, socketVars, hvfVars, accessVars, lifeVars>>
  \/ /\ scenario = "log" /\ LogNext
     /\ UNCHANGED <<scenario, supVars, sessVars, scanVars, sandVars, socketVars, hvfVars, accessVars, lifeVars>>
  \/ /\ scenario = "scan" /\ ScanNext
     /\ UNCHANGED <<scenario, supVars, sessVars, logVars, sandVars, socketVars, hvfVars, accessVars, lifeVars>>
  \/ /\ scenario = "acl" /\ SandNext
     /\ UNCHANGED <<scenario, supVars, sessVars, logVars, scanVars, socketVars, hvfVars, accessVars, lifeVars>>
  \/ /\ scenario = "sockets" /\ SocketsNext
     /\ UNCHANGED <<scenario, supVars, sessVars, logVars, scanVars, sandVars, hvfVars, accessVars, lifeVars>>
  \/ /\ scenario = "hvf" /\ HvfNext
     /\ UNCHANGED <<scenario, supVars, sessVars, logVars, scanVars, sandVars, socketVars, accessVars, lifeVars>>
  \/ /\ scenario = "access" /\ AccessNext
     /\ UNCHANGED <<scenario, supVars, sessVars, logVars, scanVars, sandVars, socketVars, hvfVars, lifeVars>>
  \/ /\ scenario = "life" /\ LifeNext
     /\ UNCHANGED <<scenario, supVars, sessVars, logVars, scanVars, sandVars, socketVars, hvfVars, accessVars>>

\* The supervisor's tasks run, its timers fire, and the kernel delivers the deaths of
\* children; nothing is assumed of the VM, the broker or the user.
SupervisorFair ==
  /\ WF_supVars(scenario = "supervisor" /\ ReadStartup) /\ WF_supVars(scenario = "supervisor" /\ VmDies)
  /\ WF_supVars(scenario = "supervisor" /\ StartBroker) /\ WF_supVars(scenario = "supervisor" /\ SpawnVm)
  /\ WF_supVars(scenario = "supervisor" /\ EnterLoop) /\ WF_supVars(scenario = "supervisor" /\ TakeInterrupt)
  /\ WF_supVars(scenario = "supervisor" /\ TakeVmExit) /\ WF_supVars(scenario = "supervisor" /\ TakeStartup)
  /\ WF_supVars(scenario = "supervisor" /\ StartupDeadline) /\ WF_supVars(scenario = "supervisor" /\ StopDeadline)
  /\ WF_supVars(scenario = "supervisor" /\ AwaitVmExit) /\ WF_supVars(scenario = "supervisor" /\ ReportReadiness)
  /\ WF_supVars(scenario = "supervisor" /\ ReportBroker)

\* A command's own tasks run; its stdin thread polls and is scheduled.
SessionFair == WF_sessVars(scenario = "session" /\ ClientStep) /\ WF_sessVars(scenario = "session" /\ StdinStep)

\* A follower polls, and a line being written is not left half done.
LogFair == WF_logVars(scenario = "log" /\ Follow) /\ WF_logVars(scenario = "log" /\ Write)

\* The threads of the worker and of its launcher run; a new request and the launcher's
\* end owe nothing.
SocketsFair == WF_socketVars(scenario = "sockets" /\ SocketsProgress)

\* vCPU threads run, the owner carries on with what it began; the guest, and a stop by
\* the owner, owe nothing.
HvfFair ==
  /\ \A c \in Cpus : WF_hvfVars(scenario = "hvf" /\ CpuStep(c))
  /\ \A a \in HvActors : WF_hvfVars(scenario = "hvf" /\ KickStep(a))
  /\ WF_hvfVars(scenario = "hvf" /\ OwnerStep)

MCSpec == MCInit /\ [][MCNext]_allVars /\ SupervisorFair /\ SessionFair /\ LogFair /\ SocketsFair /\ HvfFair

-----------------------------------------------------------------------------
\* What the processes of a box tell each other is what happened: readiness is passed up
\* (supervisor.rs), the terminal is given back (pump_stream), the log and its follower
\* neither lose nor repeat a byte (logs.rs), and a socket request is answered once.
ProcessesTellTheTruth ==
  /\ scenario = "supervisor" => ReadinessIsPassedUp
  /\ scenario = "session" => TerminalIsRestored
  /\ scenario = "log" => LogKeepsItsCap /\ FollowerMissesNothing
  /\ scenario = "sockets" => AnsweredOnce

\* What a worker runs in holds: it has what its sandbox grants it and nothing is left of it
\* afterwards (the system calls it makes are among those the scan lists, the files it was
\* granted have their old access lists back); and a CPU is on as its power calls left it, a
\* device access takes effect once and as the instruction says, and the VM outlives the
\* threads that use it.
WorkersHold ==
  /\ scenario = "scan" => ScanIsComplete
  /\ scenario = "acl" => WorkerHasItsGrants /\ AclsAreRestored
  /\ scenario = "hvf" => CpusRunAsPowered
  /\ scenario = "access" => AccessesTakeEffect
  /\ scenario = "life" => MachineOutlivesItsUsers

\* What a stopped box leaves behind comes to an end: an interrupted supervisor and its VM
\* (supervise, SupervisedChild), the command of a stopped box (pump_stream, still_waiting),
\* the follower of its log (terra logs -f), the vCPU threads (Stop::request); and every
\* socket a worker asked for is answered.
StoppedBoxIsLeft ==
  []<>(/\ scenario = "supervisor" => InterruptedIsOver
       /\ scenario = "session" => CommandIsOver
       /\ scenario = "log" => FollowIsOver
       /\ scenario = "sockets" => SocketsAreAnswered
       /\ scenario = "hvf" => StopEndsCpus)
=============================================================================
