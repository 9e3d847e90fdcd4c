----------------------------- MODULE GuestInit -----------------------------
EXTENDS Integers, Sequences, FiniteSets

(***************************************************************************)
(* PID 1's children in the guest (terra-agent reap.rs): the orphan reaper, *)
(* which waits for any child, and the tasks that own a child and wait for  *)
(* it by pidfd.  Both may collect an exit status; OWNED, one lock, keeps   *)
(* each status for its owner.  Pids are reused.                            *)
(***************************************************************************)

CONSTANTS OwnedChildren, \* children spawned with spawn_owned, in this order
          Orphans,       \* processes that come to PID 1 when their parent exits
          Pids,          \* the pid space
          MaxSignals     \* bound on group signals

ASSUME ReapAssumption ==
    OwnedChildren \cap Orphans = {} /\ 0 \notin OwnedChildren \cup Orphans

VARIABLES gproc,   \* per process: pid, state
          ownedSet,  \* OWNED: [pid, child]
          slot,    \* per owned child, the exit status the reaper left: whose it is
          waiter,  \* per owned child: pc of its owner, the status it got
          reaper,  \* "idle" or "reap", and whether SIGCHLD is pending
          gsignal  \* the last group signal: its owner, the processes it reached, a count

reapVars == <<gproc, ownedSet, slot, waiter, reaper, gsignal>>

ReapProcs == OwnedChildren \cup Orphans
NoChild == 0
UsedPids == {gproc[p].pid : p \in {q \in ReapProcs : gproc[q].state \in {"run", "zombie"}}}
WithPid(pid) == {p \in ReapProcs : gproc[p].state \in {"run", "zombie"} /\ gproc[p].pid = pid}
IsListed(c) == \E e \in ownedSet : e.child = c

ReapInit ==
    /\ gproc = [p \in ReapProcs |-> [pid |-> NoChild, state |-> "none"]]
    /\ ownedSet = {} /\ slot = [c \in OwnedChildren |-> NoChild]
    /\ waiter = [c \in OwnedChildren |-> [pc |-> "none", got |-> NoChild]]
    /\ reaper = [pc |-> "idle", sigchld |-> FALSE]
    /\ gsignal = [by |-> NoChild, reached |-> {}, n |-> 0]

\* A mutant: an older entry with the pid is kept.
RegisterBehind(c, pid) == ownedSet \cup {[pid |-> pid, child |-> c]}

\* register_owned: a pid that is in use again has no older owner.
RegisterOwned(c, pid) == {e \in ownedSet : e.pid # pid} \cup {[pid |-> pid, child |-> c]}

\* spawn_owned, under the lock: the child runs, or could not be spawned.
SpawnOwned(c) ==
    /\ waiter[c].pc = "none"
    /\ \/ \E pid \in Pids \ UsedPids :
             /\ gproc' = [gproc EXCEPT ![c] = [pid |-> pid, state |-> "run"]]
             /\ ownedSet' = RegisterOwned(c, pid)
             /\ waiter' = [waiter EXCEPT ![c].pc = "wait"]
       \/ waiter' = [waiter EXCEPT ![c].pc = "failed"] /\ UNCHANGED <<gproc, ownedSet>>
    /\ UNCHANGED <<slot, reaper, gsignal>>

\* A process whose parent exits becomes PID 1's.  Pids wrap slowly: an orphan
\* does not get the pid of a child whose owner has still to take its status.
OrphanAppears(p) ==
    /\ gproc[p].state = "none"
    /\ \E pid \in Pids \ (UsedPids \cup {e.pid : e \in ownedSet}) :
          gproc' = [gproc EXCEPT ![p] = [pid |-> pid, state |-> "run"]]
    /\ UNCHANGED <<ownedSet, slot, waiter, reaper, gsignal>>

ProcessExits(p) ==
    /\ gproc[p].state = "run"
    /\ gproc' = [gproc EXCEPT ![p].state = "zombie"]
    /\ reaper' = [reaper EXCEPT !.sigchld = TRUE]
    /\ UNCHANGED <<ownedSet, slot, waiter, gsignal>>

-----------------------------------------------------------------------------
(* watch_orphans: one wake-up for any number of SIGCHLDs, then every child   *)
(* that can be collected.                                                    *)

ReaperWakes ==
    /\ reaper = [pc |-> "idle", sigchld |-> TRUE]
    /\ reaper' = [pc |-> "reap", sigchld |-> FALSE]
    /\ UNCHANGED <<gproc, ownedSet, slot, waiter, gsignal>>

\* What reap_one_orphan does with the child it collected: the status goes to
\* an entry with its pid, if any (were there several, the code takes the first;
\* here any of them may be found).
DeliverStatus(p) ==
    LET entries == {e \in ownedSet : e.pid = gproc[p].pid}
    IN  /\ gproc' = [gproc EXCEPT ![p].state = "gone"]
        /\ \/ entries = {} /\ UNCHANGED slot
           \/ \E e \in entries : slot' = [slot EXCEPT ![e.child] = p]

\* reap_one_orphan, until there is none.
ReapOneOrphan ==
    /\ reaper.pc = "reap"
    /\ \/ \E p \in ReapProcs : gproc[p].state = "zombie" /\ DeliverStatus(p) /\ UNCHANGED reaper
       \/ /\ \A p \in ReapProcs : gproc[p].state # "zombie"
          /\ reaper' = [reaper EXCEPT !.pc = "idle"] /\ UNCHANGED <<gproc, slot>>
    /\ UNCHANGED <<ownedSet, waiter, gsignal>>

-----------------------------------------------------------------------------

\* wait_owned with collect_status: the status the reaper left, or the child's
\* own, taken from the kernel; then the child has no owner any more.
CollectStatus(c) ==
    /\ waiter[c].pc = "wait"
    /\ \/ /\ slot[c] # NoChild
          /\ waiter' = [waiter EXCEPT ![c] = [pc |-> "done", got |-> slot[c]]]
          /\ slot' = [slot EXCEPT ![c] = NoChild] /\ UNCHANGED gproc
       \/ /\ slot[c] = NoChild /\ gproc[c].state = "zombie"
          /\ waiter' = [waiter EXCEPT ![c] = [pc |-> "done", got |-> c]]
          /\ gproc' = [gproc EXCEPT ![c].state = "gone"] /\ UNCHANGED slot
    /\ ownedSet' = {e \in ownedSet : e.child # c}
    /\ UNCHANGED <<reaper, gsignal>>

\* signal_group: the group of a leader that nobody has collected.
SignalGroup(c) ==
    /\ waiter[c].pc \in {"wait", "done"} /\ gsignal.n < MaxSignals
    /\ gsignal' = [by |-> c, n |-> gsignal.n + 1,
                   reached |-> IF slot[c] = NoChild /\ IsListed(c) THEN WithPid(gproc[c].pid) ELSE {}]
    /\ UNCHANGED <<gproc, ownedSet, slot, waiter, reaper>>

-----------------------------------------------------------------------------

ReapNext ==
    \/ \E c \in OwnedChildren : SpawnOwned(c) \/ CollectStatus(c) \/ SignalGroup(c)
    \/ \E p \in Orphans : OrphanAppears(p)
    \/ \E p \in ReapProcs : ProcessExits(p)
    \/ ReaperWakes \/ ReapOneOrphan

ReapSpec == ReapInit /\ [][ReapNext]_reapVars

-----------------------------------------------------------------------------
(* Properties *)

ReapTypeOK == /\ \A c \in OwnedChildren : slot[c] \in ReapProcs \cup {NoChild}
              /\ Cardinality(ownedSet) <= Cardinality(Pids)

\* Every owner gets the exit status of its own child, whoever collected it and
\* whatever pids were used again meanwhile, and a group signal reaches nobody
\* but the group it was meant for.
ChildrenAreTheirOwners ==
    /\ \A c \in OwnedChildren : waiter[c].pc = "done" => waiter[c].got = c
    /\ gsignal.reached \subseteq {gsignal.by}

\* A child that exits is collected, though one SIGCHLD may stand for several,
\* and its owner is told.
ExitsAreCollected ==
    \A p \in ReapProcs : /\ gproc[p].state # "zombie"
                     /\ gproc[p].state = "gone" /\ p \in OwnedChildren => waiter[p].pc = "done"

------------------------------------------------------------------------------
(***************************************************************************)
(* The guest agent's boot (terra-agent agent.rs, lib.rs) with its hooks,   *)
(* its workload and its daemons (daemon.rs): the two tokens `stop` and     *)
(* `shutdown`, the supervisors that restart daemons, the two places that   *)
(* stop them, and the order in which a box ends.                           *)
(***************************************************************************)

CONSTANTS Daemons,      \* the recipe's daemons
          HookCounts,   \* numbers of hooks a phase may have
          MaxRestarts   \* bound on restarts of one daemon

VARIABLES boot,    \* the boot: mode, pc, hooks left in the phase, outcome
          token,   \* the tokens: stop, shutdown; the server's startup state
          hook,    \* the hook's process: "none", "run", "dead"
          work,    \* the workload: "none", "run", "termed", "dead"
          daemon,  \* per daemon: its supervisor's pc, its process, restarts
          stopper, \* the two calls of Daemons::stop, by the boot and on shutdown
          report   \* what the host was told: "none", "exit", "lost"

agentVars == <<boot, token, hook, work, daemon, stopper, report>>

LOCAL Goto(pc) == boot' = [boot EXCEPT !.pc = pc]
LOCAL Fail(pc) == boot' = [boot EXCEPT !.pc = pc, !.outcome = "failed"]
LOCAL Phase(pc) == \E n \in HookCounts : boot' = [boot EXCEPT !.pc = pc, !.hooks = n]

AgentInit ==
    /\ boot \in {[mode |-> m, pc |-> "enter", hooks |-> 0, outcome |-> "none"] : m \in {"create", "run"}}
    /\ token = [stop |-> FALSE, shutdown |-> FALSE, startup |-> IF boot.mode = "run" THEN "pending" ELSE "refused"]
    /\ hook = "none" /\ work = "none"
    /\ daemon = [d \in Daemons |-> [pc |-> "none", proc |-> "none", starts |-> 0]]
    /\ stopper = [boot |-> "none", shutdown |-> "none"] /\ report = "none"

\* Without the root there is no agent and nothing is reported.
EnterRoot ==
    /\ boot.pc = "enter" /\ (Goto("init") \/ Fail("off"))
    /\ UNCHANGED <<token, hook, work, daemon, stopper, report>>

\* Agent::init starts the diagnostics and watch_control.
InitAgent ==
    /\ boot.pc = "init" /\ (Goto("prepare") \/ Fail("clean"))
    /\ UNCHANGED <<token, hook, work, daemon, stopper, report>>

\* watch_control: a stop command, or the end of the connection.
WatchControl ==
    /\ boot.pc \notin {"enter", "init"} /\ ~token.stop /\ ~token.shutdown
    /\ token' = [token EXCEPT !.stop = TRUE]
    /\ UNCHANGED <<boot, hook, work, daemon, stopper, report>>

\* prepare_guest and the mounts: no console yet, an error ends the boot.
PrepareGuest ==
    /\ boot.pc = "prepare" /\ (Goto("console") \/ Fail("close"))
    /\ UNCHANGED <<token, hook, work, daemon, stopper, report>>

\* start_console with wait_for_initial_session, then report_ready.
StartConsole ==
    /\ boot.pc = "console" /\ (Phase("hooks") \/ Fail("close"))
    /\ UNCHANGED <<token, hook, work, daemon, stopper, report>>

-----------------------------------------------------------------------------
(* Hooks: run_hooks and run_stop_hooks over run_hook and run_or_kill.        *)

LOCAL HookPhase == boot.pc \in {"hooks", "prestop"}

StartHook ==
    /\ HookPhase /\ hook = "none" /\ boot.hooks > 0
    /\ hook' = "run"
    /\ UNCHANGED <<boot, token, work, daemon, stopper, report>>

HookExits ==
    /\ hook = "run" /\ hook' = "dead"
    /\ UNCHANGED <<boot, token, work, daemon, stopper, report>>

\* The hook's status, or a timeout or cancellation (by stop, or for a stop hook
\* by the shutdown), which kill its group and collect it.  A failure ends the phase; a stop hook's failure is only said.
FinishHook ==
    /\ HookPhase /\ hook # "none" /\ hook' = "none"
    /\ \/ hook = "dead" /\ boot' = [boot EXCEPT !.hooks = @ - 1]
       \/ /\ IF boot.pc = "prestop" THEN boot' = [boot EXCEPT !.hooks = @ - 1]
             ELSE boot' = [boot EXCEPT !.hooks = 0, !.pc = "startup", !.outcome = "failed"]
    /\ UNCHANGED <<token, work, daemon, stopper, report>>

FinishHooks ==
    /\ HookPhase /\ hook = "none" /\ boot.hooks = 0
    /\ IF boot.pc = "prestop" THEN Goto("stop") ELSE Goto("startup")
    /\ UNCHANGED <<token, hook, work, daemon, stopper, report>>

\* finish_startup for a run; write_persistent_state for a setup.
FinishStartup ==
    /\ boot.pc = "startup"
    /\ IF boot.mode = "create"
       THEN (boot.outcome = "none" /\ boot' = [boot EXCEPT !.pc = "exit", !.outcome = "ok"]) \/ Fail("exit")
       ELSE IF boot.outcome = "failed" THEN Goto("exit") ELSE Goto("workload")
    /\ token' = IF boot.mode = "create" THEN token
                ELSE [token EXCEPT !.startup = IF boot.outcome = "failed" THEN "refused" ELSE "ready"]
    /\ UNCHANGED <<hook, work, daemon, stopper, report>>

-----------------------------------------------------------------------------
(* The workload. *)

\* run_workload: the daemons' supervisors, then the workload.  Before the
\* supervisors an error ends the run; after them it stops the daemons first.
SpawnWorkload ==
    /\ boot.pc = "workload" /\ work = "none"
    /\ \/ Fail("exit") /\ UNCHANGED <<daemon, work>>
       \/ /\ daemon' = [d \in Daemons |-> [daemon[d] EXCEPT !.pc = "check"]]
          /\ \/ work' = "run" /\ Goto("wait")
             \/ Fail("stop") /\ UNCHANGED work
    /\ UNCHANGED <<token, hook, stopper, report>>

WorkloadExits ==
    /\ work \in {"run", "termed"} /\ work' = "dead"
    /\ UNCHANGED <<boot, token, hook, daemon, stopper, report>>

\* wait_for_workload: stop_gracefully sends TERM, and KILL after the grace.
StopWorkload ==
    /\ boot.pc = "wait" /\ token.stop /\ work \in {"run", "termed"}
    /\ work' = IF work = "run" THEN "termed" ELSE "dead"
    /\ UNCHANGED <<boot, token, hook, daemon, stopper, report>>

\* wait_for_exit_code, restore_terminal, then the stop hooks.
WaitForWorkload ==
    /\ boot.pc = "wait" /\ work = "dead"
    /\ \E n \in HookCounts : boot' = [boot EXCEPT !.pc = "prestop", !.hooks = n, !.outcome = "ok"]
    /\ UNCHANGED <<token, hook, work, daemon, stopper, report>>

-----------------------------------------------------------------------------
(* Daemons. *)

LOCAL IsCancelled == token.shutdown \/ stopper.boot # "none" \/ stopper.shutdown # "none"
LOCAL Registered(d) == daemon[d].pc \in {"run", "reaped"}
LOCAL Supervisor(d, pc) == daemon' = [daemon EXCEPT ![d].pc = pc]
LOCAL Signalled(d, kill) ==
    IF daemon[d].proc \notin {"run", "termed"} \/ ~Registered(d) THEN daemon[d]
    ELSE [daemon[d] EXCEPT !.proc = IF kill THEN "dead" ELSE "termed"]

\* supervise: not again once the daemons are being stopped, nor when its
\* output cannot be cloned.
Supervise(d) ==
    /\ daemon[d].pc = "check"
    /\ (~IsCancelled /\ Supervisor(d, "spawn")) \/ Supervisor(d, "ended")
    /\ UNCHANGED <<boot, token, hook, work, stopper, report>>

\* run_registered: the process is spawned, then registered, where a stop
\* that came in between is noticed.
SpawnDaemon(d) ==
    /\ daemon[d].pc = "spawn"
    /\ \/ daemon' = [daemon EXCEPT ![d] = [pc |-> "register", proc |-> "run", starts |-> @.starts + 1]]
       \/ Supervisor(d, "failed")
    /\ UNCHANGED <<boot, token, hook, work, stopper, report>>

RegisterDaemon(d) ==
    /\ daemon[d].pc = "register"
    /\ daemon' = [daemon EXCEPT ![d].pc = "run",
                                ![d].proc = IF IsCancelled /\ @ = "run" THEN "termed" ELSE @]
    /\ UNCHANGED <<boot, token, hook, work, stopper, report>>

DaemonExits(d) ==
    /\ daemon[d].proc \in {"run", "termed"}
    /\ daemon' = [daemon EXCEPT ![d].proc = "dead"]
    /\ UNCHANGED <<boot, token, hook, work, stopper, report>>

\* The wait of run_registered: the exit, or the cancellation, which sends TERM
\* and waits on.
WaitDaemon(d) ==
    /\ daemon[d].pc = "run"
    /\ \/ daemon[d].proc = "dead" /\ daemon' = [daemon EXCEPT ![d].pc = "reaped"]
       \/ daemon[d].proc = "run" /\ IsCancelled /\ daemon' = [daemon EXCEPT ![d].proc = "termed"]
    /\ UNCHANGED <<boot, token, hook, work, stopper, report>>

\* The rest of its group is killed and it leaves the registry; it ends for
\* good when it succeeded or the daemons are stopped, else it starts again
\* after a delay.
AfterDaemon(d) ==
    /\ \/ /\ daemon[d].pc \in {"reaped", "failed"}
          /\ \/ ~IsCancelled /\ daemon' = [daemon EXCEPT ![d].pc = "delay", ![d].proc = "none"]
             \/ /\ IsCancelled \/ daemon[d].pc = "reaped"
                /\ daemon' = [daemon EXCEPT ![d].pc = "ended", ![d].proc = "none"]
       \/ daemon[d].pc = "delay" /\ IsCancelled /\ Supervisor(d, "ended")
       \/ daemon[d].pc = "delay" /\ daemon[d].starts <= MaxRestarts /\ Supervisor(d, "check")
    /\ UNCHANGED <<boot, token, hook, work, stopper, report>>

LOCAL SupervisorsEnded == \A d \in Daemons : daemon[d].pc \in {"none", "ended"}

\* Daemons::stop, begun: cancel, TERM to the registered ones.
StopDaemons(s) ==
    /\ stopper[s] = "none"
    /\ IF s = "boot" THEN boot.pc = "stop" ELSE token.shutdown /\ \E d \in Daemons : daemon[d].pc # "none"
    /\ stopper' = [stopper EXCEPT ![s] = "grace"]
    /\ daemon' = [d \in Daemons |-> Signalled(d, FALSE)]
    /\ UNCHANGED <<boot, token, hook, work, report>>

\* The grace runs out while a supervisor still waits: KILL to the registered
\* ones.  Spawning a process takes less than the grace.
KillDaemons(s) ==
    /\ stopper[s] = "grace" /\ ~SupervisorsEnded
    /\ \A d \in Daemons : daemon[d].pc \notin {"spawn", "register"}
    /\ stopper' = [stopper EXCEPT ![s] = "wait"]
    /\ daemon' = [d \in Daemons |-> Signalled(d, TRUE)]
    /\ UNCHANGED <<boot, token, hook, work, report>>

DaemonsStopped(s) ==
    /\ stopper[s] \in {"grace", "wait"} /\ SupervisorsEnded
    /\ stopper' = [stopper EXCEPT ![s] = "done"]
    /\ IF s = "boot" THEN Goto("exit") ELSE UNCHANGED boot
    /\ UNCHANGED <<token, hook, work, daemon, report>>

-----------------------------------------------------------------------------
(* The end of the boot. *)

\* Console::exit: the terminal is closed and drained within its grace, the
\* clients are told the code.
ExitConsole ==
    /\ boot.pc = "exit" /\ Goto("close")
    /\ UNCHANGED <<token, hook, work, daemon, stopper, report>>

\* Agent::close: shutdown, then every task is waited for.
CloseAgent ==
    /\ boot.pc = "close" /\ Goto("tasks")
    /\ token' = [token EXCEPT !.shutdown = TRUE]
    /\ UNCHANGED <<hook, work, daemon, stopper, report>>

WaitTasks ==
    /\ boot.pc = "tasks" /\ SupervisorsEnded
    /\ stopper.shutdown = "done" \/ \A d \in Daemons : daemon[d].pc = "none"
    /\ Goto("clean")
    /\ UNCHANGED <<token, hook, work, daemon, stopper, report>>

\* boot_and_report: the filesystems are left clean and synced, then the exit
\* is reported, and the VM powered off once the host closed the connection.
LeaveClean ==
    /\ boot.pc = "clean" /\ (Goto("report") \/ Fail("report"))
    /\ UNCHANGED <<token, hook, work, daemon, stopper, report>>

ReportExit ==
    /\ boot.pc = "report"
    /\ \/ report' = "exit" /\ Goto("carrier")
       \/ report' = "lost" /\ Goto("off")
    /\ UNCHANGED <<token, hook, work, daemon, stopper>>

CarrierCloses ==
    /\ boot.pc = "carrier" /\ Goto("off")
    /\ UNCHANGED <<token, hook, work, daemon, stopper, report>>

-----------------------------------------------------------------------------

BootStep ==
    \/ EnterRoot \/ InitAgent \/ PrepareGuest \/ StartConsole \/ StartHook \/ FinishHook
    \/ FinishHooks \/ FinishStartup
    \/ SpawnWorkload \/ StopWorkload \/ WaitForWorkload \/ ExitConsole \/ CloseAgent
    \/ WaitTasks \/ LeaveClean \/ ReportExit \/ CarrierCloses
SupervisorStep(d) ==
    Supervise(d) \/ SpawnDaemon(d) \/ RegisterDaemon(d) \/ WaitDaemon(d) \/ AfterDaemon(d)
StopperStep(s) == StopDaemons(s) \/ KillDaemons(s) \/ DaemonsStopped(s)

AgentNext ==
    \/ WatchControl \/ HookExits \/ WorkloadExits \/ BootStep
    \/ \E d \in Daemons : SupervisorStep(d) \/ DaemonExits(d)
    \/ \E s \in {"boot", "shutdown"} : StopperStep(s)

AgentSpec == AgentInit /\ [][AgentNext]_agentVars

-----------------------------------------------------------------------------
(* Properties *)

AgentTypeOK ==
    /\ boot.outcome \in {"none", "ok", "failed"} /\ token.startup \in {"pending", "ready", "refused"}
    /\ hook \in {"none", "run", "dead"} /\ work \in {"none", "run", "termed", "dead"}

\* Once the filesystems are being left clean, nothing of the recipe runs any
\* more and no supervisor will start it again, however the boot ended: the
\* exit that is reported is the end of the box.
NothingRunsAtTheEnd ==
    boot.pc \in {"clean", "report", "carrier", "off"} =>
        /\ hook = "none" /\ work \in {"none", "dead"}
        /\ \A d \in Daemons : daemon[d].proc \notin {"run", "termed"} /\ daemon[d].pc \in {"none", "ended"}

\* A stop ends the box: whatever the boot was doing, and though no process
\* ends on TERM, it is reported and powered off.
StopEndsTheBox == token.stop => boot.pc = "off"

------------------------------------------------------------------------------
(***************************************************************************)
(* What the guest agent serves its clients (terra-agent services.rs): each *)
(* stream the mux takes in (mux.rs) becomes a connection that says hello,  *)
(* is told a service, waits for startup where the service needs it, and is *)
(* served until it ends or the agent shuts down (agent.rs close).  The     *)
(* diagnostic stream (diagnostics.rs) is the last thing to finish.         *)
(***************************************************************************)

CONSTANTS Streams,            \* streams the host opens
          QueuedClients,      \* MAX_CLIENT_STREAMS
          DiagnosticQueue,    \* QUEUE_BYTES / CHUNK_BYTES
          MaxRecords          \* bound on the records

VARIABLES startup,      \* StartupState, "dropped" once the Server is
          shutdown,     \* the cancellation token
          serveClosing,      \* close(): "up", "tasks", "finish", "grace", "done"
          server,       \* the accepting task
          serveQueue,        \* the channel of new clients
          serveConn,         \* per stream: its connection
          awaited,      \* wait_for_initial_session: "no", "waiting", "connected", "failed"
          hint,         \* its one-place channel holds a message
          bridge,       \* per stream: its bridge to the mux
          serveNotes, serveWriting, serveDelivered, recorded

serviceVars == <<startup, shutdown, serveClosing, server, serveQueue, serveConn, awaited, hint, bridge,
                 serveNotes, serveWriting, serveDelivered, recorded>>

Services == {"session", "control", "sync", "exec"}
LOCAL Idle == [at |-> "none", service |-> "none", startedIn |-> "none", worker |-> "none", shut |-> FALSE]
LOCAL NoNote == 0
LOCAL Stopped == -1
LOCAL noteVars == <<serveNotes, serveWriting, serveDelivered, recorded>>

-----------------------------------------------------------------------------

ServiceInit ==
  /\ startup \in {"pending", "ready"}
  /\ shutdown = FALSE /\ serveClosing = "up" /\ server = "running" /\ serveQueue = <<>>
  /\ serveConn = [s \in Streams |-> Idle]
  /\ awaited \in {"no", "waiting"} /\ hint = FALSE
  /\ bridge = [s \in Streams |-> "none"]
  /\ serveNotes = <<>> /\ serveWriting = NoNote /\ serveDelivered = <<>> /\ recorded = 0

(* mux run: a stream whose client cannot be queued is dropped at once.     *)
TakeStream(s) ==
  /\ serveConn[s].at = "none" /\ serveClosing # "done"
  /\ IF server = "running" /\ Len(serveQueue) < QueuedClients
     THEN /\ serveQueue' = Append(serveQueue, s)
          /\ serveConn' = [serveConn EXCEPT ![s].at = "queued"]
          /\ bridge' = [bridge EXCEPT ![s] = "open"]
     ELSE /\ serveConn' = [serveConn EXCEPT ![s].at = "refused"]
          /\ bridge' = [bridge EXCEPT ![s] = "closed"]
          /\ UNCHANGED serveQueue
  /\ UNCHANGED <<startup, shutdown, serveClosing, server, awaited, hint>> /\ UNCHANGED noteVars

(* init_server's task: one task per client, until shutdown.                *)
ServeAcceptClient ==
  /\ server = "running" /\ ~shutdown /\ serveQueue # <<>>
  /\ serveConn' = [serveConn EXCEPT ![Head(serveQueue)].at = "choosing"]
  /\ serveQueue' = Tail(serveQueue)
  /\ UNCHANGED <<startup, shutdown, serveClosing, server, awaited, hint, bridge>> /\ UNCHANGED noteVars

(* Its end drops the clients still queued.                                 *)
ServerEnds ==
  /\ server = "running" /\ shutdown
  /\ server' = "ended" /\ serveQueue' = <<>>
  /\ serveConn' = [s \in Streams |-> IF serveConn[s].at = "queued" THEN [serveConn[s] EXCEPT !.at = "ended"] ELSE serveConn[s]]
  /\ UNCHANGED <<startup, shutdown, serveClosing, awaited, hint, bridge>> /\ UNCHANGED noteVars

LOCAL Ends(s) == serveConn' = [serveConn EXCEPT ![s].at = "ended"]

(* Services::serve: hello, then the service, within SERVICE_SELECT_TIMEOUT.*)
ChooseService(s, v) ==
  /\ serveConn[s].at = "choosing" /\ ~shutdown
  /\ serveConn' = [serveConn EXCEPT ![s].service = v,
                                    ![s].at = IF v \in {"sync", "exec"} THEN "waiting" ELSE "starting"]
  /\ UNCHANGED <<startup, shutdown, serveClosing, server, serveQueue, awaited, hint, bridge>> /\ UNCHANGED noteVars

ChooseNothing(s) ==
  /\ serveConn[s].at = "choosing" /\ Ends(s)
  /\ UNCHANGED <<startup, shutdown, serveClosing, server, serveQueue, awaited, hint, bridge>> /\ UNCHANGED noteVars

(* wait_until_started taking any state but pending for a start.            *)
StartsUnlessPending(state) == state # "pending"

(* wait_until_started: refused, or its Server dropped, is no start.        *)
ServeStarts(state) == state = "ready"

WaitUntilStarted(s) ==
  /\ serveConn[s].at = "waiting"
  /\ \/ startup # "pending"
     \/ shutdown
     \/ startup = "pending"                              \* STARTUP_WAIT runs out
  /\ IF ~shutdown /\ ServeStarts(startup)
     THEN serveConn' = [serveConn EXCEPT ![s].at = "starting", ![s].startedIn = startup]
     ELSE Ends(s)
  /\ UNCHANGED <<startup, shutdown, serveClosing, server, serveQueue, awaited, hint, bridge>> /\ UNCHANGED noteVars

(* serve_client tells wait_for_initial_session; a sync session gets a      *)
(* blocking worker (prepare_file_transfer, serve_file_transfer).           *)
StartService(s) ==
  /\ serveConn[s].at = "starting" /\ (serveConn[s].service \in {"session", "control"} => ~shutdown)
  /\ serveConn' = [serveConn EXCEPT ![s].at = "serving",
                                    ![s].worker = IF serveConn[s].service = "sync" THEN "running" ELSE "none"]
  /\ hint' = (hint \/ (serveConn[s].service = "session" /\ awaited # "no"))
  /\ UNCHANGED <<startup, shutdown, serveClosing, server, serveQueue, awaited, bridge>> /\ UNCHANGED noteVars

(* Session, control and exec connections end on their own or at shutdown.  *)
ServiceEnds(s) ==
  /\ serveConn[s].at \in {"starting", "serving"}
  /\ serveConn[s].service # "sync" \/ serveConn[s].worker = "none"
  /\ serveConn[s].at = "starting" => (shutdown \/ serveConn[s].service = "sync")
  /\ Ends(s)
  /\ UNCHANGED <<startup, shutdown, serveClosing, server, serveQueue, awaited, hint, bridge>> /\ UNCHANGED noteVars

(* The blocking worker's session ends: finished, timed out, or its socket  *)
(* shut down under it.                                                     *)
WorkerEnds(s) ==
  /\ serveConn[s].worker = "running"
  /\ serveConn' = [serveConn EXCEPT ![s].worker = "ended"]
  /\ UNCHANGED <<startup, shutdown, serveClosing, server, serveQueue, awaited, hint, bridge>> /\ UNCHANGED noteVars

(* serve_file_transfer leaves its worker running at shutdown.              *)
(* serve_file_transfer: at shutdown the socket is shut down and the worker *)
(* waited for.                                                             *)
TransferStep(s) ==
  /\ serveConn[s].at = "serving" /\ serveConn[s].service = "sync"
  /\ IF serveConn[s].worker = "ended" THEN Ends(s)
     ELSE shutdown /\ ~serveConn[s].shut /\ serveConn' = [serveConn EXCEPT ![s].shut = TRUE]
  /\ UNCHANGED <<startup, shutdown, serveClosing, server, serveQueue, awaited, hint, bridge>> /\ UNCHANGED noteVars

-----------------------------------------------------------------------------
(* The agent's side of startup (agent.rs)                                  *)

(* Server::update_state, and the Server dropped when the boot fails.       *)
UpdateState(state) ==
  /\ startup = "pending" /\ serveClosing = "up" /\ awaited \in {"no", "connected", "failed"}
  /\ awaited = "failed" => state = "dropped"
  /\ startup' = state
  /\ UNCHANGED <<shutdown, serveClosing, server, serveQueue, serveConn, awaited, hint, bridge>> /\ UNCHANGED noteVars

InitialSessionConnects ==
  /\ awaited = "waiting" /\ hint /\ awaited' = "connected" /\ hint' = FALSE
  /\ UNCHANGED <<startup, shutdown, serveClosing, server, serveQueue, serveConn, bridge>> /\ UNCHANGED noteVars

(* The stop or INITIAL_SESSION_WAIT comes first.                           *)
InitialSessionFails ==
  /\ awaited = "waiting" /\ awaited' = "failed"
  /\ UNCHANGED <<startup, shutdown, serveClosing, server, serveQueue, serveConn, hint, bridge>> /\ UNCHANGED noteVars

(* Agent::close: cancel, wait for the tasks, finish the diagnostics.       *)
Close ==
  /\ serveClosing = "up" /\ awaited # "waiting" /\ shutdown' = TRUE /\ serveClosing' = "tasks"
  /\ startup' = (IF startup = "pending" THEN "dropped" ELSE startup)
  /\ UNCHANGED <<server, serveQueue, serveConn, awaited, hint, bridge>> /\ UNCHANGED noteVars

TasksEnd ==
  /\ serveClosing = "tasks" /\ server = "ended"
  /\ \A s \in Streams : serveConn[s].at \in {"none", "refused", "ended"}
  /\ serveClosing' = "finish"
  /\ UNCHANGED <<startup, shutdown, server, serveQueue, serveConn, awaited, hint, bridge>> /\ UNCHANGED noteVars

-----------------------------------------------------------------------------
(* Diagnostics                                                             *)

LOCAL clientVars == <<startup, shutdown, server, serveQueue, serveConn, awaited, hint, bridge>>

(* record: what does not fit the queue is dropped.                         *)
Record ==
  /\ recorded < MaxRecords /\ serveClosing \in {"up", "tasks"}
  /\ recorded' = recorded + 1
  /\ serveNotes' = (IF Len(serveNotes) < DiagnosticQueue /\ serveWriting # Stopped THEN Append(serveNotes, recorded + 1) ELSE serveNotes)
  /\ UNCHANGED clientVars /\ UNCHANGED <<serveClosing, serveWriting, serveDelivered>>

BeginWrite ==
  /\ serveWriting = NoNote /\ serveNotes # <<>> /\ serveWriting' = Head(serveNotes) /\ serveNotes' = Tail(serveNotes)
  /\ UNCHANGED clientVars /\ UNCHANGED <<serveClosing, serveDelivered, recorded>>

(* write: delivered, or timed out, which ends the writer.                  *)
EndWrite(ok) ==
  /\ serveWriting > 0
  /\ serveWriting' = (IF ok THEN NoNote ELSE Stopped)
  /\ serveDelivered' = (IF ok THEN Append(serveDelivered, serveWriting) ELSE serveDelivered)
  /\ serveNotes' = (IF ok THEN serveNotes ELSE <<>>)
  /\ UNCHANGED clientVars /\ UNCHANGED <<serveClosing, recorded>>

(* The writer ends when the last sender is gone and the queue is empty.    *)
WriterEnds ==
  /\ serveWriting = NoNote /\ serveNotes = <<>> /\ serveClosing \in {"finish", "grace"} /\ serveWriting' = Stopped
  /\ UNCHANGED clientVars /\ UNCHANGED <<serveClosing, serveNotes, serveDelivered, recorded>>

(* finish without the cancellation: the grace is only a longer wait.       *)
FinishByWaiting ==
  /\ serveClosing \in {"finish", "grace"} /\ serveWriting = Stopped /\ serveClosing' = "done"
  /\ UNCHANGED clientVars /\ UNCHANGED <<serveNotes, serveWriting, serveDelivered, recorded>>

(* finish: wait FINISH_GRACE for the writer, then cancel it.               *)
FinishDiagnostics ==
  /\ \/ serveClosing = "finish" /\ serveWriting = Stopped /\ serveClosing' = "done" /\ UNCHANGED <<serveNotes, serveWriting>>
     \/ serveClosing = "finish" /\ serveClosing' = "grace" /\ UNCHANGED <<serveNotes, serveWriting>>
     \/ serveClosing = "grace" /\ serveClosing' = "done" /\ serveWriting' = Stopped /\ serveNotes' = <<>>
  /\ UNCHANGED clientVars /\ UNCHANGED <<serveDelivered, recorded>>

-----------------------------------------------------------------------------
(* bridge: the agent's end closed closes the stream behind its last bytes. *)
(* The other direction, which a client ends as it likes, ends its service. *)

BridgeCloses(s) ==
  /\ bridge[s] = "open" /\ serveConn[s].at = "ended"
  /\ bridge' = [bridge EXCEPT ![s] = "closed"]
  /\ UNCHANGED <<startup, shutdown, serveClosing, server, serveQueue, serveConn, awaited, hint>> /\ UNCHANGED noteVars

ServiceNext ==
  \/ \E s \in Streams :
       \/ TakeStream(s) \/ ChooseNothing(s) \/ WaitUntilStarted(s) \/ StartService(s) \/ ServiceEnds(s)
       \/ WorkerEnds(s) \/ TransferStep(s) \/ BridgeCloses(s)
       \/ \E v \in Services : ChooseService(s, v)
  \/ ServeAcceptClient \/ ServerEnds
  \/ \E state \in {"ready", "refused", "dropped"} : UpdateState(state)
  \/ InitialSessionConnects \/ InitialSessionFails \/ Close \/ TasksEnd
  \/ Record \/ BeginWrite \/ (\E ok \in BOOLEAN : EndWrite(ok)) \/ WriterEnds \/ FinishDiagnostics

ServiceSpec == ServiceInit /\ [][ServiceNext]_serviceVars

-----------------------------------------------------------------------------

(* Sync and exec begin only in a guest whose startup has succeeded; once   *)
(* close has waited for the tasks nothing of a connection runs, its        *)
(* blocking worker included; and diagnostics reach the host in the order   *)
(* they were recorded (wait_until_started, serve_file_transfer, close,     *)
(* Diagnostics::record).                                                   *)
ServicesKeepTheirPlace ==
  /\ \A s \in Streams : (serveConn[s].service \in {"sync", "exec"} /\ serveConn[s].at \in {"starting", "serving"})
                                => serveConn[s].startedIn = "ready"
  /\ serveClosing \in {"finish", "grace", "done"} =>
            \A s \in Streams : serveConn[s].at \in {"none", "refused", "ended"} /\ serveConn[s].worker # "running"
  /\ \A i, j \in DOMAIN serveDelivered : i < j => serveDelivered[i] < serveDelivered[j]

(* Once the agent closes it comes to its end, whatever its clients and the *)
(* host's diagnostic reader do, and every client's stream is closed        *)
(* (Agent::close, serve_file_transfer, Diagnostics::finish, bridge).       *)
ServicesEnd ==
  serveClosing # "up" => serveClosing = "done" /\ \A s \in Streams : bridge[s] # "open"
==============================================================================
