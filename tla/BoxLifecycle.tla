---------------------------- MODULE BoxLifecycle ----------------------------
(***************************************************************************)
(* The life of one box from its preparation to the outcome its process     *)
(* reports (crates/terra-runtime/src: component/vmm/{lifecycle,teardown,   *)
(* native_task,virtualization}.rs, box_runtime.rs, box_runtime/setup.rs,   *)
(* orchestration/observation.rs;                                           *)
(* components/vmm/src/{lifecycle,machine}.rs).                             *)
(*                                                                         *)
(* Seven parties run beside one another: the vCPU threads, the agent that  *)
(* reports readiness and exit, the Wasm lifecycle task, the task that runs *)
(* the component stores (run_group), the native teardown thread, the       *)
(* thread that reaps the vCPUs, and the observer whose result is the       *)
(* process's.  They meet in the lifecycle notifier, whose first event, and *)
(* whose first outcome, win and start one shutdown deadline for everyone.  *)
(*                                                                         *)
(* VcpuGroup models the vCPU threads and their join; here a thread runs,   *)
(* leaves and has ended.  The guest, the devices' work and the clock are   *)
(* environment.  run_vcpus fails only on a completion that an exit does    *)
(* not accept, which run_vcpu never sends: a trap stands for every failure *)
(* of the lifecycle component.                                             *)
(***************************************************************************)
EXTENDS Integers, Sequences

CONSTANTS BoxVcpu,        \* vCPUs of the machine
          Device,      \* grants with a shutdown: devices and the agent
          Kind,        \* the kind of each
          ExitCode,    \* exit codes the agent may report
          box_hard_stop,   \* whether a join that times out ends the process
          has_deadline \* whether the box was given a time limit

Kinds == {"memory", "fs", "agent", "vsock", "block"}

ASSUME BoxAssumption ==
  /\ BoxVcpu # {} /\ Device # {}
  /\ Kind \in [Device -> Kinds]
  /\ ExitCode \subseteq Int
  /\ box_hard_stop \in BOOLEAN /\ has_deadline \in BOOLEAN

Interrupts == "interrupts"      \* the worker of the interrupt controller
Child == Device \cup {Interrupts}

VARIABLES
  phase,     \* of the process: "preparing", "started", "running", "abandoned", "aborted"
  notifier,  \* LifecycleNotifier: event, outcome, native_failure, ready, deadline
  boxVcpu,      \* each vCPU thread
  stop,      \* whether the vCPUs were told to stop
  reaper,    \* VcpuReaper: "idle", "reaping", "joined", "timed_out"
  teardown,  \* NativeTeardown: at, machine, devices, interrupts, closed, error
  wasm,      \* the lifecycle component's task: at, event
  boxBridge,    \* the MMIO bridge's loop: "running", "ended", "failed", "dropped"
  shutdown,  \* the shutdown signal of the component stores
  child,     \* each worker store's task
  group,     \* run_group
  observer   \* VmObservation: at, outcome, boot_timed_out, cleanup, runtime, result

boxVars == <<phase, notifier, boxVcpu, stop, reaper, teardown, wasm, boxBridge, shutdown,
             child, group, observer>>

Event(kind, code) == [kind |-> kind, code |-> code]
None == Event("none", 0)
BoxGuestExit(code) == Event("guest_exit", code)
ComponentFailed == Event("component_failed", 0)
VcpuFinished == Event("vcpu_finished", 0)
Deadline == Event("deadline", 0)

BoxInit ==
  /\ phase = "preparing"
  /\ notifier = [event |-> None, outcome |-> None, native_failure |-> FALSE,
                 ready |-> FALSE, deadline |-> "unset"]
  /\ boxVcpu = [v \in BoxVcpu |-> "none"] /\ stop = FALSE /\ reaper = "idle"
  /\ teardown = [at |-> "collecting", machine |-> FALSE, devices |-> <<>>,
                 interrupts |-> FALSE, closed |-> {}, error |-> FALSE]
  /\ wasm = [at |-> "new", event |-> None]
  /\ boxBridge = "new" /\ shutdown = FALSE
  /\ child = [c \in Child |-> "new"]
  /\ group = "new"
  /\ observer = [at |-> "new", outcome |-> None, boot_timed_out |-> FALSE,
                 cleanup |-> "none", runtime |-> "none", result |-> "none"]

-----------------------------------------------------------------------------
(* LifecycleNotifier.                                                      *)

Started(n) == [n EXCEPT !.deadline = IF @ = "unset" THEN "running" ELSE @]

PublishLast(n, e) == [Started(n) EXCEPT !.event = e]

BoxPublish(n, e) == IF n.event = None THEN [Started(n) EXCEPT !.event = e] ELSE n

PublishOutcome(n, o) ==
  IF n.outcome = None THEN [Started(n) EXCEPT !.outcome = o] ELSE n

NativeFailed(n) == BoxPublish([n EXCEPT !.native_failure = TRUE], ComponentFailed)

Expired == notifier.deadline = "passed"

DeadlinePasses ==
  /\ notifier.deadline = "running"
  /\ notifier' = [notifier EXCEPT !.deadline = "passed"]
  /\ UNCHANGED <<phase, boxVcpu, stop, reaper, teardown, wasm, boxBridge, shutdown, child,
                 group, observer>>

(* NativeTeardown::task: the first caller takes the grants and starts the  *)
(* thread.                                                                 *)
StartTeardown(t) == IF t.at = "collecting" THEN [t EXCEPT !.at = "begun"] ELSE t

(* NativeTask::start of the reaper: cancel, then the thread.               *)
StartReaper ==
  /\ stop' = TRUE
  /\ reaper' = IF reaper = "idle" THEN "reaping" ELSE reaper

-----------------------------------------------------------------------------
(* Preparation: prepare and finish_preparation.  Any step may fail.        *)

InstallDevice(d) ==
  /\ phase = "preparing" /\ ~teardown.interrupts
  /\ \A i \in 1 .. Len(teardown.devices) : teardown.devices[i] # d
  /\ teardown' = [teardown EXCEPT !.devices = Append(@, d)]
  /\ UNCHANGED <<phase, notifier, boxVcpu, stop, reaper, wasm, boxBridge, shutdown, child,
                 group, observer>>

InstallInterrupts ==
  /\ phase = "preparing" /\ ~teardown.interrupts
  /\ \A d \in Device : \E i \in 1 .. Len(teardown.devices) : teardown.devices[i] = d
  /\ teardown' = [teardown EXCEPT !.interrupts = TRUE]
  /\ UNCHANGED <<phase, notifier, boxVcpu, stop, reaper, wasm, boxBridge, shutdown, child,
                 group, observer>>

(* start_native_vcpus, after every worker was set up.                      *)
StartVcpus ==
  /\ phase = "preparing" /\ teardown.interrupts
  /\ phase' = "started"
  /\ boxVcpu' = [v \in BoxVcpu |-> "running"]
  /\ teardown' = [teardown EXCEPT !.machine = TRUE]
  /\ UNCHANGED <<notifier, stop, reaper, wasm, boxBridge, shutdown, child, group, observer>>

(* The runtime is dropped: the drop of TeardownState starts the teardown   *)
(* if it has work.                                                         *)
PreparationFails ==
  /\ phase \in {"preparing", "started"}
  /\ phase' = "abandoned"
  /\ teardown' = IF teardown.machine \/ teardown.devices # <<>> \/ teardown.interrupts
                 THEN StartTeardown(teardown) ELSE teardown
  /\ UNCHANGED <<notifier, boxVcpu, stop, reaper, wasm, boxBridge, shutdown, child, group,
                 observer>>

(* PreparedVm::run: the stores run and the observer waits.                 *)
Run ==
  /\ phase = "started"
  /\ phase' = "running"
  /\ wasm' = [wasm EXCEPT !.at = "waiting"]
  /\ boxBridge' = "running" /\ group' = "running"
  /\ child' = [c \in Child |-> "serving"]
  /\ observer' = [observer EXCEPT !.at = "booting"]
  /\ UNCHANGED <<notifier, boxVcpu, stop, reaper, teardown, shutdown>>

-----------------------------------------------------------------------------
(* The vCPU threads and the reaper.                                        *)

(* The guest shuts down, which stops every vCPU, or a stop is noticed.     *)
VcpuFinishes(v) ==
  /\ boxVcpu[v] = "running"
  /\ boxVcpu' = [boxVcpu EXCEPT ![v] = "finished"]
  /\ stop' = TRUE
  /\ UNCHANGED <<phase, notifier, reaper, teardown, wasm, boxBridge, shutdown, child, group,
                 observer>>

(* RuntimeVcpu::failed, before the thread ends.                            *)
VcpuFails(v) ==
  /\ boxVcpu[v] = "running"
  /\ boxVcpu' = [boxVcpu EXCEPT ![v] = "failed"]
  /\ notifier' = NativeFailed(notifier)
  /\ UNCHANGED <<phase, stop, reaper, teardown, wasm, boxBridge, shutdown, child, group,
                 observer>>

VcpuEnds(v) ==
  /\ boxVcpu[v] \in {"finished", "failed"}
  /\ boxVcpu' = [boxVcpu EXCEPT ![v] = IF @ = "failed" THEN "ended_failed" ELSE "ended"]
  /\ UNCHANGED <<phase, notifier, stop, reaper, teardown, wasm, boxBridge, shutdown, child,
                 group, observer>>

BoxOver(v) == boxVcpu[v] \in {"none", "ended", "ended_failed"}
Left(v) == boxVcpu[v] \notin {"none", "running"}

(* Vcpus::join returns, or times out and ends the process or fails.        *)
ReapJoins ==
  /\ reaper = "reaping" /\ \A v \in BoxVcpu : BoxOver(v)
  /\ reaper' = "joined"
  /\ UNCHANGED <<phase, notifier, boxVcpu, stop, teardown, wasm, boxBridge, shutdown, child,
                 group, observer>>

ReapTimesOut ==
  /\ reaper = "reaping" /\ \E v \in BoxVcpu : ~BoxOver(v)
  /\ IF box_hard_stop THEN phase' = "aborted" /\ UNCHANGED reaper
     ELSE reaper' = "timed_out" /\ UNCHANGED phase
  /\ UNCHANGED <<notifier, boxVcpu, stop, teardown, wasm, boxBridge, shutdown, child, group,
                 observer>>

-----------------------------------------------------------------------------
(* The agent, through deliver_events of its worker.                        *)

AgentServes == \E d \in Device : Kind[d] = "agent" /\ child[d] = "serving"

AgentReady(is_ready) ==
  /\ AgentServes /\ notifier.ready # is_ready
  /\ notifier' = [notifier EXCEPT !.ready = is_ready]
  /\ UNCHANGED <<phase, boxVcpu, stop, reaper, teardown, wasm, boxBridge, shutdown, child,
                 group, observer>>

AgentExits(code) ==
  /\ AgentServes
  /\ notifier' = BoxPublish(notifier, BoxGuestExit(code))
  /\ UNCHANGED <<phase, boxVcpu, stop, reaper, teardown, wasm, boxBridge, shutdown, child,
                 group, observer>>

-----------------------------------------------------------------------------
(* run_teardown.                                                           *)

(* No runtime for the thread: every grant is forgotten.                    *)
TeardownRefused ==
  /\ teardown.at = "begun"
  /\ teardown' = [teardown EXCEPT !.at = "done", !.error = TRUE]
  /\ UNCHANGED <<phase, notifier, boxVcpu, stop, reaper, wasm, boxBridge, shutdown, child,
                 group, observer>>

TeardownStopsMachine ==
  /\ teardown.at = "begun"
  /\ IF teardown.machine
     THEN StartReaper /\ teardown' = [teardown EXCEPT !.at = "machine"]
     ELSE UNCHANGED <<stop, reaper>> /\ teardown' = [teardown EXCEPT !.at = "devices"]
  /\ UNCHANGED <<phase, notifier, boxVcpu, wasm, boxBridge, shutdown, child, group, observer>>

TeardownGoesOn ==
  /\ teardown.at = "machine" /\ reaper # "idle"
  /\ teardown' = [teardown EXCEPT !.at = "devices"]
  /\ UNCHANGED <<phase, notifier, boxVcpu, stop, reaper, wasm, boxBridge, shutdown, child,
                 group, observer>>

(* machine.wait: the grants are forgotten when the vCPUs did not end.      *)
TeardownReaps ==
  /\ teardown.at = "machine" /\ reaper \in {"joined", "timed_out"}
  /\ teardown' = IF reaper = "joined" THEN [teardown EXCEPT !.at = "devices"]
                 ELSE [teardown EXCEPT !.at = "done", !.error = TRUE]
  /\ UNCHANGED <<phase, notifier, boxVcpu, stop, reaper, wasm, boxBridge, shutdown, child,
                 group, observer>>

(* DeviceShutdown::order and the sort by it.                               *)
Order(d) ==
  CASE Kind[d] = "memory" -> 0
    [] Kind[d] = "fs" -> 1
    [] Kind[d] = "agent" -> 2
    [] Kind[d] = "vsock" -> 3
    [] Kind[d] = "block" -> 4

Precedes(i, j) ==
  LET d == teardown.devices[i]
      e == teardown.devices[j]
  IN  Order(d) < Order(e) \/ (Order(d) = Order(e) /\ i < j)

AsInstalled(i) ==
  /\ i \in 1 .. Len(teardown.devices) /\ teardown.devices[i] \notin teardown.closed
  /\ \A j \in 1 .. i - 1 : teardown.devices[j] \in teardown.closed

NextToClose(i) ==
  /\ i \in 1 .. Len(teardown.devices) /\ teardown.devices[i] \notin teardown.closed
  /\ \A j \in 1 .. Len(teardown.devices) :
       teardown.devices[j] \in teardown.closed \/ j = i \/ Precedes(i, j)

(* The close of a device goes through the bridge to its worker, that of    *)
(* the agent to its worker; the first error is kept and the rest go on.    *)
CanClose(d) == child[d] = "serving" /\ (Kind[d] = "agent" \/ boxBridge = "running")
MayFail(d) == Kind[d] = "agent" \/ boxBridge # "running"

TeardownCloses(i) ==
  /\ teardown.at = "devices" /\ NextToClose(i)
  /\ LET d == teardown.devices[i]
     IN  \/ /\ CanClose(d)
            /\ teardown' = [teardown EXCEPT !.closed = @ \cup {d}]
            /\ child' = [child EXCEPT ![d] = "closed"]
         \/ /\ MayFail(d)
            /\ teardown' = [teardown EXCEPT !.closed = @ \cup {d}, !.error = TRUE]
            /\ UNCHANGED child
  /\ UNCHANGED <<phase, notifier, boxVcpu, stop, reaper, wasm, boxBridge, shutdown, group,
                 observer>>

TeardownClosesInterrupts ==
  /\ teardown.at = "devices"
  /\ \A i \in 1 .. Len(teardown.devices) : teardown.devices[i] \in teardown.closed
  /\ \/ /\ ~teardown.interrupts \/ child[Interrupts] = "serving"
        /\ teardown' = [teardown EXCEPT !.at = "done"]
        /\ child' = [child EXCEPT ![Interrupts] = IF @ = "serving" THEN "closed" ELSE @]
     \/ /\ teardown.interrupts
        /\ teardown' = [teardown EXCEPT !.at = "done", !.error = TRUE]
        /\ UNCHANGED child
  /\ UNCHANGED <<phase, notifier, boxVcpu, stop, reaper, wasm, boxBridge, shutdown, group,
                 observer>>

TornDown == teardown.at = "done" /\ ~teardown.error
TeardownFailed == teardown.at = "done" /\ teardown.error

-----------------------------------------------------------------------------
(* The lifecycle component: wait_for_shutdown, then machine::release, then *)
(* the end of its loop in the host.                                        *)

(* select saw the vCPUs end first; now_or_never may miss a ready event.    *)
WasmSeesVcpus ==
  /\ wasm.at = "waiting" /\ \A v \in BoxVcpu : Left(v)
  /\ \E e \in {notifier.event, None} :
       wasm' = [at |-> "stopping", event |-> IF e = None THEN VcpuFinished ELSE e]
  /\ teardown' = StartTeardown(teardown)
  /\ notifier' = Started(notifier)
  /\ UNCHANGED <<phase, boxVcpu, stop, reaper, boxBridge, shutdown, child, group, observer>>

WasmSeesEvent ==
  /\ wasm.at = "waiting" /\ notifier.event # None
  /\ wasm' = [at |-> "stopping", event |-> notifier.event]
  /\ teardown' = StartTeardown(teardown)
  /\ notifier' = Started(notifier)
  /\ UNCHANGED <<phase, boxVcpu, stop, reaper, boxBridge, shutdown, child, group, observer>>

(* lifecycle_platform::shutdown returned Ok: the machine is marked stopped *)
(* and released, and the host's loop publishes the outcome.                *)
WasmStops ==
  /\ wasm.at = "stopping" /\ TornDown
  /\ IF wasm.event = ComponentFailed
     THEN /\ notifier' = PublishOutcome(NativeFailed(notifier), ComponentFailed)
          /\ wasm' = [wasm EXCEPT !.at = "failed"]
     ELSE /\ notifier' = PublishOutcome(notifier, wasm.event)
          /\ wasm' = [wasm EXCEPT !.at = "returned"]
  /\ UNCHANGED <<phase, boxVcpu, stop, reaper, teardown, boxBridge, shutdown, child, group,
                 observer>>

(* ... or Err, also when the deadline passed; then release is refused.     *)
WasmCannotStop ==
  /\ wasm.at = "stopping" /\ (TeardownFailed \/ (Expired /\ ~TornDown))
  /\ wasm' = [wasm EXCEPT !.at = "failed"]
  /\ UNCHANGED <<phase, notifier, boxVcpu, stop, reaper, teardown, boxBridge, shutdown, child,
                 group, observer>>

WasmTraps ==
  /\ wasm.at \in {"waiting", "stopping"}
  /\ wasm' = [wasm EXCEPT !.at = "failed"]
  /\ UNCHANGED <<phase, notifier, boxVcpu, stop, reaper, teardown, boxBridge, shutdown, child,
                 group, observer>>

(* run_bridge ends when its last device is closed, and signals shutdown.   *)
BridgeEnds ==
  /\ boxBridge = "running"
  /\ \A d \in Device : Kind[d] # "agent" => child[d] = "closed"
  /\ boxBridge' = "ended" /\ shutdown' = TRUE
  /\ UNCHANGED <<phase, notifier, boxVcpu, stop, reaper, teardown, wasm, child, group,
                 observer>>

BridgeFails ==
  /\ boxBridge = "running"
  /\ boxBridge' = "failed"
  /\ UNCHANGED <<phase, notifier, boxVcpu, stop, reaper, teardown, wasm, shutdown, child,
                 group, observer>>

(* A worker store: run_store waits for the shutdown signal after its loops.*)
ChildEnds(c) ==
  /\ child[c] = "closed" /\ shutdown
  /\ child' = [child EXCEPT ![c] = "done"]
  /\ UNCHANGED <<phase, notifier, boxVcpu, stop, reaper, teardown, wasm, boxBridge, shutdown,
                 group, observer>>

ChildFails(c) ==
  /\ child[c] = "serving"
  /\ child' = [child EXCEPT ![c] = "failed"]
  /\ UNCHANGED <<phase, notifier, boxVcpu, stop, reaper, teardown, wasm, boxBridge, shutdown,
                 group, observer>>

-----------------------------------------------------------------------------
(* run_group.                                                              *)

RootEnds ==
  /\ group = "running" /\ wasm.at = "returned" /\ boxBridge = "ended"
  /\ group' = "draining" /\ shutdown' = TRUE
  /\ notifier' = Started(notifier)
  /\ UNCHANGED <<phase, boxVcpu, stop, reaper, teardown, wasm, boxBridge, child, observer>>

GroupEnds ==
  /\ group = "draining" /\ \A c \in Child : child[c] = "done"
  /\ group' = "ended"
  /\ UNCHANGED <<phase, notifier, boxVcpu, stop, reaper, teardown, wasm, boxBridge, shutdown,
                 child, observer>>

(* A store failed, or the stores did not end by the deadline.              *)
GroupFails ==
  /\ \/ group = "running" /\ (wasm.at = "failed" \/ boxBridge = "failed")
     \/ group \in {"running", "draining"} /\ \E c \in Child : child[c] = "failed"
     \/ group = "draining" /\ Expired
  /\ group' = "failing" /\ shutdown' = TRUE
  /\ notifier' = PublishOutcome(BoxPublish(notifier, ComponentFailed), ComponentFailed)
  /\ UNCHANGED <<phase, boxVcpu, stop, reaper, teardown, wasm, boxBridge, child, observer>>

DropRoot ==
  /\ wasm' = [wasm EXCEPT !.at = "dropped"]
  /\ boxBridge' = "dropped"

GroupDropsRoot ==
  /\ group = "failing"
  /\ group' = "recovering"
  /\ DropRoot
  /\ teardown' = StartTeardown(teardown)
  /\ UNCHANGED <<phase, notifier, boxVcpu, stop, reaper, shutdown, child, observer>>

AbortChildren ==
  child' = [c \in Child |-> IF child[c] = "done" THEN "done" ELSE "aborted"]

GroupRecovers ==
  /\ group = "recovering" /\ (teardown.at = "done" \/ Expired)
  /\ group' = "failed"
  /\ AbortChildren
  /\ UNCHANGED <<phase, notifier, boxVcpu, stop, reaper, teardown, wasm, boxBridge, shutdown,
                 observer>>

GroupOver == group \in {"ended", "failed", "aborted"}

-----------------------------------------------------------------------------
(* VmObservation::observe.                                                 *)

Watching == observer.at \in {"booting", "booted"}

(* wait_for_outcome, biased towards the outcome.                           *)
ObserveOutcome ==
  /\ Watching /\ notifier.outcome # None
  /\ observer' = [observer EXCEPT !.at = "finishing", !.outcome = notifier.outcome]
  /\ UNCHANGED <<phase, notifier, boxVcpu, stop, reaper, teardown, wasm, boxBridge, shutdown,
                 child, group>>

ObserveDeadline ==
  /\ has_deadline /\ Watching /\ notifier.outcome = None
  /\ notifier' = BoxPublish(notifier, Deadline)
  /\ observer' = [observer EXCEPT !.at = "finishing", !.outcome = Deadline]
  /\ UNCHANGED <<phase, boxVcpu, stop, reaper, teardown, wasm, boxBridge, shutdown, child, group>>

(* wait_for_boot.                                                          *)
ObserveReady ==
  /\ observer.at = "booting" /\ notifier.ready
  /\ observer' = [observer EXCEPT !.at = "booted"]
  /\ UNCHANGED <<phase, notifier, boxVcpu, stop, reaper, teardown, wasm, boxBridge, shutdown,
                 child, group>>

(* GUEST_BOOT_TIMEOUT and expire_boot_deadline: it counts only when the    *)
(* agent is not ready and no event came before.                            *)
BootTimesOut ==
  /\ observer.at = "booting"
  /\ IF ~notifier.ready /\ notifier.event = None
     THEN /\ notifier' = BoxPublish(notifier, Deadline)
          /\ observer' = [observer EXCEPT !.at = "finishing", !.outcome = Deadline,
                                          !.boot_timed_out = TRUE]
     ELSE /\ observer' = [observer EXCEPT !.at = "booted"]
          /\ UNCHANGED notifier
  /\ UNCHANGED <<phase, boxVcpu, stop, reaper, teardown, wasm, boxBridge, shutdown, child, group>>

(* finish: the teardown until the shared deadline, ...                     *)
FinishBegins ==
  /\ observer.at = "finishing"
  /\ notifier' = Started(notifier)
  /\ teardown' = StartTeardown(teardown)
  /\ observer' = [observer EXCEPT !.at = "cleanup"]
  /\ UNCHANGED <<phase, boxVcpu, stop, reaper, wasm, boxBridge, shutdown, child, group>>

Cleanup ==
  /\ observer.at = "cleanup" /\ (teardown.at = "done" \/ Expired)
  /\ observer' = [observer EXCEPT !.at = "runtime",
                                  !.cleanup = IF TornDown THEN "ok" ELSE "err"]
  /\ UNCHANGED <<phase, notifier, boxVcpu, stop, reaper, teardown, wasm, boxBridge, shutdown,
                 child, group>>

(* ... then finish_component_runtime: join, or abort and join, ...         *)
RuntimeJoined ==
  /\ observer.at = "runtime" /\ GroupOver
  /\ observer' = [observer EXCEPT !.at = "reaping",
                                  !.runtime = IF @ = "none" /\ observer.cleanup = "ok"
                                                 /\ group = "ended"
                                              THEN "ok" ELSE "err"]
  /\ UNCHANGED <<phase, notifier, boxVcpu, stop, reaper, teardown, wasm, boxBridge, shutdown,
                 child, group>>

RuntimeAborted ==
  /\ observer.at = "runtime" /\ ~GroupOver
  /\ observer.cleanup = "err" \/ Expired
  /\ group' = "aborted"
  /\ DropRoot /\ AbortChildren
  /\ observer' = [observer EXCEPT !.runtime = "err"]
  /\ UNCHANGED <<phase, notifier, boxVcpu, stop, reaper, teardown, shutdown>>

(* ... then the vCPU outcomes: reaper.wait_until and what finish returns.  *)
AskReaper ==
  /\ observer.at = "reaping"
  /\ observer' = [observer EXCEPT !.at = "reaped"]
  /\ StartReaper
  /\ UNCHANGED <<phase, notifier, boxVcpu, teardown, wasm, boxBridge, shutdown, child, group>>

SomeVcpuFailed == \E v \in BoxVcpu : boxVcpu[v] = "ended_failed"

(* collect_vcpu_outcomes and the match on the outcome.                     *)
VmResult ==
  IF /\ ~notifier.native_failure
     /\ reaper = "joined" /\ ~SomeVcpuFailed
     /\ ~observer.boot_timed_out
     /\ observer.outcome # ComponentFailed
     /\ observer.runtime = "ok"
  THEN "ok" ELSE "err"

ObserverEnds ==
  /\ observer.at = "reaped"
  /\ reaper \in {"joined", "timed_out"} \/ Expired
  /\ observer' = [observer EXCEPT !.at = "done", !.result = VmResult]
  /\ UNCHANGED <<phase, notifier, boxVcpu, stop, reaper, teardown, wasm, boxBridge, shutdown,
                 child, group>>

-----------------------------------------------------------------------------
Preparation ==
  \/ \E d \in Device : InstallDevice(d)
  \/ InstallInterrupts \/ StartVcpus \/ PreparationFails \/ Run

VcpuStep(v) == VcpuFinishes(v) \/ VcpuFails(v) \/ VcpuEnds(v)

ReaperStep == ReapJoins \/ ReapTimesOut

AgentStep ==
  \/ \E is_ready \in BOOLEAN : AgentReady(is_ready)
  \/ \E code \in ExitCode : AgentExits(code)

TeardownStep ==
  \/ TeardownStopsMachine \/ TeardownReaps \/ TeardownClosesInterrupts
  \/ \E i \in 1 .. Len(teardown.devices) : TeardownCloses(i)

WasmStep == WasmSeesVcpus \/ WasmSeesEvent \/ WasmStops \/ WasmCannotStop

StoreStep == BridgeEnds \/ \E c \in Child : ChildEnds(c)

StoreFailure == WasmTraps \/ BridgeFails \/ \E c \in Child : ChildFails(c)

GroupStep == RootEnds \/ GroupEnds \/ GroupFails \/ GroupDropsRoot \/ GroupRecovers

ObserverStep ==
  \/ ObserveOutcome \/ FinishBegins \/ Cleanup \/ RuntimeJoined \/ RuntimeAborted
  \/ AskReaper \/ ObserverEnds

ObserverTimer == ObserveReady \/ ObserveDeadline \/ BootTimesOut

Live ==
  \/ Preparation
  \/ \E v \in BoxVcpu : VcpuStep(v)
  \/ ReaperStep \/ AgentStep
  \/ TeardownStep \/ TeardownRefused
  \/ WasmStep \/ StoreStep \/ StoreFailure \/ GroupStep
  \/ ObserverStep \/ ObserverTimer \/ DeadlinePasses

(* The process has ended, or only a failed preparation's teardown is left. *)
Ended ==
  /\ \/ phase = "aborted"
     \/ observer.at = "done"
     \/ phase = "abandoned" /\ teardown.at \in {"collecting", "done"}
  /\ UNCHANGED boxVars

BoxNext ==
  \/ phase # "aborted" /\ observer.at # "done" /\ Live
  \/ Ended

BoxSpec == BoxInit /\ [][BoxNext]_boxVars

-----------------------------------------------------------------------------
Codes == ExitCode \cup {0}
Events == [kind : {"none", "guest_exit", "component_failed", "deadline"}, code : Codes]
Outcomes == Events \cup {VcpuFinished}

BoxTypeOK ==
  /\ phase \in {"preparing", "started", "running", "abandoned", "aborted"}
  /\ notifier \in [event : Events, outcome : Outcomes, native_failure : BOOLEAN,
                   ready : BOOLEAN, deadline : {"unset", "running", "passed"}]
  /\ boxVcpu \in [BoxVcpu -> {"none", "running", "finished", "failed", "ended", "ended_failed"}]
  /\ stop \in BOOLEAN
  /\ reaper \in {"idle", "reaping", "joined", "timed_out"}
  /\ teardown \in [at : {"collecting", "begun", "machine", "devices", "done"},
                   machine : BOOLEAN, devices : Seq(Device), interrupts : BOOLEAN,
                   closed : SUBSET Device, error : BOOLEAN]
  /\ wasm \in [at : {"new", "waiting", "stopping", "returned", "failed", "dropped"},
               event : Outcomes]
  /\ boxBridge \in {"new", "running", "ended", "failed", "dropped"}
  /\ shutdown \in BOOLEAN
  /\ child \in [Child -> {"new", "serving", "closed", "done", "failed", "aborted"}]
  /\ group \in {"new", "running", "draining", "ended", "failing", "recovering", "failed",
                "aborted"}
  /\ observer \in [at : {"new", "booting", "booted", "finishing", "cleanup", "runtime",
                         "reaping", "reaped", "done"},
                   outcome : Outcomes, boot_timed_out : BOOLEAN,
                   cleanup : {"none", "ok", "err"}, runtime : {"none", "ok", "err"},
                   result : {"none", "ok", "err"}]

(* run_teardown closes devices only when no vCPU thread is left that could *)
(* access them, whoever started the teardown and however the machine was   *)
(* stopped, also after a failed preparation.                               *)
DevicesOutliveVcpus == teardown.closed # {} => \A v \in BoxVcpu : BoxOver(v)

(* Devices are closed in the order of DeviceShutdown::order, in whatever   *)
(* order they were granted: the agent before the vsock device it talks     *)
(* through, the disks after the file systems.                              *)
TeardownInOrder ==
  \A i, j \in 1 .. Len(teardown.devices) :
    Order(teardown.devices[i]) < Order(teardown.devices[j])
      /\ teardown.devices[j] \in teardown.closed
      => teardown.devices[i] \in teardown.closed

(* VmObservation::finish reports an outcome only for a box that came to    *)
(* rest: every vCPU ended without a failure, every device was closed       *)
(* without an error, and every store ended by itself.                      *)
SuccessIsClean ==
  observer.result = "ok" =>
    /\ \A v \in BoxVcpu : boxVcpu[v] = "ended"
    /\ TornDown /\ teardown.closed = Device
    /\ group = "ended" /\ \A c \in Child : child[c] = "done"

(* An exit code that is reported is the one the agent was first heard to   *)
(* report, and nothing was decided before it: no later event, deadline or  *)
(* failure replaces the decision or is replaced by it.                     *)
ReportedExitCameFirst ==
  observer.outcome.kind = "guest_exit" => notifier.event = observer.outcome

(* What a shutdown that anything began comes to: the observer returns.     *)
ShutdownEnds ==
  phase = "running" /\ notifier.deadline # "unset" => observer.at = "done"
=============================================================================
