# Terrarium in TLA+

Terrarium (`terra`) runs a Linux guest, a *box*, in a lightweight virtual machine. The
virtual machine monitor is split: native Rust code owns the hypervisor, guest memory and
the threads; every device model is a WebAssembly component in a store of its own and
reaches the host through narrow imports. A box's life involves many parties that run
beside one another: vCPU threads, the component stores, a native teardown, the guest's own
drivers, the agent in the guest, a network broker, a supervisor process and the commands
users type.

This directory specifies the parts whose correctness depends on the order in which these
parties act, checks them with TLC on small instances, and proves the most important
properties for all instances with TLAPS. All paths below are relative to the repository.

Contents:

1. The system and its parts
2. What is modelled, module by module
3. Runs: questions, bounds, results
4. Fairness
5. Proofs
6. Where code and comment disagree
7. Assumptions, and what is not claimed
8. What is not modelled

## 1. The system and its parts

| part | code | state it keeps | modules |
|---|---|---|---|
| vsock stream and switch | `components/vsock-device` | endpoint table, byte counters, reply queues, connection numbers | `StreamConnection`, `VsockSwitch` |
| virtio-MMIO transport, rings, guest memory | `components/device-transport`, `terra-runtime/src/memory.rs` | register file, queues, interrupt line, doorbell; descriptor chains | `MmioTransport`, `MmioDevice`, `GuestMemory` |
| vsock frontend | `components/vsock-frontend` | ring positions, held interrupt, pending replies; network flows | `VsockFrontend`, `VsockStreams` |
| block, fs, memory devices | `components/{block,fs,mem}`, `terra-runtime/src/component/{block,fs}` | epoch, ring position; nodes, handles, I/O scheduler, event request | `HostDevices`, `FsDevice`, `HostShares` |
| interrupt controller | `components/interrupt-controller`, `terra-runtime/.../interrupt_controller.rs` | levels per slot, GSI lines, IOAPIC pins; bounded host queue | `InterruptController` |
| MMIO bridge | `terra-runtime/.../mmio.rs`, `mmio/bridge.rs` | permits, command queue, active devices, operations in flight | `MmioBridge` |
| vCPU threads and back ends | `terra-hypervisor` | stop flag, kick publications, power states, the machine's parts | `VcpuGroup`, `VcpuBackends` |
| VM lifecycle, teardown, observer | `terra-runtime/.../vmm`, `box_runtime.rs`, `orchestration` | first event, first outcome, shutdown deadline, grants | `BoxLifecycle`, `BoxAssembly` |
| agent component and guest agent | `components/agent`, `terra-agent` | sessions, streams, start-up state, children and their statuses | `VsockStreams`, `GuestInit`, `GuestSessions` |
| network broker and policy | `terra-network`, `terra-policy` | flows, outstanding requests, grants, peers, learned addresses | `NetFlows`, `NetPolicy` |
| box state and commands | `terra/src/state`, `terra/src/cmd`, `terra/src/recipe` | run lock and marks, setup stamp, import journal, pins | `BoxCommands`, `BoxStorage`, `BoxContents`, `BoxRecipe`, `FileSync` |
| processes of a box | `terra/src/vm`, `terra/src/session.rs`, `terra/src/logs.rs` | child processes, terminal, log file | `BoxProcesses` |
| sandbox | `terra-sandbox` | access lists and their record; the generated system-call lists | `Sandbox` |
| wire formats | `terra-protocol` | none | `WireFormats`, `NetPolicy` |

How they meet: a vCPU that touches a device register leaves the guest and hands the access
to the MMIO bridge, which calls the device component; the component changes its register
file and publishes its interrupt line to the interrupt queue; a worker aggregates the lines
and injects into the vCPUs. Ring memory is shared, so a device's worker and the guest's
driver run truly in parallel. A guest's network connection is a stream of the vsock switch,
a flow task of the frontend, an operation of the broker and at last a socket. Everything
that ends a box goes through the lifecycle notifier, which keeps the first event and the
first outcome and starts one deadline; the native teardown then stops the vCPUs, joins
them, and closes the devices in order while the observer waits to report one result. Around
the VM process the supervisor owns it and the broker, and commands meet at the box's run
lock.

`PROJECT.json` lists every part with its status, and the hazards: the places where an
order of steps, a wrap-around, a limit or a failure half way could go wrong and a test
would hardly find it. A hazard names the properties that would catch it.

## 2. Module by module

A module holds one component, or several small ones of one part of the system, each in a
section of its own with its own variables, `...Init`, `...Next` and properties. Modules
named `MC...` give constants their values and choose scenarios for TLC; modules named
`...Proofs` hold proofs. A comment above each definition names the function it stands for;
`PROJECT.json` has its lines.

### The vsock device: StreamConnection, VsockSwitch, VsockFrontend, VsockStreams

`switch.rs` is the host end of every stream between guest and host. `StreamConnection`
has the struct of the same name as a record, and each of its methods as an operator from
the stream before to the stream after: `StreamRx` for `rx` with its handlers, `Deliver`,
`StreamConsume`, `Shutdown`, `StreamTake` for `take_reply` and so on. A payload is
its length. Counters keep their width: they live in `0 .. 2*HalfWrap-1` and wrap as the
`u32` do, and `AckAhead` compares on the half circle as the code does. Reply queues have
their limit and the slots reserved for control replies.

`VsockSwitch` is the endpoint table: agent and control first, then at most
`NetworkSocketCapacity` flows. `Rx` takes any header of the guest: the guest is not
assumed to follow the protocol. A call that ends a connection retires its endpoint in the
same step, as `retire_endpoint` does. The counter of connection numbers aborts at
`MaxNumber` (2^64-1 in the code). Properties: the bytes queued for the host never exceed
the window the guest was given (`ReceiveWindowHolds`; proved together with the send budget
and the reported credit), data goes before the close (`DataBeforeCloseHolds`), slots belong
to flows (`SlotsAreOwned`), numbers are never reused (`NumbersAreFresh`).

`VsockFrontend` is the frontend's worker (`worker.rs`, `transport.rs`) against a driver, on
top of `MmioTransport`. The component is single-threaded, so register accesses and close run
only where the worker awaits; but ring memory is shared with the guest's processors, so each
access of the worker to an index or a flag is a step of its own: suppress notifications,
capture, process, publish, look at the interrupt flag, rearm, look again, wait. The driver
is external, modelled from the virtio rules the code relies on: publish before looking at
the suppression flag, look at the used index again after enabling interrupts. Properties:
no posted packet is left without a kick or a pass to come (`NoLostTxKick`), ring indexes
stay in step across wrap-around and resynchronisation and no reply is stranded beside a free
buffer (`RingsAreServed`), and, live, everything posted is served, every completion is seen,
close ends the worker (`FrontendGoesOn`).

`VsockStreams` has what lies behind the device. The *flows* (`network.rs`, `publish.rs`):
the worker's turn retires connections, moves packets, and starts, collects and resets flow
tasks; `WorkerLeavesNothing` says that a worker that has ended leaves no task, stream or
slot behind. The *channels* of `relay.rs` and the *pipe* of `vsock/streams.rs`, with
cancelled writes, dropped ends and wake-ups between threads. The *agent component*: one
session after another over the carrier, lifecycle events in order, and its end.

### Registers and memory: MmioTransport, MmioDevice, GuestMemory

`MmioTransport` is the register file of `MmioTransport` in `device-transport/src/lib.rs` as
operators; `MmioDevice` wraps it in the critical section every device uses (`state()` /
`transport()`): run the access, then publish the line if `take_irq` says it moved. The
guest writes any register, in any order. Feature bits are names, addresses are small
numbers, `WordSize` is the 2^32 of a register half. Properties: the rings of a ready queue
lie in RAM (`ReadyRingsInRam`), the published line is the device's and is high only for a
pending interrupt (`LineFollowsDevice`), and a failed device is silent until reset.

`GuestMemory`: copies cut into pieces and batches on their way to the regions of RAM, and
the split ring with every guest-memory access a step of its own; in one kind of behaviour
the descriptor table holds anything a driver may write.

### Devices: HostDevices, FsDevice, HostShares

`HostDevices`: the block device over its host disk, where jobs run on other threads and a
reset changes the epoch (`NoStaleCompletion`: no completion of an earlier life reaches the
ring of a later one); the memory device with its reported ranges and the host side all
devices share; the watcher of shared files with its two bounded queues.

`FsDevice`: the tables of node ids, handles and event entries as operators, and the device
on top: two rings, the run loop, the scheduler that keeps the order of a file's operations
across a reset, the one event request, interrupts and close.

`HostShares`: what a share's requests do on the host. Nodes that keep a descriptor or only a
name and an identity; directory listings through a budgeted cache; the budget of open
descriptors (`DescriptorsArePaid`: the permits taken are exactly those of descriptors open,
being opened or being closed); and, on Windows, changes by path under pinned directories.

### Machine: VcpuGroup, VcpuBackends, InterruptController, MmioBridge, BoxLifecycle, BoxAssembly

`VcpuGroup` is `terra-hypervisor/src/vcpus.rs` with the KVM thread body. The owner spawns a
thread, waits for it to be ready (or to fail, or for the deadline), goes on to the next;
starts them; requests a stop, one kick at a time; joins with a deadline, kicking again every
interval; or is dropped at any of these points. A thread publishes itself for kicks, parks,
runs the guest in a loop that checks the stop flag *before* `KVM_RUN`, and unpublishes
before it ends. A kick that arrives outside `KVM_RUN` is lost, as with a signal whose
handler does nothing.

`VcpuBackends` has the threads of macOS's back end with their power calls, the run loop of
one vCPU on each back end (what a trapped access becomes and how it completes), and the
order in which each back end makes and releases a machine.

`InterruptController` holds the component's pure part (aggregation of levels on a shared
GSI, delivery, end of interrupt) and its two host sides: lines for KVM, with the bounded
queue, worker and close; the IOAPIC for Windows, with vCPUs that read and write registers,
end interrupts and time out. At rest a line is high exactly if one of its devices is, closed
lines are low even if the worker was late, an assertion arrives, a level is never lost to
masking, reprogramming or an end of interrupt, and a vCPU that waits has its request in the
queue or in the worker's hands.

`BoxLifecycle`: seven parties and the notifier in which they meet, from preparation to the
process's result. `BoxPublish` is `publish_first`; `Teardown...` the native teardown thread
with its order memory, fs, agent, vsock, block and then the interrupt worker; `Wasm...` the
select of `components/vmm/src/lifecycle.rs`; `Observer...` the waits of `observation.rs` and
how they make one result; `Cleanup` is bounded by the shared deadline and, in production
(`box_hard_stop`), a join that times out ends the process. No device is closed while a vCPU
may still run, closes are in order, a success is reported only if nothing failed, a reported
exit code is the first event's, and a shutdown that began ends.

`MmioBridge`: a vCPU takes a permit and posts an access, or a kick it does not wait for; a
device handle posts reset or close under permits of its own. The bridge receives, keeps what
cannot run yet in order (`next_pending` as `Dispatchable`), starts operations, completes or
fails them, and drains when it stops. A device sees commands in the order they were sent and
none after its close, a waiting vCPU's request is held somewhere until it is answered, an
access is never refused for want of a permit (which rests on `MAX_VCPUS` = 32 being below
`COMMAND_CAPACITY` = 64), and every access is answered.

`BoxAssembly`: the machine's layout, the boot component's plan and its validation, the
assembly of stores, grants and devices with a failure at any step, and the memory accounts
of a store.

### Network: NetFlows, NetPolicy, WireFormats

`NetFlows`: a TCP flow from the guest's send and receive calls to the broker's socket and
back, with half-closes and aborts; a UDP flow's pull protocol, where a call may be dropped
at every wait; the broker's operations with the permits and listener grants they share
(`GrantsHaveOneOwner`); and the guest's name queries over one control stream, written and
read a part of a frame at a time, where a query may be abandoned between two parts
(`AnswersAreOwn`). `NetPolicy`: the compiled rules, learned addresses and what they
authorise, checked against the configuration; the broker's peer tables; sizes of DNS
messages. `WireFormats`: frames, runs of datagrams, messages and the packed image, each
written, damaged and read.

### In the guest: GuestInit, GuestSessions

`GuestInit`: the reaper and the owners of children compete for exit statuses while pids are
used again (`ChildrenAreTheirOwners`); the boot with hooks, workload and daemons, and the
order in which a box ends; the services a client is offered. `GuestSessions`: the shared
terminal, one execution with its pumps, the disks from boot to boot with a power cut at any
step, and published ports.

### Host commands: BoxCommands, BoxStorage, BoxContents, BoxRecipe, BoxProcesses, FileSync, Sandbox

`BoxCommands`: the run lock (an `flock` that belongs to an inode and is inherited), with
start, setup, stop and rm meeting at it (`OneVmPerBox`, `OnlyTheBoxIsSignalled`). A lock is
opened first and locked afterwards, and nobody looks whether the name still leads to the
file that was locked; the ghost variable `unlocked` remembers that an `rm` took a lock file
away whose lock it did not hold. Until then at most one VM of the box is up. Further: the stop
channel of a foreground command (`StopIsSentOnce`); names and the directories they stand
for. `BoxStorage`: the files of one box under the lock, every file operation a step that may
fail or be the last of its process; the storage artifact as a stream. `BoxContents` is the
abstract specification of the former: an import replaces the files it carries, and the setup
stamp with them, in one step or not at all. `ImportIsAtomic` is that `BoxStorage` implements
it, under the mapping that reads the files through the journal: what a recovery would put
back is what counts while a journal lies there. `StampMeansBaked`: where there is a stamp,
the root it speaks of is completely baked.

`BoxRecipe`: which recipe a command runs, its approval and pins, the text and its env file.
`BoxProcesses`: the supervisor, a client's session, the log and its follower. `FileSync`:
scan, name probes, link checks, plan, phases and the copy of one file on both sides.
`Sandbox`: the scan for system calls against a machine that runs the program, the access
lists of Windows under their lock, and the launcher's sockets.

## 3. Runs: questions, bounds, results

Every run is `tlc -config <cfg> <module>`; all finish within a few minutes on two workers.
Most runs hold several machines that share no state: a rigid variable `scenario` names the
one that runs in a behaviour, and the others stay as they are. A property of such a run is
a conjunction of the machines' properties, each for its scenario; a mutant is named for
every part.

| run | scenarios | question | distinct states |
|---|---|---|---|
| `vsock` | the host sends, the guest sends, flows come and go; rings | Are flow control, close order, slots and numbers right for any guest? Is anything on a ring left behind? | 911 201 |
| `frontend_live` | - | Is everything served, and does close end the worker? | 61 101 |
| `vcpu_kick` | - | Does one stop request reach every vCPU? (It does not, section 6.) | - |
| `box` | devices, vcpus, ioapic, device | Is the teardown ordered and a reported success clean? Is a level interrupt lost, or a waiting vCPU forgotten? Is the register file safe under any order of writes? | 1 291 535 |
| `machine` | lines, group, box | Do shared lines follow their devices through close? Do threads start, stop and join safely? Does the first decision win? Do they come to an end? | 461 599 |
| `bridge` | - | Does every access reach its device in order and come back? | 34 103 |
| `host` | lock, stop, names, pin, text, storage, artifact | Can two VMs run one box, a stop hit another process, a crash leave half an import or a stamp without its root? | 1 573 963 |
| `processes` | supervisor, session, log, scan, acl, sockets, hvf, access, life | Do the processes of a box tell each other what happened, and end? | 524 027 |
| `devices` | block, balloon, events, fs, flows, channel, pipe, agent | Does a device answer every request once, in its own life, and does carried data arrive? | 582 124 |
| `network` | tcp, udp, broker, policy, dns, message | Is what a flow is told true, is what goes out granted, is every answer the question's? | 690 369 |
| `guest` | reaper, boot, services, session, exec, disks, ports | Does a child's status reach its owner, does a box's end leave nothing running, is a disk safe across power cuts? | 740 769 |
| `data` | copies, ring, node, directory, descriptors, share, datagrams, frames, messages, image, plan, file, scan, names, links, boot, assembly, store | Do bytes and files go where they should, for all small inputs? | 1 264 702 |

Why the bounds are enough for what is asked:

* A counter or index only has to wrap and to be ahead, behind and equal. The modulus of the
  streams (10) is larger than twice the window, as 2^32 is; the modulus of the ring indexes
  is larger than the ring by one, the tightest the code's test for an overrun allows.
* Queues need to be empty, partly full and full while someone else acts: one to three
  entries, with the entry reserved for control replies among them.
* The races here are between two parties of a kind, or between parties of different kinds:
  two vCPUs, two devices on a line, a flow and the flow that takes over its ports, two
  commands on a box and the process one of them left behind. The vCPU group has three
  threads because a kick walks the list while threads end behind and ahead of it.
* Sizes keep the relations of the code's: a batch is smaller than the queue, a chunk than
  the file, a window of devices exactly as large as the largest number of devices
  (the layout of a machine uses the code's own numbers).

Where a model has to stop counting, the bound is a constant in a guard: `MaxNumber`
(connection numbers), `MaxReplies`, `MaxChores`, `MaxResets`, `MaxFaults`, `MaxRestarts` and
the like. The runs do not check for deadlock: they contain states in which the system has
come to rest and no outside party has to act: a closed device, a worker that has ended, a
box that is over. What must not come to rest early is a liveness property.

Symmetry is used for the vCPUs in `box`, which checks invariants only.

For every property `PROJECT.json` names mutants: definitions changed in the way a plausible
bug would change the code (a dropped guard, a missing second look, a swapped order), under
which TLC finds the property violated.

## 4. Fairness

A liveness property assumes of each party only what its scheduler gives it. The fairness
conditions stand in the `MC` modules, each with a comment.

* Frontend: the worker's task is polled while it is ready, the timer of a held interrupt
  ends, and register accesses are served when the worker awaits (weak fairness of the
  worker, its timer and the dispatch; strong fairness of accesses that are possible only in
  between). The driver finishes what it began, a kick or an interrupt handler. Nothing makes
  it post.
* vCPUs: the owner and the threads run. The guest need never leave `KVM_RUN`, so that
  a join's end rests on the repeated kicks alone; failures, timeouts and what the owner
  decides are never forced.
* Interrupts: the worker goes on as long as it can, and a close that was drained ends.
* Box: the deadline passes once it runs; the observer, the lifecycle component and the task
  that runs the stores go on. Nothing forces the guest, the agent, a store, the teardown or
  the reaper: each may hang, and the shutdown ends because the deadline bounds the waits.
* Bridge: dispatch goes on; each operation ends, because `REQUEST_TIMEOUT` ends it; and
  `select!` picks at random among the branches that are ready, so that neither the queue nor
  an operation that has ended is passed over for ever (strong fairness of `Receive` and of
  each client's completion).
* Processes and devices: threads and tasks that can go on do, timers end, and the kernel
  delivers signals and exits. Users, guests and disks decide nothing by fairness unless a
  comment says so (a disk's job ends).
* Network and guest agent: every task is polled when woken, timeouts pass. A connection
  need never come, a relay never end, a resolver thread never return, a workload never heed
  a signal.

## 5. Proofs

TLAPS checks the following theorems for every value of the constants that satisfies the
named assumptions: any window, budget, queue length, number of ports, vCPUs or queues, any
set of guest packets. All are safety properties.

**StreamConnectionProofs** and **VsockSwitchProofs**, about `StreamConnection` and `VsockSwitch`. `SwitchTypeOK`,
`SwitchFlowControl` (receive window, send budget and reported credit),
`SwitchDataBeforeClose`, `SwitchSlotsAreOwned`, `SwitchNumbersAreFresh`.
The properties are not inductive: whether a byte counter stays in its window depends on
what is queued in both directions, and what is queued on the state of the connection.
`StreamInv` strengthens them in two parts. `BaseInv` (types, the contents of the reply
queue against the byte counts, the windows, the reported credit) holds after each single
method. `LinkInv` ties the queues to the connection; a method that ends a connection gives
it up and retirement restores it, which is why the switch must retire an endpoint in the
same step, as `retire_endpoint` does. Each handler of a packet has a lemma, `StreamRxKeeps`
puts them together, and the part about the switch lifts them to the table: `SwitchInv` adds
that rows have distinct ports, that numbers are below the counter and differ from those of
ended connections, and that a row without a connection is retiring or fixed.

**FrontendProofs**, about `VsockFrontend`. `NoTxKickIsLost` (`NoLostTxKick`), for any ring,
batch limit and interleaving with the driver. What a sleeping worker may rely on was decided at its last
look at the ring, so `TxSleep` speaks of every state from that look to the next wake-up:
notifications are on, and what is unprocessed was published by a driver that has not yet
read the flag or is about to notify; a ring of the doorbell in between cancels the claim.
`TxDevice` is what a reset, a close and a restart rest on: a ring that is not ready was not
read from, and no batch is held at an await, where those three happen. An index the worker
does not believe (`resync_pending_queue_entries`) is covered: everything up to it is
skipped.

`RepliesAreNotStranded` (`RingsAreServed`), under the same quantifiers. `ServeInv` adds four
parts to the invariant above. `RegsInv`: a started device has both rings at full size, any
other has none and has taken nothing. `RingInv`: the distances between the driver's index, the
worker's and the last completion seen add up, so no index passes another although all wrap,
and what a pass has captured is still there to be taken. `RxServed` says who knows of the
receive buffers while a reply waits: within a pass the pass itself (`RxPass`: it captured them
all, or it saw notifications off because nothing waited), outside a pass the queue's pending
flag, unless the driver has yet to read the flag or to notify. `RxProgress` says that a receive
queue left pending keeps the worker from going to sleep: the pass made progress, or the
doorbell rings. The third part alone is not enough, since a flag wakes nobody.

**MachineProofs**, first about `VcpuGroup`. `VcpuGroupTypeOK`,
`VcpuKicksLiveThreads`, `VcpuParkedBeforeBoot`, `VcpuJoinedMeansEnded`, for any number of vCPUs. The inductive invariant adds how far the
owner has come in spawning (`CreationInv`: exactly the threads before that point exist),
what a join has already collected (`JoinInv`) and where a thread must be while it is
published (`PublicationInv`).

Then about the reaper of `GuestInit`: `OwnersGetTheirStatus`
(`ChildrenAreTheirOwners`), for any number of children, orphans and pids. `ReapInv` says that
processes alive have distinct pids, that an entry of `OWNED` belongs to a child whose owner
waits and that nobody else alive has its pid, which is what `register_owned` and the lock
around the reaper are for, and that a slot holds the status of its own child only. The
theorem shares the model's assumption that an orphan does not get the pid of a child that was
collected while its owner has still to take the status (section 7).

**MmioDeviceProofs**. `MmioTypeOK`, `MmioReadyRingsInRam`, `MmioLineFollowsDevice`,
`MmioFailedDeviceIsQuiet`, for any number of queues and any RAM. The proof is made once for
the operators: every register write takes a transport with `MInv` (types, valid queue
sizes, rings of ready queues in RAM, a line that is owed, a failed device that is quiet) to
another one, whatever the guest writes. `MmioDevice` needs in addition only that between
two critical sections the published line is the device's.

**BoxProofs**, about `BoxCommands`. `LockTypeCorrect` and `BoxHasOneVm` (`OneVmPerBox`), for
any number of commands and launches. That one VM is up says nothing of who may come next, so
the invariant follows the lock files. `FilesInv`: a command that holds a lock is between
`lock_run` and its end, and no process has a file that was not made. `OwnerInv`: a lock file
belongs to one command that has not yet handed it on, or to the processes of one launch.
`NamedInv`: the VM that is up has the file that `run.pid` names. Most steps only let
processes end and let locks go (`Quiet`), which keeps all three; the five that do more,
opening, locking, spawning, the VM's look at its inherited lock and the removal of the file,
have a lemma each.

**DeviceProofs**, about the block device of `HostDevices`. `BlockTypeCorrect`,
`CompletionsAreCurrent` (`NoStaleCompletion`) and `ClosedDiskIsDurable` (`CloseIsDurable`),
for any requests, disk size and ring. A completion is only as current as what the worker
remembers across its await, so `BlockInv` follows it: `AvailInv` (avail is the number of
completions of the present ring), `AtDiskInv` (the epoch a worker took a request in is never
ahead of the device's, and while it is the device's the request is the ring's next one),
`JobsInv` (the worker waits for exactly the one job it queued) and `CloseInv` (the sync of
`close` is the last job the disk gets).

The same module, about `HostShares`: `OpenFilesStayInBudget` (`DescriptorsArePaid`), for any
number of descriptors, calls and permits. `DescInv` says where each permit is (free, beside an
open descriptor, with a call in flight, with a descriptor being closed) and that these
counts add up to the budget in every state; each step moves one permit between two of them,
except the end of a store, which moves all.

**NetworkProofs**, about `NetFlows`. `NetTypeCorrect` and `GrantsAreOwnedOnce`
(`GrantsHaveOneOwner`), for any number of streams and listeners. The property counts owners;
`NetInv` says instead that ownership is a bijection between owned grants and the streams
that hold one (`OwnerInv`), and at which steps of an operation a stream may own a grant or a
permit (`StreamInv`), so that a stream that ends, fails or is abandoned gives both back and
no other stream is touched. `AnswersMatchQuestions` (`AnswersAreOwn`), for any number of
queries: `DnsInv` follows the control stream in both directions. Queries arrive whole
(`UpInv`) because only the holder of the write lock writes, and one that is abandoned inside
a frame cancels the connection before it lets the lock go. Answers arrive whole (`DownInv`)
as long as the guest reads them, and the ready message comes before any of them
(`HandshakeInv`). Numbers stand for questions: a query's number is not given out twice, which
is where the model assumes that ids do not wrap.

The assumptions are those of the modules: sizes are natural numbers, a window is below half
the counters' modulus, port sets are disjoint, children and orphans are distinct, sets of
streams, calls and descriptors are finite. TLC evaluates each of them in the runs.

Only model-checked: every property without a theorem above. All liveness properties are,
since liveness under fairness is out of the prover's reach; so are the properties of
`WireFormats`, `FileSync` and `Sandbox`, which say what recursive definitions compute. The
properties that `MC` modules assemble from several machines (`BoxEndsWell`, `MachineHolds`,
`DevicesHold`, `NetworkHolds`, `GuestHolds` and the like) are stated for the scenarios of a
run and are checked there; what is proved is proved of the machine's own specification, with
no scenario and no bound. `ImportIsAtomic`, `StampMeansBaked`, `BridgeHolds` and
`WorkerLeavesNothing` have no proof yet: their invariants follow the control of
several parties at once, and TLC's answer for the small instances is all that is claimed.

## 6. Where code and comment disagree

`vcpus.rs:33` says of a stop request: "Sets the request before kicking, so every kicked
vCPU observes it." The run `vcpu_kick` shows a vCPU that does not: it has read the flag as
clear, is kicked before it calls `KVM_RUN`, and enters the guest, since nothing carries the
signal over to the next `KVM_RUN`. A join repeats its request every 10 ms, and `JoinEnds`
holds. The request a vCPU makes when the guest shuts the machine down is made once; the
other vCPU then stays in the guest until something outside stops the machine.

## 7. Assumptions, and what is not claimed

Each of these was met while modelling and is left open on purpose.

* Identities. The host does not use a file's identity again while a node remembers it; pids
  and 32-bit DNS ids do not wrap around within the life of one use; a project's digest has
  no collisions.
* Timeouts that the models leave out: the 10 s limit on waiting for the access-list lock on
  Windows. Cancellation in the middle of a host's open call.
* Back ends: Hypervisor.framework remembers an exit requested before a run; the Windows
  emulator makes no callback before it declines an instruction; a run is cancelled by kicks
  only. No claim is made about a zero page and a stack that overlap by 16 bytes in a plan
  the boot component itself never makes.
* Network: an upload that was aborted looks to the peer like one that ended; a broker's
  `locate` is not pinned to the grant; replies to a published UDP port take turns only once
  the host stops sending.
* Files: a lookup count leaks when CREATE fails after the file was made; a storage artifact
  cut exactly between two entries is accepted with fewer volumes; a packed image has no
  checksum, so a damaged chunk that still decodes is read as it is; the times of directories
  are put back after name probes only where setting them succeeds; a destination that
  appears after the scan is not seen by the plan.
* Log: a follower may miss or repeat bytes while a trim overlaps its pass over the file, and
  a trim that is torn by a crash leaves what it had written.
* Commands: an `rm` that waited for a lock file which another `rm --purge` has taken away
  meanwhile gets the lock of a file without a name; it goes on to remove the box though a
  VM may have been started under a new lock file since. A `rm` that sweeps a project's
  directory may overlap a setup of another box of the same project; directories named by
  older versions with capital letters are not renamed; a resize that is killed leaves the
  file system as it was before.
* Guest agent: an error while writing input may be reported in place of the exit that came
  with it; a daemon's process group is killed by its number.
* Text and data: the wording of errors, formats of log lines, attributes of files beyond the
  ones compared.

## 8. What is not modelled

Left out on purpose: encodings (a field the code tests is a field of the model, its bits are
not), compiling and linking of WebAssembly stores, the contents of boot tables, register
values of a vCPU's first instruction, bubblewrap and Seatbelt rules, the command line and
its output, the thin platform layer, packaging and the kernel overlay. Each is a function of
its input, or configuration that nothing changes afterwards. Within the modelled parts,
message texts and error wording are dropped; which error is *reported* is kept.
