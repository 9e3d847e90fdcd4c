----------------------------- MODULE VcpuGroup -----------------------------
(***************************************************************************)
(* The vCPU threads of one virtual machine on KVM and the owner that       *)
(* spawns, starts, stops and joins them (crates/terra-hypervisor/src/      *)
(* vcpus.rs, kvm/kick.rs, kvm/x86_64.rs and kvm/x86_64/machine.rs).        *)
(*                                                                         *)
(* A stop request is a flag and one kick for each vCPU.  A kick is a       *)
(* signal with an empty handler: it makes KVM_RUN return in a thread that  *)
(* is inside it and does nothing to one that is elsewhere, in particular   *)
(* to a thread that has looked at the flag and not yet entered KVM_RUN.    *)
(*                                                                         *)
(* The guest, the kernel and the exit handler are environment: a vCPU may  *)
(* stay in the guest for ever, and an exit ends in any of the ways the     *)
(* code distinguishes.                                                     *)
(***************************************************************************)
EXTENDS Integers

CONSTANTS VcpuCount,      \* vCPUs of the machine
          MayTimeOut      \* whether STOP_DEADLINE is ever reached

ASSUME GroupAssumption == VcpuCount \in Nat \ {0} /\ MayTimeOut \in BOOLEAN

Vcpu == 0 .. VcpuCount - 1
BSP == 0
Owner == VcpuCount          \* the owner among those who request a stop
Requester == 0 .. VcpuCount

VARIABLES
  hard_stop,     \* whether the group was given a hard_stop; never changes
  owner,         \* where the owner of the group is
  spawned,       \* threads.len()
  starts,        \* start channel of each vCPU: "none", "open", "sent", "dropped"
  is_requested,  \* Stop::is_requested
  kicks,         \* next vCPU each requester will kick; VcpuCount when it is done
  thread,        \* where each vCPU thread is
  published      \* whether each thread's pthread is a kick target

vars == <<hard_stop, owner, spawned, starts, is_requested, kicks, thread, published>>

Init ==
  /\ hard_stop \in BOOLEAN
  /\ owner = "creating" /\ spawned = 0
  /\ starts = [v \in Vcpu |-> "none"]
  /\ is_requested = FALSE
  /\ kicks = [r \in Requester |-> VcpuCount]
  /\ thread = [v \in Vcpu |-> "none"]
  /\ published = [v \in Vcpu |-> FALSE]

MoveTo(v, at) == thread' = [thread EXCEPT ![v] = at]
Over(v) == thread[v] \in {"none", "ended"}
AllOver == \A v \in Vcpu : Over(v)
Joining == owner \in {"joining", "drop_joining"}

-----------------------------------------------------------------------------
(* Stop::request: the flag, then a kick for each vCPU in turn.             *)

BeginRequest(r) ==
  /\ is_requested' = TRUE
  /\ kicks' = [kicks EXCEPT ![r] = 0]

Kicking(r) == kicks[r] < VcpuCount

(* PthreadPublication::kick, under the lock that publish and clear take.   *)
Kick(r) ==
  /\ Kicking(r)
  /\ kicks' = [kicks EXCEPT ![r] = @ + 1]
  /\ LET v == kicks[r]
     IN  IF published[v] /\ thread[v] = "guest" THEN MoveTo(v, "interrupted")
         ELSE UNCHANGED thread

KickNext(r) == Kick(r) /\ UNCHANGED <<hard_stop, owner, spawned, starts, is_requested, published>>

-----------------------------------------------------------------------------
(* The owner.                                                              *)

(* Vcpus::spawn begins a thread and waits until it reports ready.          *)
Spawn ==
  /\ owner = "creating" /\ spawned < VcpuCount
  /\ owner' = "awaiting_ready"
  /\ spawned' = spawned + 1
  /\ starts' = [starts EXCEPT ![spawned] = "open"]
  /\ MoveTo(spawned, "new")
  /\ UNCHANGED <<hard_stop, is_requested, kicks, published>>

SpawnRefused ==
  /\ owner = "creating"
  /\ owner' = "dropping"
  /\ UNCHANGED <<hard_stop, spawned, starts, is_requested, kicks, thread, published>>

SpawnWithoutWaiting ==
  /\ owner = "awaiting_ready"
  /\ owner' = IF spawned = VcpuCount THEN "prepared" ELSE "creating"
  /\ UNCHANGED <<hard_stop, spawned, starts, is_requested, kicks, thread, published>>

SpawnReady ==
  /\ owner = "awaiting_ready" /\ thread[spawned - 1] = "ready"
  /\ owner' = IF spawned = VcpuCount THEN "prepared" ELSE "creating"
  /\ MoveTo(spawned - 1, "waiting")
  /\ UNCHANGED <<hard_stop, spawned, starts, is_requested, kicks, published>>

(* The thread ended instead: it is joined and forgotten, and creation      *)
(* fails, which drops the group.                                           *)
SpawnFailed ==
  /\ owner = "awaiting_ready" /\ thread[spawned - 1] = "ended"
  /\ owner' = "dropping"
  /\ spawned' = spawned - 1
  /\ starts' = [starts EXCEPT ![spawned - 1] = "dropped"]
  /\ UNCHANGED <<hard_stop, is_requested, kicks, thread, published>>

(* ... or STOP_DEADLINE passed: the thread is kept for the join.           *)
SpawnTimedOut ==
  /\ MayTimeOut /\ owner = "awaiting_ready"
  /\ owner' = "dropping"
  /\ UNCHANGED <<hard_stop, spawned, starts, is_requested, kicks, thread, published>>

(* Vcpus::start hands the vCPUs their handlers one after the other.        *)
Start(v) ==
  /\ owner \in {"prepared", "starting"} /\ starts[v] = "open"
  /\ \A u \in 0 .. v - 1 : starts[u] = "sent"
  /\ starts' = [starts EXCEPT ![v] = "sent"]
  /\ owner' = IF v = VcpuCount - 1 THEN "running" ELSE "starting"
  /\ UNCHANGED <<hard_stop, spawned, is_requested, kicks, thread, published>>

(* Vcpus::request_stop: unsent starts are dropped, which wakes the threads *)
(* that wait for them.                                                     *)
DropStarts ==
  starts' = [v \in Vcpu |-> IF starts[v] = "open" THEN "dropped" ELSE starts[v]]

RequestStop ==
  /\ owner = "running"
  /\ owner' = "stopping"
  /\ DropStarts
  /\ BeginRequest(Owner)
  /\ UNCHANGED <<hard_stop, spawned, thread, published>>

(* The group goes out of scope.                                            *)
Drop ==
  /\ owner \in {"prepared", "running", "stopping", "timed_out", "joined"}
  /\ ~Kicking(Owner)
  /\ owner' = "dropping"
  /\ UNCHANGED <<hard_stop, spawned, starts, is_requested, kicks, thread, published>>

DropEmpty ==
  /\ owner = "dropping" /\ spawned = 0
  /\ owner' = "gone"
  /\ UNCHANGED <<hard_stop, spawned, starts, is_requested, kicks, thread, published>>

(* Vcpus::join, called or from drop.                                       *)
Join ==
  /\ \/ owner \in {"running", "stopping", "timed_out"} /\ owner' = "joining"
     \/ owner = "dropping" /\ spawned > 0 /\ owner' = "drop_joining"
  /\ ~Kicking(Owner)
  /\ DropStarts
  /\ BeginRequest(Owner)
  /\ UNCHANGED <<hard_stop, spawned, thread, published>>

JoinUnpublished ==
  /\ Joining /\ ~Kicking(Owner)
  /\ \A v \in Vcpu : ~published[v]
  /\ owner' = IF owner = "joining" THEN "joined" ELSE "gone"
  /\ spawned' = 0
  /\ UNCHANGED <<hard_stop, starts, is_requested, kicks, thread, published>>

(* Every thread has dropped its sender of finished: it disconnects.        *)
JoinFinished ==
  /\ Joining /\ ~Kicking(Owner) /\ AllOver
  /\ owner' = IF owner = "joining" THEN "joined" ELSE "gone"
  /\ spawned' = 0
  /\ UNCHANGED <<hard_stop, starts, is_requested, kicks, thread, published>>

(* KICK_INTERVAL passed: request the stop again.                           *)
JoinKicksAgain ==
  /\ Joining /\ ~Kicking(Owner) /\ ~AllOver
  /\ BeginRequest(Owner)
  /\ UNCHANGED <<hard_stop, owner, spawned, starts, thread, published>>

(* STOP_DEADLINE passed: hard_stop ends the process, or the threads are    *)
(* kept for a later join; a drop leaves them behind.                       *)
JoinTimedOut ==
  /\ MayTimeOut /\ Joining /\ ~Kicking(Owner) /\ ~AllOver
  /\ IF hard_stop
     THEN /\ owner' = "aborted"
          /\ thread' = [v \in Vcpu |-> "ended"]
          /\ published' = [v \in Vcpu |-> FALSE]
          /\ kicks' = [r \in Requester |-> VcpuCount]
     ELSE /\ owner' = IF owner = "joining" THEN "timed_out" ELSE "abandoned"
          /\ UNCHANGED <<kicks, thread, published>>
  /\ UNCHANGED <<hard_stop, spawned, starts, is_requested>>

-----------------------------------------------------------------------------
(* A vCPU thread: run_vcpu_thread around run_kernel_vcpu.                  *)

Publish(v) ==
  /\ thread[v] = "new"
  /\ MoveTo(v, "setup")
  /\ published' = [published EXCEPT ![v] = TRUE]
  /\ UNCHANGED <<hard_stop, owner, spawned, starts, is_requested, kicks>>

PublishFailed(v) ==
  /\ thread[v] = "new"
  /\ MoveTo(v, "unpublished")
  /\ UNCHANGED <<hard_stop, owner, spawned, starts, is_requested, kicks, published>>

(* The vCPU is created and, unless it boots the machine, parked.           *)
SetUp(v) ==
  /\ thread[v] = "setup"
  /\ thread' \in {[thread EXCEPT ![v] = at] : at \in {"ready", "leaving"}}
  /\ UNCHANGED <<hard_stop, owner, spawned, starts, is_requested, kicks, published>>

(* Nobody takes the report of a thread whose owner gave up waiting.        *)
ReportIgnored(v) ==
  /\ thread[v] = "ready" /\ owner # "awaiting_ready"
  /\ MoveTo(v, "waiting")
  /\ UNCHANGED <<hard_stop, owner, spawned, starts, is_requested, kicks, published>>

(* Startup::wait returns: a handler, or None when the sender is gone.  The *)
(* boot processor may then fail to set its registers.                      *)
ReceiveStart(v) ==
  /\ thread[v] = "waiting" /\ starts[v] \in {"sent", "dropped"}
  /\ \/ starts[v] = "sent" /\ MoveTo(v, "check")
     \/ starts[v] = "sent" /\ v = BSP /\ MoveTo(v, "leaving")
     \/ starts[v] = "dropped" /\ MoveTo(v, "leaving")
  /\ UNCHANGED <<hard_stop, owner, spawned, starts, is_requested, kicks, published>>

(* The top of the loop of run_kernel_vcpu, and then KVM_RUN.               *)
Check(v) ==
  /\ thread[v] = "check"
  /\ MoveTo(v, IF is_requested THEN "leaving" ELSE "entering")
  /\ UNCHANGED <<hard_stop, owner, spawned, starts, is_requested, kicks, published>>

Enter(v) ==
  /\ thread[v] = "entering"
  /\ MoveTo(v, "guest")
  /\ UNCHANGED <<hard_stop, owner, spawned, starts, is_requested, kicks, published>>

(* The guest leaves KVM_RUN by itself: an exit for the handler, an exit    *)
(* for interruption, a shutdown or an error.                               *)
GuestExit(v) ==
  /\ thread[v] = "guest"
  /\ thread' \in {[thread EXCEPT ![v] = at] :
                    at \in {"exchange", "interrupted", "shutdown", "leaving"}}
  /\ UNCHANGED <<hard_stop, owner, spawned, starts, is_requested, kicks, published>>

(* KVM_RUN returned EINTR or an interruption exit.                         *)
Interrupted(v) ==
  /\ thread[v] = "interrupted"
  /\ IF is_requested THEN MoveTo(v, "leaving")
     ELSE thread' \in {[thread EXCEPT ![v] = at] : at \in {"check", "exchange"}}
  /\ UNCHANGED <<hard_stop, owner, spawned, starts, is_requested, kicks, published>>

(* The handler answers within EXIT_TIMEOUT or fails.                       *)
Exchange(v) ==
  /\ thread[v] = "exchange"
  /\ thread' \in {[thread EXCEPT ![v] = at] : at \in {"check", "leaving"}}
  /\ UNCHANGED <<hard_stop, owner, spawned, starts, is_requested, kicks, published>>

(* The guest shut the machine down: this vCPU requests the stop.           *)
ShutdownRequest(v) ==
  /\ thread[v] = "shutdown"
  /\ MoveTo(v, "shutting_down")
  /\ BeginRequest(v)
  /\ UNCHANGED <<hard_stop, owner, spawned, starts, published>>

ShutdownDone(v) ==
  /\ thread[v] = "shutting_down" /\ ~Kicking(v)
  /\ MoveTo(v, "leaving")
  /\ UNCHANGED <<hard_stop, owner, spawned, starts, is_requested, kicks, published>>

(* The end of the thread: the guard clears the publication, then the       *)
(* sender of finished is dropped.                                          *)
Unpublish(v) ==
  /\ thread[v] = "leaving"
  /\ MoveTo(v, "unpublished")
  /\ published' = [published EXCEPT ![v] = FALSE]
  /\ UNCHANGED <<hard_stop, owner, spawned, starts, is_requested, kicks>>

EndAtOnce(v) ==
  /\ thread[v] \in {"leaving", "unpublished"}
  /\ MoveTo(v, "ended")
  /\ UNCHANGED <<hard_stop, owner, spawned, starts, is_requested, kicks, published>>

End(v) ==
  /\ thread[v] = "unpublished"
  /\ MoveTo(v, "ended")
  /\ UNCHANGED <<hard_stop, owner, spawned, starts, is_requested, kicks, published>>

-----------------------------------------------------------------------------
OwnerStep ==
  \/ Spawn \/ SpawnReady \/ SpawnFailed
  \/ DropEmpty \/ JoinFinished \/ JoinKicksAgain
  \/ KickNext(Owner)
  \/ owner = "starting" /\ \E v \in Vcpu : Start(v)
  \/ owner \in {"dropping", "stopping"} /\ Join

OwnerChoice ==
  \/ SpawnRefused \/ SpawnTimedOut
  \/ owner = "prepared" /\ \E v \in Vcpu : Start(v)
  \/ RequestStop \/ Drop \/ JoinTimedOut
  \/ owner \in {"running", "timed_out"} /\ Join

ThreadStep(v) ==
  \/ Publish(v) \/ PublishFailed(v) \/ SetUp(v) \/ ReportIgnored(v)
  \/ ReceiveStart(v) \/ Check(v) \/ Enter(v) \/ Interrupted(v) \/ Exchange(v)
  \/ ShutdownRequest(v) \/ KickNext(v) \/ ShutdownDone(v)
  \/ Unpublish(v) \/ End(v)

Finished ==
  /\ owner \in {"gone", "aborted", "abandoned"} /\ AllOver
  /\ UNCHANGED vars

Next ==
  \/ OwnerStep
  \/ OwnerChoice
  \/ \E v \in Vcpu : ThreadStep(v) \/ GuestExit(v)
  \/ Finished

(* The owner and the threads go on when they can.  The guest need not      *)
(* leave KVM_RUN by itself, and nobody need ask for a start or a stop.     *)
Fairness == WF_vars(OwnerStep) /\ \A v \in Vcpu : WF_vars(ThreadStep(v))

Spec == Init /\ [][Next]_vars

FairSpec == Spec /\ Fairness

-----------------------------------------------------------------------------
OwnerState == {"creating", "awaiting_ready", "prepared", "starting", "running",
               "stopping", "joining", "timed_out", "joined", "dropping",
               "drop_joining", "gone", "abandoned", "aborted"}
ThreadState == {"none", "new", "setup", "ready", "waiting", "check", "entering",
                "guest", "interrupted", "exchange", "shutdown", "shutting_down",
                "leaving", "unpublished", "ended"}

TypeOK ==
  /\ hard_stop \in BOOLEAN
  /\ owner \in OwnerState
  /\ spawned \in 0 .. VcpuCount
  /\ starts \in [Vcpu -> {"none", "open", "sent", "dropped"}]
  /\ is_requested \in BOOLEAN
  /\ kicks \in [Requester -> 0 .. VcpuCount]
  /\ thread \in [Vcpu -> ThreadState]
  /\ published \in [Vcpu -> BOOLEAN]

(* What the safety comment of kick says: a published pthread is that of a  *)
(* thread that has not ended, so no signal goes to a reused pthread id.    *)
KickedThreadsAreAlive ==
  \A v \in Vcpu : published[v] => thread[v] \notin {"none", "unpublished", "ended"}

(* run_vcpu_thread parks each AP before startup completes: once any vCPU   *)
(* is let go, every vCPU has been set up, so the BSP's SIPIs find parked   *)
(* APs.                                                                    *)
ParkedBeforeBoot ==
  (\E v \in Vcpu : starts[v] = "sent")
    => \A v \in Vcpu : thread[v] \notin {"none", "new", "setup"}

(* Vcpus::join returns results, and drop returns with the threads not left *)
(* behind, only when no vCPU thread is left to touch the machine.          *)
JoinedMeansEnded == owner \in {"joined", "gone", "aborted"} => AllOver

(* Vcpus::join kicks until every vCPU has stopped: a join, also the one of *)
(* drop, ends with every thread over, although a guest may never leave     *)
(* KVM_RUN by itself and any one kick may come too early; or else its      *)
(* deadline, on which nothing here relies, was reached first.              *)
JoinEnds ==
  (Joining \/ owner = "dropping")
    ~> (~Joining /\ (AllOver \/ owner \in {"timed_out", "abandoned", "aborted"}))

(* "Sets the request before kicking, so every kicked vCPU observes it":    *)
(* after Stop::request every vCPU thread leaves.                           *)
EveryKickedVcpuObservesStop == is_requested ~> AllOver
=============================================================================
