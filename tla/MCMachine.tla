----------------------------- MODULE MCMachine ------------------------------
(***************************************************************************)
(* What a running machine is made of, for TLC: the interrupt lines of the  *)
(* KVM mode, the group of vCPU threads and the end of a box with one vCPU  *)
(* under a deadline. They share no state; a behaviour is one machine's,    *)
(* named by scenario.                                                      *)
(***************************************************************************)
EXTENDS InterruptController, VcpuGroup, BoxLifecycle

VARIABLE scenario   \* the machine that runs (rigid)

allVars == <<scenario, linesVars, apicVars, vars, boxVars>>

-----------------------------------------------------------------------------
\* Three devices, two of which share a GSI.
MCSlot == {"fs", "vsock", "block"}
MCPin == {5, 6}
MCRoute == [s \in MCSlot |-> IF s = "block" THEN 6 ELSE 5]

\* Grants are named after their kind.
MCKind == [d \in Device |-> d]

-----------------------------------------------------------------------------
\* A machine that does not run has no state to speak of.
LinesOff == lineDevice = 0 /\ lineRefused = 0 /\ lineQueue = 0 /\ lineController = 0
            /\ lineChange = 0 /\ lineWorker = 0 /\ gsi = 0 /\ linesClose = 0
IoapicOff == apicDevice = 0 /\ apicRefused = 0 /\ apicQueue = 0 /\ apic = 0 /\ apicOpen = 0
             /\ apicWorker = 0 /\ apicVcpu = 0 /\ requested = 0 /\ serving = 0
BoxOff == phase = 0 /\ notifier = 0 /\ boxVcpu = 0 /\ stop = 0 /\ reaper = 0 /\ teardown = 0
          /\ wasm = 0 /\ boxBridge = 0 /\ shutdown = 0 /\ child = 0 /\ group = 0
          /\ observer = 0

MCInit ==
  /\ scenario \in {"lines", "group", "box"}
  /\ IF scenario = "lines" THEN LinesInit ELSE LinesOff
  /\ IoapicOff
  /\ Init /\ (scenario = "group" \/ (hard_stop = FALSE))
  /\ IF scenario = "box" THEN BoxInit ELSE BoxOff

MCNext ==
  \/ /\ scenario = "lines" /\ LinesNext
     /\ UNCHANGED <<scenario, apicVars, vars, boxVars>>
  \/ /\ scenario = "group" /\ Next
     /\ UNCHANGED <<scenario, linesVars, apicVars, boxVars>>
  \/ /\ scenario = "box" /\ BoxNext
     /\ UNCHANGED <<scenario, linesVars, apicVars, vars>>

\* The interrupt worker is polled while it can go on; close waits for it.
LinesFair ==
  /\ WF_linesVars(scenario = "lines" /\ (ReceiveLine \/ InjectLine \/ LineWorkerEnds))
  /\ WF_linesVars(scenario = "lines" /\ CloseLinesDrained)

\* Threads are scheduled, and the owner's join goes on.
GroupFair ==
  /\ WF_vars(scenario = "group" /\ OwnerStep)
  /\ \A v \in Vcpu : WF_vars(scenario = "group" /\ ThreadStep(v))

\* Threads and tasks that can go on do, and the deadline passes.  Nothing makes the guest,
\* the agent or a failure happen, nor need the teardown or the reaper get anywhere: the
\* deadline bounds them.
BoxFair ==
  /\ WF_boxVars(scenario = "box" /\ DeadlinePasses) /\ WF_boxVars(scenario = "box" /\ ObserverStep)
  /\ WF_boxVars(scenario = "box" /\ WasmStep) /\ WF_boxVars(scenario = "box" /\ GroupStep)

MCSpec == MCInit /\ [][MCNext]_allVars /\ LinesFair /\ GroupFair /\ BoxFair

-----------------------------------------------------------------------------
\* Interrupt lines follow their devices and are low once closed, and an exit that is
\* reported was the first thing heard.
MachineHolds ==
  /\ scenario = "lines" => LinesFollowDevices /\ ClosedLinesAreLow
  /\ scenario = "box" => ReportedExitCameFirst

\* No interrupt stays undelivered for ever; a shutdown ends by its deadline, though a
\* teardown, a join or a store may never come to an end; and a join of the vCPU threads
\* ends.
MachineGoesOn ==
  /\ \A s \in Slot : []<>(scenario = "lines" => AssertionArrived(s))
  /\ []<>(scenario = "box" => ShutdownEnds)
  /\ JoinEnds
=============================================================================
