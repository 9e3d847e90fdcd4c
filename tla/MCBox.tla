------------------------------- MODULE MCBox --------------------------------
(***************************************************************************)
(* The life of a box, the interrupt controller of the x86 machine in       *)
(* Ioapic mode, and the register file of a device with one queue, whose    *)
(* rings of 1 or 2 entries fit into a RAM of 33 units at some of the       *)
(* addresses the guest can compose, for TLC: the safety of each, up to the *)
(* order of the vCPUs. They share no state; a behaviour is one of them,    *)
(* named by scenario: a box of one vCPU with two devices, or of two vCPUs  *)
(* with the agent alone, is two of them.                                   *)
(***************************************************************************)
EXTENDS BoxLifecycle, InterruptController, MmioDevice, TLC

CONSTANT FirstVcpu  \* of the vCPUs, the one of a box that has one

VARIABLE scenario   \* the machine that runs (rigid)

allVars == <<scenario, boxVars, apicVars, linesVars, vars>>

-----------------------------------------------------------------------------
\* Grants are named after their kind.
MCKind == [d \in Device |-> d]

\* Two devices that share a pin, and of the redirection entries a masked one, both
\* triggers of a valid vector and one with a vector that is reserved.
MCRoute == [s \in Slot |-> 5]
Redirect(masked, level, vector) == [masked |-> masked, level_triggered |-> level, vector |-> vector]
MCEntries == {Redirect(TRUE, TRUE, 32), Redirect(FALSE, TRUE, 32), Redirect(FALSE, FALSE, 32), Redirect(FALSE, TRUE, 31)}

Devices == INSTANCE BoxLifecycle WITH BoxVcpu <- {FirstVcpu}
Vcpus == INSTANCE BoxLifecycle WITH Device <- {"agent"}, Kind <- [d \in {"agent"} |-> d]

-----------------------------------------------------------------------------
\* A machine that does not run has no state to speak of.
BoxOff == phase = 0 /\ notifier = 0 /\ boxVcpu = 0 /\ stop = 0 /\ reaper = 0 /\ teardown = 0
          /\ wasm = 0 /\ boxBridge = 0 /\ shutdown = 0 /\ child = 0 /\ group = 0
          /\ observer = 0
IoapicOff == apicDevice = 0 /\ apicRefused = 0 /\ apicQueue = 0 /\ apic = 0 /\ apicOpen = 0
             /\ apicWorker = 0 /\ apicVcpu = 0 /\ requested = 0 /\ serving = 0
LinesOff == lineDevice = 0 /\ lineRefused = 0 /\ lineQueue = 0 /\ lineController = 0
            /\ lineChange = 0 /\ lineWorker = 0 /\ gsi = 0 /\ linesClose = 0

MCInit ==
  /\ scenario \in {"devices", "vcpus", "ioapic", "device"}
  /\ CASE scenario = "devices" -> Devices!BoxInit
       [] scenario = "vcpus" -> Vcpus!BoxInit
       [] OTHER -> BoxOff
  /\ IF scenario = "ioapic" THEN ApicInit ELSE IoapicOff
  /\ LinesOff
  /\ Init

MCNext ==
  \/ /\ \/ scenario = "devices" /\ Devices!BoxNext
        \/ scenario = "vcpus" /\ Vcpus!BoxNext
     /\ UNCHANGED <<scenario, apicVars, linesVars, vars>>
  \/ /\ scenario = "ioapic" /\ ApicNext
     /\ UNCHANGED <<scenario, boxVars, linesVars, vars>>
  \/ /\ scenario = "device" /\ Next
     /\ UNCHANGED <<scenario, boxVars, apicVars, linesVars>>

MCSpec == MCInit /\ [][MCNext]_allVars

-----------------------------------------------------------------------------
\* The vCPUs are alike.
VcpuSymmetry == Permutations(BoxVcpu)

\* However a box ends, its teardown is in order and never ahead of the vCPUs, and a
\* success is one of everything that ran.
BoxEndsWell ==
  /\ scenario = "devices" => Devices!DevicesOutliveVcpus /\ Devices!TeardownInOrder /\ Devices!SuccessIsClean
  /\ scenario = "vcpus" => Vcpus!DevicesOutliveVcpus /\ Vcpus!TeardownInOrder /\ Vcpus!SuccessIsClean

\* The IOAPIC forgets no level-triggered interrupt, and every vCPU that waits for it has
\* its command in the queue.
InterruptsAreKept == scenario = "ioapic" => WaitingIsQueued /\ LevelInterruptIsNotLost
=============================================================================
