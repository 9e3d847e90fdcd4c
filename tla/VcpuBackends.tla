--------------------------- MODULE VcpuBackends ---------------------------
EXTENDS Integers, Sequences, FiniteSets

(***************************************************************************)
(* The vCPU threads of the macOS back end (terra-hypervisor                *)
(* hvf/aarch64.rs with arm.rs psci): every thread creates its own vCPU,    *)
(* registers a handle others exit it through, and then runs the guest from *)
(* each PSCI CPU_ON to the CPU_OFF, the power states kept beside a command *)
(* channel per CPU.  A stop is a flag, a command to every CPU and an exit  *)
(* of every registered vCPU, requested by the owner or by any CPU.         *)
(***************************************************************************)

CONSTANTS NumCpus,          \* vCPUs, numbered from 0
          Entries,          \* entry points a CPU_ON may name
          BadEntry,         \* one that is not in guest memory
          MaxCpuOns         \* CPU_ON calls that start a CPU

VARIABLES stopFlag,         \* Stop.is_requested
          thread,           \* per CPU: step, entry it runs, call in hand
          kicking,          \* per actor: where its Stop::request stands
          handle,           \* the registered handle of each CPU
          handleLock,
          powered, powerLock,
          hvfCommands,         \* the command channel of each CPU
          vcpuAlive,        \* the vCPU exists in Hypervisor.framework
          exitAsked,        \* its next or current run returns canceled
          hvOwner,          \* the thread that owns the group
          startSent,        \* the start message or its end, per CPU
          granted, cpuOns   \* the entry of the last successful CPU_ON

hvfVars == <<stopFlag, thread, kicking, handle, handleLock, powered, powerLock, hvfCommands,
             vcpuAlive, exitAsked, hvOwner, startSent, granted, cpuOns>>

Cpus == 0..(NumCpus - 1)
HvActors == Cpus \cup {NumCpus}
Group == NumCpus                     \* the owner as an actor
HvfBoot == "boot"
HvfNoCall == [kind |-> "none", target |-> 0, entry |-> HvfBoot]

HvfInit ==
  /\ stopFlag = FALSE
  /\ thread = [c \in Cpus |-> [at |-> "none", entry |-> HvfBoot, call |-> HvfNoCall]]
  /\ kicking = [a \in HvActors |-> 0]
  /\ handle = [c \in Cpus |-> FALSE] /\ handleLock = NumCpus + 1
  /\ powered = [c \in Cpus |-> c = 0] /\ powerLock = NumCpus + 1
  /\ hvfCommands = [c \in Cpus |-> <<>>]
  /\ vcpuAlive = [c \in Cpus |-> FALSE] /\ exitAsked = [c \in Cpus |-> FALSE]
  /\ hvOwner = [at |-> "spawn", cpu |-> 0]
  /\ startSent = [c \in Cpus |-> "no"]
  /\ granted = [c \in Cpus |-> HvfBoot] /\ cpuOns = 0

Free(lock) == lock = NumCpus + 1
At(c, step) == thread[c].at = step
Go(c, step) == thread' = [thread EXCEPT ![c].at = step]
Kicks == <<kicking, hvfCommands, exitAsked>>
Power == <<powered, powerLock, granted, cpuOns>>
Handles == <<handle, handleLock, vcpuAlive>>
OwnerSide == <<hvOwner, startSent>>

-----------------------------------------------------------------------------
(* Stop::request: the flag, then for every CPU a command and an exit.      *)

RequestFrom(a) == stopFlag' = TRUE /\ kicking' = [kicking EXCEPT ![a] = 1]

Requesting(a) == kicking[a] # 0
KickedCpu(a) == (kicking[a] - 1) \div 2

(* Everything behind the first Stop in a channel is never read.            *)
HvfSend(c, command) ==
  hvfCommands' = IF \E i \in DOMAIN hvfCommands[c] : hvfCommands[c][i].kind = "stop" THEN hvfCommands
                 ELSE [hvfCommands EXCEPT ![c] = Append(@, command)]

NextKick(a) == kicking' = [kicking EXCEPT ![a] = IF @ = 2 * NumCpus THEN 0 ELSE @ + 1]

(* A kick that only exits a running vCPU.                                  *)
SendStop(a) ==
  /\ Requesting(a) /\ kicking[a] % 2 = 1
  /\ HvfSend(KickedCpu(a), [kind |-> "stop", entry |-> HvfBoot])
  /\ NextKick(a)
  /\ UNCHANGED <<stopFlag, thread, exitAsked, OwnerSide, Handles, Power>>

ExitHandle(a) ==
  /\ Requesting(a) /\ kicking[a] % 2 = 0 /\ Free(handleLock)
  /\ exitAsked' = IF handle[KickedCpu(a)] THEN [exitAsked EXCEPT ![KickedCpu(a)] = TRUE]
                  ELSE exitAsked
  /\ NextKick(a)
  /\ UNCHANGED <<stopFlag, thread, hvfCommands, OwnerSide, Handles, Power>>

-----------------------------------------------------------------------------
(* RegisteredCpu::create, Startup::wait and run_cpu_thread.                *)

CreateVcpu(c) ==
  /\ At(c, "create")
  /\ \/ /\ vcpuAlive' = [vcpuAlive EXCEPT ![c] = TRUE] /\ Go(c, "register")
     \/ UNCHANGED vcpuAlive /\ Go(c, "over")
  /\ UNCHANGED <<stopFlag, handle, handleLock, Kicks, Power, OwnerSide>>

RegisterHandle(c) ==
  /\ At(c, "register") /\ Free(handleLock)
  /\ handle' = [handle EXCEPT ![c] = TRUE] /\ handleLock' = c
  /\ Go(c, "registered")
  /\ UNCHANGED <<stopFlag, vcpuAlive, Kicks, Power, OwnerSide>>

(* A stop requested before found no handle, so the vCPU is exited here.    *)
Registered(c) ==
  /\ At(c, "registered")
  /\ exitAsked' = [exitAsked EXCEPT ![c] = @ \/ stopFlag]
  /\ handleLock' = NumCpus + 1
  /\ Go(c, "ready")
  /\ UNCHANGED <<stopFlag, handle, vcpuAlive, kicking, hvfCommands, Power, OwnerSide>>

BeginRun(c) ==
  /\ At(c, "ready") /\ startSent[c] \in {"start", "ended"}
  /\ Go(c, IF startSent[c] = "ended" THEN "drop" ELSE IF c = 0 THEN "check" ELSE "receive")
  /\ UNCHANGED <<stopFlag, Handles, Kicks, Power, OwnerSide>>

ReceiveCommand(c) ==
  /\ At(c, "receive") /\ hvfCommands[c] # <<>>
  /\ LET command == Head(hvfCommands[c])
     IN /\ hvfCommands' = [hvfCommands EXCEPT ![c] = Tail(@)]
        /\ thread' = [thread EXCEPT ![c].at = IF command.kind = "on" THEN "check" ELSE "drop",
                                    ![c].entry = command.entry]
  /\ UNCHANGED <<stopFlag, kicking, exitAsked, Handles, Power, OwnerSide>>

(* run_one                                                                 *)
CheckStop(c) ==
  /\ At(c, "check")
  /\ Go(c, IF stopFlag THEN "drop" ELSE "guest")
  /\ UNCHANGED <<stopFlag, Handles, Kicks, Power, OwnerSide>>

RunCanceled(c) ==
  /\ At(c, "guest") /\ exitAsked[c]
  /\ exitAsked' = [exitAsked EXCEPT ![c] = FALSE]
  /\ Go(c, "drop")
  /\ UNCHANGED <<stopFlag, kicking, hvfCommands, Handles, Power, OwnerSide>>

(* A timer, an unknown exit or an undecodable abort ends the VM.           *)
RunFails(c) ==
  /\ At(c, "guest")
  /\ RequestFrom(c) /\ Go(c, "failed")
  /\ UNCHANGED <<hvfCommands, exitAsked, Handles, Power, OwnerSide>>

FailedRequest(c) ==
  /\ At(c, "failed") /\ ~Requesting(c)
  /\ Go(c, "drop")
  /\ UNCHANGED <<stopFlag, Handles, Kicks, Power, OwnerSide>>

(* A device access or a debug register: the run goes on.                   *)
RunAccess(c) ==
  /\ At(c, "guest") /\ ~exitAsked[c]
  /\ Go(c, "check")
  /\ UNCHANGED <<stopFlag, Handles, Kicks, Power, OwnerSide>>

-----------------------------------------------------------------------------
(* run_psci: the power states are copied, the call decided on the copy.    *)

Decide(call, on) ==
  CASE call.kind = "off" -> "powerOff"
    [] call.kind = "systemOff" -> "stopMachine"
    [] call.kind = "affinity" -> "return"
    [] call.target \notin Cpus -> "return"
    [] on[call.target] -> "return"
    [] call.entry = BadEntry -> "return"
    [] OTHER -> "start"

PsciCall(c) ==
  /\ At(c, "guest") /\ Free(powerLock)
  /\ \E call \in [kind : {"on"}, target : Cpus \cup {NumCpus}, entry : Entries \cup {BadEntry}]
                   \cup [kind : {"off", "systemOff", "affinity"}, target : {0}, entry : {HvfBoot}] :
       LET action == Decide(call, powered)
       IN    /\ action = "start" => cpuOns < MaxCpuOns
             /\ cpuOns' = IF action = "start" THEN cpuOns + 1 ELSE cpuOns
             /\ thread' = [thread EXCEPT
                  ![c].call = IF action = "start" THEN call ELSE HvfNoCall,
                  ![c].at = CASE action = "start" -> "powerOn"
                              [] action = "return" -> "check"
                              [] action = "powerOff" -> "powerOff"
                              [] OTHER -> "failed"]
             /\ IF action = "stopMachine" THEN RequestFrom(c) ELSE UNCHANGED <<stopFlag, kicking>>
  /\ UNCHANGED <<hvfCommands, exitAsked, powered, powerLock, granted, Handles, OwnerSide>>

Called(c) == thread[c].call.target

HvfAnswered(c) ==
  /\ thread' = [thread EXCEPT ![c].at = "check", ![c].call = HvfNoCall]
  /\ UNCHANGED powerLock

PowerOnRefused(c) ==
  /\ At(c, "powerOn") /\ Free(powerLock)
  /\ stopFlag \/ powered[Called(c)]
  /\ HvfAnswered(c)
  /\ UNCHANGED <<stopFlag, powered, granted, cpuOns, Kicks, Handles, OwnerSide>>

PowerOnLocked(c) ==
  /\ At(c, "powerOn") /\ Free(powerLock) /\ ~stopFlag /\ ~powered[Called(c)]
  /\ powerLock' = c /\ Go(c, "powerSend")
  /\ UNCHANGED <<stopFlag, powered, granted, cpuOns, Kicks, Handles, OwnerSide>>

(* The receiver is gone once its thread is over.                           *)
PowerOnSend(c) ==
  /\ At(c, "powerSend")
  /\ IF At(Called(c), "over")
     THEN /\ thread' = [thread EXCEPT ![c].at = "check", ![c].call = HvfNoCall]
          /\ powerLock' = NumCpus + 1
          /\ UNCHANGED <<hvfCommands, granted>>
     ELSE /\ HvfSend(Called(c), [kind |-> "on", entry |-> thread[c].call.entry])
          /\ granted' = [granted EXCEPT ![Called(c)] = thread[c].call.entry]
          /\ Go(c, "powerSet") /\ UNCHANGED powerLock
  /\ UNCHANGED <<stopFlag, powered, cpuOns, kicking, exitAsked, Handles, OwnerSide>>

PowerOnSet(c) ==
  /\ At(c, "powerSet")
  /\ powered' = [powered EXCEPT ![Called(c)] = TRUE]
  /\ powerLock' = NumCpus + 1
  /\ thread' = [thread EXCEPT ![c].at = "check", ![c].call = HvfNoCall]
  /\ UNCHANGED <<stopFlag, granted, cpuOns, Kicks, Handles, OwnerSide>>

PowerOff(c) ==
  /\ At(c, "powerOff") /\ Free(powerLock)
  /\ powered' = [powered EXCEPT ![c] = FALSE]
  /\ Go(c, "receive")
  /\ UNCHANGED <<stopFlag, powerLock, granted, cpuOns, Kicks, Handles, OwnerSide>>

-----------------------------------------------------------------------------
(* RegisteredCpu::drop, then the vCPU itself.                              *)

DropRequests(c) ==
  /\ At(c, "drop")
  /\ RequestFrom(c) /\ Go(c, "dropping")
  /\ UNCHANGED <<hvfCommands, exitAsked, Handles, Power, OwnerSide>>

(* The vCPU is destroyed before its handle is withdrawn.                   *)
Unregister(c) ==
  \/ /\ At(c, "dropping") /\ ~Requesting(c) /\ Free(handleLock)
     /\ handle' = [handle EXCEPT ![c] = FALSE] /\ Go(c, "destroy")
     /\ UNCHANGED <<stopFlag, handleLock, vcpuAlive, Kicks, Power, OwnerSide>>
  \/ /\ At(c, "destroy")
     /\ vcpuAlive' = [vcpuAlive EXCEPT ![c] = FALSE] /\ Go(c, "over")
     /\ UNCHANGED <<stopFlag, handle, handleLock, Kicks, Power, OwnerSide>>

-----------------------------------------------------------------------------
(* Vm::create, start and the join of the group.                            *)

SpawnCpu ==
  /\ hvOwner.at = "spawn"
  /\ Go(hvOwner.cpu, "create")
  /\ hvOwner' = [hvOwner EXCEPT !.at = "await"]
  /\ UNCHANGED <<stopFlag, startSent, Handles, Kicks, Power>>

AwaitReady ==
  /\ hvOwner.at = "await"
  /\ \/ /\ At(hvOwner.cpu, "ready")
        /\ hvOwner' = IF hvOwner.cpu = NumCpus - 1 THEN [hvOwner EXCEPT !.at = "start"]
                      ELSE [at |-> "spawn", cpu |-> hvOwner.cpu + 1]
     \/ At(hvOwner.cpu, "over") /\ hvOwner' = [hvOwner EXCEPT !.at = "join"]
  /\ UNCHANGED <<stopFlag, thread, startSent, Handles, Kicks, Power>>

StartCpus ==
  /\ hvOwner.at = "start"
  /\ startSent' = [c \in Cpus |-> "start"]
  /\ hvOwner' = [hvOwner EXCEPT !.at = "running"]
  /\ UNCHANGED <<stopFlag, thread, Handles, Kicks, Power>>

OwnerStops ==
  /\ hvOwner.at \in {"start", "running"}
  /\ hvOwner' = [hvOwner EXCEPT !.at = "join"]
  /\ UNCHANGED <<stopFlag, thread, startSent, Handles, Kicks, Power>>

JoinRequests ==
  /\ hvOwner.at = "join"
  /\ startSent' = [c \in Cpus |-> IF startSent[c] = "no" THEN "ended" ELSE startSent[c]]
  /\ RequestFrom(Group)
  /\ hvOwner' = [hvOwner EXCEPT !.at = "joining"]
  /\ UNCHANGED <<thread, hvfCommands, exitAsked, Handles, Power>>

Joined ==
  /\ hvOwner.at = "joining" /\ ~Requesting(Group)
  /\ \A c \in Cpus : thread[c].at \in {"none", "over"}
  /\ hvOwner' = [hvOwner EXCEPT !.at = "joined"]
  /\ UNCHANGED <<stopFlag, thread, startSent, Handles, Kicks, Power>>

CpuStep(c) ==
  \/ CreateVcpu(c) \/ RegisterHandle(c) \/ Registered(c) \/ BeginRun(c) \/ ReceiveCommand(c)
  \/ CheckStop(c) \/ RunCanceled(c) \/ FailedRequest(c)
  \/ PowerOnRefused(c) \/ PowerOnLocked(c) \/ PowerOnSend(c) \/ PowerOnSet(c) \/ PowerOff(c)
  \/ DropRequests(c) \/ Unregister(c)

GuestStep(c) == RunAccess(c) \/ RunFails(c) \/ PsciCall(c)

KickStep(a) == SendStop(a) \/ ExitHandle(a)

OwnerStep == SpawnCpu \/ AwaitReady \/ StartCpus \/ JoinRequests \/ Joined

HvfNext == \/ \E c \in Cpus : CpuStep(c) \/ GuestStep(c)
           \/ \E a \in HvActors : KickStep(a)
           \/ OwnerStep \/ OwnerStops

HvfSpec == HvfInit /\ [][HvfNext]_hvfVars

-----------------------------------------------------------------------------

Running(c) == thread[c].at \in {"check", "guest", "powerOn", "powerSend", "powerSet", "powerOff"}
              \/ (c = 0 /\ thread[c].at \in {"none", "create", "register", "registered", "ready"})

PowerOns(c) == Cardinality({i \in DOMAIN hvfCommands[c] : hvfCommands[c][i].kind = "on"})
               + (IF Running(c) THEN 1 ELSE 0)

(* A CPU is on exactly while one CPU_ON (or the boot) is waiting for it or *)
(* running on it, it runs from the entry that CPU_ON named, and a kick     *)
(* never exits a vCPU that is gone (Cpus::power_on, power_off and kick,    *)
(* RegisteredCpu::drop).                                                   *)
CpusRunAsPowered ==
  /\ \A c \in Cpus : handle[c] => vcpuAlive[c]
  /\ \A c \in Cpus : PowerOns(c) <= 1
  /\ ~stopFlag /\ Free(powerLock) /\ hvOwner.at = "running" =>
       \A c \in Cpus : powered[c] <=> PowerOns(c) = 1
  /\ \A c \in Cpus : thread[c].at = "guest" => thread[c].entry = granted[c]

(* Once a stop is requested, by the owner or by any CPU, every vCPU thread *)
(* ends: those in the guest, those between two steps and those powered off *)
(* (Stop::request with Cpus::kick).                                        *)
StopEndsCpus == stopFlag => \A c \in Cpus : thread[c].at \in {"none", "over"}

------------------------------------------------------------------------------
(***************************************************************************)
(* The run loop of one vCPU in each hypervisor back end: what a trapped    *)
(* load, store or port access becomes for the VMM (arm.rs, and run_vcpu,   *)
(* run_one, dispatch_kernel_exit and the Windows instruction emulator's    *)
(* callbacks), how the VMM's action completes the instruction, and how the *)
(* run ends.  A byte has ByteBits bits, so a register has 8 * ByteBits.    *)
(***************************************************************************)

CONSTANTS ByteBits, Backends, Instructions, RegisterValues, DeviceValues, MaxInstructions

VARIABLES backend,      \* rigid: "hvf", "whpArm", "kvmArm", "kvmX86", "whpX86"
          stopRequested,
          runAt,        \* the step of the run loop
          instr,        \* the instruction that trapped
          registers, counter,
          accessSeen,         \* the exits the VMM was given for the instruction
          answered,     \* the value the VMM gave
          before,       \* registers and program counter when it trapped
          outcomes,     \* finished and failed calls on the handler
          executed

accessVars == <<backend, stopRequested, runAt, instr, registers, counter, accessSeen, answered, before,
                outcomes, executed>>

LOCAL Bits(width) == width * ByteBits
LOCAL Mod(value, width) == value % (2 ^ Bits(width))
LOCAL IsArm == backend \in {"hvf", "whpArm"}
ZeroRegister == 31

NoInstruction == [op |-> "none", width |-> 1, reg |-> 0, signed |-> FALSE, wide |-> TRUE,
                  valid |-> TRUE, place |-> "device"]

AccessInit ==
  /\ backend \in Backends
  /\ stopRequested = FALSE /\ runAt = "check" /\ instr = NoInstruction
  /\ registers \in [{0, 1} -> RegisterValues] /\ counter = 0
  /\ accessSeen = <<>> /\ answered = 0
  /\ before = [registers |-> registers, counter |-> 0]
  /\ outcomes = <<>> /\ executed = 0

-----------------------------------------------------------------------------
(* ArmMmioAccess                                                           *)

Decode(i) == i.valid /\ (i.wide \/ i.width # 8)

(* The mask forgets the width.                                             *)
MaskNothing(i, value) == value

WidthMask(i, value) == Mod(value, i.width)

StoreValue(i) == WidthMask(i, IF i.reg = ZeroRegister THEN 0 ELSE registers[i.reg])

(* Shift up to the top of the register and back down, keeping the sign.    *)
SignExtend(i, value) ==
  LET shift == Bits(8) - Bits(i.width)
      up == (value * 2 ^ shift) % (2 ^ Bits(8))
      signed == IF up >= 2 ^ (Bits(8) - 1) THEN up - 2 ^ Bits(8) ELSE up
  IN (signed \div (2 ^ shift)) % (2 ^ Bits(8))

LoadValue(i, value) ==
  LET masked == WidthMask(i, value)
      extended == IF i.signed THEN SignExtend(i, masked) ELSE masked
  IN IF i.wide THEN extended ELSE Mod(extended, 4)

AccessComplete(i, value) ==
  IF i.op = "load" /\ i.reg # ZeroRegister
  THEN [registers EXCEPT ![i.reg] = LoadValue(i, value)]
  ELSE registers

-----------------------------------------------------------------------------
(* What each back end hands to the VMM, and what it does itself.           *)

ArmExit(i) == IF i.op = "load" THEN [kind |-> "read", width |-> i.width, value |-> 0]
              ELSE [kind |-> "write", width |-> i.width, value |-> StoreValue(i)]

(* A trapped debug OS register: reads zero, writes nothing.                *)
DebugComplete(i) == IF i.op = "debugRead" /\ i.reg # ZeroRegister
                    THEN [registers EXCEPT ![i.reg] = 0] ELSE registers

(* KVM on ARM and on x86, and the emulator, give the bytes of the access.  *)
KvmArmWidth(i) == i.width \in {1, 2, 4, 8}
KvmArmValue(i) == Mod(registers[i.reg], i.width)
KvmX86Width(i) == i.width \in {1, 2, 4, 8}
KvmX86Value(i) == Mod(registers[i.reg], i.width)
ValidMmioWidth(i) == i.width \in {1, 2, 4, 8}

LOCAL BytesExit(i, value) == IF i.op = "load" THEN [kind |-> "read", width |-> i.width, value |-> 0]
                             ELSE [kind |-> "write", width |-> i.width, value |-> value]

PioExit(i) == [kind |-> IF i.op = "in" THEN "portIn" ELSE "portOut", width |-> i.width, value |-> 0]

(* The IOAPIC's window: odd and wide accesses read zero, write nothing.    *)
IoApicExits(i) ==
  IF ValidMmioWidth(i) /\ i.width <= 4
  THEN <<[kind |-> "ioapic", width |-> i.width,
          value |-> IF i.op = "store" THEN Mod(registers[i.reg], i.width) ELSE 0]>>
  ELSE <<>>

MmioExits(i) == IF ValidMmioWidth(i) THEN <<BytesExit(i, Mod(registers[i.reg], i.width))>> ELSE <<>>

(* Guest memory, then the IOAPIC's window, then the devices.               *)
AccessMemory(i) == CASE i.place = "ram" -> <<>>
                     [] i.place = "ioapic" -> IoApicExits(i)
                     [] OTHER -> MmioExits(i)

(* The bytes the emulator is given; an IOAPIC register only whole.         *)
IoApicData(i, value) == IF i.width = 4 THEN Mod(value, 4) ELSE 0
EmulatedData(i, value) ==
  CASE i.op = "in" -> 0
    [] i.place = "ram" -> Mod(value, i.width)
    [] ~ValidMmioWidth(i) -> 0
    [] i.place = "ioapic" -> IoApicData(i, value)
    [] OTHER -> Mod(value, i.width)

-----------------------------------------------------------------------------
(* The end of a run.                                                       *)

ReportVcpuFailure == outcomes' = Append(outcomes, "failed") /\ runAt' = "over"
AccessFinish(outcome) == outcomes' = Append(outcomes, outcome) /\ runAt' = "over"
LOCAL Again == runAt' = "check" /\ UNCHANGED outcomes
LOCAL Rest == UNCHANGED <<backend, instr, registers, counter, accessSeen, answered, before, executed>>

(* The loop looks for a stop before every entry; on x86 Windows it then    *)
(* withdraws a cancellation that found no run.                             *)
CheckStopRequest ==
  /\ runAt = "check"
  /\ IF stopRequested
     THEN AccessFinish("stopped") \/ (backend = "whpX86" /\ ReportVcpuFailure)
     ELSE runAt' = "guest" /\ UNCHANGED outcomes
  /\ UNCHANGED stopRequested /\ Rest

RequestRunStop == ~stopRequested /\ stopRequested' = TRUE /\ UNCHANGED <<runAt, outcomes>> /\ Rest

(* What the guest may do to leave, by back end.                            *)
AccessRuns(i) ==
  CASE backend \in {"hvf", "whpArm"} ->
         /\ i.place = "device" /\ i.width # 3
         /\ i.op \in {"load", "store"} \/ (backend = "hvf" /\ i.op \in {"debugRead", "debugWrite"})
    [] backend = "kvmArm" -> i.op \in {"load", "store"} /\ i.place = "device"
    [] backend = "kvmX86" -> i.op \in {"load", "store", "in", "out"} /\ i.place = "device"
    [] OTHER -> i.op \in {"load", "store", "in", "out"}

Plain(i) == i.reg # ZeroRegister /\ ~i.signed /\ i.wide /\ i.valid

(* The guest traps on an instruction.                                      *)
Trap ==
  /\ runAt = "guest" /\ executed < MaxInstructions
  /\ \E i \in Instructions : AccessRuns(i) /\ (IsArm \/ Plain(i)) /\ instr' = i
  /\ \E v \in DeviceValues : answered' = v
  /\ before' = [registers |-> registers, counter |-> counter]
  /\ runAt' = "decode" /\ accessSeen' = <<>> /\ executed' = executed + 1
  /\ UNCHANGED <<backend, stopRequested, registers, counter, outcomes>>

(* A kick cancels the run; halts, interruptions and EOIs only re-enter.    *)
HvfCanceled == backend = "hvf" /\ stopRequested /\ AccessFinish("stopped")
WhpArmCanceled == backend = "whpArm" /\ stopRequested /\ AccessFinish("stopped")
WhpX86Other == backend = "whpX86" /\ IF stopRequested THEN AccessFinish("stopped") ELSE Again
KvmArmInterrupted == backend = "kvmArm" /\ IF stopRequested THEN AccessFinish("stopped") ELSE Again
KvmX86Interrupted == backend = "kvmX86" /\ IF stopRequested THEN AccessFinish("stopped") ELSE Again

OtherExit ==
  /\ runAt = "guest"
  /\ HvfCanceled \/ WhpArmCanceled \/ WhpX86Other \/ KvmArmInterrupted \/ KvmX86Interrupted
  /\ UNCHANGED stopRequested /\ Rest

(* A guest that resets or shuts down stops the others too; on Windows ARM  *)
(* a reboot ends as a stop.                                                *)
WhpArmReset == backend = "whpArm" /\ \E reboot \in BOOLEAN : AccessFinish(IF reboot THEN "stopped" ELSE "shutdown")
HvfStopMachine == backend = "hvf" /\ AccessFinish("stopped")
KvmShutdown == backend \in {"kvmArm", "kvmX86"} /\ AccessFinish("shutdown")

ShutdownExit ==
  /\ runAt = "guest" /\ stopRequested' = TRUE
  /\ WhpArmReset \/ HvfStopMachine \/ KvmShutdown
  /\ Rest

(* An exit no back end knows ends the run as failed.                       *)
UnexpectedExit == runAt = "guest" /\ ReportVcpuFailure /\ UNCHANGED stopRequested /\ Rest

-----------------------------------------------------------------------------
(* The exit is decoded and handed to the VMM.                              *)

LOCAL Hand(exits) ==
  /\ accessSeen' = exits /\ UNCHANGED outcomes
  /\ runAt' = IF exits = <<>> THEN "complete" ELSE "exchange"
LOCAL Refuse == ReportVcpuFailure /\ UNCHANGED accessSeen

HvfExit ==
  /\ backend = "hvf"
  /\ IF instr.op \in {"debugRead", "debugWrite"} THEN Hand(<<>>)
     ELSE IF Decode(instr) THEN Hand(<<ArmExit(instr)>>) ELSE Refuse

WhpArmExit == backend = "whpArm" /\ IF Decode(instr) THEN Hand(<<ArmExit(instr)>>) ELSE Refuse

KvmArmExit ==
  /\ backend = "kvmArm"
  /\ IF KvmArmWidth(instr) THEN Hand(<<BytesExit(instr, KvmArmValue(instr))>>) ELSE Refuse

KvmX86Exit ==
  /\ backend = "kvmX86"
  /\ IF instr.op \in {"in", "out"} THEN Hand(<<PioExit(instr)>>)
     ELSE IF KvmX86Width(instr) THEN Hand(<<BytesExit(instr, KvmX86Value(instr))>>) ELSE Refuse

EmulateMmio == backend = "whpX86" /\ instr.op \in {"load", "store"} /\ Hand(AccessMemory(instr))

(* The port callback takes widths of 1, 2 and 4.                           *)
EmulateIo ==
  /\ backend = "whpX86" /\ instr.op \in {"in", "out"}
  /\ IF instr.width \in {1, 2, 4} THEN Hand(<<PioExit(instr)>>) ELSE Refuse

ExitToVmm ==
  /\ runAt = "decode"
  /\ HvfExit \/ WhpArmExit \/ KvmArmExit \/ KvmX86Exit \/ EmulateMmio \/ EmulateIo
  /\ UNCHANGED <<backend, stopRequested, instr, registers, counter, answered, before, executed>>

(* The emulator did not run the instruction: the guest takes an invalid    *)
(* opcode fault or an intercept came first, or the guest cannot be faulted.*)
EmulatorDeclines ==
  /\ runAt = "decode" /\ backend = "whpX86"
  /\ ReportVcpuFailure \/ Again
  /\ instr' = NoInstruction
  /\ UNCHANGED <<backend, stopRequested, registers, counter, accessSeen, answered, before, executed>>

(* The VMM answers with the value, or fails or with another kind of action.*)
VmmAnswers ==
  /\ runAt = "exchange"
  /\ (runAt' = "complete" /\ UNCHANGED outcomes) \/ ReportVcpuFailure
  /\ UNCHANGED stopRequested /\ Rest

LOCAL LoadBytes(value) == IF instr.op \in {"load", "in"}
                          THEN [registers EXCEPT ![instr.reg] = value] ELSE registers

(* Two writes on Hypervisor.framework, the register and then the counter.  *)
HvfComplete ==
  /\ backend = "hvf"
  /\ registers' = IF instr.op \in {"debugRead", "debugWrite"} THEN DebugComplete(instr)
                  ELSE AccessComplete(instr, answered)
  /\ runAt' = "advance" /\ UNCHANGED counter

WhpArmComplete ==
  /\ backend = "whpArm" /\ registers' = AccessComplete(instr, answered)
  /\ counter' = before.counter + 1 /\ runAt' = "check"

(* The kernel finishes the instruction with the bytes on the next entry.   *)
KvmComplete ==
  /\ backend \in {"kvmArm", "kvmX86"}
  /\ registers' = LoadBytes(IF instr.op = "in" THEN 0 ELSE Mod(answered, instr.width))
  /\ counter' = counter + 1 /\ runAt' = "check"

EmulateSetRegisters ==
  /\ backend = "whpX86" /\ registers' = LoadBytes(EmulatedData(instr, answered))
  /\ counter' = counter + 1 /\ runAt' = "check"

CompleteInstruction ==
  /\ runAt = "complete"
  /\ HvfComplete \/ WhpArmComplete \/ KvmComplete \/ EmulateSetRegisters
  /\ UNCHANGED <<backend, stopRequested, instr, accessSeen, answered, before, outcomes, executed>>

AdvancePc ==
  /\ runAt = "advance"
  /\ counter' = counter + 1 /\ runAt' = "check"
  /\ UNCHANGED <<backend, stopRequested, instr, registers, accessSeen, answered, before, outcomes, executed>>

AccessNext ==
  \/ CheckStopRequest \/ RequestRunStop \/ Trap \/ OtherExit \/ ShutdownExit \/ UnexpectedExit
  \/ ExitToVmm \/ EmulatorDeclines \/ VmmAnswers \/ CompleteInstruction \/ AdvancePc

AccessSpec == AccessInit /\ [][AccessNext]_accessVars

-----------------------------------------------------------------------------

LOCAL Signed(value, bits) == IF value % 2 ^ bits >= 2 ^ (bits - 1) THEN (value % 2 ^ bits) - 2 ^ bits
                             ELSE value % 2 ^ bits

(* What the architecture says of a load from a device.                     *)
LOCAL Loaded(i) ==
  IF i.signed THEN Signed(answered, Bits(i.width)) % (2 ^ (IF i.wide THEN Bits(8) ELSE Bits(4)))
  ELSE answered % 2 ^ Bits(i.width)

(* A trapped instruction takes effect exactly once: the device sees one    *)
(* access of the instruction's width and value, a load puts exactly that   *)
(* many bytes, extended as the instruction says, in its one register, and  *)
(* the guest continues behind it; one that fails has no effect on the      *)
(* registers; and a run tells its handler of its end once (ArmMmioAccess,  *)
(* run_one, arm_mmio, dispatch_kernel_exit, access_memory).                *)
AccessesTakeEffect ==
  /\ Len(outcomes) <= 1 /\ (runAt = "over" <=> Len(outcomes) = 1)
  /\ runAt = "over" => registers = before.registers \/ counter = before.counter + 1
  /\ runAt = "check" /\ instr # NoInstruction =>
       /\ counter = before.counter + 1
       /\ Len(accessSeen) <= 1
       /\ instr.place = "device" /\ instr.width # 3 /\ instr.op \in {"load", "store"} => Len(accessSeen) = 1
       /\ \A e \in {accessSeen[k] : k \in DOMAIN accessSeen} :
            /\ e.width = instr.width
            /\ instr.op = "store" =>
                 e.value = IF instr.reg = ZeroRegister THEN 0
                           ELSE before.registers[instr.reg] % 2 ^ Bits(instr.width)
       /\ \A r \in DOMAIN registers :
            IF instr.op = "load" /\ instr.reg = r /\ instr.place = "device" /\ instr.width # 3
            THEN registers[r] = Loaded(instr)
            ELSE instr.reg = r \/ registers[r] = before.registers[r]
       /\ instr.op \in {"store", "out", "debugWrite"} => registers = before.registers

------------------------------------------------------------------------------
(***************************************************************************)
(* Making and releasing a virtual machine in each hypervisor back end:     *)
(* Vm::create, Machine::new, the vCPU threads' shares of the machine,      *)
(* Vm::start, and what is released, and in which order, once the last      *)
(* owner goes, wherever a step failed and however late a thread ends.      *)
(***************************************************************************)

CONSTANTS LifeConfigs,        \* the configurations asked for
          LifeMaxVcpus            \* X86_MAX_VCPUS, ARM_MAX_VCPUS

VARIABLES lifeHost,           \* rigid: "kvmX86", "kvmArm", "whpX86", "whpArm", "hvf"
          lifeConfig,         \* rigid: [vcpus, ranges, redistributors, fits, gsis]
          lifeMaking,             \* the step of create and start
          partition,          \* "none", "open" or "closed"
          mappedRanges,
          vcpuState,          \* "none", "created" or "gone"
          vthread,            \* "none", "setup", "waiting", "running" or "ended"
          machineOwners,      \* who holds the machine
          ramState, ramUsers, \* the guest memory and who else holds it
          bootSet             \* vCPU 0 has its boot registers

lifeVars == <<lifeHost, lifeConfig, lifeMaking, partition, mappedRanges, vcpuState, vthread,
              machineOwners, ramState, ramUsers, bootSet>>

LOCAL Whp == lifeHost \in {"whpX86", "whpArm"}
LOCAL LifeCpus == 0..(lifeConfig.vcpus - 1)
LOCAL AllCpus == 0..(LifeMaxVcpus - 1)
LOCAL Rigid == UNCHANGED <<lifeHost, lifeConfig>>
Creator == -1
Device == -2
Kicker == -3
IOAPIC_GSI_BASE == 11
IOAPIC_PINS == 24

LifeInit ==
  /\ lifeHost \in {"kvmX86", "kvmArm", "whpX86", "whpArm", "hvf"}
  /\ lifeConfig \in LifeConfigs
  /\ lifeMaking = "validate" /\ partition = "none" /\ mappedRanges = {}
  /\ vcpuState = [c \in AllCpus |-> "none"] /\ vthread = [c \in AllCpus |-> "none"]
  /\ machineOwners = {} /\ ramState = "none" /\ ramUsers = {} /\ bootSet = FALSE

-----------------------------------------------------------------------------
(* What the configurations must satisfy.                                   *)

ValidDimensions == lifeConfig.vcpus \in 1..LifeMaxVcpus

(* The KVM pages of the identity map and the TSS lie outside the RAM; RAM  *)
(* ranges are page multiples.                                              *)
ValidRam == lifeConfig.fits

(* A GIC window holds the redistributor of every vCPU.                     *)
ValidateGicLayout == lifeConfig.redistributors >= lifeConfig.vcpus

RedistributorFits(c) == c + 1 <= lifeConfig.redistributors

ValidateDeviceGsis == \A g \in lifeConfig.gsis : g >= IOAPIC_GSI_BASE /\ g < IOAPIC_PINS

(* configure_cpuid: the identity and the topology one vCPU is told of.     *)
CoreBits(count) == CHOOSE b \in 0..8 : 2 ^ b >= count /\ \A d \in 0..(b - 1) : 2 ^ d < count

ConfigureCpuid(count, id) ==
  [apicId |-> id, threads |-> count, multi |-> count > 1, sharers |-> count - 1,
   coreBits |-> CoreBits(count)]

-----------------------------------------------------------------------------
(* Failing: what the frame holds goes, later locals first.                 *)

LOCAL Abandon == lifeMaking' = "refused"

Validate ==
  /\ lifeMaking = "validate"
  /\ IF ValidDimensions /\ (lifeHost # "kvmX86" => ValidRam)
        /\ (lifeHost = "hvf" => ValidateGicLayout)
     THEN lifeMaking' = IF Whp THEN "ram" ELSE "partition"
     ELSE lifeMaking' = "over"
  /\ UNCHANGED <<partition, mappedRanges, vcpuState, vthread, machineOwners, ramState, ramUsers,
                 bootSet>> /\ Rigid

(* GuestMemory::from_layout; before the partition on Windows.              *)
AllocateRam ==
  /\ lifeMaking = "ram"
  /\ \/ ramState' = "live" /\ lifeMaking' = IF Whp THEN "partition" ELSE "map"
     \/ UNCHANGED ramState /\ Abandon
  /\ UNCHANGED <<partition, mappedRanges, vcpuState, vthread, machineOwners, ramUsers, bootSet>>
  /\ Rigid

CreatePartition ==
  /\ lifeMaking = "partition"
  /\ \/ partition' = "open" /\ lifeMaking' = "configure"
     \/ UNCHANGED partition /\ Abandon
  /\ UNCHANGED <<mappedRanges, vcpuState, vthread, machineOwners, ramState, ramUsers, bootSet>>
  /\ Rigid

(* Processor count and GIC on Windows, TSS and identity map on x86 KVM.    *)
ConfigurePartition ==
  /\ lifeMaking = "configure"
  /\ \/ lifeMaking' = IF Whp THEN "map" ELSE "ram"
     \/ Abandon
  /\ UNCHANGED <<partition, mappedRanges, vcpuState, vthread, machineOwners, ramState, ramUsers,
                 bootSet>> /\ Rigid

(* Each range is mapped and then recorded; KVM checks it first.            *)
MapRange ==
  /\ lifeMaking = "map" /\ mappedRanges # lifeConfig.ranges
  /\ \E r \in lifeConfig.ranges \ mappedRanges :
       \/ (lifeHost = "kvmX86" => ValidRam) /\ mappedRanges' = mappedRanges \cup {r}
            /\ UNCHANGED lifeMaking
       \/ UNCHANGED mappedRanges /\ Abandon
  /\ UNCHANGED <<partition, vcpuState, vthread, machineOwners, ramState, ramUsers, bootSet>>
  /\ Rigid

(* The VGIC of KVM on ARM, the irqchip on x86; then the machine is shared. *)
SetupIrqchip ==
  /\ lifeMaking = "map" /\ mappedRanges = lifeConfig.ranges
  /\ \/ (lifeHost = "kvmX86" => ValidateDeviceGsis)
          /\ lifeMaking' = "vcpus" /\ machineOwners' = {Creator}
     \/ lifeHost \in {"kvmX86", "kvmArm"} /\ Abandon /\ UNCHANGED machineOwners
  /\ UNCHANGED <<partition, mappedRanges, vcpuState, vthread, ramState, ramUsers, bootSet>>
  /\ Rigid

-----------------------------------------------------------------------------
(* One vCPU after another.                                                 *)

LOCAL Spawned == {c \in AllCpus : vthread[c] # "none"}
LOCAL NextCpu == Cardinality(Spawned)

(* KVM on ARM makes every vCPU first.                                      *)
PrepareVcpus ==
  /\ lifeMaking = "vcpus" /\ lifeHost = "kvmArm" /\ vcpuState[0] = "none"
  /\ \/ vcpuState' = [c \in AllCpus |-> IF c \in LifeCpus THEN "created" ELSE "none"]
          /\ UNCHANGED <<lifeMaking, machineOwners>>
     \/ UNCHANGED <<vcpuState, machineOwners>> /\ lifeMaking' = "drop"
  /\ UNCHANGED <<partition, mappedRanges, vthread, ramState, ramUsers, bootSet>> /\ Rigid

(* Windows makes the next one before its thread; on ARM a redistributor    *)
(* outside the window deletes it again.                                    *)
CreateVcpuObject ==
  /\ lifeMaking = "vcpus" /\ Whp /\ NextCpu \in LifeCpus /\ vcpuState[NextCpu] = "none"
  /\ \/ /\ lifeHost = "whpArm" => RedistributorFits(NextCpu)
        /\ vcpuState' = [vcpuState EXCEPT ![NextCpu] = "created"] /\ UNCHANGED lifeMaking
     \/ UNCHANGED vcpuState /\ lifeMaking' = "drop"
  /\ UNCHANGED <<partition, mappedRanges, vthread, machineOwners, ramState, ramUsers, bootSet>>
  /\ Rigid

(* A thread that does not keep the machine.                                *)
SpawnThread ==
  /\ lifeMaking = "vcpus" /\ NextCpu \in LifeCpus
  /\ (Whp \/ lifeHost = "kvmArm") => vcpuState[NextCpu] = "created"
  /\ \/ /\ vthread' = [vthread EXCEPT ![NextCpu] = "setup"]
        /\ machineOwners' = machineOwners \cup {NextCpu}
        /\ lifeMaking' = "ready"
     \/ UNCHANGED <<vthread, machineOwners>> /\ lifeMaking' = "drop"
  /\ UNCHANGED <<partition, mappedRanges, vcpuState, ramState, ramUsers, bootSet>> /\ Rigid

(* The thread makes its own vCPU on x86 KVM and on macOS, and gets ready.  *)
ThreadSetup(c) ==
  /\ vthread[c] = "setup"
  /\ \/ /\ vthread' = [vthread EXCEPT ![c] = "waiting"]
        /\ vcpuState' = [vcpuState EXCEPT ![c] = "created"]
     \/ /\ lifeHost \in {"kvmX86", "kvmArm", "hvf"}
        /\ vthread' = [vthread EXCEPT ![c] = "leaving"] /\ UNCHANGED vcpuState
  /\ UNCHANGED <<lifeMaking, partition, mappedRanges, machineOwners, ramState, ramUsers, bootSet>>
  /\ Rigid

(* The creator waits for it, up to the deadline.                           *)
SpawnReady ==
  /\ lifeMaking = "ready"
  /\ LET c == NextCpu - 1
     IN \/ vthread[c] = "waiting"
             /\ lifeMaking' = IF NextCpu = lifeConfig.vcpus THEN "created" ELSE "vcpus"
        \/ vthread[c] \in {"setup", "leaving", "ended"} /\ lifeMaking' = "drop"
  /\ UNCHANGED <<partition, mappedRanges, vcpuState, vthread, machineOwners, ramState, ramUsers,
                 bootSet>> /\ Rigid

-----------------------------------------------------------------------------

(* A device takes a handle, and memory of its own.                         *)
TakeHandle ==
  /\ lifeMaking = "created" /\ Device \notin machineOwners
  /\ machineOwners' = machineOwners \cup {Device} /\ ramUsers' = ramUsers \cup {Device}
  /\ UNCHANGED <<lifeMaking, partition, mappedRanges, vcpuState, vthread, ramState, bootSet>> /\ Rigid

DropHandle ==
  /\ lifeMaking # "created" /\ Device \in machineOwners
  /\ machineOwners' = machineOwners \ {Device}
  /\ UNCHANGED <<lifeMaking, partition, mappedRanges, vcpuState, vthread, ramState, ramUsers, bootSet>>
  /\ Rigid

DropDeviceMemory ==
  /\ lifeMaking # "created" /\ Device \in ramUsers
  /\ ramUsers' = ramUsers \ {Device}
  /\ UNCHANGED <<lifeMaking, partition, mappedRanges, vcpuState, vthread, machineOwners, ramState,
                 bootSet>> /\ Rigid

(* The machine is dropped unstarted.                                       *)
DropCreated ==
  /\ lifeMaking = "created" /\ lifeMaking' = "drop"
  /\ UNCHANGED <<partition, mappedRanges, vcpuState, vthread, machineOwners, ramState, ramUsers,
                 bootSet>> /\ Rigid

(* start: Windows sets the boot registers first, the others in the thread. *)
ConfigurePlannedBoot ==
  /\ lifeMaking = "created"
  /\ \/ lifeMaking' = "start" /\ bootSet' = (Whp \/ bootSet)
     \/ Whp /\ lifeMaking' = "drop" /\ UNCHANGED bootSet
  /\ UNCHANGED <<partition, mappedRanges, vcpuState, vthread, machineOwners, ramState, ramUsers>>
  /\ Rigid

(* The group is handed on and the machine's first owner goes; on Windows   *)
(* the group keeps it to kick with.                                        *)
StartGroup ==
  /\ lifeMaking = "start" /\ lifeMaking' = "running"
  /\ vthread' = [c \in AllCpus |-> IF vthread[c] = "waiting" THEN "starting" ELSE vthread[c]]
  /\ machineOwners' = (machineOwners \ {Creator})
                      \cup (IF Whp \/ lifeHost = "hvf" THEN {Kicker} ELSE {})
  /\ UNCHANGED <<partition, mappedRanges, vcpuState, ramState, ramUsers, bootSet>> /\ Rigid

(* configure_boot_vcpu, setup_bsp_planned or run_cpu: vCPU 0 has its boot  *)
(* registers before it runs, the others were parked.                       *)
ThreadStarts(c) ==
  /\ vthread[c] = "starting"
  /\ \/ vthread' = [vthread EXCEPT ![c] = "running"] /\ bootSet' = (bootSet \/ c = 0)
     \/ vthread' = [vthread EXCEPT ![c] = "leaving"] /\ UNCHANGED bootSet
  /\ UNCHANGED <<lifeMaking, partition, mappedRanges, vcpuState, machineOwners, ramState, ramUsers>>
  /\ Rigid

(* A thread ends: its own vCPU goes, then its share of the machine.        *)
ThreadStops(c) ==
  /\ \/ vthread[c] = "running"
     \/ vthread[c] = "waiting" /\ lifeMaking \in {"drop", "joined", "over"}
  /\ vthread' = [vthread EXCEPT ![c] = "leaving"]
  /\ UNCHANGED <<lifeMaking, partition, mappedRanges, vcpuState, machineOwners, ramState, ramUsers,
                 bootSet>> /\ Rigid

ThreadDropsVcpu(c) ==
  /\ vthread[c] = "leaving"
  /\ vcpuState' = IF Whp THEN vcpuState ELSE [vcpuState EXCEPT ![c] = IF @ = "created" THEN "gone" ELSE @]
  /\ vthread' = [vthread EXCEPT ![c] = "gone"]
  /\ UNCHANGED <<lifeMaking, partition, mappedRanges, machineOwners, ramState, ramUsers, bootSet>>
  /\ Rigid

ThreadDropsMachine(c) ==
  /\ vthread[c] = "gone"
  /\ machineOwners' = machineOwners \ {c}
  /\ vthread' = [vthread EXCEPT ![c] = "ended"]
  /\ UNCHANGED <<lifeMaking, partition, mappedRanges, vcpuState, ramState, ramUsers, bootSet>> /\ Rigid

(* Dropping the group stops and joins the threads, up to the deadline: a   *)
(* thread that is late is left behind with what it holds.                  *)
DropGroup ==
  /\ lifeMaking \in {"drop", "running"}
  /\ lifeMaking' = "joined"
  /\ UNCHANGED <<partition, mappedRanges, vcpuState, vthread, machineOwners, ramState, ramUsers,
                 bootSet>> /\ Rigid

(* Then its kick, and the vCPUs KVM on ARM made but no thread took.        *)
DropCreator ==
  /\ lifeMaking = "joined"
  /\ machineOwners' = machineOwners \ {Creator, Kicker}
  /\ vcpuState' = [c \in AllCpus |-> IF lifeHost = "kvmArm" /\ vthread[c] = "none"
                                        /\ vcpuState[c] = "created" THEN "gone" ELSE vcpuState[c]]
  /\ lifeMaking' = "over"
  /\ UNCHANGED <<partition, mappedRanges, vthread, ramState, ramUsers, bootSet>> /\ Rigid

-----------------------------------------------------------------------------
(* The last owner gone, or create failed before there was a machine.       *)

LOCAL Unowned == \/ lifeMaking = "refused"
                 \/ lifeMaking \in {"joined", "over", "running"} /\ machineOwners = {}

LOCAL CloseKeeps == UNCHANGED <<lifeMaking, vthread, machineOwners, ramUsers, bootSet>> /\ Rigid

DeleteVcpus ==
  /\ Unowned /\ Whp /\ \E c \in AllCpus : vcpuState[c] = "created"
  /\ vcpuState' = [c \in AllCpus |-> IF vcpuState[c] = "created" THEN "gone" ELSE vcpuState[c]]
  /\ UNCHANGED <<partition, mappedRanges, ramState>> /\ CloseKeeps

UnmapRanges ==
  /\ Unowned /\ Whp /\ mappedRanges # {} /\ \A c \in AllCpus : vcpuState[c] # "created"
  /\ mappedRanges' = {}
  /\ UNCHANGED <<partition, vcpuState, ramState>> /\ CloseKeeps

(* The VM's handle is the field before the RAM: closing it takes the       *)
(* mappings along.                                                         *)
ClosePartition ==
  /\ Unowned /\ partition = "open"
  /\ Whp => mappedRanges = {} /\ \A c \in AllCpus : vcpuState[c] # "created"
  /\ partition' = "closed" /\ mappedRanges' = {}
  /\ UNCHANGED <<vcpuState, ramState>> /\ CloseKeeps

FreeRam ==
  /\ Unowned /\ ramState = "live" /\ ramUsers = {} /\ partition # "open"
  /\ ramState' = "freed"
  /\ UNCHANGED <<partition, mappedRanges, vcpuState>> /\ CloseKeeps

LifeNext ==
  \/ Validate \/ AllocateRam \/ CreatePartition \/ ConfigurePartition \/ MapRange \/ SetupIrqchip
  \/ PrepareVcpus \/ CreateVcpuObject \/ SpawnThread \/ SpawnReady
  \/ TakeHandle \/ DropHandle \/ DropDeviceMemory \/ DropCreated \/ ConfigurePlannedBoot \/ StartGroup
  \/ DropGroup \/ DropCreator \/ DeleteVcpus \/ UnmapRanges \/ ClosePartition \/ FreeRam
  \/ \E c \in AllCpus : ThreadSetup(c) \/ ThreadStarts(c) \/ ThreadStops(c) \/ ThreadDropsVcpu(c)
                        \/ ThreadDropsMachine(c)

LifeSpec == LifeInit /\ [][LifeNext]_lifeVars

-----------------------------------------------------------------------------

(* Whatever step fails and however late a thread ends, a vCPU never runs   *)
(* without its partition, its memory and, for the first, its boot          *)
(* registers; a partition never maps memory that was freed; no vCPU        *)
(* outlives its partition; no two vCPUs share an identity; and when nobody *)
(* is left nothing is left (Machine's field order and Drop, the threads'   *)
(* shares of the machine, configure_cpuid).                                *)
MachineOutlivesItsUsers ==
  /\ mappedRanges # {} => partition = "open" /\ ramState = "live"
  /\ Device \in ramUsers => ramState = "live"
  /\ \A c \in AllCpus :
       /\ vcpuState[c] = "created" => partition = "open"
       /\ vthread[c] = "running" =>
            /\ vcpuState[c] = "created" /\ mappedRanges = lifeConfig.ranges
            /\ (c = 0 => bootSet)
            /\ (lifeHost = "whpArm" => RedistributorFits(c))
       /\ \A d \in AllCpus \ {c} :
            ConfigureCpuid(LifeMaxVcpus, c).apicId # ConfigureCpuid(LifeMaxVcpus, d).apicId
       /\ c < 2 ^ ConfigureCpuid(LifeMaxVcpus, c).coreBits
  /\ ~ENABLED LifeNext => /\ partition # "open" /\ ramState # "live"
                          /\ \A c \in AllCpus : vcpuState[c] # "created"
==============================================================================
