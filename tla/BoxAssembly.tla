---------------------------- MODULE BoxAssembly ----------------------------
EXTENDS Integers, Sequences, FiniteSets
LOCAL INSTANCE FiniteSetsExt

(***************************************************************************)
(* The guest machine a box is given: where its RAM lies, and the device    *)
(* table, one entry [kind, base, irq] per virtio device, which the boot    *)
(* component announces to the guest kernel and the runtime maps its device *)
(* workers to (machine.rs, terra-limits).                                  *)
(*                                                                         *)
(* Addresses and sizes are counted in words of 8 bytes: TLC's integers end *)
(* at 2^31 and a guest address does not.  AddressEnd stands for the end of *)
(* the 64-bit address space, past which checked_add fails.                 *)
(***************************************************************************)

CONSTANTS
  X86MaxDevices,      \* X86_MAX_DEVICES
  ArmMaxDevices       \* ARM_MAX_DEVICES

ASSUME DeviceLimits == X86MaxDevices \in Nat /\ ArmMaxDevices \in Nat

AddressEnd == 2^30

X86MmioBase == 13 * 2^25
X86MmioStride == 512
ArmRamBase == 2^27
ArmGic == {[base |-> 2^24, size |-> 8192], [base |-> 2^24 + 81920, size |-> 262144]}
ArmMmioBase == 2^24 + 2^22

(* Half the window the runtime maps.                                       *)
ArmMmioStride == 64
ArmIrqBase == 16
HighRamBase == 2^29
PageWords == 512

(* The two areas KVM keeps for itself and the local and I/O APIC pages.    *)
X86Reserved ==
  {[base |-> 536836096, size |-> PageWords], [base |-> 536836608, size |-> 3 * PageWords],
   [base |-> 534249472, size |-> PageWords], [base |-> 534511616, size |-> PageWords]}

Apart(a, b) == a.base + a.size <= b.base \/ b.base + b.size <= a.base

-----------------------------------------------------------------------------

(* terra_limits: the low region ends where the devices begin, the rest     *)
(* starts at 4 GiB.  The empty sequence is None.                           *)
X86RamLayout(size) ==
  LET low == IF size < X86MmioBase THEN size ELSE X86MmioBase
      high == size - low
  IN IF size = 0 \/ size % PageWords # 0 \/ HighRamBase + high > AddressEnd THEN <<>>
     ELSE IF high = 0 THEN <<[base |-> 0, size |-> low]>>
     ELSE <<[base |-> 0, size |-> low], [base |-> HighRamBase, size |-> high]>>

ArmRamLayout(size) ==
  IF size = 0 \/ size % PageWords # 0 \/ ArmRamBase + size > AddressEnd THEN <<>>
  ELSE <<[base |-> ArmRamBase, size |-> size]>>

RamLayout(arch, size) == IF arch = "x86" THEN X86RamLayout(size) ELSE ArmRamLayout(size)

X86Kind(slot, blocks, shares) ==
  CASE slot < blocks -> "block"
    [] slot = blocks -> "vsock"
    [] slot > blocks /\ slot < blocks + 1 + shares -> "fs"
    [] OTHER -> "memory"

(* Volumes share three lines, and so do mounts.                            *)
X86LayoutIrq(slot, blocks, shares) ==
  CASE X86Kind(slot, blocks, shares) = "block" /\ slot < 2 -> 11 + slot
    [] X86Kind(slot, blocks, shares) = "block" /\ slot >= 2 -> 20 + ((slot - 2) % 3)
    [] X86Kind(slot, blocks, shares) = "vsock" -> 13
    [] X86Kind(slot, blocks, shares) = "fs" -> 17 + ((slot - (blocks + 1)) % 3)
    [] OTHER -> 15

ArmKind(slot, blocks, shares) ==
  CASE slot < blocks -> "block"
    [] slot >= blocks /\ slot < blocks + shares -> "fs"
    [] slot = blocks + shares -> "memory"
    [] OTHER -> "vsock"

(* x86_layout; the empty table is any LayoutError.                         *)
X86Layout(ram, blocks, shares) ==
  IF X86RamLayout(ram) = <<>> \/ blocks + shares + 2 > X86MaxDevices THEN <<>>
  ELSE [k \in 1..(blocks + shares + 2) |->
         [kind |-> X86Kind(k - 1, blocks, shares),
          base |-> X86MmioBase + (k - 1) * X86MmioStride,
          irq |-> X86LayoutIrq(k - 1, blocks, shares)]]

ArmLayout(ram, blocks, shares) ==
  IF ArmRamLayout(ram) = <<>> \/ blocks + shares + 2 > ArmMaxDevices THEN <<>>
  ELSE [k \in 1..(blocks + shares + 2) |->
         [kind |-> ArmKind(k - 1, blocks, shares),
          base |-> ArmMmioBase + (k - 1) * ArmMmioStride,
          irq |-> ArmIrqBase + (k - 1)]]

BuildMachineLayout(arch, ram, blocks, shares) ==
  IF arch = "x86" THEN X86Layout(ram, blocks, shares) ELSE ArmLayout(ram, blocks, shares)

(* MachineConfig::new, given the architecture's limit on vCPUs.            *)
ConfigIsGranted(arch, ram, vcpus, devices, maxVcpus) ==
  /\ vcpus \in 1..maxVcpus
  /\ ram # 0 /\ ram % PageWords = 0
  /\ Len(devices) <= IF arch = "x86" THEN X86MaxDevices ELSE ArmMaxDevices

(* The slots of the devices of a kind, and the ordinal-th of them; 0 is    *)
(* "interrupt device outside VM grant".                                    *)
SlotsOf(devices, kind) == {k \in 1..Len(devices) : devices[k].kind = kind}

FindDevice(devices, kind, ordinal) ==
  LET found == {k \in SlotsOf(devices, kind) :
                  Cardinality({j \in SlotsOf(devices, kind) : j < k}) = ordinal}
  IN IF found = {} THEN 0 ELSE CHOOSE k \in found : TRUE

(* The register window the runtime maps for a device of the table.         *)
WindowOf(arch, device) ==
  [base |-> device.base, size |-> IF arch = "x86" THEN 512 ELSE 64]

------------------------------------------------------------------------------
(***************************************************************************)
(* How a guest is put into its RAM before the first instruction: the boot  *)
(* component plans kernel segments and boot data from the head of the      *)
(* kernel image (components/boot), and the runtime validates the plan,     *)
(* copies piece by piece and accepts the entry point (vmm/boot.rs,         *)
(* PreparedMachine::accept_boot).                                          *)
(*                                                                         *)
(* A kernel is its headers: for x86 the entry and the program headers, for *)
(* ARM the text offset and the image size.  Addresses are words of 8 bytes *)
(* (see the layout), so alignment below a word is left out.                *)
(***************************************************************************)

CONSTANTS
  Machines,           \* the boots tried: machine, kernel and command line
  CopyWords,          \* MAX_SINGLE_GUEST_COPY_BYTES
  MaxKernelWords,     \* MAX_BOOT_KERNEL_BYTES
  PrefixWords,        \* MAX_BOOT_KERNEL_PREFIX_BYTES
  BootMaxSegments,        \* MAX_BOOT_KERNEL_SEGMENTS
  BootMaxVcpus            \* X86_MAX_VCPUS, ARM_MAX_VCPUS

VARIABLES
  bootInput,          \* the boot under way, one of Machines; never changes
  bootStage,          \* "stage", "validate", "copy", "accept", "accepted", "failed"
  bootPlan,           \* the plan the component returned
  planPart,           \* the part of the plan being copied
  partCopied,         \* words of that part already copied
  guestRam            \* the writes made: [base, size, part, from]

bootVars == <<bootInput, bootStage, bootPlan, planPart, partCopied, guestRam>>

HimemStart == 131072
CommandLineAddress == 16384
MpTableAddress == 81792
ZeroPage == 3584
Pml4 == 4608
Pdpt == 5120
PageDirectory == 5632
GdtAddress == 160
StackTop == 4606
FdtAlignment == 262144
MaxWriteWords == 262144
MaxWrites == 16
MaxCommandLine == 2048

LOCAL NoPlan == [segments |-> <<>>, writes |-> <<>>, entry |-> 0, argument |-> 0]
LOCAL Words(bytes) == (bytes + 7) \div 8
LOCAL Fits(base, size) == base + size <= AddressEnd
LOCAL Holds(regions, r) ==
  \E k \in DOMAIN regions : /\ regions[k].base <= r.base
                            /\ r.base + r.size <= regions[k].base + regions[k].size

-----------------------------------------------------------------------------
(* The boot component.                                                     *)

RangeInRegions(base, size, regions) ==
  Fits(base, size) /\ Holds(regions, [base |-> base, size |-> size])

CheckedSource(kernelWords, offset, len) == Fits(offset, len) /\ offset + len <= kernelWords

ValidateKernelPrefix(kernel) ==
  /\ kernel.prefix <= PrefixWords
  /\ kernel.words <= MaxKernelWords
  /\ kernel.words >= kernel.prefix

(* Length of the command line with " virtio_mmio.device=0x200@BASE:IRQ"    *)
(* for every device; MaxCommandLine or more is an error.                   *)
CommandLine(given, devices) == given + 39 * Len(devices)

X86Irq(kind, ordinal) ==
  CASE kind = "block" /\ ordinal = 0 -> 11
    [] kind = "block" /\ ordinal = 1 -> 12
    [] kind = "block" /\ ordinal >= 2 -> 20 + ((ordinal - 2) % 3)
    [] kind = "vsock" -> 13
    [] kind = "fs" -> 17 + (ordinal % 3)
    [] OTHER -> 15

X86Rank(kind) == [block |-> 0, vsock |-> 1, fs |-> 2, memory |-> 3][kind]
ArmRank(kind) == [block |-> 0, fs |-> 1, memory |-> 2, vsock |-> 3][kind]

ValidateDeviceOrder(devices, Rank(_)) ==
  /\ \A k \in 1..(Len(devices) - 1) : Rank(devices[k].kind) <= Rank(devices[k + 1].kind)
  /\ Cardinality(SlotsOf(devices, "vsock")) = 1
  /\ Cardinality(SlotsOf(devices, "memory")) = 1

ValidateX86Devices(devices) ==
  /\ Len(devices) <= X86MaxDevices
  /\ ValidateDeviceOrder(devices, X86Rank)
  /\ \A k \in 1..Len(devices) :
       LET ordinal == Cardinality({j \in SlotsOf(devices, devices[k].kind) : j < k})
       IN /\ devices[k].base = X86MmioBase + (k - 1) * X86MmioStride
          /\ devices[k].irq = X86Irq(devices[k].kind, ordinal)

ValidateArmDevices(devices) ==
  /\ Len(devices) <= ArmMaxDevices
  /\ ValidateDeviceOrder(devices, ArmRank)
  /\ \A k \in 1..Len(devices) : /\ devices[k].base = ArmMmioBase + (k - 1) * ArmMmioStride
                                /\ devices[k].irq = ArmIrqBase + (k - 1)

(* The memory map of the zero page: all of RAM but the MP table's page and *)
(* the BIOS area behind it.                                                *)
E820(regions) ==
  <<[base |-> regions[1].base, size |-> MpTableAddress - regions[1].base],
    [base |-> HimemStart, size |-> regions[1].base + regions[1].size - HimemStart]>>
  \o SubSeq(regions, 2, Len(regions))

X86PageTables ==
  <<[base |-> GdtAddress + 1, size |-> 2],
    [base |-> Pml4, size |-> PageWords],
    [base |-> Pdpt, size |-> PageWords]>>
  \o [d \in 1..4 |-> [base |-> PageDirectory + (d - 1) * PageWords, size |-> PageWords]]

(* One entry per vCPU, one for each of the 24 interrupt pins.              *)
MpTableBytes(vcpus) == 284 + 20 * vcpus

ValidateX86Writes(writes, low) ==
  /\ \A k \in DOMAIN writes : RangeInRegions(writes[k].base, writes[k].size, low)
  /\ RangeInRegions(StackTop - PageWords, PageWords, low)

(* The loadable program headers, in file order.                            *)
LoadSegments(kernel) == SelectSeq(kernel.headers, LAMBDA h : h.load /\ h.file # 0)

SegmentIsSound(h, kernel, low) ==
  /\ h.addr >= HimemStart /\ h.mem >= h.file
  /\ CheckedSource(kernel.words, h.off, h.file)
  /\ RangeInRegions(h.addr, h.mem, low)

EntryIsLoaded(entry, segments) ==
  \E k \in DOMAIN segments : /\ Fits(segments[k].addr, segments[k].mem)
                             /\ segments[k].addr <= entry
                             /\ entry < segments[k].addr + segments[k].mem

(* A planner that forgets to compare.                                      *)
SegmentsOverlapCheck(segments) ==
  \A j, k \in DOMAIN segments :
    j < k => ~(/\ segments[j].addr < segments[k].addr + segments[k].mem
               /\ segments[k].addr < segments[j].addr + segments[j].mem)

KernelHeaderIsX86(kernel) == kernel.prefix >= 8 /\ kernel.format = "elf64"

X86Writes(regions, vcpus, commandLine) ==
  X86PageTables
  \o <<[base |-> CommandLineAddress, size |-> Words(commandLine + 1)],
       [base |-> ZeroPage, size |-> PageWords],
       [base |-> MpTableAddress, size |-> Words(MpTableBytes(vcpus))]>>

(* plan_x86; NoPlan is an error.                                           *)
PlanX86(kernel, ram, vcpus, given, devices) ==
  LET regions == X86RamLayout(ram)
      low == SubSeq(regions, 1, 1)
      segments == LoadSegments(kernel)
      line == CommandLine(given, devices)
      writes == X86Writes(regions, vcpus, line)
  IN IF /\ regions # <<>>
        /\ ValidateKernelPrefix(kernel) /\ ValidateX86Devices(devices)
        /\ KernelHeaderIsX86(kernel)
        /\ \A k \in DOMAIN segments : SegmentIsSound(segments[k], kernel, low)
        /\ EntryIsLoaded(kernel.entry, segments)
        /\ SegmentsOverlapCheck(segments)
        /\ line < MaxCommandLine
        /\ vcpus \in 1..BootMaxVcpus
        /\ ValidateX86Writes(writes, low)
     THEN [segments |-> segments, writes |-> writes, entry |-> kernel.entry,
           argument |-> ZeroPage]
     ELSE NoPlan

(* The device tree lies in the last aligned two MiB that fit whole.        *)
FdtAddress(ram) == ((ArmRamBase + ram - FdtAlignment) \div FdtAlignment) * FdtAlignment

PlanArm(kernel, ram, vcpus, given, devices) ==
  LET address == ArmRamBase + kernel.entry
  IN IF /\ ArmRamLayout(ram) # <<>> /\ ram >= FdtAlignment
        /\ vcpus \in 1..BootMaxVcpus
        /\ ValidateKernelPrefix(kernel) /\ ValidateArmDevices(devices)
        /\ kernel.prefix >= 8 /\ kernel.format = "arm64"
        /\ kernel.mem # 0 /\ kernel.mem >= kernel.words
        /\ Fits(address, kernel.mem) /\ address + kernel.mem <= FdtAddress(ram)
        /\ CommandLine(given, <<>>) < MaxCommandLine
        /\ kernel.fdt <= MaxWriteWords
     THEN [segments |-> <<[off |-> 0, addr |-> address, file |-> kernel.words,
                           mem |-> kernel.mem, load |-> TRUE]>>,
           writes |-> <<[base |-> FdtAddress(ram), size |-> kernel.fdt]>>,
           entry |-> address, argument |-> FdtAddress(ram)]
     ELSE NoPlan

-----------------------------------------------------------------------------
(* The runtime.                                                            *)

BootRegions == RamLayout(bootInput.arch, bootInput.ram)
InRam(base, size) == Fits(base, size) /\ Holds(BootRegions, [base |-> base, size |-> size])

LOCAL FileWords(segments) == MapThenSumSet(LAMBDA k : segments[k].file, DOMAIN segments)

(* validate_plan.  The copy budget is checked after every segment; as the  *)
(* lengths only add up, the last sum decides.                              *)
ValidatePlan(p, kernelWords) ==
  /\ Len(p.segments) \in 1..BootMaxSegments
  /\ Len(p.writes) <= MaxWrites
  /\ \A k \in DOMAIN p.segments :
       /\ p.segments[k].file <= p.segments[k].mem
       /\ CheckedSource(kernelWords, p.segments[k].off, p.segments[k].file)
       /\ InRam(p.segments[k].addr, p.segments[k].mem)
  /\ FileWords(p.segments) <= kernelWords
  /\ \A k \in DOMAIN p.writes : /\ p.writes[k].size <= MaxWriteWords
                                /\ InRam(p.writes[k].base, p.writes[k].size)
  /\ EntryIsLoaded(p.entry, p.segments)
  /\ InRam(p.argument, 1)

BootInit ==
  /\ bootInput \in Machines
  /\ bootStage = "stage" /\ bootPlan = NoPlan /\ planPart = 1 /\ partCopied = 0 /\ guestRam = {}

(* boot_prepared_machine up to the component's answer, which may also not  *)
(* come in time.                                                           *)
StageBoot ==
  /\ bootStage = "stage"
  /\ LET devices == BuildMachineLayout(bootInput.arch, bootInput.ram, bootInput.blocks, bootInput.shares)
         staged == IF \/ devices = <<>>
                      \/ ~ConfigIsGranted(bootInput.arch, bootInput.ram, bootInput.vcpus, devices, BootMaxVcpus)
                      \/ bootInput.kernel.words \notin 1..MaxKernelWords
                      \/ bootInput.line > MaxCommandLine
                   THEN NoPlan
                   ELSE IF bootInput.arch = "x86"
                        THEN PlanX86(bootInput.kernel, bootInput.ram, bootInput.vcpus, bootInput.line, devices)
                        ELSE PlanArm(bootInput.kernel, bootInput.ram, bootInput.vcpus, bootInput.line, devices)
     IN bootPlan' = staged
  /\ bootStage' = IF bootPlan' = NoPlan THEN "failed" ELSE "validate"
  /\ UNCHANGED <<bootInput, planPart, partCopied, guestRam>>

ValidateBoot ==
  /\ bootStage = "validate"
  /\ bootStage' = IF ValidatePlan(bootPlan, bootInput.kernel.words) THEN "copy" ELSE "failed"
  /\ UNCHANGED <<bootInput, bootPlan, planPart, partCopied, guestRam>>

(* One piece of a segment: read from the image, then written.              *)
CopyPiece ==
  /\ bootStage = "copy" /\ planPart <= Len(bootPlan.segments)
  /\ LET s == bootPlan.segments[planPart]
         len == IF s.file - partCopied < CopyWords THEN s.file - partCopied ELSE CopyWords
     IN IF partCopied = s.file
        THEN /\ planPart' = planPart + 1 /\ partCopied' = 0
             /\ UNCHANGED guestRam
        ELSE /\ guestRam' = guestRam \cup
                  {[base |-> s.addr + partCopied, size |-> len, part |-> planPart, from |-> s.off + partCopied]}
             /\ partCopied' = partCopied + len
             /\ UNCHANGED planPart
  /\ UNCHANGED <<bootInput, bootStage, bootPlan>>

WriteBootBytes ==
  /\ bootStage = "copy" /\ planPart > Len(bootPlan.segments)
  /\ LET k == planPart - Len(bootPlan.segments)
     IN IF k > Len(bootPlan.writes)
        THEN /\ bootStage' = "accept"
             /\ UNCHANGED <<planPart, guestRam>>
        ELSE /\ guestRam' = guestRam \cup
                  {[base |-> bootPlan.writes[k].base, size |-> bootPlan.writes[k].size,
                    part |-> planPart, from |-> 0]}
             /\ planPart' = planPart + 1
             /\ UNCHANGED bootStage
  /\ UNCHANGED <<bootInput, bootPlan, partCopied>>

(* accept_boot.                                                            *)
AcceptBoot ==
  /\ bootStage = "accept"
  /\ LET ok == /\ IF bootInput.arch = "x86"
                  THEN /\ bootPlan.argument = ZeroPage
                       /\ bootPlan.entry >= HimemStart /\ bootPlan.entry < X86MmioBase
                  ELSE bootPlan.argument % FdtAlignment = 0
               /\ InRam(bootPlan.entry, 1) /\ InRam(bootPlan.argument, 1)
     IN bootStage' = IF ok THEN "accepted" ELSE "failed"
  /\ UNCHANGED <<bootInput, bootPlan, planPart, partCopied, guestRam>>

(* The image cannot be read, or the component does not answer in time.     *)
BootFails ==
  /\ bootStage \in {"stage", "copy"}
  /\ bootStage' = "failed"
  /\ UNCHANGED <<bootInput, bootPlan, planPart, partCopied, guestRam>>

BootNext == StageBoot \/ ValidateBoot \/ CopyPiece \/ WriteBootBytes \/ AcceptBoot \/ BootFails

BootSpec == BootInit /\ [][BootNext]_bootVars

-----------------------------------------------------------------------------

LOCAL Parts ==
  {[base |-> bootPlan.segments[k].addr, size |-> bootPlan.segments[k].mem] : k \in DOMAIN bootPlan.segments}
  \cup {bootPlan.writes[k] : k \in DOMAIN bootPlan.writes}

LOCAL Table == BuildMachineLayout(bootInput.arch, bootInput.ram, bootInput.blocks, bootInput.shares)

LOCAL Fixed == IF bootInput.arch = "x86" THEN X86Reserved ELSE ArmGic

(* A guest that is entered finds its memory as planned: no part of the     *)
(* plan overwrote another or lies outside RAM, every kernel word was read  *)
(* from its own place in the image (apply_plan's pieces), the entry is     *)
(* kernel code, the boot argument is boot data, and the kernel is told to  *)
(* leave the MP table alone (plan_x86, plan_arm, validate_plan).           *)
BootMemoryIsAsPlanned ==
  bootStage = "accepted" =>
    /\ Cardinality(Parts) = Len(bootPlan.segments) + Len(bootPlan.writes)
    /\ \A a, b \in Parts : a # b => Apart(a, b)
    /\ \A a \in Parts : Holds(BootRegions, a)
    /\ \A k \in DOMAIN bootPlan.segments :
         LET s == bootPlan.segments[k]
             pieces == {w \in guestRam : w.part = k}
         IN /\ \A w \in pieces : w.base - s.addr = w.from - s.off
            /\ MapThenSumSet(LAMBDA w : w.size, pieces) = s.file
            /\ \A v, w \in pieces : v # w => Apart(v, w)
    /\ \E k \in DOMAIN bootPlan.segments :
         bootPlan.entry \in bootPlan.segments[k].addr..(bootPlan.segments[k].addr + bootPlan.segments[k].mem - 1)
    /\ \E k \in DOMAIN bootPlan.writes : bootPlan.writes[k].base = bootPlan.argument
    /\ bootInput.arch = "x86" =>
         \A k \in DOMAIN E820(BootRegions) :
           LET e == E820(BootRegions)[k] IN /\ e.size > 0
                                            /\ Holds(BootRegions, e)
                                            /\ Apart(e, bootPlan.writes[10])

(* The device table announced to an accepted guest is sound: windows do    *)
(* not meet each other, RAM or the machine's own registers, and only the   *)
(* volumes and the mounts of an x86 box share interrupt lines, each among  *)
(* themselves (x86_layout, arm_layout, terra_limits).                      *)
DevicesAreApart ==
  bootStage = "accepted" =>
    /\ \A j, k \in DOMAIN Table :
         j # k => /\ Apart(WindowOf(bootInput.arch, Table[j]), WindowOf(bootInput.arch, Table[k]))
                  /\ Table[j].irq = Table[k].irq =>
                       /\ bootInput.arch = "x86" /\ Table[j].kind = Table[k].kind
                       /\ Table[j].kind \in {"block", "fs"}
                       /\ Table[j].kind = "block" => j > 2 /\ k > 2
    /\ \A k \in DOMAIN Table :
         LET window == WindowOf(bootInput.arch, Table[k])
         IN /\ \A r \in DOMAIN BootRegions : Apart(window, BootRegions[r])
            /\ \A r \in Fixed : Apart(window, r)

------------------------------------------------------------------------------
(***************************************************************************)
(* How a VM process puts a box together before its vCPUs run               *)
(* (orchestration::prepare): the machine layout, the native VM, the boot,  *)
(* the interrupt controller, a worker grant for every device and the       *)
(* agent, their setup in slot order, the published registry, the vCPUs.    *)
(* Any step may fail; what was granted by then is left to the native       *)
(* teardown when the runtime is dropped (RootHost::retire).                *)
(*                                                                         *)
(* Grants are registered blocks first, then shares, memory and vsock,      *)
(* while the device table of the guest has an order of its own             *)
(* (see the layout): a registration finds its window and its interrupt by  *)
(* kind and ordinal.                                                       *)
(***************************************************************************)

CONSTANTS
  Boxes               \* the boxes assembled

VARIABLES
  box,                \* the box, one of Boxes; never changes
  stage,              \* where prepare stands
  asmTodo,               \* the grants still to make, in order
  registered,         \* device_plan: registrations [kind, window, irq]
  channels,           \* devices set up so far
  registry,           \* the published device registry
  workers,            \* workers attached (each runs one loop)
  controller,         \* an interrupt controller worker is attached
  agent,              \* "none", "granted", "attached"
  grants,             \* the teardown's grants: [machine, devices, interrupts]
  teardown,           \* the native teardown was started
  machine,            \* "detached", "bootReady", "running"
  limited             \* a limit of the box itself refused something

asmVars == <<box, stage, asmTodo, registered, channels, registry, workers, controller, agent,
             grants, teardown, machine, limited>>

MaxBoxComponents == IF X86MaxDevices > ArmMaxDevices THEN X86MaxDevices ELSE ArmMaxDevices
MaxWorkers == MaxBoxComponents + 3
LOCAL MaxVcpus == 2
MaxLoops == MaxBoxComponents * 3 + MaxVcpus + 3

NoGrants == [machine |-> FALSE, devices |-> 0, interrupts |-> FALSE]

AsmInit ==
  /\ box \in Boxes
  /\ stage = "layout" /\ asmTodo = <<>> /\ registered = <<>> /\ channels = 0
  /\ registry = <<>> /\ workers = 0 /\ controller = FALSE /\ agent = "none"
  /\ grants = NoGrants /\ teardown = FALSE /\ machine = "detached" /\ limited = FALSE

DeviceTable == BuildMachineLayout(box.arch, box.ram, box.blocks, box.shares)

(* box_disks and assemble_devices: the boot disk, the root and the volumes,*)
(* then the shares, memory, the agent, vsock.                              *)
GrantOrder ==
  [k \in 1..box.blocks |-> "block"] \o [k \in 1..box.shares |-> "fs"]
  \o <<"memory", "agent", "vsock">>

Fail == stage' = "failed"

-----------------------------------------------------------------------------

(* The layout, the publications and the configuration are checked before   *)
(* anything native exists.                                                 *)
CheckInput ==
  /\ stage = "layout"
  /\ stage' = IF \/ DeviceTable = <<>>
                 \/ ~box.online /\ box.ports
                 \/ ~ConfigIsGranted(box.arch, box.ram, box.vcpus, DeviceTable, MaxVcpus)
              THEN "failed" ELSE "native"
  /\ UNCHANGED <<box, asmTodo, registered, channels, registry, workers, controller, agent,
                 grants, teardown, machine, limited>>

(* vm::PreparedVm::create, create_runtime, then the boot plan above.       *)
CreateNative ==
  /\ stage = "native"
  /\ stage' \in {"attach", "failed"}
  /\ UNCHANGED <<box, asmTodo, registered, channels, registry, workers, controller, agent,
                 grants, teardown, machine, limited>>

(* attach_machine: the state is BootReady before the component initializes *)
(* the machine, which may fail or time out.                                *)
AttachMachine ==
  /\ stage = "attach"
  /\ machine' = "bootReady"
  /\ stage' \in {IF box.arch = "x86" THEN "controller" ELSE "devices", "failed"}
  /\ asmTodo' = GrantOrder
  /\ UNCHANGED <<box, registered, channels, registry, workers, controller, agent, grants,
                 teardown, limited>>

(* attach_worker; every worker registers one loop.                         *)
WorkerFits == workers < MaxWorkers /\ workers + 1 <= MaxLoops

(* grant_ioapic or grant_irq_lines.                                        *)
GrantController ==
  /\ stage = "controller"
  /\ \/ /\ WorkerFits
        /\ workers' = workers + 1 /\ controller' = TRUE /\ stage' = "devices"
        /\ UNCHANGED limited
     \/ /\ Fail /\ limited' = ~WorkerFits
        /\ UNCHANGED <<workers, controller>>
  /\ UNCHANGED <<box, asmTodo, registered, channels, registry, agent, grants, teardown, machine>>

(* Workers and device plans, the interrupt controller's worker not counted.*)
ComponentCount == workers - (IF controller THEN 1 ELSE 0) + Len(registered)

(* install_device: the agent has a shutdown too.                           *)
ShutdownFits == grants.devices < MaxBoxComponents + 1

(* A quarter of the handles is left to the rest of the process.            *)
FilesystemCapacity(limit, shares) ==
  (((IF limit > 128 THEN limit - 128 ELSE 0) \div 4) * 3) \div shares

AsmMaxNodes(limit, shares) ==
  LET capacity == FilesystemCapacity(limit, shares)
  IN (IF capacity > 16 THEN capacity - 16 ELSE 0) \div 2

OrdinalOf(kind) == Cardinality({k \in DOMAIN registered : registered[k].kind = kind})

(* A registration that takes the table's entry of its own slot.            *)
(* MmioDevice::grant_worker and bind_interrupt: the n-th registration of a *)
(* kind is the n-th device of that kind in the table.                      *)
Registration(kind) ==
  LET slot == FindDevice(DeviceTable, kind, OrdinalOf(kind))
  IN [kind |-> kind, window |-> WindowOf(box.arch, DeviceTable[slot]),
      irq |-> DeviceTable[slot].irq]

(* grant_device_setup: a device whose shutdown cannot be installed is      *)
(* taken out of the plan again (revoke_worker); the disk, the component or *)
(* one of the checks may fail too.                                         *)
GrantDevice(kind, usable) ==
  /\ stage = "devices" /\ asmTodo # <<>> /\ Head(asmTodo) = kind
  /\ LET fits == ComponentCount < MaxBoxComponents
         ready == /\ fits /\ ShutdownFits /\ usable
                  /\ FindDevice(DeviceTable, kind, OrdinalOf(kind)) # 0
     IN \/ /\ ready
           /\ registered' = Append(registered, Registration(kind))
           /\ grants' = [grants EXCEPT !.devices = @ + 1]
           /\ asmTodo' = Tail(asmTodo)
           /\ UNCHANGED <<stage, limited>>
        \/ /\ Fail /\ limited' = ~(fits /\ ShutdownFits)
           /\ UNCHANGED <<registered, grants, asmTodo>>
  /\ UNCHANGED <<box, channels, registry, workers, controller, agent, teardown, machine>>

(* The root, the data disk and the volumes.                                *)
GrantBlock == GrantDevice("block", TRUE)

(* A share gets its part of the handles, which must leave it some nodes.   *)
GrantFilesystem == GrantDevice("fs", AsmMaxNodes(box.files, box.shares) # 0)

GrantMemory == GrantDevice("memory", TRUE)

GrantVsock == GrantDevice("vsock", TRUE)

(* Agent::from_trusted_artifact.                                           *)
GrantAgent ==
  /\ stage = "devices" /\ asmTodo # <<>> /\ Head(asmTodo) = "agent"
  /\ \/ /\ agent = "none"
        /\ agent' = "granted" /\ asmTodo' = Tail(asmTodo)
        /\ IF ShutdownFits
           THEN /\ grants' = [grants EXCEPT !.devices = @ + 1]
                /\ UNCHANGED <<stage, limited>>
           ELSE /\ Fail /\ limited' = TRUE
                /\ UNCHANGED grants
     \/ /\ Fail
        /\ UNCHANGED <<agent, grants, limited, asmTodo>>
  /\ UNCHANGED <<box, registered, channels, registry, workers, controller, teardown, machine>>

GrantInterruptShutdown ==
  /\ stage = "devices" /\ asmTodo = <<>>
  /\ grants' = [grants EXCEPT !.interrupts = TRUE]
  /\ stage' = "setup"
  /\ UNCHANGED <<box, asmTodo, registered, channels, registry, workers, controller, agent,
                 teardown, machine, limited>>

-----------------------------------------------------------------------------

(* prepare_devices: the agent first; it may fail or time out.              *)
SetUpAgent ==
  /\ stage = "setup" /\ agent = "granted"
  /\ \/ /\ WorkerFits
        /\ agent' = "attached" /\ workers' = workers + 1
        /\ UNCHANGED <<stage, limited>>
     \/ /\ Fail /\ limited' = ~WorkerFits
        /\ UNCHANGED <<agent, workers>>
  /\ UNCHANGED <<box, asmTodo, registered, channels, registry, controller, grants, teardown,
                 machine>>

(* Then each device in slot order, its window against the earlier ones.    *)
SetUpDevice ==
  /\ stage = "setup" /\ agent # "granted" /\ channels < Len(registered)
  /\ LET slot == channels + 1
         mapped == \A k \in 1..channels : Apart(registered[slot].window, registered[k].window)
     IN \/ /\ mapped /\ WorkerFits
           /\ channels' = slot /\ workers' = workers + 1
           /\ UNCHANGED <<stage, limited>>
        \/ /\ Fail /\ limited' = (~WorkerFits \/ ~mapped)
           /\ UNCHANGED <<channels, workers>>
  /\ UNCHANGED <<box, asmTodo, registered, registry, controller, agent, grants, teardown, machine>>

(* The registry is set once, when every channel is there.                  *)
PublishRegistry ==
  /\ stage = "setup" /\ agent # "granted" /\ channels = Len(registered)
  /\ registry' = registered /\ stage' = "start"
  /\ UNCHANGED <<box, asmTodo, registered, channels, workers, controller, agent, grants,
                 teardown, machine, limited>>

(* A start that does not tell the teardown.                                *)
(* start_native_vcpus: from here the teardown can stop the machine.        *)
StartVcpus ==
  /\ stage = "start" /\ machine = "bootReady"
  /\ \/ /\ grants' = [grants EXCEPT !.machine = TRUE]
        /\ machine' = "running" /\ stage' = "finish"
     \/ /\ machine' = "detached" /\ Fail
        /\ UNCHANGED grants
  /\ UNCHANGED <<box, asmTodo, registered, channels, registry, workers, controller, agent,
                 teardown, limited>>

(* finish: the lifecycle loop and the MMIO bridge's loop.                  *)
FinishPreparation ==
  /\ stage = "finish"
  /\ IF workers + 2 <= MaxLoops THEN stage' = "ready" /\ UNCHANGED limited
     ELSE Fail /\ limited' = TRUE
  /\ UNCHANGED <<box, asmTodo, registered, channels, registry, workers, controller, agent,
                 grants, teardown, machine>>

(* The VM process may be stopped between preparation and run; either way   *)
(* the runtime is dropped: RootHost::retire starts the teardown if it has  *)
(* work.                                                                   *)
DropRuntime ==
  /\ stage \in {"failed", "ready"}
  /\ teardown' = (grants # NoGrants)
  /\ stage' = "dropped"
  /\ UNCHANGED <<box, asmTodo, registered, channels, registry, workers, controller, agent,
                 grants, machine, limited>>

AsmNext ==
  \/ CheckInput \/ CreateNative \/ AttachMachine \/ GrantController
  \/ GrantBlock \/ GrantFilesystem \/ GrantMemory \/ GrantVsock
  \/ GrantAgent \/ GrantInterruptShutdown
  \/ SetUpAgent \/ SetUpDevice \/ PublishRegistry
  \/ StartVcpus \/ FinishPreparation \/ DropRuntime

AsmSpec == AsmInit /\ [][AsmNext]_asmVars

-----------------------------------------------------------------------------

(* When the vCPUs run, the guest finds the machine it was told about: the  *)
(* published registry has one device for every entry of the table, of its  *)
(* kind, at its window and on its interrupt, and every registered device   *)
(* and the agent has been set up (grant_worker, prepare_devices,           *)
(* start_native_vcpus).  And a box whose layout was accepted never meets a *)
(* limit on its components, workers, loops or shutdowns.                   *)
AssembledAsLaidOut ==
  /\ machine = "running" =>
       /\ Len(registry) = Len(DeviceTable)
       /\ \A k \in DOMAIN DeviceTable :
            \E j \in DOMAIN registry :
              registry[j] = [kind |-> DeviceTable[k].kind,
                             window |-> WindowOf(box.arch, DeviceTable[k]),
                             irq |-> DeviceTable[k].irq]
       /\ workers = Len(DeviceTable) + 1 + (IF box.arch = "x86" THEN 1 ELSE 0)
       /\ agent = "attached" /\ channels = Len(registry)
  /\ ~limited

(* Nothing that was granted is forgotten: every device in the plan and the *)
(* agent has its shutdown with the teardown, vCPUs that run can be stopped *)
(* by it, and a dropped runtime with any grant has started it              *)
(* (grant_device_setup, start_native_vcpus, RootHost::retire).             *)
GrantsAreTornDown ==
  /\ grants.devices = Len(registered) + (IF agent = "none" THEN 0 ELSE 1)
  /\ machine = "running" => grants.machine
  /\ stage = "dropped" /\ (registered # <<>> \/ machine = "running") => teardown

------------------------------------------------------------------------------
(***************************************************************************)
(* The linear memory a component store may use (StoreState as wasmtime's   *)
(* ResourceLimiter).  The engine asks before a memory grows, and reports a *)
(* growth it was allowed but could not make; it may also report a failure  *)
(* after a refusal.  A store has several memories and one limit.           *)
(***************************************************************************)

CONSTANTS
  Memories,           \* the memories of a store
  ComponentLimit,     \* component_bytes
  NetworkLimit,       \* network_bytes, at least ComponentLimit
  MaxPages            \* the largest size a memory asks for

ASSUME LimitsAssumption == ComponentLimit \in Nat /\ NetworkLimit >= ComponentLimit

VARIABLES
  pages,              \* the real size of every memory
  charged,            \* wasm_memory_bytes
  pendingGrowth,      \* pending_memory_growth
  limit,              \* component_memory_limit
  storeAsked               \* the engine's growth under way: [memory, to, answer]

storeVars == <<pages, charged, pendingGrowth, limit, storeAsked>>

NoGrowth == [memory |-> "none", to |-> 0, answer |-> FALSE]

StoreInit ==
  /\ pages = [m \in Memories |-> 0]
  /\ charged = 0 /\ pendingGrowth = 0 /\ limit = ComponentLimit /\ storeAsked = NoGrowth

(* A store of the network frontend gets its limit before anything runs.    *)
UseNetworkMemoryLimit ==
  /\ charged = 0 /\ storeAsked = NoGrowth
  /\ limit' = NetworkLimit
  /\ UNCHANGED <<pages, charged, pendingGrowth, storeAsked>>

(* A growth that keeps the amount of the one before.                       *)
GrowingKeepsPending(m, desired) ==
  /\ storeAsked = NoGrowth
  /\ LET fits == desired >= pages[m] /\ charged + (desired - pages[m]) <= limit
     IN /\ charged' = IF fits THEN charged + (desired - pages[m]) ELSE charged
        /\ pendingGrowth' = IF fits THEN desired - pages[m] ELSE pendingGrowth
        /\ storeAsked' = [memory |-> m, to |-> desired, answer |-> fits]
  /\ UNCHANGED <<pages, limit>>

(* memory_growing.                                                         *)
MemoryGrowing(m, desired) ==
  /\ storeAsked = NoGrowth
  /\ LET fits == desired >= pages[m] /\ charged + (desired - pages[m]) <= limit
     IN /\ charged' = IF fits THEN charged + (desired - pages[m]) ELSE charged
        /\ pendingGrowth' = IF fits THEN desired - pages[m] ELSE 0
        /\ storeAsked' = [memory |-> m, to |-> desired, answer |-> fits]
  /\ UNCHANGED <<pages, limit>>

(* The engine maps the memory, which the store is not told (external).     *)
EngineGrows ==
  /\ storeAsked.answer
  /\ pages' = [pages EXCEPT ![storeAsked.memory] = storeAsked.to]
  /\ storeAsked' = NoGrowth
  /\ UNCHANGED <<charged, pendingGrowth, limit>>

(* The engine gives a refused growth up without a word (external).         *)
EngineGivesUp ==
  /\ storeAsked # NoGrowth /\ ~storeAsked.answer
  /\ storeAsked' = NoGrowth
  /\ UNCHANGED <<pages, charged, pendingGrowth, limit>>

(* memory_grow_failed.                                                     *)
MemoryGrowFailed ==
  /\ storeAsked # NoGrowth
  /\ charged' = IF charged > pendingGrowth THEN charged - pendingGrowth ELSE 0
  /\ pendingGrowth' = 0 /\ storeAsked' = NoGrowth
  /\ UNCHANGED <<pages, limit>>

StoreNext ==
  \/ UseNetworkMemoryLimit
  \/ \E m \in Memories, n \in 0..MaxPages : MemoryGrowing(m, n)
  \/ EngineGrows \/ EngineGivesUp \/ MemoryGrowFailed

StoreSpec == StoreInit /\ [][StoreNext]_storeVars

(* What a store is charged is what its memories really have, at every      *)
(* moment no growth is under way, whatever growths were refused or failed  *)
(* before, and it stays within the limit (memory_growing,                  *)
(* memory_grow_failed).                                                    *)
MemoryIsCharged ==
  /\ charged <= limit
  /\ storeAsked = NoGrowth => charged = MapThenSumSet(LAMBDA m : pages[m], Memories)
==============================================================================
