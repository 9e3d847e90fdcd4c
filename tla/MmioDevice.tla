----------------------------- MODULE MmioDevice -----------------------------
(***************************************************************************)
(* A device component around its register file: the guest's register       *)
(* writes, the completions the device signals, the host's reset and close, *)
(* and the interrupt line the component publishes to the host.             *)
(*                                                                         *)
(* Every access runs inside state() of the device's transport.rs, which    *)
(* holds the device lock and publishes the line on its way out when        *)
(* take_irq says that it moved.  One access is therefore one step.         *)
(***************************************************************************)
EXTENDS MmioTransport

CONSTANT GuestWords,     \* the values the guest writes to a register half
         GuestSizes      \* the ring sizes it asks for

ASSUME GuestAssumption == GuestWords \subseteq Word32 /\ GuestSizes \subseteq Nat

VARIABLES mmio,          \* the register file
          line,          \* the interrupt line as the host last heard it
          closed         \* the host closed the device

vars == <<mmio, line, closed>>

Init == mmio = NewTransport /\ line = FALSE /\ closed = FALSE

(* state(): run the access, then publish what take_irq returns.            *)
Section(m) ==
  /\ ~closed
  /\ mmio' = [m EXCEPT !.irq_dirty = FALSE]
  /\ line' = IF m.irq_dirty THEN m.irq_level ELSE line
  /\ UNCHANGED closed

SelectFeatureWord(sel) == Section([mmio EXCEPT !.feature_sel = sel])

AcceptFeatures(bits) ==
  /\ bits \subseteq FeatureWord(mmio.feature_sel)
  /\ CanWriteGuestFeatures(mmio, bits)
  /\ Section(WriteGuestFeatures(mmio, bits))

SelectQueue(q) == Section([mmio EXCEPT !.selected = q])

SetQueueNum(num) == CanWriteQueueNum(mmio, num) /\ Section(WriteQueueNum(mmio, num))

SetRingAddress(ring, value, high) ==
  CanUpdateAddr(mmio) /\ Section(UpdateAddr(mmio, ring, value, high))

Arm == CanArmQueue(mmio) /\ Section(ArmQueue(mmio))

Disarm == Section(DisarmQueue(mmio))

AckInterrupt(bits) == Section(WriteInterruptAck(mmio, bits))

SetStatus(written) ==
  CanDriveStatus(mmio.status, written) /\ Section(WriteStatus(mmio, written))

(* The device completes work: the bit is raised whatever the guest did.    *)
SignalUsed == Section(Signal(mmio, INT_USED_BUFFER))

(* configure(): the host resets the device and drops the line first.       *)
HostReset ==
  /\ ~closed
  /\ mmio' = NewTransport
  /\ line' = FALSE
  /\ UNCHANGED closed

(* close(): the register file is gone; later accesses are NotReady.        *)
HostClose ==
  /\ ~closed
  /\ closed' = TRUE
  /\ mmio' = NewTransport
  /\ line' = FALSE

Next ==
  \/ \E sel \in {0, 1} : SelectFeatureWord(sel)
  \/ \E bits \in SUBSET Features : AcceptFeatures(bits)
  \/ \E q \in Queue : SelectQueue(q)
  \/ \E num \in GuestSizes : SetQueueNum(num)
  \/ \E ring \in Ring, value \in GuestWords, high \in BOOLEAN :
       SetRingAddress(ring, value, high)
  \/ Arm
  \/ Disarm
  \/ \E bits \in SUBSET InterruptBit : AckInterrupt(bits)
  \/ \E written \in SUBSET StatusBit : SetStatus(written)
  \/ SignalUsed
  \/ HostReset
  \/ HostClose

Spec == Init /\ [][Next]_vars

-----------------------------------------------------------------------------
(* Every field of the register file stays in its type.                     *)
TypeOK == mmio \in Transport /\ line \in BOOLEAN /\ closed \in BOOLEAN

(* A ready queue has a size the device accepts and rings inside guest RAM, *)
(* whatever was written to its registers before and since it was armed:    *)
(* arm_queue checks, and update_addr and QUEUE_NUM refuse an armed queue.  *)
ReadyRingsInRam == RingsInRam(mmio)

(* The line the host holds is the level of the register file, asserted     *)
(* only while an interrupt is pending on a device the driver has started;  *)
(* so an acknowledged, failed, reset or closed device holds no line high.  *)
LineFollowsDevice ==
  /\ line = mmio.irq_level
  /\ LineIsOwed(mmio)
  /\ closed => ~line

(* Once a driver gave up on the device no completion raises an interrupt   *)
(* until the driver writes status 0.                                       *)
FailedDeviceIsQuiet == FailedIsQuiet(mmio) /\ ("FAILED" \in mmio.status => ~line)
=============================================================================
