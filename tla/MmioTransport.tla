--------------------------- MODULE MmioTransport ---------------------------
(***************************************************************************)
(* The virtio-MMIO register file that every device component embeds        *)
(* (components/device-transport/src/lib.rs, MmioTransport), as operators   *)
(* on a record m with the fields of the Rust struct that change.  A        *)
(* Write... operator is the effect of an accepted write; the Can...        *)
(* operator beside it is the code's check, and a refused write changes     *)
(* nothing.  Status, feature and interrupt bits are sets.  A 64-bit ring   *)
(* address is written as two words of WordSize values.                     *)
(***************************************************************************)
EXTENDS Naturals

CONSTANTS QueueCount,       \* queues of the device
          QueueMax,         \* queue_max, the largest ring the device accepts
          RamSize,          \* ram_size
          WordSize,         \* 2^32 in the code
          LowFeatures,      \* the feature bits of word 0
          HighFeatures,     \* the feature bits of word 1
          HostFeatures      \* host_features, what the device offers

ASSUME TransportAssumption ==
  /\ QueueCount \in Nat \ {0}
  /\ QueueMax \in Nat
  /\ RamSize \in Nat
  /\ WordSize \in Nat \ {0}
  /\ LowFeatures \cap HighFeatures = {}

Queue == 0 .. QueueCount - 1
Word32 == 0 .. WordSize - 1
Features == LowFeatures \cup HighFeatures
StatusBit == {"ACKNOWLEDGE", "DRIVER", "FEATURES_OK", "DRIVER_OK",
              "DEVICE_NEEDS_RESET", "FAILED"}
INT_USED_BUFFER == "USED_BUFFER"
InterruptBit == {INT_USED_BUFFER, "CONFIG"}
Ring == {"desc", "avail", "used"}

QueueRegs == [num : Nat, ready : BOOLEAN, desc : Nat, avail : Nat, used : Nat]
NoRegs == [num |-> 0, ready |-> FALSE, desc |-> 0, avail |-> 0, used |-> 0]

Transport ==
  [guest_features : SUBSET HostFeatures, feature_sel : {0, 1},
   status : SUBSET StatusBit, selected : Queue, queues : [Queue -> QueueRegs],
   interrupt_status : SUBSET InterruptBit,
   irq_level : BOOLEAN, irq_dirty : BOOLEAN]

NewTransport ==
  [guest_features |-> {}, feature_sel |-> 0, status |-> {}, selected |-> 0,
   queues |-> [q \in Queue |-> NoRegs], interrupt_status |-> {},
   irq_level |-> FALSE, irq_dirty |-> FALSE]

IsReady(m, q) == m.queues[q].ready

-----------------------------------------------------------------------------
(* Interrupts.  irq_dirty records that the line has to be published.       *)

SetIrqLevel(m, level) ==
  IF m.irq_level = level THEN m
  ELSE [m EXCEPT !.irq_level = level, !.irq_dirty = TRUE]

Signal(m, bit) ==
  IF "FAILED" \in m.status THEN m
  ELSE LET raised == [m EXCEPT !.interrupt_status = @ \cup {bit}]
       IN  IF "DRIVER_OK" \in m.status THEN SetIrqLevel(raised, TRUE) ELSE raised

WriteInterruptAckUnpublished(m, bits) ==
  [m EXCEPT !.interrupt_status = @ \ bits,
            !.irq_level = IF m.interrupt_status \subseteq bits THEN FALSE ELSE @]

WriteInterruptAck(m, bits) ==
  LET acked == [m EXCEPT !.interrupt_status = @ \ bits]
  IN  IF acked.interrupt_status = {} THEN SetIrqLevel(acked, FALSE) ELSE acked

-----------------------------------------------------------------------------
(* Features: a word at a time, and never one the device did not offer.     *)

FeatureWord(sel) == IF sel = 0 THEN LowFeatures ELSE HighFeatures

GuestFeatures(m, bits) == (m.guest_features \ FeatureWord(m.feature_sel)) \cup bits

CanWriteGuestFeatures(m, bits) == GuestFeatures(m, bits) \subseteq HostFeatures

WriteGuestFeatures(m, bits) == [m EXCEPT !.guest_features = GuestFeatures(m, bits)]

-----------------------------------------------------------------------------
(* Queues: configured while idle, then armed.                              *)

IsPowerOfTwo(n) == \E k \in 0 .. 15 : n = 2 ^ k

ValidQueueSize(max, size) ==
  /\ IsPowerOfTwo(max)
  /\ size <= max
  /\ IsPowerOfTwo(size)

CanWriteQueueNum(m, num) ==
  ~m.queues[m.selected].ready /\ ValidQueueSize(QueueMax, num)

WriteQueueNum(m, num) == [m EXCEPT !.queues[m.selected].num = num]

CanUpdateArmedAddr(m) == m.selected \in Queue

CanUpdateAddr(m) == ~m.queues[m.selected].ready

NewAddr(addr, value, high) ==
  IF high THEN (addr % WordSize) + value * WordSize
  ELSE (addr \div WordSize) * WordSize + value

UpdateAddr(m, ring, value, high) ==
  [m EXCEPT !.queues[m.selected][ring] = NewAddr(@, value, high)]

RingEnd(r, ring) ==
  r[ring] + CASE ring = "desc"  -> 16 * r.num
              [] ring = "avail" -> 4 + 2 * r.num
              [] ring = "used"  -> 4 + 8 * r.num

CanArmQueue(m) ==
  LET r == m.queues[m.selected]
  IN  /\ r.num # 0
      /\ \A ring \in Ring : r[ring] # 0 /\ RingEnd(r, ring) <= RamSize

ArmQueue(m) == [m EXCEPT !.queues[m.selected].ready = TRUE]

DisarmQueue(m) == [m EXCEPT !.queues[m.selected].ready = FALSE]

-----------------------------------------------------------------------------
(* Status: the driver's handshake, one bit a step, FAILED until a reset.   *)

StatusSteps == <<"ACKNOWLEDGE", "DRIVER", "FEATURES_OK", "DRIVER_OK">>

IsNextStep(current, written) ==
  \E k \in 1 .. 4 : /\ \A j \in 1 .. k - 1 : StatusSteps[j] \in current
                    /\ StatusSteps[k] \notin current
                    /\ written = current \cup {StatusSteps[k]}

CanDriveStatus(current, written) ==
  \/ written = {}
  \/ written = current
  \/ /\ "FAILED" \notin current
     /\ "DEVICE_NEEDS_RESET" \notin written
     /\ "FAILED" \in written \/ IsNextStep(current, written)

DriveStatus(current, written) ==
  IF "FAILED" \in written THEN current \cup {"FAILED"} ELSE written

ResetDevice(m) ==
  SetIrqLevel([m EXCEPT !.queues = [q \in Queue |-> NoRegs], !.selected = 0,
                        !.guest_features = {}, !.interrupt_status = {}],
              FALSE)

(* WriteOutcome::Reset is returned exactly for these.                      *)
IsReset(status) == status = {} \/ "FAILED" \in status

WriteStatus(m, written) ==
  LET driven == [m EXCEPT !.status = DriveStatus(m.status, written)]
  IN  IF IsReset(driven.status) THEN ResetDevice(driven) ELSE driven

-----------------------------------------------------------------------------
(* What the device relies on when it walks the rings of a ready queue.     *)

RingsInRam(m) ==
  \A q \in Queue : m.queues[q].ready =>
    /\ ValidQueueSize(QueueMax, m.queues[q].num)
    /\ \A ring \in Ring : /\ m.queues[q][ring] # 0
                          /\ RingEnd(m.queues[q], ring) <= RamSize

(* The line is asserted for a pending interrupt of a driven device only.   *)
LineIsOwed(m) ==
  m.irq_level => /\ m.interrupt_status # {}
                 /\ "DRIVER_OK" \in m.status

(* A device that failed says nothing until the driver resets it.           *)
FailedIsQuiet(m) ==
  "FAILED" \in m.status => m.interrupt_status = {} /\ ~m.irq_level
=============================================================================
