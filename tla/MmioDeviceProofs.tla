-------------------------- MODULE MmioDeviceProofs --------------------------
(***************************************************************************)
(* The register file's properties for any number of queues, any ring and   *)
(* RAM size and any sequence of accesses.  MInv is what each operator of   *)
(* MmioTransport keeps; Moves adds that an operator which changes the line *)
(* marks it dirty, so that the component publishes the change.             *)
(***************************************************************************)
EXTENDS MmioDevice, TLAPS

MInv(m) ==
  /\ m \in Transport
  /\ \A q \in Queue : m.queues[q].num = 0 \/ ValidQueueSize(QueueMax, m.queues[q].num)
  /\ RingsInRam(m)
  /\ LineIsOwed(m)
  /\ FailedIsQuiet(m)

Moves(m, n) == MInv(n) /\ (n.irq_dirty \/ n.irq_level = m.irq_level)

IInv ==
  /\ MInv(mmio)
  /\ mmio.irq_dirty = FALSE
  /\ line = mmio.irq_level
  /\ closed \in BOOLEAN
  /\ closed => mmio = NewTransport

(* Two register files with the same queues, or the same interrupt state,   *)
(* agree on the parts of MInv that are about them.                         *)
QueuesInv(queues) ==
  \A q \in Queue :
    /\ queues[q].num = 0 \/ ValidQueueSize(QueueMax, queues[q].num)
    /\ queues[q].ready =>
         /\ ValidQueueSize(QueueMax, queues[q].num)
         /\ \A ring \in Ring : /\ queues[q][ring] # 0
                               /\ RingEnd(queues[q], ring) <= RamSize

LineInv(level, pending, status) ==
  /\ level => pending # {} /\ "DRIVER_OK" \in status
  /\ "FAILED" \in status => pending = {} /\ ~level

(* The invariant of a transport in three parts.                            *)
LEMMA MInvParts ==
  ASSUME NEW m
  PROVE  MInv(m) <=> /\ m \in Transport
                     /\ QueuesInv(m.queues)
                     /\ LineInv(m.irq_level, m.interrupt_status, m.status)
BY DEF MInv, QueuesInv, LineInv, RingsInRam, LineIsOwed, FailedIsQuiet

(* A queue that was reset is not ready,                                    *)
LEMMA NoRegsFacts ==
  /\ NoRegs \in QueueRegs /\ NoRegs.num = 0 /\ NoRegs.ready = FALSE
BY DEF NoRegs, QueueRegs

(* so queues that were all reset are in order,                             *)
LEMMA NewQueues ==
  /\ [q \in Queue |-> NoRegs] \in [Queue -> QueueRegs]
  /\ QueuesInv([q \in Queue |-> NoRegs])
BY NoRegsFacts DEF QueuesInv

(* and so is a new transport.                                              *)
LEMMA NewTransportInv == MInv(NewTransport) /\ NewTransport.irq_dirty = FALSE
                         /\ NewTransport.irq_level = FALSE
<1>1. 0 \in Queue
  BY TransportAssumption DEF Queue
<1>2. NewTransport \in Transport
  BY <1>1, NewQueues DEF NewTransport, Transport
<1>3. /\ NewTransport.queues = [q \in Queue |-> NoRegs]
      /\ NewTransport.irq_level = FALSE /\ NewTransport.irq_dirty = FALSE
      /\ NewTransport.status = {} /\ NewTransport.interrupt_status = {}
  BY DEF NewTransport
<1>4. LineInv(FALSE, {}, {})
  BY DEF LineInv
<1> QED  BY <1>2, <1>3, <1>4, NewQueues, MInvParts, Zenon

-----------------------------------------------------------------------------
(* Registers that no other part of MInv reads.                             *)
LEMMA SelectMoves ==
  ASSUME NEW m, MInv(m), NEW sel \in {0, 1}, NEW q \in Queue
  PROVE  Moves(m, [m EXCEPT !.feature_sel = sel]) /\ Moves(m, [m EXCEPT !.selected = q])
<1>0. m \in Transport /\ QueuesInv(m.queues) /\ LineInv(m.irq_level, m.interrupt_status, m.status)
  BY MInvParts
<1>1. ASSUME NEW n \in {[m EXCEPT !.feature_sel = sel], [m EXCEPT !.selected = q]}
      PROVE  /\ n \in Transport /\ n.queues = m.queues /\ n.status = m.status
             /\ n.irq_level = m.irq_level /\ n.interrupt_status = m.interrupt_status
  BY <1>0 DEF Transport
<1> QED  BY <1>0, <1>1, MInvParts, Zenon DEF Moves

(* A write of the guest's features keeps queues and line.                  *)
LEMMA FeaturesMove ==
  ASSUME NEW m, MInv(m), NEW bits, CanWriteGuestFeatures(m, bits)
  PROVE  Moves(m, WriteGuestFeatures(m, bits))
<1>0. m \in Transport /\ QueuesInv(m.queues) /\ LineInv(m.irq_level, m.interrupt_status, m.status)
  BY MInvParts
<1> DEFINE n == WriteGuestFeatures(m, bits)
<1>1. GuestFeatures(m, bits) \in SUBSET HostFeatures
  BY DEF CanWriteGuestFeatures
<1>2. /\ n \in Transport /\ n.queues = m.queues /\ n.status = m.status
      /\ n.irq_level = m.irq_level /\ n.interrupt_status = m.interrupt_status
  BY <1>0, <1>1 DEF Transport, WriteGuestFeatures
<1> QED  BY <1>0, <1>2, MInvParts DEF Moves

(* SetIrqLevel marks the line when it moves it.                            *)
LEMMA SetIrqLevelFacts ==
  ASSUME NEW m \in Transport, NEW level \in BOOLEAN
  PROVE  LET n == SetIrqLevel(m, level)
         IN  /\ n \in Transport /\ n.queues = m.queues /\ n.status = m.status
             /\ n.interrupt_status = m.interrupt_status /\ n.irq_level = level
             /\ n.irq_dirty \/ n.irq_level = m.irq_level
<1>1. CASE m.irq_level = level
  BY <1>1 DEF SetIrqLevel
<1>2. CASE m.irq_level # level
  <2>1. SetIrqLevel(m, level) = [m EXCEPT !.irq_level = level, !.irq_dirty = TRUE]
    BY <1>2 DEF SetIrqLevel
  <2> QED  BY <2>1, Zenon DEF Transport
<1> QED  BY <1>1, <1>2

(* ... so that moving it is sound when the new level is owed.              *)
LEMMA LevelMoves ==
  ASSUME NEW m, NEW r \in Transport, QueuesInv(r.queues), r.irq_level = m.irq_level,
         NEW level \in BOOLEAN, LineInv(level, r.interrupt_status, r.status)
  PROVE  Moves(m, SetIrqLevel(r, level))
<1> DEFINE n == SetIrqLevel(r, level)
<1>1. /\ n \in Transport /\ n.queues = r.queues /\ n.status = r.status
      /\ n.interrupt_status = r.interrupt_status /\ n.irq_level = level
      /\ n.irq_dirty \/ n.irq_level = r.irq_level
  BY SetIrqLevelFacts
<1> HIDE DEF n
<1>2. MInv(n)
  BY <1>1, MInvParts
<1> QED  BY <1>1, <1>2 DEF Moves, n

(* A signal of the device raises the line of a started device only.        *)
LEMMA SignalMoves ==
  ASSUME NEW m, MInv(m), NEW bit \in InterruptBit
  PROVE  Moves(m, Signal(m, bit))
<1>0. m \in Transport /\ QueuesInv(m.queues) /\ LineInv(m.irq_level, m.interrupt_status, m.status)
  BY MInvParts
<1> DEFINE raised == [m EXCEPT !.interrupt_status = @ \cup {bit}]
<1>1. /\ raised \in Transport /\ raised.queues = m.queues /\ raised.status = m.status
      /\ raised.irq_level = m.irq_level
      /\ raised.interrupt_status = m.interrupt_status \cup {bit}
  BY <1>0 DEF Transport
<1> HIDE DEF raised
<1>2. CASE "FAILED" \in m.status
  BY <1>2 DEF Signal, Moves
<1>3. CASE "FAILED" \notin m.status /\ "DRIVER_OK" \notin m.status
  <2>1. Signal(m, bit) = raised
    BY <1>3 DEF Signal, raised
  <2>2. LineInv(raised.irq_level, raised.interrupt_status, raised.status)
    BY <1>0, <1>1, <1>3 DEF LineInv
  <2> QED  BY <1>0, <1>1, <2>1, <2>2, MInvParts DEF Moves
<1>4. CASE "FAILED" \notin m.status /\ "DRIVER_OK" \in m.status
  <2>1. Signal(m, bit) = SetIrqLevel(raised, TRUE)
    BY <1>4 DEF Signal, raised
  <2>2. LineInv(TRUE, raised.interrupt_status, raised.status)
    BY <1>1, <1>4 DEF LineInv
  <2> QED  BY <1>0, <1>1, <2>1, <2>2, LevelMoves, Zenon
<1> QED  BY <1>2, <1>3, <1>4

(* An acknowledgement lowers the line with its last interrupt.             *)
LEMMA AckMoves ==
  ASSUME NEW m, MInv(m), NEW bits \in SUBSET InterruptBit
  PROVE  Moves(m, WriteInterruptAck(m, bits))
<1>0. m \in Transport /\ QueuesInv(m.queues) /\ LineInv(m.irq_level, m.interrupt_status, m.status)
  BY MInvParts
<1> DEFINE acked == [m EXCEPT !.interrupt_status = @ \ bits]
<1>1. /\ acked \in Transport /\ acked.queues = m.queues /\ acked.status = m.status
      /\ acked.irq_level = m.irq_level
      /\ acked.interrupt_status = m.interrupt_status \ bits
  BY <1>0 DEF Transport
<1> HIDE DEF acked
<1>2. CASE acked.interrupt_status = {}
  <2>1. WriteInterruptAck(m, bits) = SetIrqLevel(acked, FALSE)
    BY <1>2 DEF WriteInterruptAck, acked
  <2>2. LineInv(FALSE, acked.interrupt_status, acked.status)
    BY <1>2 DEF LineInv
  <2> QED  BY <1>0, <1>1, <2>1, <2>2, LevelMoves, Zenon
<1>3. CASE acked.interrupt_status # {}
  <2>1. WriteInterruptAck(m, bits) = acked
    BY <1>3, Zenon DEF WriteInterruptAck, acked
  <2>2. LineInv(acked.irq_level, acked.interrupt_status, acked.status)
    BY <1>0, <1>1, <1>3 DEF LineInv
  <2> QED  BY <1>0, <1>1, <2>1, <2>2, MInvParts DEF Moves
<1> QED  BY <1>2, <1>3

-----------------------------------------------------------------------------
(* A write to the selected queue is judged by the registers it leaves.     *)
LEMMA QueueMoves ==
  ASSUME NEW m, MInv(m), NEW n, NEW r \in QueueRegs,
         n = [m EXCEPT !.queues = [m.queues EXCEPT ![m.selected] = r]],
         r.num = 0 \/ ValidQueueSize(QueueMax, r.num),
         r.ready => /\ r.num # 0
                    /\ \A ring \in Ring : r[ring] # 0 /\ RingEnd(r, ring) <= RamSize
  PROVE  Moves(m, n)
<1>0. m \in Transport /\ QueuesInv(m.queues) /\ LineInv(m.irq_level, m.interrupt_status, m.status)
  BY MInvParts
<1>1. m.selected \in Queue /\ m.queues \in [Queue -> QueueRegs]
  BY <1>0 DEF Transport
<1> DEFINE queues == [m.queues EXCEPT ![m.selected] = r]
<1>2. /\ queues \in [Queue -> QueueRegs] /\ queues[m.selected] = r
      /\ \A q \in Queue : q # m.selected => queues[q] = m.queues[q]
  BY <1>1
<1> HIDE DEF queues
<1>3. QueuesInv(queues)
  BY <1>0, <1>2 DEF QueuesInv
<1>4. /\ n \in Transport /\ n.queues = queues /\ n.status = m.status
      /\ n.irq_level = m.irq_level /\ n.interrupt_status = m.interrupt_status
  BY <1>0, <1>2 DEF Transport, queues
<1> QED  BY <1>0, <1>3, <1>4, MInvParts, Zenon DEF Moves

(* The selected queue is one of the device's.                              *)
LEMMA SelectedRegs ==
  ASSUME NEW m, MInv(m)
  PROVE  LET r == m.queues[m.selected]
         IN  /\ r \in QueueRegs
             /\ r.num = 0 \/ ValidQueueSize(QueueMax, r.num)
             /\ m.selected \in Queue /\ m \in Transport
BY DEF MInv, Transport

(* A write of a queue's size is refused unless the size is valid.          *)
LEMMA QueueNumMoves ==
  ASSUME NEW m, MInv(m), NEW num \in Nat, CanWriteQueueNum(m, num)
  PROVE  Moves(m, WriteQueueNum(m, num))
<1> DEFINE old == m.queues[m.selected]
           r == [old EXCEPT !.num = num]
<1>1. old \in QueueRegs /\ m \in Transport /\ m.selected \in Queue
  BY SelectedRegs
<1>2. r \in QueueRegs /\ r.num = num /\ r.ready = old.ready
  BY <1>1 DEF QueueRegs
<1>3. ~r.ready /\ ValidQueueSize(QueueMax, r.num)
  BY <1>2 DEF CanWriteQueueNum
<1>4. WriteQueueNum(m, num) = [m EXCEPT !.queues = [m.queues EXCEPT ![m.selected] = r]]
  BY DEF WriteQueueNum
<1> HIDE DEF r
<1> QED  BY <1>2, <1>3, <1>4, QueueMoves

(* An address composed of two words is a natural number.                   *)
LEMMA NewAddrNat ==
  ASSUME NEW addr \in Nat, NEW value \in Word32, NEW high \in BOOLEAN
  PROVE  NewAddr(addr, value, high) \in Nat
<1>1. WordSize \in Nat /\ WordSize > 0 /\ value \in Nat
  BY TransportAssumption DEF Word32
<1>2. addr % WordSize \in Nat /\ addr \div WordSize \in Nat
  BY <1>1
<1>3. ASSUME NEW a \in Nat, NEW b \in Nat PROVE a * b \in Nat
  OBVIOUS
<1>4. value * WordSize \in Nat /\ (addr \div WordSize) * WordSize \in Nat
  BY <1>1, <1>2, <1>3
<1>5. ASSUME NEW a \in Nat, NEW b \in Nat PROVE a + b \in Nat
  OBVIOUS
<1> QED  BY <1>1, <1>2, <1>4, <1>5 DEF NewAddr

(* A write of a ring address only reaches a queue that is not ready.       *)
LEMMA AddrMoves ==
  ASSUME NEW m, MInv(m), NEW ring \in Ring, NEW value \in Word32, NEW high \in BOOLEAN,
         CanUpdateAddr(m)
  PROVE  Moves(m, UpdateAddr(m, ring, value, high))
<1> DEFINE old == m.queues[m.selected]
           addr == NewAddr(old[ring], value, high)
           r == [old EXCEPT ![ring] = addr]
<1>1. /\ old \in QueueRegs /\ m \in Transport /\ m.selected \in Queue
      /\ old.num = 0 \/ ValidQueueSize(QueueMax, old.num)
  BY SelectedRegs
<1>2. ring = "desc" \/ ring = "avail" \/ ring = "used"
  BY DEF Ring
<1>3. old[ring] \in Nat
  BY <1>1, <1>2 DEF QueueRegs
<1>4. addr \in Nat
  BY <1>3, NewAddrNat
<1>5. UpdateAddr(m, ring, value, high) = [m EXCEPT !.queues = [m.queues EXCEPT ![m.selected] = r]]
  BY DEF UpdateAddr
<1> HIDE DEF addr
<1>6. r \in QueueRegs /\ r.num = old.num /\ r.ready = old.ready
  BY <1>1, <1>2, <1>4 DEF QueueRegs
<1> HIDE DEF r
<1>7. ~r.ready
  BY <1>6 DEF CanUpdateAddr
<1> QED  BY <1>1, <1>5, <1>6, <1>7, QueueMoves

(* arm_queue is where the rings are checked; disarming checks nothing.     *)
LEMMA ArmMoves ==
  ASSUME NEW m, MInv(m)
  PROVE  /\ CanArmQueue(m) => Moves(m, ArmQueue(m))
         /\ Moves(m, DisarmQueue(m))
<1> DEFINE old == m.queues[m.selected]
           armed == [old EXCEPT !.ready = TRUE]
           idle == [old EXCEPT !.ready = FALSE]
<1>1. /\ old \in QueueRegs /\ m \in Transport /\ m.selected \in Queue
      /\ old.num = 0 \/ ValidQueueSize(QueueMax, old.num)
  BY SelectedRegs
<1>2. /\ armed \in QueueRegs /\ armed.num = old.num
      /\ \A ring \in Ring : armed[ring] = old[ring]
  BY <1>1, Zenon DEF QueueRegs, Ring
<1>3. idle \in QueueRegs /\ idle.num = old.num /\ idle.ready = FALSE
  BY <1>1, Zenon DEF QueueRegs
<1>4. /\ ArmQueue(m) = [m EXCEPT !.queues = [m.queues EXCEPT ![m.selected] = armed]]
      /\ DisarmQueue(m) = [m EXCEPT !.queues = [m.queues EXCEPT ![m.selected] = idle]]
  BY DEF ArmQueue, DisarmQueue
<1> HIDE DEF armed, idle
<1>5. \A ring \in Ring : RingEnd(armed, ring) = RingEnd(old, ring)
  BY <1>2, Zenon DEF RingEnd
<1>6. ASSUME CanArmQueue(m)
      PROVE  /\ armed.num # 0
             /\ \A ring \in Ring : armed[ring] # 0 /\ RingEnd(armed, ring) <= RamSize
  BY <1>2, <1>5, <1>6 DEF CanArmQueue
<1>7. CanArmQueue(m) => Moves(m, ArmQueue(m))
  BY <1>1, <1>2, <1>4, <1>6, QueueMoves
<1>8. Moves(m, DisarmQueue(m))
  BY <1>1, <1>3, <1>4, QueueMoves
<1> QED  BY <1>7, <1>8

-----------------------------------------------------------------------------
(* The handshake never takes a bit away without a reset, and a status that *)
(* is not a reset has not failed.                                          *)
LEMMA DriveStatusFacts ==
  ASSUME NEW current \in SUBSET StatusBit, NEW written \in SUBSET StatusBit,
         CanDriveStatus(current, written)
  PROVE  LET s == DriveStatus(current, written)
         IN  /\ s \in SUBSET StatusBit
             /\ ~IsReset(s) => current \subseteq s /\ "FAILED" \notin s
<1>1. DriveStatus(current, written) \in SUBSET StatusBit
  BY DEF DriveStatus, StatusBit
<1>2. "FAILED" \in written => IsReset(DriveStatus(current, written))
  BY DEF DriveStatus, IsReset
<1>3. ASSUME "FAILED" \notin written, written # {} PROVE current \subseteq written
  BY <1>3 DEF CanDriveStatus, IsNextStep
<1> QED  BY <1>1, <1>2, <1>3 DEF DriveStatus, IsReset

(* A reset leaves no ready queue and a line that is low.                   *)
LEMMA ResetMoves ==
  ASSUME NEW m, NEW d \in Transport, d.irq_level = m.irq_level
  PROVE  Moves(m, ResetDevice(d))
<1> DEFINE r == [d EXCEPT !.queues = [q \in Queue |-> NoRegs], !.selected = 0,
                          !.guest_features = {}, !.interrupt_status = {}]
<1>1. 0 \in Queue
  BY TransportAssumption DEF Queue
<1>2. /\ r \in Transport /\ r.queues = [q \in Queue |-> NoRegs]
      /\ r.irq_level = d.irq_level /\ r.interrupt_status = {}
  BY <1>1, NewQueues, Zenon DEF Transport
<1>3. ResetDevice(d) = SetIrqLevel(r, FALSE)
  BY DEF ResetDevice
<1> HIDE DEF r
<1>4. LineInv(FALSE, r.interrupt_status, r.status)
  BY <1>2 DEF LineInv
<1>5. QueuesInv(r.queues) /\ r.irq_level = m.irq_level
  BY <1>2, NewQueues
<1>6. Moves(m, SetIrqLevel(r, FALSE))
  BY <1>2, <1>4, <1>5, LevelMoves, Zenon
<1> QED  BY <1>3, <1>6, Zenon

(* A write of the status resets the device or adds to its status.          *)
LEMMA StatusMoves ==
  ASSUME NEW m, MInv(m), NEW written \in SUBSET StatusBit, CanDriveStatus(m.status, written)
  PROVE  Moves(m, WriteStatus(m, written))
<1>0. m \in Transport /\ QueuesInv(m.queues) /\ LineInv(m.irq_level, m.interrupt_status, m.status)
  BY MInvParts
<1> DEFINE s == DriveStatus(m.status, written)
           d == [m EXCEPT !.status = s]
<1>1. s \in SUBSET StatusBit /\ (~IsReset(s) => m.status \subseteq s /\ "FAILED" \notin s)
  <2>1. m.status \in SUBSET StatusBit
    BY <1>0 DEF Transport
  <2> QED  BY <2>1, DriveStatusFacts
<1> HIDE DEF s
<1>2. /\ d \in Transport /\ d.queues = m.queues /\ d.status = s
      /\ d.irq_level = m.irq_level /\ d.interrupt_status = m.interrupt_status
  BY <1>0, <1>1 DEF Transport
<1>3. WriteStatus(m, written) = IF IsReset(d.status) THEN ResetDevice(d) ELSE d
  BY DEF WriteStatus, s
<1> HIDE DEF d
<1>4. CASE IsReset(s)
  BY <1>2, <1>3, <1>4, ResetMoves
<1>5. CASE ~IsReset(s)
  <2>1. LineInv(d.irq_level, d.interrupt_status, d.status)
    BY <1>0, <1>1, <1>2, <1>5 DEF LineInv
  <2> QED  BY <1>0, <1>2, <1>3, <1>5, <2>1, MInvParts DEF Moves
<1> QED  BY <1>4, <1>5

-----------------------------------------------------------------------------
(* state() publishes exactly the changes that operators mark.              *)
LEMMA SectionKeeps ==
  ASSUME IInv, NEW n, Moves(mmio, n), Section(n)
  PROVE  IInv'
<1>1. MInv(n) /\ (n.irq_dirty \/ n.irq_level = mmio.irq_level)
  BY DEF Moves
<1>2. n \in Transport /\ QueuesInv(n.queues) /\ LineInv(n.irq_level, n.interrupt_status, n.status)
  BY <1>1, MInvParts
<1>3. /\ mmio' \in Transport /\ mmio'.queues = n.queues /\ mmio'.status = n.status
      /\ mmio'.irq_level = n.irq_level /\ mmio'.interrupt_status = n.interrupt_status
      /\ mmio'.irq_dirty = FALSE
  BY <1>2, Zenon DEF Section, Transport
<1>4. MInv(mmio')
  BY <1>2, <1>3, MInvParts
<1>5. line' = mmio'.irq_level
  BY <1>1, <1>3 DEF Section, IInv
<1>6. closed' = FALSE
  BY DEF Section, IInv
<1> QED  BY <1>3, <1>4, <1>5, <1>6, Zenon DEF IInv

(* A new device has published its low line.                                *)
LEMMA InitIInv == Init => IInv
BY NewTransportInv, Zenon DEF Init, IInv

(* Every register write, signal, publication, reset and close keeps the    *)
(* invariant.                                                              *)
LEMMA NextIInv ==
  ASSUME IInv, [Next]_vars
  PROVE  IInv'
<1>0. MInv(mmio) /\ QueueCount > 0 /\ 0 \in Queue
  BY TransportAssumption DEF IInv, Queue
<1>1. CASE \E sel \in {0, 1} : SelectFeatureWord(sel)
  BY <1>0, <1>1, SelectMoves, SectionKeeps, Zenon DEF SelectFeatureWord
<1>2. CASE \E bits \in SUBSET Features : AcceptFeatures(bits)
  BY <1>0, <1>2, FeaturesMove, SectionKeeps DEF AcceptFeatures
<1>3. CASE \E q \in Queue : SelectQueue(q)
  BY <1>0, <1>3, SelectMoves, SectionKeeps, Zenon DEF SelectQueue
<1>4. CASE \E num \in GuestSizes : SetQueueNum(num)
  BY <1>0, <1>4, GuestAssumption, QueueNumMoves, SectionKeeps DEF SetQueueNum
<1>5. CASE \E ring \in Ring, value \in GuestWords, high \in BOOLEAN :
             SetRingAddress(ring, value, high)
  BY <1>0, <1>5, GuestAssumption, AddrMoves, SectionKeeps DEF SetRingAddress
<1>6. CASE Arm \/ Disarm
  BY <1>0, <1>6, ArmMoves, SectionKeeps DEF Arm, Disarm
<1>7. CASE \E bits \in SUBSET InterruptBit : AckInterrupt(bits)
  BY <1>0, <1>7, AckMoves, SectionKeeps DEF AckInterrupt
<1>8. CASE \E written \in SUBSET StatusBit : SetStatus(written)
  BY <1>0, <1>8, StatusMoves, SectionKeeps DEF SetStatus
<1>9. CASE SignalUsed
  <2>1. INT_USED_BUFFER \in InterruptBit
    BY DEF InterruptBit
  <2> QED  BY <1>0, <1>9, <2>1, SignalMoves, SectionKeeps DEF SignalUsed
<1>10. CASE HostReset \/ HostClose
  BY <1>10, NewTransportInv, Zenon DEF HostReset, HostClose, IInv
<1>11. CASE UNCHANGED vars
  BY <1>11 DEF vars, IInv
<1> QED
  BY <1>1, <1>2, <1>3, <1>4, <1>5, <1>6, <1>7, <1>8, <1>9, <1>10, <1>11 DEF Next

(* The invariant holds in every state of the device.                       *)
LEMMA MmioDeviceInv == Spec => []IInv
BY InitIInv, NextIInv, PTL DEF Spec

(* Every accepted register write keeps the register file in its type: no   *)
(* feature the device did not offer is ever negotiated.                    *)
THEOREM MmioTypeOK == Spec => []TypeOK
<1>1. IInv => TypeOK
  BY DEF IInv, MInv, Transport, TypeOK
<1> QED  BY <1>1, MmioDeviceInv, PTL

(* The rings of a ready queue lie in guest RAM, for every sequence of      *)
(* register writes, resets and re-armings.                                 *)
THEOREM MmioReadyRingsInRam == Spec => []ReadyRingsInRam
<1>1. IInv => ReadyRingsInRam
  BY DEF IInv, MInv, ReadyRingsInRam
<1> QED  BY <1>1, MmioDeviceInv, PTL

(* The published interrupt line never differs from the register file and   *)
(* is never high without a pending interrupt of a started device.          *)
THEOREM MmioLineFollowsDevice == Spec => []LineFollowsDevice
<1>1. IInv => LineFollowsDevice
  BY NewTransportInv DEF IInv, MInv, LineFollowsDevice
<1> QED  BY <1>1, MmioDeviceInv, PTL

(* A device the driver gave up on raises nothing until it is reset.        *)
THEOREM MmioFailedDeviceIsQuiet == Spec => []FailedDeviceIsQuiet
<1>1. IInv => FailedDeviceIsQuiet
  BY DEF IInv, MInv, FailedIsQuiet, FailedDeviceIsQuiet
<1> QED  BY <1>1, MmioDeviceInv, PTL
=============================================================================
