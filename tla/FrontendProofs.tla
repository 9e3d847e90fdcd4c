--------------------------- MODULE FrontendProofs ---------------------------
(***************************************************************************)
(* Proofs about the frontend of the vsock device, for every ring size and  *)
(* every interleaving of its worker, the other tasks of the component and  *)
(* the guest's processors.  The worker never sleeps over a transmit buffer *)
(* nobody will notify it of, nor over a reply with a receive buffer to go  *)
(* into; and its rings stay in step with the driver's.                     *)
(***************************************************************************)
EXTENDS Integers, VsockFrontend, TLAPS

(* The locals of process_pending, with their types only.                   *)
Batches ==
  [heads : [DataQueue -> Int], more : [DataQueue -> BOOLEAN], done : [DataQueue -> Int], steps : Int,
   rx_enabled : BOOLEAN, has_tx_payload : BOOLEAN, requested : [DataQueue -> BOOLEAN]]

(* Where the worker holds no batch.                                        *)
Between == {"top", "capture_tx", "service", "yield", "rearm", "recheck", "wait", "parked", "done"}

TxTypes ==
  /\ mmio \in Transport /\ batch \in Batches
  /\ avail \in [DataQueue -> Index] /\ next \in [DataQueue -> Index]
  /\ kick \in [DataQueue -> {"idle", "check", "notify"}]
  /\ driver \in [queues : DriverQueues, resets : Int]
  /\ pc \in PcLabel

(* A device that is closed, reset or without a transmit ring has taken     *)
(* nothing from one, and the worker holds a batch only inside a pass.      *)
TxDevice ==
  /\ closed => ~IsReady(mmio, TX)
  /\ mmio.status = {} => ~IsReady(mmio, TX)
  /\ ~IsReady(mmio, TX) => next[TX] = 0 /\ batch.heads[TX] = 0 /\ batch.done[TX] = 0
  /\ pc \in Between => batch = NoBatch

(* What the worker knows once it has looked at the transmit ring with      *)
(* notifications on: whatever is unprocessed was published by a driver     *)
(* that has yet to read the flag, or that is about to notify.              *)
TxLooked == ~no_notify /\ (avail[TX] # next[TX] => kick[TX] \in {"check", "notify"})

(* The inductive form of NoLostTxKick. A ring of the doorbell always       *)
(* wakes; notifications are on when the ring is looked at for the last     *)
(* time; and from that look on, a worker nobody has rung has seen every    *)
(* buffer.                                                                 *)
TxSleep ==
  /\ bell = woken
  /\ pc = "recheck" => ~no_notify
  /\ pc \in {"wait", "parked"} /\ IsReady(mmio, TX) /\ ~bell => TxLooked

(* The inductive invariant.                                                *)
TxInv == TxTypes /\ TxDevice /\ TxSleep

-----------------------------------------------------------------------------
(* The numbers the constants stand for.                                    *)
LEMMA RingNumbers ==
  /\ IndexSize \in Nat \ {0} /\ MAX_DEVICE_STEPS \in Nat /\ QueueMax \in Nat
  /\ RX \in DataQueue /\ TX \in DataQueue /\ RX # TX /\ RX \in Queue /\ TX \in Queue
  /\ 0 \in Index /\ 0 \in Queue
BY FrontendAssumption, TransportAssumption DEF RX, TX, DataQueue, Queue, Index

(* The distance of two ring indexes is zero only when they are equal.      *)
LEMMA AheadFacts ==
  ASSUME NEW a \in Index, NEW b \in Index
  PROVE  Ahead(a, b) \in Int /\ (Ahead(a, b) = 0 => a = b)
BY RingNumbers DEF Ahead, Index

(* An advanced ring index is a ring index.                                 *)
LEMMA AdvanceFacts ==
  ASSUME NEW a \in Index, NEW n \in Int
  PROVE  Advance(a, n) \in Index /\ (a = 0 /\ n = 0 => Advance(a, n) = 0)
BY RingNumbers DEF Advance, Index

(* What was taken moves a number to a number,                              *)
LEMMA AdvanceTaken ==
  ASSUME NEW a \in Index, NEW n \in Nat
  PROVE  Advance(a, n) \in Index
BY AdvanceFacts

(* a count is a number,                                                    *)
LEMMA NatsAreInts == \A n \in Nat : n \in Int
OBVIOUS

(* and no more than nothing is nothing.                                    *)
LEMMA NothingTaken == \A n \in Nat : n <= 0 => n = 0
OBVIOUS

(* What is not less than its bound has reached it.                         *)
LEMMA AllTaken == \A k, n \in Int : k <= n => k + 0 = k /\ (~(k < n) => k = n)
OBVIOUS

(* An empty batch takes nothing from the transmit ring.                    *)
LEMMA NoBatchFacts ==
  NoBatch \in Batches /\ NoBatch.heads[TX] = 0 /\ NoBatch.done[TX] = 0
BY RingNumbers DEF NoBatch, Batches

(* What the interrupt operators leave alone.                               *)
SameRings(m, n) == n \in Transport /\ n.queues = m.queues /\ n.status = m.status

(* Moving the interrupt line leaves the rings alone.                       *)
LEMMA LevelKeepsRings ==
  ASSUME NEW m \in Transport, NEW level \in BOOLEAN
  PROVE  SameRings(m, SetIrqLevel(m, level))
BY Zenon DEF SameRings, SetIrqLevel, Transport

(* So does an interrupt for used buffers,                                  *)
LEMMA SignalKeepsRings ==
  ASSUME NEW m \in Transport
  PROVE  SameRings(m, Signal(m, INT_USED_BUFFER))
<1> DEFINE r == [m EXCEPT !.interrupt_status = @ \cup {INT_USED_BUFFER}]
<1>1. SameRings(m, r) /\ r \in Transport
  BY DEF SameRings, Transport, InterruptBit
<1>2. SameRings(m, m)
  BY DEF SameRings
<1> HIDE DEF r
<1>3. SameRings(m, SetIrqLevel(r, TRUE))
  BY <1>1, LevelKeepsRings, Zenon DEF SameRings
<1> QED
  BY <1>1, <1>2, <1>3, Zenon DEF Signal, r

(* the guest's acknowledgement of one,                                     *)
LEMMA AckKeepsRings ==
  ASSUME NEW m \in Transport
  PROVE  SameRings(m, WriteInterruptAck(m, InterruptBit))
<1> DEFINE r == [m EXCEPT !.interrupt_status = @ \ InterruptBit]
<1>1. SameRings(m, r) /\ r \in Transport
  BY DEF SameRings, Transport
<1> HIDE DEF r
<1>2. SameRings(m, SetIrqLevel(r, FALSE))
  BY <1>1, LevelKeepsRings, Zenon DEF SameRings
<1> QED
  BY <1>1, <1>2, Zenon DEF WriteInterruptAck, r

(* and the publication of the line.                                        *)
LEMMA PublishKeepsRings ==
  ASSUME NEW m \in Transport, mmio \in Transport, SameRings(mmio, m), Publish(m)
  PROVE  SameRings(mmio, mmio')
<1>1. mmio' = [m EXCEPT !.irq_dirty = FALSE]
  BY DEF Publish
<1> QED
  BY <1>1, Zenon DEF SameRings, Transport

(* A new register file has no ring, and a driven one is not reset.         *)
LEMMA FreshRings ==
  /\ NewTransport \in Transport /\ ~IsReady(NewTransport, TX)
  /\ DrivenTransport \in Transport /\ DrivenTransport.status # {}
<1> DEFINE old == [q \in Queue |-> NoRegs]
           ring == [num |-> QueueMax, ready |-> TRUE, desc |-> 1, avail |-> 1, used |-> 1]
           new == [q \in Queue |-> ring]
           up == {"ACKNOWLEDGE", "DRIVER", "FEATURES_OK", "DRIVER_OK"}
<1>1. NoRegs \in QueueRegs /\ NoRegs.ready = FALSE /\ ring \in QueueRegs
  BY RingNumbers DEF NoRegs, QueueRegs
<1>2. old \in [Queue -> QueueRegs] /\ old[TX] = NoRegs /\ new \in [Queue -> QueueRegs]
  BY <1>1, RingNumbers
<1>3. up \in SUBSET StatusBit /\ up # {}
  BY DEF StatusBit
<1> HIDE DEF old, new, up
<1>4. NewTransport \in Transport /\ NewTransport.queues = old
  BY <1>2, RingNumbers DEF NewTransport, Transport, old
<1>5. DrivenTransport = [NewTransport EXCEPT !.status = up, !.queues = new]
  BY DEF DrivenTransport, up, new
<1>6. DrivenTransport \in Transport /\ DrivenTransport.status = up
  BY <1>2, <1>3, <1>4, <1>5, Zenon DEF Transport
<1> QED
  BY <1>1, <1>2, <1>3, <1>4, <1>6 DEF IsReady

(* Writing status 0 takes the transmit ring away.                          *)
LEMMA ResetUnreadies ==
  ASSUME mmio \in Transport, Publish(WriteStatus(mmio, {}))
  PROVE  mmio' \in Transport /\ ~IsReady(mmio, TX)'
<1> DEFINE d == [mmio EXCEPT !.status = {}]
           old == [q \in Queue |-> NoRegs]
           r == [d EXCEPT !.queues = old, !.selected = 0, !.guest_features = {}, !.interrupt_status = {}]
<1>1. old \in [Queue -> QueueRegs] /\ old[TX].ready = FALSE
  BY RingNumbers DEF NoRegs, QueueRegs
<1>2. d \in Transport /\ d.status = {}
  BY DEF Transport
<1>3. WriteStatus(mmio, {}) = SetIrqLevel(r, FALSE)
  BY <1>2 DEF WriteStatus, DriveStatus, IsReset, ResetDevice
<1> HIDE DEF d, old
<1>4. r \in Transport /\ r.queues = old
  BY <1>1, <1>2, RingNumbers, Zenon DEF Transport
<1> HIDE DEF r
<1>5. SameRings(r, SetIrqLevel(r, FALSE))
  BY <1>4, LevelKeepsRings, Zenon
<1> DEFINE s == SetIrqLevel(r, FALSE)
<1>6. s \in Transport /\ s.queues = old /\ mmio' = [s EXCEPT !.irq_dirty = FALSE]
  BY <1>3, <1>4, <1>5, Zenon DEF SameRings, Publish
<1> HIDE DEF s
<1>7. mmio' \in Transport /\ mmio'.queues = old
  BY <1>6, Zenon DEF Transport
<1> QED
  BY <1>1, <1>7 DEF IsReady

-----------------------------------------------------------------------------
(* Steps that take no buffer off a ring.                                   *)

(* Readiness depends on the queue registers alone.                         *)
LEMMA RingsStayReady ==
  ASSUME SameRings(mmio, mmio'), NEW q
  PROVE  IsReady(mmio, q)' = IsReady(mmio, q)
BY DEF SameRings, IsReady

(* A step that takes nothing from a ring and leaves the device open keeps  *)
(* the invariant if the worker's sleep stays justified.                    *)
LEMMA TxKept ==
  ASSUME TxInv, SameRings(mmio, mmio'), UNCHANGED <<next, batch, closed>>,
         avail' \in [DataQueue -> Index], kick' \in [DataQueue -> {"idle", "check", "notify"}],
         driver' \in [queues : DriverQueues, resets : Int],
         pc' \in PcLabel, pc' \in Between => pc \in Between, TxSleep'
  PROVE  TxInv'
<1>1. TxTypes'
  BY DEF TxInv, TxTypes, SameRings
<1>2. TxDevice'
  BY RingsStayReady DEF TxInv, TxDevice, SameRings
<1> QED
  BY <1>1, <1>2 DEF TxInv

(* A step that leaves the register file alone leaves the rings alone.      *)
LEMMA RingsAreSame ==
  ASSUME TxInv
  PROVE  SameRings(mmio, mmio)
BY DEF TxInv, TxTypes, SameRings

(* The worker's way to sleep and back: end, suppress, service, yield,      *)
(* rearm, wait, wake.                                                      *)
LEMMA WorkerWaits ==
  ASSUME TxInv, Finish \/ SuppressNotifications \/ Service \/ Yield \/ Rearm \/ PollWait \/ Wake
  PROVE  TxInv'
<1> USE DEF memory, transport, work, worker, guest, Goto
<1>1. /\ UNCHANGED <<avail, next, kick, mmio, batch, closed, driver>>
      /\ pc \in {"top", "service", "yield", "rearm", "wait", "parked"}
      /\ pc' \in {"done", "capture_tx", "yield", "rearm", "recheck", "wait", "parked", "top"}
  BY DEF Finish, SuppressNotifications, Service, Schedule, Ring1, Yield, Rearm, PollWait, Wake
<1>2. /\ IsReady(mmio, TX)' = IsReady(mmio, TX)
      /\ TxLooked /\ no_notify' = no_notify => TxLooked'
  BY <1>1 DEF IsReady, TxLooked
<1>3. TxSleep'
  <2>1. CASE Finish \/ SuppressNotifications \/ Service \/ Yield
    <3>1. bell' = woken' /\ pc' \notin {"recheck", "wait", "parked"}
      BY <2>1, Zenon DEF Finish, SuppressNotifications, Service, Schedule, Ring1, Yield, TxInv, TxSleep
    <3> QED
      BY <3>1 DEF TxSleep
  <2>2. CASE Rearm
    <3>1. UNCHANGED <<bell, woken>> /\ pc' \in {"recheck", "wait"}
      BY <2>2 DEF Rearm
    <3>2. pc' = "recheck" => ~no_notify'
      BY <2>2 DEF Rearm
    <3>3. pc' = "wait" => ~IsReady(mmio, TX)
      BY <2>2 DEF Rearm
    <3> QED
      BY <1>2, <3>1, <3>2, <3>3 DEF TxInv, TxSleep
  <2>3. CASE PollWait
    <3>1. /\ bell' = FALSE /\ woken' = FALSE /\ UNCHANGED no_notify /\ pc = "wait"
          /\ pc' \in {"top", "parked"} /\ (pc' = "parked" => ~bell)
      BY <2>3 DEF PollWait
    <3> QED
      BY <1>2, <3>1, Zenon DEF TxInv, TxSleep
  <2>4. CASE Wake
    <3>1. UNCHANGED <<bell, woken>> /\ woken /\ pc' = "wait"
      BY <2>4 DEF Wake
    <3> QED
      BY <3>1 DEF TxInv, TxSleep
  <2> QED
    BY <2>1, <2>2, <2>3, <2>4
<1> QED
  BY <1>1, <1>3, TxKept, RingsAreSame, Zenon DEF TxInv, TxTypes, Between, PcLabel

(* The timer's flush.                                                      *)
LEMMA TimerKeeps ==
  ASSUME TxInv, TimerEnds
  PROVE  TxInv'
<1> USE DEF memory, transport, work, worker, guest, Goto
<1>1. /\ UNCHANGED <<avail, next, kick, batch, closed, driver>> /\ pc = "parked" /\ pc' = "top"
      /\ bell' = FALSE /\ woken' = FALSE
  BY DEF TimerEnds
<1>2. SameRings(mmio, mmio')
  <2>1. CASE mmio' = mmio
    BY <2>1, RingsAreSame
  <2>2. CASE Publish(Signal(mmio, INT_USED_BUFFER)) \/ Publish(mmio)
    BY <2>2, RingsAreSame, SignalKeepsRings, PublishKeepsRings DEF TxInv, TxTypes, SameRings
  <2> QED
    BY <2>1, <2>2 DEF TimerEnds
<1>3. TxSleep'
  BY <1>1, Zenon DEF TxSleep
<1> QED
  BY <1>1, <1>2, <1>3, TxKept DEF TxInv, TxTypes, Between, PcLabel

(* Other tasks, the event queue, and the guest's interrupt handler.        *)
LEMMA OthersKeep ==
  ASSUME TxInv, TaskSchedules \/ NotifyEvent \/ Acknowledge \/ Dispatch
                \/ \E q \in DataQueue : Drain(q) \/ Enable(q) \/ Look(q)
  PROVE  TxInv'
<1> USE DEF memory, transport, work, worker, guest
<1>1. /\ UNCHANGED <<avail, next, kick, batch, closed, driver, pc, no_notify>>
      /\ bell' = woken' /\ (~bell' => ~bell)
  <2>1. CASE TaskSchedules
    BY <2>1 DEF TaskSchedules, Schedule, Ring1
  <2>2. CASE NotifyEvent
    BY <2>2 DEF NotifyEvent, Ring1
  <2>3. CASE Acknowledge
    BY <2>3 DEF Acknowledge, TxInv, TxSleep
  <2>4. CASE Dispatch
    BY <2>4, Zenon DEF Dispatch, TxInv, TxSleep
  <2>5. ASSUME NEW q \in DataQueue, Drain(q) \/ Enable(q) \/ Look(q)
        PROVE  /\ UNCHANGED <<avail, next, kick, batch, closed, driver, pc, no_notify>>
               /\ bell' = woken' /\ (~bell' => ~bell)
    <3>1. /\ UNCHANGED <<avail, next, kick, batch, closed, driver, pc, no_notify>>
          /\ bell' = bell /\ woken' = woken
      BY <2>5, Zenon DEF Drain, Enable, Look
    <3> QED
      BY <3>1, Zenon DEF TxInv, TxSleep
  <2> QED
    BY <2>1, <2>2, <2>3, <2>4, <2>5
<1>2. SameRings(mmio, mmio')
  <2>1. CASE mmio' = mmio
    BY <2>1, RingsAreSame
  <2>2. CASE Acknowledge
    BY <2>2, AckKeepsRings, PublishKeepsRings DEF Acknowledge, TxInv, TxTypes, SameRings
  <2> QED
    BY <2>1, <2>2 DEF TaskSchedules, NotifyEvent, Dispatch, Drain, Enable, Look
<1>3. TxSleep'
  <2>1. TxLooked => TxLooked'
    BY <1>1 DEF TxLooked
  <2> QED
    BY <1>1, <1>2, <2>1, RingsStayReady, Zenon DEF TxInv, TxSleep
<1> QED
  BY <1>1, <1>2, <1>3, TxKept DEF TxInv, TxTypes

(* A notification either rings or finds no ring to serve.                  *)
LEMMA NotifyKeeps ==
  ASSUME TxInv, NEW q \in DataQueue, Notify(q)
  PROVE  TxInv'
<1> USE DEF memory, transport, work, worker, guest
<1>1. /\ UNCHANGED <<avail, next, mmio, batch, closed, driver, pc, no_notify>>
      /\ kick' = [kick EXCEPT ![q] = "idle"]
  BY DEF Notify, Ring1
<1>2. kick' \in [DataQueue -> {"idle", "check", "notify"}]
  BY <1>1 DEF TxInv, TxTypes
<1>3. \/ UNCHANGED <<bell, woken>> /\ (q = TX => ~IsReady(mmio, TX))
      \/ bell' = TRUE /\ woken' = TRUE
  <2>1. CASE closed \/ ~IsReady(mmio, q)
    BY <2>1 DEF Notify, TxInv, TxDevice
  <2>2. CASE ~(closed \/ ~IsReady(mmio, q))
    BY <2>2 DEF Notify, Ring1
  <2> QED
    BY <2>1, <2>2, Zenon
<1>4. TxSleep'
  <2>1. CASE bell'
    BY <1>1, <1>3, <2>1, Zenon DEF TxInv, TxSleep
  <2>2. CASE ~bell' /\ q = TX
    <3>1. UNCHANGED <<bell, woken>> /\ ~IsReady(mmio, TX)'
      BY <1>1, <1>3, <2>2 DEF IsReady
    <3> QED
      BY <1>1, <3>1 DEF TxInv, TxSleep
  <2>3. CASE ~bell' /\ q # TX
    <3>1. UNCHANGED <<bell, woken>> /\ kick'[TX] = kick[TX]
      BY <1>1, <1>3, <2>3, RingNumbers DEF TxInv, TxTypes
    <3> QED
      BY <1>1, <3>1 DEF TxInv, TxSleep, TxLooked, IsReady
  <2> QED
    BY <2>1, <2>2, <2>3
<1> QED
  BY <1>1, <1>2, <1>4, TxKept, RingsAreSame DEF TxInv, TxTypes

(* A driver that publishes a buffer, or that decides on a notification.    *)
(* Publishing may make the ring unprocessed, but then the driver is about  *)
(* to look at the flag, and it looks at one that allows notifications.     *)
LEMMA PostKeeps ==
  ASSUME TxInv, NEW q \in DataQueue, Post(q) \/ CheckNotify(q)
  PROVE  TxInv'
<1> USE DEF memory, transport, work, worker, guest
<1>1. UNCHANGED <<next, mmio, batch, closed, driver, pc, no_notify, bell, woken>>
  BY Zenon DEF Post, CheckNotify
<1>2. avail' \in [DataQueue -> Index]
  <2>1. avail[q] \in Index
    BY DEF TxInv, TxTypes
  <2>2. Advance(avail[q], 1) \in Index
    BY <2>1, AdvanceFacts
  <2> QED
    BY <2>2 DEF Post, CheckNotify, TxInv, TxTypes
<1>3. kick' \in [DataQueue -> {"idle", "check", "notify"}]
  BY DEF Post, CheckNotify, TxInv, TxTypes
<1>4. TxLooked => TxLooked'
  <2>1. CASE q = TX
    <3>1. CASE Post(q)
      BY <1>1, <2>1, <3>1 DEF Post, TxLooked, TxInv, TxTypes
    <3>2. CASE CheckNotify(q)
      BY <1>1, <2>1, <3>2 DEF CheckNotify, TxLooked, TxInv, TxTypes
    <3> QED
      BY <3>1, <3>2
  <2>2. CASE q # TX
    <3>1. avail'[TX] = avail[TX] /\ kick'[TX] = kick[TX]
      BY <2>2, RingNumbers DEF Post, CheckNotify, TxInv, TxTypes
    <3> QED
      BY <1>1, <3>1 DEF TxLooked
  <2> QED
    BY <2>1, <2>2
<1>5. TxSleep'
  BY <1>1, <1>4 DEF TxInv, TxSleep, IsReady
<1> QED
  BY <1>1, <1>2, <1>3, <1>5, TxKept, RingsAreSame DEF TxInv, TxTypes

-----------------------------------------------------------------------------
(* Steps of a pass over the rings.                                         *)

(* A step of a pass that does not go to sleep.                             *)
LEMMA InsidePass ==
  ASSUME TxInv, SameRings(mmio, mmio'), UNCHANGED <<avail, kick, driver, closed, bell, woken>>,
         next' \in [DataQueue -> Index], batch' \in Batches,
         pc' \in PcLabel \ {"recheck", "wait", "parked"}, pc' \in Between => batch' = NoBatch,
         ~IsReady(mmio, TX) => next'[TX] = 0 /\ batch'.heads[TX] = 0 /\ batch'.done[TX] = 0
  PROVE  TxInv'
<1>1. TxTypes'
  BY DEF TxInv, TxTypes, SameRings
<1>2. TxDevice'
  BY RingsStayReady DEF TxInv, TxDevice, SameRings
<1>3. TxSleep'
  BY DEF TxInv, TxSleep
<1> QED
  BY <1>1, <1>2, <1>3 DEF TxInv

(* A look at a ready ring that finds nothing leaves next at the index it   *)
(* read, an index it did not believe included.                             *)
LEMMA EntriesFacts ==
  ASSUME TxInv, NEW q \in DataQueue
  PROVE  /\ Entries(q) \in Int
         /\ Resynced(q) \in [DataQueue -> Index]
         /\ Entries(q) = 0 /\ IsReady(mmio, q) => Resynced(q)[q] = avail[q]
         /\ ~IsReady(mmio, q) => Entries(q) = 0 /\ Resynced(q) = next
<1>1. next[q] \in Index /\ avail[q] \in Index
  BY DEF TxInv, TxTypes
<1>2. Ahead(next[q], avail[q]) \in Int /\ (Ahead(next[q], avail[q]) = 0 => next[q] = avail[q])
  BY <1>1, AheadFacts
<1>3. Entries(q) \in Int
  BY <1>2 DEF Entries, PendingEntries
<1>4. Resynced(q) \in [DataQueue -> Index]
  BY <1>1 DEF Resynced, ResyncNext, TxInv, TxTypes
<1>5. Entries(q) = 0 /\ IsReady(mmio, q) => Resynced(q)[q] = avail[q]
  BY <1>1, <1>2 DEF Entries, PendingEntries, Resynced, ResyncNext, TxInv, TxTypes
<1> QED
  BY <1>3, <1>4, <1>5, Zenon DEF Entries, Resynced

(* What capture_queue_batch puts into a batch.                             *)
LEMMA CaptureFacts ==
  ASSUME TxInv, NEW q \in DataQueue
  PROVE  /\ Capture(batch, q) \in Batches
         /\ Capture(batch, q).done = batch.done
         /\ \A p \in DataQueue : p # q => Capture(batch, q).heads[p] = batch.heads[p]
         /\ Entries(q) = 0 => Capture(batch, q).heads[q] = 0
<1> DEFINE n == Smaller(Entries(q), MAX_DEVICE_STEPS)
           m == Entries(q) > n
<1>1. n \in Int /\ m \in BOOLEAN
  BY EntriesFacts, RingNumbers DEF Smaller
<1>2. Entries(q) = 0 => n = 0
  BY RingNumbers DEF Smaller
<1>3. Capture(batch, q) = [batch EXCEPT !.heads[q] = n, !.more[q] = m]
  BY DEF Capture
<1> DEFINE hs == [batch.heads EXCEPT ![q] = n]
           ms == [batch.more EXCEPT ![q] = m]
<1> HIDE DEF n, m
<1>4. hs \in [DataQueue -> Int] /\ ms \in [DataQueue -> BOOLEAN] /\ hs[q] = n
      /\ \A p \in DataQueue : p # q => hs[p] = batch.heads[p]
  BY <1>1 DEF TxInv, TxTypes, Batches
<1>5. Capture(batch, q) = [batch EXCEPT !.heads = hs, !.more = ms]
  BY <1>3 DEF TxInv, TxTypes, Batches
<1> HIDE DEF hs, ms
<1>6. Capture(batch, q) \in Batches /\ Capture(batch, q).done = batch.done
      /\ Capture(batch, q).heads = hs
  BY <1>4, <1>5, Zenon DEF TxInv, TxTypes, Batches
<1> QED
  BY <1>2, <1>4, <1>6

(* The transmit ring is captured,                                          *)
LEMMA CaptureTxKeeps ==
  ASSUME TxInv, CaptureTx
  PROVE  TxInv'
<1> USE DEF memory, transport, work, worker, guest, Goto
<1>1. /\ UNCHANGED <<avail, mmio, kick, driver, closed, bell, woken>> /\ pc' = "capture_rx"
      /\ \/ UNCHANGED <<batch, next>>
         \/ batch' = Capture(batch, TX) /\ next' = Resynced(TX)
  BY Zenon DEF CaptureTx
<1>2. next' \in [DataQueue -> Index] /\ batch' \in Batches
  BY <1>1, EntriesFacts, CaptureFacts, RingNumbers DEF TxInv, TxTypes
<1>3. ~IsReady(mmio, TX) => next'[TX] = 0 /\ batch'.heads[TX] = 0 /\ batch'.done[TX] = 0
  BY <1>1, EntriesFacts, CaptureFacts, RingNumbers, Zenon DEF TxInv, TxDevice
<1> QED
  BY <1>1, <1>2, <1>3, InsidePass, RingsAreSame DEF PcLabel, Between

(* then the receive ring;                                                  *)
LEMMA CaptureRxKeeps ==
  ASSUME TxInv, CaptureRx
  PROVE  TxInv'
<1> USE DEF memory, transport, work, worker, guest, Goto
<1> DEFINE c == Capture(batch, RX)
<1>1. /\ UNCHANGED <<avail, mmio, kick, driver, closed, bell, woken>> /\ pc' = "process"
      /\ \/ UNCHANGED <<batch, next>>
         \/ batch' = [c EXCEPT !.rx_enabled = TRUE] /\ next' = Resynced(RX)
  BY DEF CaptureRx
<1>2. c \in Batches /\ c.done = batch.done /\ c.heads[TX] = batch.heads[TX]
  BY CaptureFacts, RingNumbers
<1> HIDE DEF c
<1>3. next' \in [DataQueue -> Index] /\ batch' \in Batches
  <2>1. next' \in [DataQueue -> Index]
    BY <1>1, EntriesFacts, RingNumbers DEF TxInv, TxTypes
  <2>2. [c EXCEPT !.rx_enabled = TRUE] \in Batches
    BY <1>2, Zenon DEF Batches
  <2>3. batch \in Batches
    BY DEF TxInv, TxTypes
  <2> QED
    BY <1>1, <2>1, <2>2, <2>3, Zenon
<1>4. next'[TX] = next[TX] /\ batch'.heads[TX] = batch.heads[TX] /\ batch'.done[TX] = batch.done[TX]
  <2>1. next'[TX] = next[TX]
    BY <1>1, RingNumbers DEF Resynced, TxInv, TxTypes
  <2>2. batch'.heads[TX] = batch.heads[TX] /\ batch'.done[TX] = batch.done[TX]
    BY <1>1, <1>2 DEF Batches
  <2> QED
    BY <2>1, <2>2
<1> QED
  BY <1>1, <1>3, <1>4, InsidePass, RingsAreSame DEF PcLabel, Between, TxInv, TxDevice

(* a round of process_pending takes a packet or a buffer;                  *)
LEMMA ProcessKeeps ==
  ASSUME TxInv, NEW payload \in BOOLEAN, NEW brings \in {0, 1}, NEW stale \in BOOLEAN, NEW outcome,
         Process(payload, brings, stale, outcome)
  PROVE  TxInv'
<1> USE DEF memory, transport, work, worker, guest, Goto
<1> DEFINE tx == batch.done[TX] < batch.heads[TX]
           ron == (batch.rx_enabled \/ tx) /\ outcome # "idle"
           hp == batch.has_tx_payload \/ payload
           dn == [q \in DataQueue |->
                    batch.done[q] + IF (q = TX /\ tx) \/ (q = RX /\ outcome \in {"refused", "sent", "part"})
                                    THEN 1 ELSE 0]
           st == batch.steps + 1
<1>1. /\ UNCHANGED <<avail, mmio, kick, driver, closed, bell, woken, next>>
      /\ pc' \in {"process", "publish_tx"}
  BY DEF Process
<1>2. batch' = [batch EXCEPT !.done = dn, !.rx_enabled = ron, !.has_tx_payload = hp, !.steps = st]
  BY DEF Process
<1>3. dn \in [DataQueue -> Int] /\ ron \in BOOLEAN /\ hp \in BOOLEAN /\ st \in Int
  BY DEF TxInv, TxTypes, Batches
<1>4. batch.heads[TX] = 0 /\ batch.done[TX] = 0 => dn[TX] = 0
  BY RingNumbers
<1> HIDE DEF tx, ron, hp, dn, st
<1>5. batch' \in Batches /\ batch'.heads = batch.heads /\ batch'.done = dn
  BY <1>2, <1>3, Zenon DEF TxInv, TxTypes, Batches
<1> QED
  BY <1>1, <1>4, <1>5, InsidePass, RingsAreSame, Zenon DEF PcLabel, Between, TxInv, TxDevice, TxTypes

(* the completions are published,                                          *)
LEMMA PublishKeeps ==
  ASSUME TxInv, PublishTx \/ PublishRx
  PROVE  TxInv'
<1> USE DEF memory, transport, work, worker, guest, Goto
<1>1. PICK q \in DataQueue : next' = [next EXCEPT ![q] = Advance(@, batch.done[q])]
  BY RingNumbers, Zenon DEF PublishTx, PublishRx, PublishQueue
<1>2. /\ UNCHANGED <<avail, mmio, kick, driver, closed, bell, woken, batch>>
      /\ pc' \in {"flags_tx", "publish_rx", "flags_rx", "signal"}
  BY DEF PublishTx, PublishRx, PublishQueue
<1>3. next[q] \in Index /\ batch.done[q] \in Int /\ next[TX] \in Index
  BY RingNumbers DEF TxInv, TxTypes, Batches
<1>4. Advance(next[q], batch.done[q]) \in Index
      /\ (next[q] = 0 /\ batch.done[q] = 0 => Advance(next[q], batch.done[q]) = 0)
  BY <1>3, AdvanceFacts
<1>5. next' \in [DataQueue -> Index]
  BY <1>1, <1>4 DEF TxInv, TxTypes
<1>6. ~IsReady(mmio, TX) => next'[TX] = 0 /\ batch'.heads[TX] = 0 /\ batch'.done[TX] = 0
  BY <1>1, <1>2, <1>4, RingNumbers, Zenon DEF TxInv, TxTypes, TxDevice
<1> QED
  BY <1>2, <1>5, <1>6, InsidePass, RingsAreSame, Zenon DEF PcLabel, Between, TxInv, TxTypes

(* the guest's interrupt flags read,                                       *)
LEMMA FlagsKeep ==
  ASSUME TxInv, FlagsTx \/ FlagsRx
  PROVE  TxInv'
<1> USE DEF memory, transport, work, worker, guest, Goto
<1>1. PICK q \in DataQueue, f \in BOOLEAN : batch' = [batch EXCEPT !.requested[q] = f]
  BY RingNumbers, Zenon DEF FlagsTx, FlagsRx, ReadFlags
<1>2. /\ UNCHANGED <<avail, mmio, kick, driver, closed, bell, woken, next>>
      /\ pc' \in {"publish_rx", "signal"}
  BY DEF FlagsTx, FlagsRx, ReadFlags
<1>3. batch' \in Batches /\ batch'.heads = batch.heads /\ batch'.done = batch.done
  BY <1>1, Zenon DEF TxInv, TxTypes, Batches
<1> QED
  BY <1>2, <1>3, InsidePass, RingsAreSame, Zenon DEF PcLabel, Between, TxInv, TxDevice, TxTypes

(* and the interrupt requested.                                            *)
LEMMA InterruptKeeps ==
  ASSUME TxInv, RequestUsedInterrupt
  PROVE  TxInv'
<1> USE DEF memory, transport, work, worker, guest, Goto
<1>1. /\ UNCHANGED <<avail, kick, driver, closed, bell, woken, next>>
      /\ pc' = "service" /\ batch' = NoBatch
      /\ Publish(Signal(mmio, INT_USED_BUFFER)) \/ Publish(mmio)
  BY DEF RequestUsedInterrupt
<1>2. SameRings(mmio, mmio')
  BY <1>1, RingsAreSame, SignalKeepsRings, PublishKeepsRings DEF TxInv, TxTypes, SameRings
<1> QED
  BY <1>1, <1>2, InsidePass, NoBatchFacts, Zenon DEF PcLabel, TxInv, TxDevice, TxTypes

(* The last look before sleep: it either finds work or leaves nothing      *)
(* unprocessed.                                                            *)
LEMMA RecheckKeeps ==
  ASSUME TxInv, Recheck
  PROVE  TxInv'
<1> USE DEF memory, transport, work, worker, guest, Goto
<1>1. /\ UNCHANGED <<avail, mmio, kick, driver, closed, bell, woken, batch, no_notify>>
      /\ pc = "recheck" /\ pc' \in {"top", "wait"} /\ next' = Resynced(TX)
      /\ (pc' = "wait" => Entries(TX) = 0)
  BY DEF Recheck
<1>2. /\ next' \in [DataQueue -> Index]
      /\ (pc' = "wait" /\ IsReady(mmio, TX) => next'[TX] = avail[TX])
      /\ (~IsReady(mmio, TX) => next' = next)
  BY <1>1, EntriesFacts, RingNumbers
<1>3. IsReady(mmio, TX)' = IsReady(mmio, TX)
  BY <1>1 DEF IsReady
<1>4. TxTypes'
  BY <1>1, <1>2, Zenon DEF TxInv, TxTypes, PcLabel
<1>5. TxDevice'
  BY <1>1, <1>2, <1>3, Zenon DEF TxInv, TxDevice, Between
<1>6. TxSleep'
  BY <1>1, <1>2, <1>3 DEF TxInv, TxSleep, TxLooked
<1> QED
  BY <1>4, <1>5, <1>6 DEF TxInv

-----------------------------------------------------------------------------
(* The device is reset, closed and started again.                          *)

(* Where other code of the component may run, no batch is held.            *)
LEMMA AwaitsHoldNoBatch ==
  ASSUME TxInv, AtAwait
  PROVE  batch = NoBatch /\ batch.heads[TX] = 0 /\ batch.done[TX] = 0
BY NoBatchFacts DEF TxInv, TxDevice, AtAwait, Between

(* The driver resets the device,                                           *)
LEMMA ResetKeeps ==
  ASSUME TxInv, DeviceReset
  PROVE  TxInv'
<1> USE DEF memory, work, worker, guest
<1>1. /\ UNCHANGED <<avail, kick, pc, batch, no_notify, closed>>
      /\ bell' = TRUE /\ woken' = TRUE /\ next' = [q \in DataQueue |-> 0]
      /\ driver' = [driver EXCEPT !.resets = @ - 1]
  BY DEF DeviceReset, Ring1
<1>2. mmio' \in Transport /\ ~IsReady(mmio, TX)'
  BY ResetUnreadies DEF DeviceReset, TxInv, TxTypes
<1>3. next' \in [DataQueue -> Index] /\ next'[TX] = 0
  BY <1>1, RingNumbers
<1>4. driver' \in [queues : DriverQueues, resets : Int]
  BY <1>1 DEF TxInv, TxTypes
<1>5. TxTypes'
  BY <1>1, <1>2, <1>3, <1>4 DEF TxInv, TxTypes
<1>6. AtAwait
  BY DEF DeviceReset
<1>7. TxDevice'
  BY <1>1, <1>2, <1>3, <1>6, AwaitsHoldNoBatch DEF TxDevice
<1>8. TxSleep'
  BY <1>1 DEF TxInv, TxSleep
<1> QED
  BY <1>5, <1>7, <1>8 DEF TxInv

(* the host closes it,                                                     *)
LEMMA CloseKeeps ==
  ASSUME TxInv, CloseDevice
  PROVE  TxInv'
<1> USE DEF memory, work, worker, guest
<1>1. /\ UNCHANGED <<avail, kick, pc, batch, no_notify, driver>>
      /\ bell' = TRUE /\ woken' = TRUE /\ next' = [q \in DataQueue |-> 0]
      /\ mmio' = NewTransport /\ AtAwait
  BY DEF CloseDevice
<1>2. mmio' \in Transport /\ ~IsReady(mmio, TX)'
  BY <1>1, FreshRings DEF IsReady
<1>3. next' \in [DataQueue -> Index] /\ next'[TX] = 0
  BY <1>1, RingNumbers
<1>4. TxTypes'
  BY <1>1, <1>2, <1>3 DEF TxInv, TxTypes
<1>5. TxDevice'
  BY <1>1, <1>2, <1>3, AwaitsHoldNoBatch DEF TxDevice
<1>6. TxSleep'
  BY <1>1 DEF TxInv, TxSleep
<1> QED
  BY <1>4, <1>5, <1>6 DEF TxInv

(* and a driver starts it again, with empty rings.                         *)
LEMMA StartKeeps ==
  ASSUME TxInv, DriverStart
  PROVE  TxInv'
<1> USE DEF memory, work, worker, guest
<1>1. /\ UNCHANGED <<next, kick, pc, batch, driver, closed, bell, woken>>
      /\ avail' = [q \in DataQueue |-> 0] /\ ~no_notify'
      /\ mmio' = DrivenTransport /\ AtAwait /\ ~closed /\ mmio.status = {}
  BY Zenon DEF DriverStart
<1>2. mmio' \in Transport /\ mmio'.status # {}
  BY <1>1, FreshRings
<1>3. avail' \in [DataQueue -> Index] /\ avail'[TX] = 0
  BY <1>1, RingNumbers
<1>4. next[TX] = 0
  BY <1>1 DEF TxInv, TxDevice
<1>5. TxTypes'
  BY <1>1, <1>2, <1>3 DEF TxInv, TxTypes
<1>6. TxDevice'
  BY <1>1, <1>2, <1>4, AwaitsHoldNoBatch DEF TxDevice
<1>7. TxSleep'
  BY <1>1, <1>3, <1>4 DEF TxInv, TxSleep, TxLooked
<1> QED
  BY <1>5, <1>6, <1>7 DEF TxInv

-----------------------------------------------------------------------------
(* The invariant holds at the start,                                       *)
LEMMA TxStarts ==
  ASSUME FrontendInit
  PROVE  TxInv
<1>1. driver \in [queues : DriverQueues, resets : Int]
  BY FrontendAssumption DEF FrontendInit
<1>2. TxTypes
  BY <1>1, FreshRings, NoBatchFacts, RingNumbers DEF FrontendInit, TxTypes, PcLabel
<1>3. TxDevice
  BY FreshRings, NoBatchFacts, RingNumbers DEF FrontendInit, TxDevice
<1>4. TxSleep
  BY Zenon DEF FrontendInit, TxSleep
<1> QED
  BY <1>2, <1>3, <1>4 DEF TxInv

(* and every step keeps it.                                                *)
LEMMA TxSteps ==
  ASSUME TxInv, [FrontendNext]_frontendVars
  PROVE  TxInv'
<1>1. CASE UNCHANGED frontendVars
  <2>1. /\ UNCHANGED <<avail, next, kick, mmio, batch, closed, driver>>
        /\ UNCHANGED <<pc, no_notify, bell, woken>>
    BY <1>1 DEF frontendVars, memory, transport, work, worker, guest
  <2>2. TxSleep'
    BY <2>1, Zenon DEF TxInv, TxSleep, TxLooked, IsReady
  <2> QED
    BY <2>1, <2>2, TxKept, RingsAreSame DEF TxInv, TxTypes
<1>2. CASE WorkerStep
  BY <1>2, WorkerWaits, TimerKeeps, CaptureTxKeeps, CaptureRxKeeps, ProcessKeeps, PublishKeeps,
     FlagsKeep, InterruptKeeps, RecheckKeeps, Zenon DEF WorkerStep
<1>3. CASE \E q \in driver.queues : Post(q)
  <2>1. driver.queues \subseteq DataQueue
    BY FrontendAssumption DEF TxInv, TxTypes
  <2> QED
    BY <1>3, <2>1, PostKeeps
<1>4. CASE \E q \in DataQueue :
             CheckNotify(q) \/ Notify(q) \/ Drain(q) \/ Enable(q) \/ Look(q)
  BY <1>4, PostKeeps, NotifyKeeps, OthersKeep, Zenon
<1>5. CASE TaskSchedules \/ NotifyEvent \/ Acknowledge \/ Dispatch
  BY <1>5, OthersKeep, Zenon
<1>6. CASE DeviceReset \/ CloseDevice \/ DriverStart
  BY <1>6, ResetKeeps, CloseKeeps, StartKeeps, Zenon
<1> QED
  BY <1>1, <1>2, <1>3, <1>4, <1>5, <1>6, Zenon DEF FrontendNext

(* A worker of the vsock frontend that sleeps unwoken on a ready transmit  *)
(* ring has notifications on, and each buffer it has not processed was     *)
(* published by a driver that will still see that, or is about to notify:  *)
(* rearm_tx_notifications and Doorbell::poll_wait lose no kick.            *)
THEOREM NoTxKickIsLost == FrontendSpec => []NoLostTxKick
<1>1. TxInv => NoLostTxKick
  BY DEF TxInv, TxSleep, TxLooked, NoLostTxKick
<1> QED
  BY <1>1, TxStarts, TxSteps, PTL DEF FrontendSpec

-----------------------------------------------------------------------------
(* Where the worker has published what it took from a ring in this pass.   *)
Published(q) == IF q = TX THEN {"flags_tx", "publish_rx", "flags_rx", "signal"} ELSE {"flags_rx", "signal"}

(* A pass with the receive ring captured and not yet published.            *)
Pass == {"process", "publish_tx", "flags_tx", "publish_rx"}

ServeTypes ==
  /\ used \in [DataQueue -> Index] /\ cleaned \in [DataQueue -> Index]
  /\ pending \in [DataQueue -> BOOLEAN] /\ replies \in Nat
  /\ pending_rx \in BOOLEAN /\ progressed \in BOOLEAN
  /\ \A q \in DataQueue : 0 <= batch.done[q] /\ batch.done[q] <= batch.heads[q]

(* A started device has full rings, any other has none and took nothing.   *)
RegsInv ==
  /\ IsDriven => \A q \in DataQueue : IsReady(mmio, q) /\ mmio.queues[q].num = QueueMax
  /\ ~IsDriven => \A q \in DataQueue : ~IsReady(mmio, q) /\ next[q] = 0 /\ batch.heads[q] = 0
  /\ closed => ~IsDriven

(* The driver's ring and the device's are in step, and what a pass has     *)
(* captured is there to be taken.                                          *)
RingInv(q) ==
  IsDriven =>
    /\ Ahead(cleaned[q], avail[q]) <= QueueMax
    /\ Ahead(cleaned[q], next[q]) + Ahead(next[q], avail[q]) = Ahead(cleaned[q], avail[q])
    /\ used[q] = next[q]
    /\ pc \notin Published(q) => batch.heads[q] <= Ahead(next[q], avail[q])

(* A reply that waits, and receive buffers nobody will notify of.          *)
Waiting == replies > 0 \/ pending_rx
Busy == kick[RX] \in {"check", "notify"}
Left == IsReady(mmio, RX) /\ avail[RX] # next[RX] /\ ~Busy

(* The pass knows of every such buffer.                                    *)
Taken ==
  IsReady(mmio, RX) /\ ~Busy /\ ~batch.more[RX]
    => Ahead(next[RX], avail[RX]) <= batch.heads[RX]

RxPass ==
  \/ Taken /\ (~batch.rx_enabled => ~Waiting)
  \/ ~batch.rx_enabled /\ batch.heads[TX] = 0 /\ batch.heads[RX] = 0 /\ ~(Waiting /\ Left)

RxServed ==
  /\ pc \in Pass => RxPass
  /\ pc \notin Pass => (Waiting /\ Left => pending[RX])
  /\ pc = "capture_rx" => ~batch.rx_enabled /\ ~batch.more[RX] /\ batch.heads[RX] = 0

(* A receive queue left pending keeps the worker from going to sleep.      *)
RxProgress ==
  /\ pc \in Pass => /\ batch.more[RX] => batch.heads[RX] > 0
                    /\ batch.done[RX] > 0 => progressed
  /\ pc \in Pass \ {"process"} =>
       (batch.rx_enabled /\ (batch.done[RX] < batch.heads[RX] \/ batch.more[RX]) => progressed)
  /\ pc \in {"flags_rx", "signal", "service"} => (pending[RX] => progressed \/ bell)
  /\ pc \in {"rearm", "recheck", "wait", "parked"} => (pending[RX] => bell)

ServeInv ==
  TxInv /\ ServeTypes /\ RegsInv /\ (\A q \in DataQueue : RingInv(q)) /\ RxServed /\ RxProgress

-----------------------------------------------------------------------------
(* Ring arithmetic.                                                        *)

(* The distance between two indexes of a ring, without a remainder,        *)
LEMMA AheadForm ==
  ASSUME NEW a \in Index, NEW b \in Index
  PROVE  Ahead(a, b) = IF a <= b THEN b - a ELSE b - a + IndexSize
<1> DEFINE N == IndexSize
<1>1. N \in Nat \ {0} /\ a \in Int /\ b \in Int /\ 0 <= a /\ a < N /\ 0 <= b /\ b < N
  BY RingNumbers DEF Index
<1>2. CASE a <= b
  <2>1. b + N - a = 1 * N + (b - a) /\ 0 <= b - a /\ b - a < N
    BY <1>1, <1>2
  <2> QED
    BY <1>1, <1>2, <2>1 DEF Ahead
<1>3. CASE ~(a <= b)
  BY <1>1, <1>3 DEF Ahead
<1> QED
  BY <1>2, <1>3

(* and an index that moves on, likewise.                                   *)
LEMMA AdvanceForm ==
  ASSUME NEW a \in Index, NEW n \in 0 .. IndexSize - 1
  PROVE  Advance(a, n) = IF a + n < IndexSize THEN a + n ELSE a + n - IndexSize
BY RingNumbers DEF Advance, Index

(* A distance is an index, and zero only from an index to itself.          *)
LEMMA AheadNumbers ==
  ASSUME NEW a \in Index, NEW b \in Index
  PROVE  /\ Ahead(a, b) \in 0 .. IndexSize - 1
         /\ Ahead(a, a) = 0
         /\ Ahead(a, b) = 0 => a = b
BY AheadForm, RingNumbers DEF Index

(* and it is a count of entries,                                           *)
LEMMA AheadCounts ==
  ASSUME NEW a \in Index, NEW b \in Index
  PROVE  Ahead(a, b) \in Nat /\ Ahead(a, a) = 0 /\ (Ahead(a, b) = 0 => a = b)
BY AheadNumbers, RingNumbers

(* of which there are never fewer than none.                               *)
LEMMA NoneIsLeast == 0 \in Nat /\ 0 <= 0 /\ \A n \in Nat : 0 <= n
OBVIOUS

(* The distances on a ring that is no longer than it may be,               *)
LEMMA RoomAhead ==
  ASSUME NEW c \in Index, NEW n \in Index, NEW a \in Index, Ahead(c, a) <= QueueMax,
         Ahead(c, n) + Ahead(n, a) = Ahead(c, a)
  PROVE  /\ Ahead(n, a) <= QueueMax
         /\ \A d \in Nat : d <= Ahead(n, a) => Ahead(c, n) + d < IndexSize
<1>1. Ahead(c, n) \in Nat /\ Ahead(n, a) \in Nat /\ Ahead(c, a) \in Nat
  BY AheadNumbers, RingNumbers
<1> QED BY <1>1, FrontendAssumption, TransportAssumption

(* and on one with room for another entry.                                 *)
LEMMA RoomForOne ==
  ASSUME NEW c \in Index, NEW n \in Index, NEW a \in Index, Ahead(c, a) < QueueMax,
         Ahead(c, n) + Ahead(n, a) = Ahead(c, a)
  PROVE  /\ Ahead(c, a) + 1 < IndexSize /\ Ahead(n, a) + 1 < IndexSize
         /\ Ahead(c, a) + 1 <= QueueMax
         /\ Ahead(c, n) + (Ahead(n, a) + 1) = Ahead(c, a) + 1
         /\ \A h \in Int : h <= Ahead(n, a) => h <= Ahead(n, a) + 1
<1>1. Ahead(c, n) \in Nat /\ Ahead(n, a) \in Nat /\ Ahead(c, a) \in Nat
  BY AheadNumbers, RingNumbers
<1> QED BY <1>1, FrontendAssumption, TransportAssumption

(* An index that moves on by nothing.                                      *)
LEMMA AdvanceNothing ==
  ASSUME NEW i \in Index
  PROVE  Advance(i, 0) = i
BY RingNumbers DEF Advance, Index

(* An index that moves on gets further away from one behind it,            *)
LEMMA AheadGrows ==
  ASSUME NEW a \in Index, NEW b \in Index, NEW n \in Nat, Ahead(a, b) + n < IndexSize
  PROVE  /\ Advance(b, n) \in Index
         /\ Ahead(a, Advance(b, n)) = Ahead(a, b) + n
<1>1. n \in 0 .. IndexSize - 1
  BY AheadNumbers, RingNumbers
<1>2. Advance(b, n) = IF b + n < IndexSize THEN b + n ELSE b + n - IndexSize
  BY <1>1, AdvanceForm
<1>3. Advance(b, n) \in Index
  BY <1>1, <1>2, RingNumbers DEF Index
<1>4. Ahead(a, b) = IF a <= b THEN b - a ELSE b - a + IndexSize
  BY AheadForm
<1>5. Ahead(a, Advance(b, n)) =
        IF a <= Advance(b, n) THEN Advance(b, n) - a ELSE Advance(b, n) - a + IndexSize
  BY <1>3, AheadForm
<1> QED
  BY <1>1, <1>2, <1>3, <1>4, <1>5, RingNumbers DEF Index

(* and closer to one ahead of it.                                          *)
LEMMA AheadShrinks ==
  ASSUME NEW a \in Index, NEW b \in Index, NEW n \in Nat, n <= Ahead(a, b)
  PROVE  /\ Advance(a, n) \in Index
         /\ Ahead(Advance(a, n), b) = Ahead(a, b) - n
<1>1. n \in 0 .. IndexSize - 1
  BY AheadNumbers, RingNumbers
<1>2. Advance(a, n) = IF a + n < IndexSize THEN a + n ELSE a + n - IndexSize
  BY <1>1, AdvanceForm
<1>3. Advance(a, n) \in Index
  BY <1>1, <1>2, RingNumbers DEF Index
<1>4. Ahead(a, b) = IF a <= b THEN b - a ELSE b - a + IndexSize
  BY AheadForm
<1>5. Ahead(Advance(a, n), b) =
        IF Advance(a, n) <= b THEN b - Advance(a, n) ELSE b - Advance(a, n) + IndexSize
  BY <1>3, AheadForm
<1> QED
  BY <1>1, <1>2, <1>3, <1>4, <1>5, RingNumbers DEF Index

(* A driven ring never looks overrun, so the look at it takes its whole    *)
(* length and skips nothing.                                               *)
LEMMA NothingSkipped ==
  ASSUME ServeInv, NEW q \in DataQueue
  PROVE  /\ Resynced(q) = next
         /\ Ahead(next[q], avail[q]) \in Nat
         /\ Entries(q) = IF IsDriven THEN Ahead(next[q], avail[q]) ELSE 0
<1>1. next[q] \in Index /\ avail[q] \in Index /\ cleaned[q] \in Index
      /\ next \in [DataQueue -> Index]
  BY DEF ServeInv, ServeTypes, TxInv, TxTypes
<1>2. /\ Ahead(next[q], avail[q]) \in Nat /\ Ahead(cleaned[q], next[q]) \in Nat
      /\ Ahead(cleaned[q], avail[q]) \in Nat
  BY <1>1, AheadNumbers
<1>3. CASE IsDriven
  <2>1. IsReady(mmio, q) /\ mmio.queues[q].num = QueueMax
    BY <1>3 DEF ServeInv, RegsInv
  <2>2. /\ Ahead(cleaned[q], avail[q]) <= QueueMax
        /\ Ahead(cleaned[q], next[q]) + Ahead(next[q], avail[q]) = Ahead(cleaned[q], avail[q])
    BY <1>3 DEF ServeInv, RingInv
  <2>3. Ahead(next[q], avail[q]) <= QueueMax
    BY <1>2, <2>2, RingNumbers
  <2>4. Entries(q) = Ahead(next[q], avail[q])
    BY <2>1, <2>3 DEF Entries, PendingEntries
  <2>5. Resynced(q) = next
    BY <1>1, <2>1, <2>3, Zenon DEF Resynced, ResyncNext
  <2> QED
    BY <1>2, <1>3, <2>4, <2>5
<1>4. CASE ~IsDriven
  <2>1. ~IsReady(mmio, q)
    BY <1>4 DEF ServeInv, RegsInv
  <2> QED
    BY <1>2, <1>4, <2>1 DEF Entries, Resynced
<1> QED
  BY <1>3, <1>4, Zenon

(* What capture_queue_batch makes of the look.                             *)
LEMMA Captured ==
  ASSUME ServeInv, NEW q \in DataQueue
  PROVE  LET b == Capture(batch, q)
             n == Ahead(next[q], avail[q])
         IN  /\ b.done = batch.done /\ b.rx_enabled = batch.rx_enabled
             /\ \A p \in DataQueue : p # q => /\ b.heads[p] = batch.heads[p]
                                              /\ b.more[p] = batch.more[p]
             /\ b.heads[q] \in Nat /\ b.more[q] \in BOOLEAN
             /\ ~IsDriven => b.heads[q] = 0 /\ ~b.more[q]
             /\ IsDriven => b.heads[q] <= n /\ (b.more[q] \/ n <= b.heads[q])
             /\ b.more[q] => b.heads[q] > 0
<1> DEFINE e == Entries(q)
           n == Smaller(e, MAX_DEVICE_STEPS)
           m == e > n
           hs == [batch.heads EXCEPT ![q] = n]
           ms == [batch.more EXCEPT ![q] = m]
           b == Capture(batch, q)
<1>1. batch \in Batches
  BY DEF ServeInv, TxInv, TxTypes
<1>2. b = [batch EXCEPT !.heads = hs, !.more = ms]
  BY <1>1 DEF Capture, Batches
<1>3. /\ e \in Nat /\ (~IsDriven => e = 0) /\ (IsDriven => e = Ahead(next[q], avail[q]))
      /\ MAX_DEVICE_STEPS \in Nat \ {0}
  BY NothingSkipped, FrontendAssumption
<1> HIDE DEF e
<1>4. n \in Nat /\ m \in BOOLEAN /\ n <= e /\ (m => n > 0) /\ (m \/ e <= n) /\ (e = 0 => n = 0 /\ ~m)
  BY <1>3 DEF Smaller
<1> HIDE DEF n, m
<1>5. /\ hs[q] = n /\ ms[q] = m
      /\ \A p \in DataQueue : p # q => hs[p] = batch.heads[p] /\ ms[p] = batch.more[p]
  BY <1>1 DEF Batches
<1> HIDE DEF hs, ms
<1>6. b.done = batch.done /\ b.rx_enabled = batch.rx_enabled /\ b.heads = hs /\ b.more = ms
  BY <1>1, <1>2 DEF Batches
<1> HIDE DEF b
<1> QED
  BY <1>3, <1>4, <1>5, <1>6, Zenon DEF b

-----------------------------------------------------------------------------
(* What steps that leave some of the state alone keep.                     *)

(* The registers: a device that is not driven still took nothing.          *)
LEMMA RegsKept ==
  ASSUME ServeInv, SameRings(mmio, mmio'), closed' = closed,
         ~IsDriven => \A q \in DataQueue : next'[q] = 0 /\ batch'.heads[q] = 0
  PROVE  /\ RegsInv' /\ (IsDriven' <=> IsDriven)
         /\ \A q \in DataQueue : IsReady(mmio', q) <=> IsReady(mmio, q)
<1>1. mmio'.queues = mmio.queues /\ mmio'.status = mmio.status
  BY DEF SameRings
<1>2. (IsDriven' <=> IsDriven) /\ \A q \in DataQueue : IsReady(mmio', q) <=> IsReady(mmio, q)
  BY <1>1, Zenon DEF IsDriven, IsReady
<1>3. RegsInv'
  BY <1>1, <1>2, Zenon DEF ServeInv, RegsInv
<1> QED
  BY <1>2, <1>3

(* A ring neither side has moved on.                                       *)
LEMMA RingKept ==
  ASSUME ServeInv, NEW q \in DataQueue, IsDriven' <=> IsDriven,
         cleaned'[q] = cleaned[q], avail'[q] = avail[q], next'[q] = next[q], used'[q] = used[q],
         IsDriven /\ pc' \notin Published(q) => batch'.heads[q] <= Ahead(next[q], avail[q])
  PROVE  RingInv(q)'
BY DEF ServeInv, RingInv, Published

(* Where nothing is captured, the batch takes nothing.                     *)
LEMMA NothingCaptured ==
  /\ NoBatch.rx_enabled = FALSE
  /\ \A q \in DataQueue : NoBatch.heads[q] = 0 /\ NoBatch.done[q] = 0 /\ NoBatch.more[q] = FALSE
BY DEF NoBatch

(* A step of the worker outside a pass, or of another task, that leaves    *)
(* the rings alone and does not take a scheduled receive queue back.       *)
LEMMA QuietKeeps ==
  ASSUME ServeInv, TxInv', SameRings(mmio, mmio'),
         UNCHANGED <<avail, next, used, cleaned, kick, closed>>,
         pending' \in [DataQueue -> BOOLEAN], replies' \in Nat,
         pending_rx' \in BOOLEAN, progressed' \in BOOLEAN,
         \/ batch' = NoBatch
         \/ /\ batch'.heads = batch.heads /\ batch'.done = batch.done
            /\ \A q \in DataQueue : pc \in Published(q) => pc' \in Published(q),
         pc \notin Pass, pc' \notin Pass \cup {"capture_rx"},
         pending[RX] => pending'[RX], Waiting' => Waiting \/ pending'[RX],
         pc' \in {"flags_rx", "signal", "service"} => (pending'[RX] => progressed' \/ bell'),
         pc' \in {"rearm", "recheck", "wait", "parked"} => (pending'[RX] => bell')
  PROVE  ServeInv'
<1>1. \A q \in DataQueue : /\ batch.heads[q] \in Int /\ 0 <= batch.done[q]
                           /\ batch.done[q] <= batch.heads[q]
                           /\ Ahead(next[q], avail[q]) \in Nat
  BY NothingSkipped, Zenon DEF ServeInv, ServeTypes, TxInv, TxTypes, Batches
<1>2. ServeTypes'
  BY <1>1, NothingCaptured DEF ServeInv, ServeTypes
<1>3. ~IsDriven => \A q \in DataQueue : next'[q] = 0 /\ batch'.heads[q] = 0
  BY NothingCaptured, Zenon DEF ServeInv, RegsInv
<1>4. /\ RegsInv' /\ (IsDriven' <=> IsDriven)
      /\ \A q \in DataQueue : IsReady(mmio', q) <=> IsReady(mmio, q)
  BY <1>3, RegsKept, Zenon
<1>5. ASSUME NEW q \in DataQueue PROVE RingInv(q)'
  <2>1. IsDriven /\ pc' \notin Published(q) => batch'.heads[q] <= Ahead(next[q], avail[q])
    <3>1. IsDriven /\ pc \notin Published(q) => batch.heads[q] <= Ahead(next[q], avail[q])
      BY Zenon DEF ServeInv, RingInv
    <3>2. CASE batch' = NoBatch
      <4>1. batch'.heads[q] = 0
        BY <3>2, NothingCaptured, Zenon
      <4>2. Ahead(next[q], avail[q]) \in Nat
        BY <1>1, Zenon
      <4>3. \A x \in Nat : 0 <= x
        OBVIOUS
      <4> QED BY <4>1, <4>2, <4>3, Zenon
    <3>3. CASE batch' # NoBatch
      BY <3>1, <3>3, Zenon
    <3> QED BY <3>2, <3>3, Zenon
  <2> QED
    BY <1>4, <2>1, RingKept, ZenonT(40)
<1>6. Left' => Left
  BY <1>4, RingNumbers, Zenon DEF Left, Busy
<1>7. RxServed'
  BY <1>6, Zenon DEF ServeInv, RxServed
<1>8. RxProgress'
  BY ZenonT(40) DEF RxProgress
<1> QED
  BY <1>2, <1>4, <1>5, <1>7, <1>8, Zenon DEF ServeInv

(* A step of the guest, which changes nothing of the worker's.             *)
LEMMA GuestKeeps ==
  ASSUME ServeInv, TxInv', SameRings(mmio, mmio'),
         UNCHANGED <<next, used, pending, pending_rx, replies, bell, closed, pc, batch, progressed>>,
         cleaned' \in [DataQueue -> Index], \A q \in DataQueue : RingInv(q)',
         Left' => Left, Taken => Taken'
  PROVE  ServeInv'
<1>1. ServeTypes'
  BY Zenon DEF ServeInv, ServeTypes
<1>2. RegsInv'
  BY RegsKept, Zenon DEF ServeInv, RegsInv
<1>3. Waiting' <=> Waiting
  BY DEF Waiting
<1>4. RxPass => RxPass'
  BY <1>3 DEF RxPass
<1>5. RxServed'
  BY <1>3, <1>4, Zenon DEF ServeInv, RxServed
<1>6. RxProgress'
  BY DEF ServeInv, RxProgress
<1> QED
  BY <1>1, <1>2, <1>5, <1>6 DEF ServeInv
-----------------------------------------------------------------------------
(* The worker between two passes, and the other tasks of the component.    *)

(* A worker between two passes, or one that ends or wakes.                 *)
LEMMA WaitsServe ==
  ASSUME ServeInv, TxInv', Finish \/ SuppressNotifications \/ Yield \/ Rearm \/ Recheck \/ PollWait \/ Wake
  PROVE  ServeInv'
<1> USE DEF memory, transport, work, worker, guest, Goto
<1>1. Resynced(TX) = next /\ SameRings(mmio, mmio) /\ (pc \in Between => batch = NoBatch)
  BY NothingSkipped, RingsAreSame, RingNumbers, Zenon DEF ServeInv, TxInv, TxDevice
<1>2. /\ pc \in {"top", "yield", "rearm", "recheck", "wait", "parked"}
      /\ pc' \in {"done", "capture_tx", "top", "recheck", "wait", "parked"}
      /\ UNCHANGED <<avail, used, cleaned, kick, closed, mmio, batch, pending_rx, progressed>>
      /\ next' = next \/ next' = Resynced(TX)
  BY Zenon DEF Finish, SuppressNotifications, Yield, Rearm, Recheck, PollWait, Wake
<1>3. next' = next /\ SameRings(mmio, mmio') /\ batch' = NoBatch
  BY <1>1, <1>2 DEF Between
<1>4. pending' \in [DataQueue -> BOOLEAN] /\ pending'[RX] = pending[RX]
  <2>1. pending \in [DataQueue -> BOOLEAN]
    BY DEF ServeInv, ServeTypes
  <2>2. pending' = pending \/ \E v \in BOOLEAN : pending' = [pending EXCEPT ![TX] = v]
    <3>1. CASE SuppressNotifications
      <4>1. (pending[TX] \/ IsReady(mmio, TX)) \in BOOLEAN
        BY Zenon
      <4> QED
        BY <2>1, <3>1, <4>1, Zenon DEF SuppressNotifications
    <3>2. CASE ~SuppressNotifications
      BY <2>1, <3>2, ZenonT(40) DEF Finish, Yield, Rearm, Recheck, PollWait, Wake
    <3> QED
      BY <3>1, <3>2
  <2> QED
    BY <2>1, <2>2, RingNumbers
<1>5. replies' \in Nat /\ (Waiting' => Waiting)
  <2>1. replies' = replies \/ replies' = 0
    BY Zenon DEF Finish, SuppressNotifications, Yield, Rearm, Recheck, PollWait, Wake
  <2>2. replies \in Nat /\ pending_rx' = pending_rx
    BY <1>2, Zenon DEF ServeInv, ServeTypes
  <2>3. 0 \in Nat /\ ~(0 > 0)
    OBVIOUS
  <2> QED BY <2>1, <2>2, <2>3, Zenon DEF Waiting
<1>6. pc' \in {"rearm", "recheck", "wait", "parked"} => (pending'[RX] => bell')
  <2>1. CASE pc' \in {"recheck", "wait"}
    BY <2>1, <1>4, Zenon DEF Finish, SuppressNotifications, Yield, Rearm, Recheck, PollWait, Wake,
                      ServeInv, RxProgress
  <2>2. CASE pc' = "parked"
    BY <2>2, <1>4, Zenon DEF Finish, SuppressNotifications, Yield, Rearm, Recheck, PollWait, Wake,
                      ServeInv, RxProgress
  <2> QED
    BY <1>2, <2>1, <2>2
<1>7. pending_rx' \in BOOLEAN /\ progressed' \in BOOLEAN
  BY <1>2, Zenon DEF ServeInv, ServeTypes
<1> QED
  BY <1>2, <1>3, <1>4, <1>5, <1>6, <1>7, QuietKeeps DEF Pass

(* The timer's flush interrupts, and leaves the rings alone.               *)
LEMMA TimerServes ==
  ASSUME ServeInv, TxInv', TimerEnds
  PROVE  ServeInv'
<1> USE DEF memory, transport, work, worker, guest, Goto
<1>1. /\ UNCHANGED <<avail, next, used, cleaned, kick, closed, batch, pending, pending_rx, replies,
                     progressed>>
      /\ pc = "parked" /\ pc' = "top"
  BY DEF TimerEnds
<1>2. mmio \in Transport /\ SameRings(mmio, mmio) /\ batch = NoBatch
  BY <1>1, RingsAreSame, Zenon DEF ServeInv, TxInv, TxTypes, TxDevice, Between
<1>3. mmio' = mmio \/ Publish(Signal(mmio, INT_USED_BUFFER)) \/ Publish(mmio)
  BY DEF TimerEnds
<1>4. SameRings(mmio, mmio')
  BY <1>2, <1>3, SignalKeepsRings, PublishKeepsRings DEF SameRings
<1>5. Waiting' <=> Waiting
  BY <1>1 DEF Waiting
<1> QED
  BY <1>1, <1>2, <1>4, <1>5, QuietKeeps, Zenon DEF Pass, ServeInv, ServeTypes

(* Queuing a reply schedules the receive queue and rings the doorbell.     *)
LEMMA ScheduleFacts ==
  ASSUME ServeInv, NEW brings \in {0, 1}, Schedule(brings)
  PROVE  /\ replies' \in Nat /\ pending' \in [DataQueue -> BOOLEAN] /\ pending'[RX]
         /\ bell' /\ closed' = closed
BY RingNumbers, FrontendAssumption DEF Schedule, Smaller, Ring1, ServeInv, ServeTypes

(* The services of a pass and the other tasks.                             *)
LEMMA TasksServe ==
  ASSUME ServeInv, TxInv', Service \/ TaskSchedules
  PROVE  ServeInv'
<1> USE DEF memory, transport, work, worker, guest, Goto
<1>1. /\ UNCHANGED <<avail, next, used, cleaned, kick, mmio, batch, pending_rx>>
      /\ pc \in {"service", "yield", "parked"} /\ pc' \in {"yield", "rearm", "parked"}
      /\ progressed' \in BOOLEAN
  BY Zenon DEF Service, TaskSchedules, AtAwait, ServeInv, ServeTypes
<1>2. SameRings(mmio, mmio') /\ batch' = NoBatch
  BY <1>1, RingsAreSame, Zenon DEF ServeInv, TxInv, TxDevice, Between
<1>3. pending_rx' \in BOOLEAN
  BY <1>1, Zenon DEF ServeInv, ServeTypes
<1>4. CASE \E brings \in {0, 1} : Schedule(brings)
  BY <1>1, <1>2, <1>3, <1>4, ScheduleFacts, QuietKeeps DEF Pass
<1>5. CASE ~(\E brings \in {0, 1} : Schedule(brings))
  <2>1. /\ UNCHANGED <<replies, pending, bell, closed>> /\ pc = "service"
        /\ pc' = IF progressed THEN "yield" ELSE "rearm"
    BY <1>5 DEF Service, TaskSchedules
  <2>2. pc' = "rearm" => (pending'[RX] => bell')
    BY <2>1, Zenon DEF ServeInv, RxProgress
  <2>3. Waiting' <=> Waiting
    BY <1>1, <2>1 DEF Waiting
  <2> QED
    BY <1>1, <1>2, <1>3, <2>1, <2>2, <2>3, QuietKeeps, Zenon DEF Pass, ServeInv, ServeTypes
<1> QED
  BY <1>4, <1>5

(* The end of a pass: the flags are read and the interrupt requested.      *)
LEMMA EndOfPassServes ==
  ASSUME ServeInv, TxInv', FlagsRx \/ RequestUsedInterrupt
  PROVE  ServeInv'
<1> USE DEF memory, transport, work, worker, guest, Goto
<1>1. /\ UNCHANGED <<avail, next, used, cleaned, kick, closed, pending, pending_rx, replies,
                     progressed, bell>>
      /\ pc \in {"flags_rx", "signal"} /\ pc' \in {"signal", "service"}
      /\ FlagsRx => pc' = "signal"
  BY DEF FlagsRx, ReadFlags, RequestUsedInterrupt
<1>2. mmio \in Transport /\ SameRings(mmio, mmio) /\ batch \in Batches
  BY RingsAreSame DEF ServeInv, TxInv, TxTypes
<1>3. SameRings(mmio, mmio')
  <2>1. mmio' = mmio \/ Publish(Signal(mmio, INT_USED_BUFFER)) \/ Publish(mmio)
    BY DEF FlagsRx, ReadFlags, RequestUsedInterrupt
  <2> QED
    BY <1>2, <2>1, SignalKeepsRings, PublishKeepsRings DEF SameRings
<1>4. \/ batch' = NoBatch
      \/ /\ batch'.heads = batch.heads /\ batch'.done = batch.done
         /\ \A q \in DataQueue : pc \in Published(q) => pc' \in Published(q)
  <2>1. CASE RequestUsedInterrupt
    BY <2>1, Zenon DEF RequestUsedInterrupt
  <2>2. CASE FlagsRx
    <3>1. batch'.heads = batch.heads /\ batch'.done = batch.done
      BY <1>2, <2>2 DEF FlagsRx, ReadFlags, Batches
    <3> QED
      BY <1>1, <2>2, <3>1 DEF Published
  <2> QED
    BY <2>1, <2>2, Zenon
<1>5. Waiting' <=> Waiting
  BY <1>1 DEF Waiting
<1>6. pc' \in {"flags_rx", "signal", "service"} => (pending'[RX] => progressed' \/ bell')
  BY <1>1, Zenon DEF ServeInv, RxProgress
<1> QED
  BY <1>1, <1>3, <1>4, <1>5, <1>6, QuietKeeps, Zenon DEF Pass, ServeInv, ServeTypes

-----------------------------------------------------------------------------
(* A pass over the rings.                                                  *)

(* The transmit ring is captured before the receive ring,                  *)
LEMMA CaptureTxServes ==
  ASSUME ServeInv, TxInv', CaptureTx
  PROVE  ServeInv'
<1> USE DEF memory, transport, work, worker, guest, Goto
<1>1. /\ UNCHANGED <<avail, used, cleaned, kick, closed, mmio, pending, pending_rx, replies, bell,
                     progressed>>
      /\ pc = "capture_tx" /\ pc' = "capture_rx"
      /\ \/ UNCHANGED <<batch, next>>
         \/ batch' = Capture(batch, TX) /\ next' = Resynced(TX)
  BY DEF CaptureTx
<1>2. next' = next /\ SameRings(mmio, mmio') /\ batch = NoBatch
  BY <1>1, NothingSkipped, RingsAreSame, RingNumbers, Zenon DEF ServeInv, TxInv, TxDevice, Between
<1>3. /\ ~batch'.rx_enabled /\ ~batch'.more[RX] /\ batch'.heads[RX] = 0
      /\ \A q \in DataQueue : batch'.done[q] = 0 /\ batch'.heads[q] \in Nat
      /\ ~IsDriven => batch'.heads[TX] = 0
      /\ IsDriven => batch'.heads[TX] <= Ahead(next[TX], avail[TX])
  <2>1. Ahead(next[TX], avail[TX]) \in Nat
    BY NothingSkipped, RingNumbers, Zenon
  <2>2. CASE batch' = batch
    <3>1. batch' = NoBatch
      BY <1>2, <2>2, Zenon
    <3> QED
      BY <2>1, <3>1, NothingCaptured, NoneIsLeast, RingNumbers, Zenon
  <2>3. CASE batch' = Capture(batch, TX)
    <3> DEFINE b == Capture(batch, TX)
    <3>1. /\ b.done = batch.done /\ b.rx_enabled = batch.rx_enabled
          /\ b.heads[RX] = batch.heads[RX] /\ b.more[RX] = batch.more[RX] /\ b.heads[TX] \in Nat
          /\ ~IsDriven => b.heads[TX] = 0
          /\ IsDriven => b.heads[TX] <= Ahead(next[TX], avail[TX])
      BY Captured, RingNumbers, Zenon
    <3> HIDE DEF b
    <3>2. batch' = b
      BY <2>3 DEF b
    <3>3. \A q \in DataQueue : q = TX \/ q = RX
      BY SMTT(40) DEF DataQueue
    <3> QED
      BY <1>2, <3>1, <3>2, <3>3, NothingCaptured, RingNumbers
  <2> QED
    BY <1>1, <2>2, <2>3, Zenon
<1>4. ServeTypes'
  <2>1. \A n \in Nat : 0 <= 0 /\ 0 <= n
    OBVIOUS
  <2>2. \A q \in DataQueue : 0 <= batch'.done[q] /\ batch'.done[q] <= batch'.heads[q]
    BY <1>3, <2>1, Zenon
  <2> QED BY <1>1, <2>2, Zenon DEF ServeInv, ServeTypes
<1>5. ~IsDriven => \A q \in DataQueue : next'[q] = 0 /\ batch'.heads[q] = 0
  BY <1>2, <1>3, Zenon DEF ServeInv, RegsInv, DataQueue
<1>6. /\ RegsInv' /\ (IsDriven' <=> IsDriven)
      /\ \A q \in DataQueue : IsReady(mmio', q) <=> IsReady(mmio, q)
  BY <1>1, <1>2, <1>5, RegsKept, Zenon
<1>7. ASSUME NEW q \in DataQueue PROVE RingInv(q)'
  <2>1. Ahead(next[q], avail[q]) \in Nat
    BY NothingSkipped, Zenon
  <2>2. IsDriven => batch'.heads[q] <= Ahead(next[q], avail[q])
    BY <1>3, <2>1, NoneIsLeast, Zenon DEF DataQueue
  <2> QED
    BY <1>1, <1>2, <1>6, <2>2, RingKept, Zenon
<1>8. Left' => Left
  BY <1>1, <1>2, <1>6, RingNumbers, Zenon DEF Left, Busy
<1>9. RxServed'
  BY <1>1, <1>3, <1>8, Zenon DEF ServeInv, RxServed, Pass, Waiting
<1>10. RxProgress'
  BY <1>1 DEF RxProgress, Pass
<1> QED
  BY <1>4, <1>6, <1>7, <1>9, <1>10 DEF ServeInv

(* the receive ring when it is scheduled or the pass has work: everything  *)
(* in it is then known to the pass.  Otherwise no reply waits for it.      *)
LEMMA CaptureRxServes ==
  ASSUME ServeInv, TxInv', CaptureRx
  PROVE  ServeInv'
<1> USE DEF memory, transport, work, worker, guest, Goto
<1> DEFINE c == Capture(batch, RX)
           on == pending[RX] \/ batch.heads[TX] > 0
<1>1. /\ UNCHANGED <<avail, used, cleaned, kick, closed, mmio, pending, pending_rx, replies, bell,
                     progressed>>
      /\ pc = "capture_rx" /\ pc' = "process"
      /\ on => batch' = [c EXCEPT !.rx_enabled = TRUE] /\ next' = Resynced(RX)
      /\ ~on => UNCHANGED <<batch, next>>
  BY DEF CaptureRx
<1>2. next' = next /\ SameRings(mmio, mmio')
  BY <1>1, NothingSkipped, RingsAreSame, RingNumbers DEF ServeInv
<1>3. /\ c \in Batches /\ c.done = batch.done
      /\ c.heads[TX] = batch.heads[TX] /\ c.heads[RX] \in Nat
      /\ ~IsDriven => c.heads[RX] = 0
      /\ IsDriven => /\ c.heads[RX] <= Ahead(next[RX], avail[RX])
                     /\ c.more[RX] \/ Ahead(next[RX], avail[RX]) <= c.heads[RX]
      /\ c.more[RX] => c.heads[RX] > 0
  BY Captured, CaptureFacts, RingNumbers, Zenon DEF ServeInv
<1> HIDE DEF c
<1>4. on => /\ batch'.done = batch.done /\ batch'.heads = c.heads /\ batch'.more = c.more
            /\ batch'.rx_enabled
  BY <1>1, <1>3 DEF Batches
<1>5. /\ ~batch.rx_enabled /\ ~batch.more[RX] /\ batch.heads[RX] = 0
      /\ batch.done[RX] = 0 /\ 0 <= batch.done[TX] /\ batch.done[TX] <= batch.heads[TX]
      /\ batch.done[TX] \in Int /\ batch.heads[TX] \in Int
  BY <1>1, RingNumbers DEF ServeInv, ServeTypes, RxServed, TxInv, TxTypes, Batches
<1>6. ~on => batch.heads[TX] = 0 /\ ~pending[RX]
  <2> DEFINE h == batch.heads[TX]
             k == batch.done[TX]
  <2>1. h \in Int /\ k \in Int /\ 0 <= k /\ k <= h
    BY <1>5, Zenon
  <2> HIDE DEF h, k
  <2>2. ~(h > 0) => h = 0
    BY <2>1
  <2> QED
    BY <2>2, Zenon DEF h
<1>7. /\ batch'.heads[TX] = batch.heads[TX] /\ batch'.done = batch.done
      /\ batch'.heads[RX] \in Nat /\ (~IsDriven => batch'.heads[RX] = 0)
      /\ IsDriven => batch'.heads[RX] <= Ahead(next[RX], avail[RX])
      /\ batch'.more[RX] => batch'.heads[RX] > 0
  <2>1. Ahead(next[RX], avail[RX]) \in Nat
    BY NothingSkipped, RingNumbers
  <2>2. CASE on
    BY <1>3, <1>4, <2>2, Zenon
  <2>3. CASE ~on
    <3>1. UNCHANGED batch
      BY <1>1, <2>3, Zenon
    <3> QED
      BY <1>5, <2>1, <3>1, NoneIsLeast, Zenon
  <2> QED
    BY <2>2, <2>3, Zenon
<1> HIDE DEF on
<1>8. \A q \in DataQueue : 0 <= batch'.done[q] /\ batch'.done[q] <= batch'.heads[q]
  BY <1>5, <1>7 DEF DataQueue
<1>9. ServeTypes'
  BY <1>1, <1>8 DEF ServeInv, ServeTypes
<1>10. ~IsDriven => \A q \in DataQueue : next'[q] = 0 /\ batch'.heads[q] = 0
  BY <1>2, <1>7, Zenon DEF ServeInv, RegsInv, DataQueue
<1>11. /\ RegsInv' /\ (IsDriven' <=> IsDriven)
       /\ \A q \in DataQueue : IsReady(mmio', q) <=> IsReady(mmio, q)
  BY <1>1, <1>2, <1>10, RegsKept
<1>12. ASSUME NEW q \in DataQueue PROVE RingInv(q)'
  <2>1. IsDriven => batch'.heads[q] <= Ahead(next[q], avail[q])
    <3>1. IsDriven => batch.heads[TX] <= Ahead(next[TX], avail[TX])
      BY <1>1, RingNumbers DEF ServeInv, RingInv, Published
    <3> QED
      BY <1>7, <3>1 DEF DataQueue
  <2> QED
    BY <1>1, <1>2, <1>11, <2>1, RingKept
<1>13. RxPass'
  <2>1. CASE on
    <3>1. IsReady(mmio', RX) => IsDriven
      BY <1>11, RingNumbers DEF ServeInv, RegsInv
    <3>2. Taken'
      BY <1>1, <1>2, <1>3, <1>4, <2>1, <3>1 DEF Taken
    <3> QED
      BY <1>4, <2>1, <3>2, Zenon DEF RxPass
  <2>2. CASE ~on
    <3>1. ~(Waiting /\ Left)
      BY <1>1, <1>6, <2>2 DEF ServeInv, RxServed, Pass
    <3>2. (Waiting' => Waiting) /\ (Left' => Left)
      BY <1>1, <1>2, <1>11, RingNumbers DEF Waiting, Left, Busy
    <3> QED
      BY <1>1, <1>5, <1>6, <2>2, <3>1, <3>2 DEF RxPass
  <2> QED
    BY <2>1, <2>2
<1>14. RxServed'
  BY <1>1, <1>13 DEF RxServed, Pass
<1>15. RxProgress'
  BY <1>1, <1>5, <1>7 DEF RxProgress, Pass
<1> QED
  BY <1>9, <1>11, <1>12, <1>14, <1>15 DEF ServeInv

(* A round of process_pending: the receive queue is switched off only when *)
(* no reply is left, and a round that moves nothing has nothing to take.   *)
LEMMA ProcessServes ==
  ASSUME ServeInv, TxInv', NEW payload \in BOOLEAN, NEW brings \in {0, 1}, NEW stale \in BOOLEAN,
         NEW outcome, Process(payload, brings, stale, outcome)
  PROVE  ServeInv'
<1> USE DEF memory, transport, work, worker, guest, Goto
<1> DEFINE tx == batch.done[TX] < batch.heads[TX]
           rx_on == batch.rx_enabled \/ tx
           rx == rx_on /\ batch.done[RX] < batch.heads[RX]
           stock == Smaller(replies + brings, MaxReplies)
           took == outcome \in {"retry", "sent", "part"} /\ ~(pending_rx /\ ~stale)
           completed == outcome \in {"refused", "sent", "part"}
           moved == tx \/ completed \/ outcome = "retry"
           dn == [q \in DataQueue |->
                    batch.done[q] + IF (q = TX /\ tx) \/ (q = RX /\ completed) THEN 1 ELSE 0]
<1>1. /\ UNCHANGED <<avail, used, cleaned, kick, closed, mmio, next, pending, bell>>
      /\ pc = "process" /\ pc' \in {"process", "publish_tx"}
      /\ pc' = "publish_tx" => ~moved \/ ~(batch.steps + 1 < MAX_DEVICE_STEPS)
  BY DEF Process
<1>2. /\ replies' = IF took THEN stock - 1 ELSE stock
      /\ pending_rx' = CASE outcome = "part" -> TRUE
                         [] outcome \in {"sent", "retry", "idle"} -> FALSE
                         [] OTHER -> pending_rx
      /\ progressed' = (progressed \/ moved)
      /\ TxPacket(tx, payload, brings)
      /\ IF rx THEN outcome \in RxOutcomes(stock, stale) ELSE outcome = "none"
  BY DEF Process
<1>3. /\ batch \in Batches /\ replies \in Nat /\ pending_rx \in BOOLEAN /\ progressed \in BOOLEAN
      /\ \A q \in DataQueue : 0 <= batch.done[q] /\ batch.done[q] <= batch.heads[q]
      /\ MaxReplies \in Nat
  BY FrontendAssumption, Zenon DEF ServeInv, ServeTypes, TxInv, TxTypes
<1>4. /\ batch'.done = dn /\ batch'.heads = batch.heads /\ batch'.more = batch.more
      /\ batch'.rx_enabled = (rx_on /\ outcome # "idle")
  <2> DEFINE ron == rx_on /\ outcome # "idle"
             hp == batch.has_tx_payload \/ payload
             st == batch.steps + 1
  <2>1. batch' = [batch EXCEPT !.done = dn, !.rx_enabled = ron, !.has_tx_payload = hp, !.steps = st]
    BY DEF Process
  <2> HIDE DEF dn, ron, hp, st
  <2>2. /\ batch'.done = dn /\ batch'.heads = batch.heads /\ batch'.more = batch.more
        /\ batch'.rx_enabled = ron
    BY <1>3, <2>1 DEF Batches
  <2> QED
    BY <2>2 DEF ron
<1>5. /\ batch.done[TX] \in Int /\ batch.heads[TX] \in Int
      /\ batch.done[RX] \in Int /\ batch.heads[RX] \in Int
      /\ 0 <= batch.done[TX] /\ batch.done[TX] <= batch.heads[TX]
      /\ 0 <= batch.done[RX] /\ batch.done[RX] <= batch.heads[RX]
  BY <1>3, RingNumbers, Zenon DEF Batches
<1>6. /\ dn[TX] = batch.done[TX] + IF tx THEN 1 ELSE 0
      /\ dn[RX] = batch.done[RX] + IF completed THEN 1 ELSE 0
  BY RingNumbers
<1>7. /\ stock \in Nat /\ (~tx => stock <= replies)
  BY <1>2, <1>3 DEF Smaller, TxPacket
<1>8. /\ completed \/ outcome = "retry" \/ outcome = "idle" => rx
      /\ outcome = "idle" => stock = 0 /\ ~took
      /\ took => stock > 0
      /\ ~(completed \/ outcome = "retry" \/ outcome = "idle") => ~rx /\ outcome = "none"
  <2>1. RxResults \subseteq {"refused", "retry", "sent", "part"}
    BY FrontendAssumption, Zenon
  <2>2. CASE rx
    <3>1. outcome \in RxOutcomes(stock, stale)
      BY <1>2, <2>2
    <3>2. /\ outcome \in {"refused", "retry", "sent", "part", "idle"}
          /\ outcome = "idle" => ~(stock > 0)
          /\ ~(pending_rx /\ ~stale) /\ ~(stock > 0) => outcome \in {"refused", "idle"}
      BY <2>1, <3>1 DEF RxOutcomes
    <3> HIDE DEF stock
    <3> QED
      BY <1>7, <2>2, <3>2
  <2>3. CASE ~rx
    BY <1>2, <2>3
  <2> QED
    BY <2>2, <2>3, Zenon
<1> HIDE DEF stock, dn
<1>9. /\ replies' \in Nat /\ pending_rx' \in BOOLEAN /\ progressed' \in BOOLEAN
  <2>1. replies' \in Nat
    <3>1. CASE took
      BY <1>2, <1>7, <1>8, <3>1
    <3>2. CASE ~took
      BY <1>2, <1>7, <3>2
    <3> QED
      BY <3>1, <3>2
  <2>2. pending_rx' \in BOOLEAN
    BY <1>2, <1>3, Zenon
  <2>3. (progressed \/ moved) \in BOOLEAN
    BY Zenon
  <2> QED
    BY <1>2, <2>1, <2>2, <2>3, Zenon
<1>10. \A q \in DataQueue : 0 <= batch'.done[q] /\ batch'.done[q] <= batch'.heads[q]
  <2> DEFINE tk == batch.done[TX]
             th == batch.heads[TX]
             rk == batch.done[RX]
             rh == batch.heads[RX]
  <2>1. /\ tk \in Int /\ th \in Int /\ rk \in Int /\ rh \in Int
        /\ 0 <= tk /\ tk <= th /\ 0 <= rk /\ rk <= rh
        /\ (tx => tk < th) /\ (completed => rk < rh)
    BY <1>5, <1>8, Zenon
  <2>2. /\ batch'.done[TX] = tk + (IF tx THEN 1 ELSE 0) /\ batch'.heads[TX] = th
        /\ batch'.done[RX] = rk + (IF completed THEN 1 ELSE 0) /\ batch'.heads[RX] = rh
    BY <1>4, <1>6, Zenon
  <2> HIDE DEF tk, th, rk, rh, tx, completed
  <2>3. /\ 0 <= tk + (IF tx THEN 1 ELSE 0) /\ tk + (IF tx THEN 1 ELSE 0) <= th
        /\ 0 <= rk + (IF completed THEN 1 ELSE 0) /\ rk + (IF completed THEN 1 ELSE 0) <= rh
    BY <2>1
  <2> QED
    BY <2>2, <2>3, Zenon DEF DataQueue
<1>11. ServeTypes'
  BY <1>1, <1>9, <1>10, Zenon DEF ServeInv, ServeTypes
<1>12. SameRings(mmio, mmio')
  BY <1>1, RingsAreSame, Zenon DEF ServeInv
<1>13. /\ RegsInv' /\ (IsDriven' <=> IsDriven)
       /\ \A q \in DataQueue : IsReady(mmio', q) <=> IsReady(mmio, q)
  <2>1. ~IsDriven => \A q \in DataQueue : next'[q] = 0 /\ batch'.heads[q] = 0
    BY <1>1, <1>4 DEF ServeInv, RegsInv
  <2> QED
    BY <1>1, <1>12, <2>1, RegsKept, Zenon
<1>14. ASSUME NEW q \in DataQueue PROVE RingInv(q)'
  <2>1. IsDriven => batch'.heads[q] <= Ahead(next[q], avail[q])
    BY <1>1, <1>4, Zenon DEF ServeInv, RingInv, Published
  <2> QED
    BY <1>1, <1>13, <2>1, RingKept, Zenon
<1>15. RxPass'
  <2>1. RxPass
    BY <1>1, Zenon DEF ServeInv, RxServed, Pass
  <2>2. (Taken => Taken') /\ (Left' => Left)
    BY <1>1, <1>4, <1>13, RingNumbers, Zenon DEF Taken, Left, Busy
  <2>3. ~rx_on => /\ ~tx /\ ~rx /\ outcome = "none" /\ (Waiting' => Waiting)
    <3>1. ~rx_on => ~tx /\ ~rx /\ outcome = "none" /\ ~took
      BY <1>2
    <3> QED
      BY <1>2, <1>3, <1>7, <3>1 DEF Waiting
  <2>4. CASE Taken /\ (~batch.rx_enabled => ~Waiting)
    <3>1. ~batch'.rx_enabled => ~Waiting'
      <4>1. CASE ~rx_on
        BY <2>3, <2>4, <4>1
      <4>2. CASE outcome = "idle"
        BY <1>2, <1>8, <4>2 DEF Waiting
      <4> QED
        BY <1>4, <4>1, <4>2, Zenon
    <3> QED
      BY <2>2, <2>4, <3>1, Zenon DEF RxPass
  <2>5. CASE ~batch.rx_enabled /\ batch.heads[TX] = 0 /\ batch.heads[RX] = 0 /\ ~(Waiting /\ Left)
    <3>1. ~rx_on
      <4> DEFINE k == batch.done[TX]
      <4>1. k \in Int /\ 0 <= k
        BY <1>5, Zenon
      <4> HIDE DEF k
      <4>2. ~(k < 0)
        BY <4>1
      <4> QED
        BY <2>5, <4>2, Zenon DEF k
    <3> QED
      BY <1>4, <2>2, <2>3, <2>5, <3>1, Zenon DEF RxPass
  <2> QED
    BY <2>1, <2>4, <2>5, Zenon DEF RxPass
<1>16. RxServed'
  BY <1>1, <1>15, Zenon DEF RxServed, Pass
<1>17. /\ batch'.more[RX] => batch'.heads[RX] > 0
       /\ batch'.done[RX] > 0 => progressed'
  <2>1. (batch.more[RX] => batch.heads[RX] > 0) /\ (batch.done[RX] > 0 => progressed)
    BY <1>1, Zenon DEF ServeInv, RxProgress, Pass
  <2>2. CASE completed
    <3>1. progressed'
      BY <1>2, <2>2, Zenon
    <3> QED
      BY <1>4, <2>1, <3>1
  <2>3. CASE ~completed
    <3>1. batch'.done[RX] = batch.done[RX]
      BY <1>4, <1>5, <1>6, <2>3
    <3>2. progressed => progressed'
      BY <1>2, Zenon
    <3> QED
      BY <1>4, <2>1, <3>1, <3>2, Zenon
  <2> QED
    BY <2>2, <2>3, Zenon
<1>18. batch'.rx_enabled /\ (batch'.done[RX] < batch'.heads[RX] \/ batch'.more[RX]) => progressed'
  <2>1. CASE moved
    BY <1>2, <2>1, Zenon
  <2>2. CASE ~moved
    <3>1. batch'.rx_enabled => rx_on /\ ~rx /\ ~completed
      BY <1>4, <1>8, <2>2, Zenon
    <3>2. batch'.rx_enabled => /\ ~(batch'.done[RX] < batch'.heads[RX])
                               /\ batch'.more[RX] => batch'.done[RX] > 0
      <4> DEFINE rk == batch.done[RX]
                 rh == batch.heads[RX]
                 m == batch.more[RX]
      <4>0. rk \in Int /\ rh \in Int /\ rk <= rh
        BY <1>5, Zenon
      <4>1. batch'.heads[RX] = rh /\ (m => rh > 0) /\ (batch'.more[RX] <=> m)
        BY <1>4, <1>17, Zenon
      <4>2. batch'.rx_enabled => ~(rk < rh) /\ batch'.done[RX] = rk + 0
        BY <1>4, <1>6, <3>1, Zenon
      <4> HIDE DEF rk, rh, m
      <4>3. rk + 0 = rk /\ (~(rk < rh) => rk = rh)
        BY <4>0, AllTaken, Zenon
      <4> QED
        BY <4>1, <4>2, <4>3, Zenon
    <3> QED
      BY <1>17, <3>2, Zenon
  <2> QED
    BY <2>1, <2>2
<1>19. RxProgress'
  BY <1>1, <1>17, <1>18 DEF RxProgress, Pass
<1> QED
  BY <1>11, <1>13, <1>14, <1>16, <1>19 DEF ServeInv

(* Publishing moves used and next on together by what was taken, never     *)
(* past what the driver has made available.                                *)
LEMMA PublishMoves ==
  ASSUME ServeInv, NEW q \in DataQueue, pc \notin Published(q),
         used' = [used EXCEPT ![q] = Advance(@, batch.done[q])],
         next' = [next EXCEPT ![q] = Advance(@, batch.done[q])],
         UNCHANGED <<avail, cleaned, mmio, batch>>, pc' \in Published(q)
  PROVE  /\ used' \in [DataQueue -> Index] /\ next' \in [DataQueue -> Index]
         /\ RingInv(q)' /\ (~IsDriven => next'[q] = 0)
         /\ batch.done[q] = 0 => next'[q] = next[q]
         /\ IsDriven => Ahead(next'[q], avail[q]) = Ahead(next[q], avail[q]) - batch.done[q]
<1> DEFINE n == next[q]
           a == avail[q]
           c == cleaned[q]
           d == batch.done[q]
           h == batch.heads[q]
           m == Advance(n, d)
<1>1. /\ n \in Index /\ a \in Index /\ c \in Index /\ used[q] \in Index
      /\ next \in [DataQueue -> Index] /\ used \in [DataQueue -> Index]
      /\ d \in Nat /\ d <= h /\ h \in Int
  BY DEF ServeInv, ServeTypes, TxInv, TxTypes, Batches
<1>2. next'[q] = m /\ used'[q] = Advance(used[q], d)
  BY <1>1, Zenon
<1>3. m \in Index /\ Advance(used[q], d) \in Index
  BY <1>1, AdvanceTaken, Zenon
<1>4. used' \in [DataQueue -> Index] /\ next' \in [DataQueue -> Index]
  BY <1>1, <1>3, Zenon
<1>5. d = 0 => m = n
  BY <1>1, AdvanceNothing, Zenon
<1>6. (IsDriven' <=> IsDriven) /\ Ahead(n, a) \in Nat /\ Ahead(c, n) \in Nat
  BY <1>1, AheadCounts, Zenon DEF IsDriven
<1>7. CASE IsDriven
  <2>1. /\ Ahead(c, a) <= QueueMax /\ Ahead(c, n) + Ahead(n, a) = Ahead(c, a)
        /\ used[q] = n /\ h <= Ahead(n, a)
    BY <1>7, Zenon DEF ServeInv, RingInv
  <2>2. d <= Ahead(n, a)
    <3> DEFINE l == Ahead(n, a)
    <3>1. d \in Int /\ h \in Int /\ l \in Int /\ d <= h /\ h <= l
      BY <1>1, <1>6, <2>1, NatsAreInts, Zenon
    <3> HIDE DEF l, d, h
    <3>2. d <= l
      BY <3>1
    <3> QED
      BY <3>2, Zenon DEF l
  <2>3. Ahead(m, a) = Ahead(n, a) - d
    BY <1>1, <2>2, AheadShrinks, ZenonT(40)
  <2>4. Ahead(c, n) + d < IndexSize
    BY <1>1, <2>1, <2>2, RoomAhead, Zenon
  <2>5. Ahead(c, m) = Ahead(c, n) + d
    BY <1>1, <2>4, AheadGrows, Zenon
  <2> HIDE DEF n, a, c, d, m
  <2>6. Ahead(c, m) + Ahead(m, a) = Ahead(c, a)
    <3> DEFINE x == Ahead(c, n)
               y == Ahead(n, a)
    <3>1. x \in Nat /\ y \in Nat /\ d \in Nat
      BY <1>1, <1>6, Zenon
    <3> HIDE DEF x, y
    <3>2. (x + d) + (y - d) = x + y
      BY <3>1
    <3> QED
      BY <2>1, <2>3, <2>5, <3>2, Zenon DEF x, y
  <2>7. RingInv(q)'
    <3>1. cleaned'[q] = c /\ avail'[q] = a /\ next'[q] = m /\ used'[q] = m
      BY <1>2, <2>1, Zenon DEF c, a, n, m
    <3> QED
      BY <2>1, <2>6, <3>1, Zenon DEF RingInv
  <2> QED
    BY <1>2, <1>4, <1>5, <1>7, <2>3, <2>7, Zenon DEF n, a, d
<1>8. CASE ~IsDriven
  <2>1. n = 0 /\ batch.heads[q] = 0
    BY <1>8, Zenon DEF ServeInv, RegsInv
  <2>2. d = 0
    BY <1>1, <2>1, NothingTaken, Zenon
  <2> QED
    BY <1>2, <1>4, <1>5, <1>6, <1>8, <2>1, <2>2, Zenon DEF RingInv
<1> QED
  BY <1>7, <1>8, Zenon

(* The transmit completions are published, their flags read,               *)
LEMMA PublishTxServes ==
  ASSUME ServeInv, TxInv', PublishTx \/ FlagsTx
  PROVE  ServeInv'
<1> USE DEF memory, transport, work, worker, guest, Goto
<1>1. /\ UNCHANGED <<avail, cleaned, kick, closed, mmio, pending_rx, replies, bell, progressed>>
      /\ pc \in {"publish_tx", "flags_tx"} /\ pc' \in {"flags_tx", "publish_rx"}
  BY DEF PublishTx, PublishQueue, FlagsTx, ReadFlags
<1>2. /\ batch'.heads = batch.heads /\ batch'.done = batch.done /\ batch'.more = batch.more
      /\ batch'.rx_enabled = batch.rx_enabled
  BY DEF PublishTx, PublishQueue, FlagsTx, ReadFlags, ServeInv, TxInv, TxTypes, Batches
<1>3. pending' \in [DataQueue -> BOOLEAN]
  <2> DEFINE v == (batch.done[TX] < batch.heads[TX] \/ batch.more[TX]) /\ (TX = TX \/ batch.rx_enabled)
  <2>1. pending \in [DataQueue -> BOOLEAN] /\ v \in BOOLEAN
    BY DEF ServeInv, ServeTypes
  <2>2. pending' = pending \/ pending' = [pending EXCEPT ![TX] = v]
    BY Zenon DEF PublishTx, PublishQueue, FlagsTx, ReadFlags
  <2> HIDE DEF v
  <2> QED
    BY <2>1, <2>2, Zenon
<1>4. /\ used' \in [DataQueue -> Index] /\ RingInv(TX)' /\ (~IsDriven => next'[TX] = 0)
      /\ next'[RX] = next[RX] /\ used'[RX] = used[RX]
  <2>1. CASE PublishTx
    <3>1. /\ used' = [used EXCEPT ![TX] = Advance(@, batch.done[TX])]
          /\ next' = [next EXCEPT ![TX] = Advance(@, batch.done[TX])]
          /\ batch' = batch /\ pc = "publish_tx"
      BY <2>1, Zenon DEF PublishTx, PublishQueue
    <3>2. used' \in [DataQueue -> Index] /\ RingInv(TX)' /\ (~IsDriven => next'[TX] = 0)
      BY <1>1, <3>1, PublishMoves, RingNumbers, Zenon DEF Published
    <3>3. next'[RX] = next[RX] /\ used'[RX] = used[RX]
      BY <3>1, RingNumbers, Zenon DEF ServeInv, ServeTypes, TxInv, TxTypes
    <3> QED
      BY <3>2, <3>3
  <2>2. CASE FlagsTx
    <3>1. UNCHANGED <<used, next>> /\ pc = "flags_tx"
      BY <2>2 DEF FlagsTx, ReadFlags
    <3>2. IsDriven' <=> IsDriven
      BY <1>1, Zenon DEF IsDriven
    <3>3. RingInv(TX)'
      BY <1>1, <3>1, <3>2, RingKept, RingNumbers DEF Published
    <3> QED
      BY <3>1, <3>3, RingNumbers, Zenon DEF ServeInv, ServeTypes, RegsInv
  <2> QED
    BY <2>1, <2>2, Zenon
<1>5. ServeTypes'
  BY <1>1, <1>2, <1>3, <1>4, Zenon DEF ServeInv, ServeTypes
<1>6. /\ RegsInv' /\ (IsDriven' <=> IsDriven)
      /\ \A q \in DataQueue : IsReady(mmio', q) <=> IsReady(mmio, q)
  <2>1. ~IsDriven => \A q \in DataQueue : next'[q] = 0 /\ batch'.heads[q] = 0
    BY <1>2, <1>4, Zenon DEF ServeInv, RegsInv, DataQueue
  <2>2. SameRings(mmio, mmio')
    BY <1>1, RingsAreSame DEF ServeInv
  <2> QED
    BY <1>1, <2>1, <2>2, RegsKept, Zenon
<1>7. RingInv(RX)'
  <2>1. RX \in DataQueue /\ (IsDriven => batch'.heads[RX] <= Ahead(next[RX], avail[RX]))
    BY <1>1, <1>2, RingNumbers, Zenon DEF ServeInv, RingInv, Published
  <2> QED
    BY <1>1, <1>4, <1>6, <2>1, RingKept, Zenon
<1>8. \A q \in DataQueue : RingInv(q)'
  BY <1>4, <1>7, Zenon DEF DataQueue
<1>9. RxPass'
  <2>1. RxPass
    BY <1>1 DEF ServeInv, RxServed, Pass
  <2>2. (Taken => Taken') /\ (Left' => Left) /\ (Waiting' <=> Waiting)
    BY <1>1, <1>2, <1>4, <1>6, RingNumbers, Zenon DEF Taken, Left, Busy, Waiting
  <2> QED
    BY <1>2, <2>1, <2>2, Zenon DEF RxPass
<1>10. RxServed'
  BY <1>1, <1>9, ZenonT(40) DEF RxServed, Pass
<1>11. RxProgress'
  BY <1>1, <1>2, ZenonT(40) DEF ServeInv, RxProgress, Pass
<1> QED
  BY <1>5, <1>6, <1>8, <1>10, <1>11 DEF ServeInv

(* and the receive completions: what the pass did not take of a ring it    *)
(* knows stays pending.                                                    *)
LEMMA PublishRxServes ==
  ASSUME ServeInv, TxInv', PublishRx
  PROVE  ServeInv'
<1> USE DEF memory, transport, work, worker, guest, Goto
<1> DEFINE v == (batch.done[RX] < batch.heads[RX] \/ batch.more[RX]) /\ batch.rx_enabled
<1>1. /\ UNCHANGED <<avail, cleaned, kick, closed, mmio, pending_rx, replies, bell, progressed, batch>>
      /\ pc = "publish_rx" /\ pc' \in {"flags_rx", "signal"}
      /\ used' = [used EXCEPT ![RX] = Advance(@, batch.done[RX])]
      /\ next' = [next EXCEPT ![RX] = Advance(@, batch.done[RX])]
  BY Zenon DEF PublishRx, PublishQueue
<1>2. pending' = [pending EXCEPT ![RX] = v]
  BY RingNumbers, Zenon DEF PublishRx, PublishQueue
<1>3. pending' \in [DataQueue -> BOOLEAN] /\ (pending'[RX] <=> v)
  <2>1. v \in BOOLEAN /\ pending \in [DataQueue -> BOOLEAN]
    BY DEF ServeInv, ServeTypes
  <2> HIDE DEF v
  <2> QED
    BY <1>2, <2>1, RingNumbers, Zenon
<1>4. /\ used' \in [DataQueue -> Index] /\ RingInv(RX)' /\ (~IsDriven => next'[RX] = 0)
      /\ batch.done[RX] = 0 => next'[RX] = next[RX]
      /\ IsDriven => Ahead(next'[RX], avail[RX]) = Ahead(next[RX], avail[RX]) - batch.done[RX]
      /\ next' \in [DataQueue -> Index]
  BY <1>1, PublishMoves, RingNumbers, Zenon DEF Published
<1>5. next'[TX] = next[TX] /\ used'[TX] = used[TX]
  BY <1>1, RingNumbers, Zenon DEF ServeInv, ServeTypes, TxInv, TxTypes
<1>6. ServeTypes'
  BY <1>1, <1>3, <1>4, Zenon DEF ServeInv, ServeTypes
<1>7. /\ RegsInv' /\ (IsDriven' <=> IsDriven)
      /\ \A q \in DataQueue : IsReady(mmio', q) <=> IsReady(mmio, q)
  <2>1. ~IsDriven => \A q \in DataQueue : next'[q] = 0 /\ batch'.heads[q] = 0
    BY <1>1, <1>4, <1>5, Zenon DEF ServeInv, RegsInv, DataQueue
  <2>2. SameRings(mmio, mmio')
    BY <1>1, RingsAreSame DEF ServeInv
  <2> QED
    BY <1>1, <2>1, <2>2, RegsKept, Zenon
<1>8. RingInv(TX)'
  BY <1>1, <1>5, <1>7, RingKept, RingNumbers, Zenon DEF Published
<1>9. \A q \in DataQueue : RingInv(q)'
  BY <1>4, <1>8, Zenon DEF DataQueue
<1>10. ASSUME Waiting', Left' PROVE pending'[RX]
  <2>1. Waiting
    BY <1>1, <1>10 DEF Waiting
  <2>2. IsReady(mmio, RX) /\ ~Busy /\ avail[RX] # next'[RX]
    BY <1>1, <1>7, <1>10, RingNumbers, Zenon DEF Left, Busy
  <2>3. IsDriven
    BY <2>2, RingNumbers, Zenon DEF ServeInv, RegsInv
  <2>4. /\ batch.done[RX] \in Int /\ batch.heads[RX] \in Int /\ batch.done[RX] <= batch.heads[RX]
        /\ 0 <= batch.done[RX] /\ Ahead(next[RX], avail[RX]) \in Nat
        /\ next'[RX] \in Index /\ avail[RX] \in Index
    BY <1>4, NothingSkipped, RingNumbers, Zenon DEF ServeInv, ServeTypes, TxInv, TxTypes, Batches
  <2>5. RxPass
    BY <1>1, Zenon DEF ServeInv, RxServed, Pass
  <2>6. CASE Taken /\ (~batch.rx_enabled => ~Waiting)
    <3>1. CASE batch.more[RX]
      BY <1>3, <2>1, <2>6, <3>1, Zenon
    <3>2. CASE ~batch.more[RX]
      <4>1. Ahead(next[RX], avail[RX]) <= batch.heads[RX]
        BY <2>2, <2>6, <3>2, ZenonT(40) DEF Taken
      <4>2. Ahead(next'[RX], avail[RX]) # 0
        BY <2>2, <2>4, AheadCounts, Zenon
      <4>3. Ahead(next'[RX], avail[RX]) = Ahead(next[RX], avail[RX]) - batch.done[RX]
        BY <1>4, <2>3, Zenon
      <4>4. Ahead(next'[RX], avail[RX]) \in Nat
        BY <2>4, AheadCounts, Zenon
      <4>5. batch.done[RX] < batch.heads[RX]
        <5> DEFINE k == batch.done[RX]
                   h == batch.heads[RX]
                   l == Ahead(next[RX], avail[RX])
                   r == Ahead(next'[RX], avail[RX])
        <5>1. k \in Int /\ h \in Int /\ l \in Nat /\ r \in Nat /\ l <= h /\ r # 0 /\ r = l - k
          BY <2>4, <4>1, <4>2, <4>3, <4>4, Zenon
        <5> HIDE DEF k, h, l, r
        <5>2. k < h
          BY <5>1
        <5> QED
          BY <5>2, Zenon DEF k, h
      <4> QED
        BY <1>3, <2>1, <2>6, <4>5, Zenon
    <3> QED
      BY <3>1, <3>2
  <2>7. CASE ~batch.rx_enabled /\ batch.heads[TX] = 0 /\ batch.heads[RX] = 0 /\ ~(Waiting /\ Left)
    <3>1. batch.done[RX] = 0
      <4> DEFINE k == batch.done[RX]
      <4>1. k \in Int /\ 0 <= k /\ k <= 0
        BY <2>4, <2>7, Zenon
      <4> HIDE DEF k
      <4>2. k = 0
        BY <4>1
      <4> QED
        BY <4>2, Zenon DEF k
    <3>2. Left
      BY <1>4, <2>2, <3>1, Zenon DEF Left
    <3> QED
      BY <2>1, <2>7, <3>2, Zenon
  <2> QED
    BY <2>5, <2>6, <2>7, Zenon DEF RxPass
<1>11. RxServed'
  BY <1>1, <1>10 DEF RxServed, Pass
<1>12. RxProgress'
  BY <1>1, <1>3, Zenon DEF ServeInv, RxProgress, Pass
<1> QED
  BY <1>6, <1>7, <1>9, <1>11, <1>12 DEF ServeInv

-----------------------------------------------------------------------------
(* The guest's processors.                                                 *)

(* The driver publishes a buffer, which fits into the ring.                *)
LEMMA PostServes ==
  ASSUME ServeInv, TxInv', NEW q \in DataQueue, Post(q)
  PROVE  ServeInv'
<1> USE DEF memory, transport, work, worker, guest
<1>1. /\ UNCHANGED <<next, used, pending, pending_rx, replies, bell, closed, pc, batch, progressed,
                     cleaned, mmio>>
      /\ IsDriven /\ Ahead(cleaned[q], avail[q]) < QueueMax
      /\ avail' = [avail EXCEPT ![q] = Advance(@, 1)] /\ kick' = [kick EXCEPT ![q] = "check"]
  BY Zenon DEF Post
<1>2. SameRings(mmio, mmio') /\ (IsDriven' <=> IsDriven) /\ (IsReady(mmio', RX) <=> IsReady(mmio, RX))
  BY <1>1, RingsAreSame, Zenon DEF ServeInv, IsDriven, IsReady
<1>3. /\ avail \in [DataQueue -> Index] /\ next[q] \in Index /\ cleaned[q] \in Index
      /\ kick \in [DataQueue -> {"idle", "check", "notify"}] /\ avail[q] \in Index
      /\ cleaned \in [DataQueue -> Index] /\ batch.heads[q] \in Int
  BY DEF ServeInv, ServeTypes, TxInv, TxTypes, Batches
<1>4. avail'[q] = Advance(avail[q], 1) /\ kick'[q] = "check"
      /\ \A p \in DataQueue : p # q => avail'[p] = avail[p] /\ kick'[p] = kick[p]
  BY <1>1, <1>3, Zenon
<1>5. RingInv(q)'
  <2> DEFINE n == next[q]
             a == avail[q]
             c == cleaned[q]
             b == Advance(a, 1)
  <2>1. /\ Ahead(c, n) + Ahead(n, a) = Ahead(c, a) /\ used[q] = n
        /\ pc \notin Published(q) => batch.heads[q] <= Ahead(n, a)
    BY <1>1, ZenonT(40) DEF ServeInv, RingInv
  <2>2. Ahead(c, n) \in Nat /\ Ahead(n, a) \in Nat /\ Ahead(c, a) \in Nat
    BY <1>3, AheadNumbers, SMTT(40)
  <2>3. Ahead(c, a) + 1 < IndexSize /\ Ahead(n, a) + 1 < IndexSize
    BY <1>1, <1>3, <2>1, RoomForOne, Zenon
  <2>4. Ahead(c, b) = Ahead(c, a) + 1 /\ Ahead(n, b) = Ahead(n, a) + 1
    BY <1>3, <2>3, AheadGrows, ZenonT(40)
  <2>5. next'[q] = n /\ avail'[q] = b /\ cleaned'[q] = c /\ used'[q] = used[q]
    BY <1>1, <1>4
  <2> HIDE DEF n, a, c, b
  <2>6. /\ Ahead(c, b) <= QueueMax /\ Ahead(c, n) + Ahead(n, b) = Ahead(c, b)
        /\ pc \notin Published(q) => batch.heads[q] <= Ahead(n, b)
    <3>1. /\ Ahead(c, a) + 1 <= QueueMax
          /\ Ahead(c, n) + (Ahead(n, a) + 1) = Ahead(c, a) + 1
      BY <1>1, <1>3, <2>1, RoomForOne, Zenon DEF c, a, n
    <3>2. batch.heads[q] <= Ahead(n, a) => batch.heads[q] <= Ahead(n, a) + 1
      BY <1>1, <1>3, <2>1, RoomForOne, Zenon DEF c, a, n
    <3> QED BY <2>1, <2>4, <3>1, <3>2, Zenon
  <2> QED
    BY <1>1, <2>1, <2>5, <2>6, Zenon DEF RingInv, Published
<1>6. ASSUME NEW p \in DataQueue, p # q PROVE RingInv(p)'
  <2>1. IsDriven /\ pc' \notin Published(p) => batch'.heads[p] <= Ahead(next[p], avail[p])
    BY <1>1, Zenon DEF ServeInv, RingInv
  <2> QED
    BY <1>1, <1>2, <1>4, <1>6, <2>1, RingKept, Zenon
<1>7. (Left' => Left) /\ (Taken => Taken')
  <2>1. CASE q = RX
    BY <1>4, <2>1, Zenon DEF Left, Taken, Busy
  <2>2. CASE q # RX
    BY <1>1, <1>2, <1>4, <2>2, RingNumbers, Zenon DEF Left, Taken, Busy
  <2> QED
    BY <2>1, <2>2
<1>8. \A p \in DataQueue : RingInv(p)'
  BY <1>5, <1>6, Zenon
<1> QED
  BY <1>1, <1>2, <1>3, <1>7, <1>8, GuestKeeps, Zenon

(* The driver sees the completions: everything the device took.            *)
LEMMA DrainServes ==
  ASSUME ServeInv, TxInv', NEW q \in DataQueue, Drain(q)
  PROVE  ServeInv'
<1> USE DEF memory, transport, work, worker, guest
<1>1. /\ UNCHANGED <<next, used, pending, pending_rx, replies, bell, closed, pc, batch, progressed,
                     avail, mmio, kick>>
      /\ cleaned' = [cleaned EXCEPT ![q] = used[q]]
  BY Zenon DEF Drain
<1>2. SameRings(mmio, mmio') /\ (IsDriven' <=> IsDriven) /\ (IsReady(mmio', RX) <=> IsReady(mmio, RX))
  BY <1>1, RingsAreSame, Zenon DEF ServeInv, IsDriven, IsReady
<1>3. /\ next[q] \in Index /\ cleaned[q] \in Index /\ avail[q] \in Index
      /\ cleaned \in [DataQueue -> Index] /\ used[q] \in Index
  BY Zenon DEF ServeInv, ServeTypes, TxInv, TxTypes
<1>4. /\ cleaned' \in [DataQueue -> Index] /\ cleaned'[q] = used[q]
      /\ \A p \in DataQueue : p # q => cleaned'[p] = cleaned[p]
  BY <1>1, <1>3, Zenon
<1>5. ASSUME NEW p \in DataQueue PROVE RingInv(p)'
  <2>1. IsDriven /\ pc' \notin Published(p) => batch'.heads[p] <= Ahead(next[p], avail[p])
    BY <1>1, Zenon DEF ServeInv, RingInv
  <2>2. CASE p # q
    BY <1>1, <1>2, <1>4, <2>1, <2>2, RingKept, ZenonT(40)
  <2>3. CASE p = q
    <3>1. /\ Ahead(next[q], next[q]) = 0 /\ Ahead(next[q], avail[q]) \in Nat
          /\ Ahead(cleaned[q], next[q]) \in Nat
      BY <1>3, AheadCounts, Zenon
    <3>2. IsDriven => Ahead(next[q], avail[q]) <= QueueMax /\ used[q] = next[q]
      BY <1>3, RoomAhead, Zenon DEF ServeInv, RingInv
    <3> QED
      <4>1. /\ cleaned'[q] = used[q] /\ next'[q] = next[q] /\ avail'[q] = avail[q]
            /\ used'[q] = used[q] /\ (IsDriven' <=> IsDriven)
        BY <1>1, <1>2, <1>4, Zenon
      <4>2. 0 + Ahead(next[q], avail[q]) = Ahead(next[q], avail[q])
        <5> DEFINE l == Ahead(next[q], avail[q])
        <5>1. l \in Nat
          BY <3>1, Zenon
        <5> HIDE DEF l
        <5>2. 0 + l = l
          BY <5>1
        <5> QED
          BY <5>2, Zenon DEF l
      <4>3. CASE IsDriven
        <5>1. used[q] = next[q] /\ Ahead(next[q], avail[q]) <= QueueMax
          BY <3>2, <4>3, Zenon
        <5> QED BY <2>1, <2>3, <3>1, <4>1, <4>2, <4>3, <5>1, Zenon DEF RingInv
      <4>4. CASE ~IsDriven
        BY <2>3, <4>1, <4>4, Zenon DEF RingInv
      <4> QED BY <4>3, <4>4
  <2> QED
    BY <2>2, <2>3
<1>6. (Left' => Left) /\ (Taken => Taken')
  BY <1>1, <1>2, Zenon DEF Left, Taken, Busy
<1> QED
  BY <1>1, <1>2, <1>4, <1>5, <1>6, GuestKeeps

(* The driver decides on a notification: always for the receive ring.  The *)
(* interrupt handler and the ring callbacks leave the rings alone.         *)
LEMMA HandlerServes ==
  ASSUME ServeInv, TxInv', \/ Acknowledge \/ Dispatch \/ UNCHANGED frontendVars
                           \/ \E q \in DataQueue : CheckNotify(q) \/ Enable(q) \/ Look(q)
  PROVE  ServeInv'
<1> USE DEF memory, transport, work, worker, guest
<1>1. UNCHANGED <<next, used, pending, pending_rx, replies, bell, closed, pc, batch, progressed,
                  avail, cleaned>>
  BY Zenon DEF Acknowledge, Dispatch, CheckNotify, Enable, Look, frontendVars
<1>2. SameRings(mmio, mmio')
  <2>1. CASE Acknowledge
    BY <2>1, AckKeepsRings, PublishKeepsRings, Zenon DEF Acknowledge, ServeInv, TxInv, TxTypes, SameRings
  <2>2. CASE ~Acknowledge
    BY <2>2, RingsAreSame, Zenon DEF Dispatch, CheckNotify, Enable, Look, frontendVars, ServeInv
  <2> QED
    BY <2>1, <2>2
<1>3. Busy' <=> Busy
  <2>1. CASE \E q \in DataQueue : CheckNotify(q)
    <3>1. PICK q \in DataQueue : CheckNotify(q)
      BY <2>1, Zenon
    <3>2. kick \in [DataQueue -> {"idle", "check", "notify"}]
      BY DEF ServeInv, TxInv, TxTypes
    <3> QED
      BY <3>1, <3>2, RingNumbers DEF CheckNotify, Busy
  <2>2. CASE ~(\E q \in DataQueue : CheckNotify(q))
    <3>1. kick' = kick
      BY <2>2, Zenon DEF Acknowledge, Dispatch, Enable, Look, frontendVars
    <3> QED
      BY <3>1 DEF Busy
  <2> QED
    BY <2>1, <2>2, Zenon
<1>4. (IsDriven' <=> IsDriven) /\ (IsReady(mmio', RX) <=> IsReady(mmio, RX))
  BY <1>2 DEF SameRings, IsDriven, IsReady
<1>5. (Left' => Left) /\ (Taken => Taken')
  BY <1>1, <1>3, <1>4, Zenon DEF Left, Taken
<1>6. ASSUME NEW q \in DataQueue PROVE RingInv(q)'
  <2>1. IsDriven /\ pc' \notin Published(q) => batch'.heads[q] <= Ahead(next[q], avail[q])
    BY <1>1, Zenon DEF ServeInv, RingInv
  <2> QED
    BY <1>1, <1>4, <2>1, RingKept, Zenon
<1> QED
  BY <1>1, <1>2, <1>5, <1>6, GuestKeeps, Zenon DEF ServeInv, ServeTypes

(* A notification schedules the queue, or finds no ring.                   *)
LEMMA NotifyServes ==
  ASSUME ServeInv, TxInv', NotifyEvent \/ \E q \in DataQueue : Notify(q)
  PROVE  ServeInv'
<1> USE DEF memory, transport, work, worker, guest
<1>1. /\ UNCHANGED <<next, used, pending_rx, replies, closed, pc, batch, progressed, avail, cleaned,
                     mmio>>
      /\ pc \in {"yield", "parked"}
  BY DEF NotifyEvent, Notify, AtAwait, Ring1
<1>2. SameRings(mmio, mmio') /\ batch' = NoBatch
  BY <1>1, RingsAreSame, Zenon DEF ServeInv, TxInv, TxDevice, Between
<1>3. /\ pending' \in [DataQueue -> BOOLEAN] /\ (pending[RX] => pending'[RX])
      /\ pending'[RX] => bell' \/ (pending[RX] /\ bell' = bell)
  <2>1. CASE NotifyEvent
    BY <2>1, Zenon DEF NotifyEvent, Ring1, ServeInv, ServeTypes
  <2>2. CASE \E q \in DataQueue : Notify(q)
    <3>1. PICK q \in DataQueue : Notify(q)
      BY <2>2
    <3>2. CASE closed \/ ~IsReady(mmio, q)
      BY <3>1, <3>2, Zenon DEF Notify, ServeInv, ServeTypes
    <3>3. CASE ~(closed \/ ~IsReady(mmio, q))
      BY <3>1, <3>3, RingNumbers, Zenon DEF Notify, Ring1, ServeInv, ServeTypes
    <3> QED
      BY <3>2, <3>3
  <2> QED
    BY <2>1, <2>2
<1>4. /\ RegsInv' /\ (IsDriven' <=> IsDriven)
      /\ \A q \in DataQueue : IsReady(mmio', q) <=> IsReady(mmio, q)
  <2>1. ~IsDriven => \A q \in DataQueue : next'[q] = 0 /\ batch'.heads[q] = 0
    BY <1>1, Zenon DEF ServeInv, RegsInv
  <2> QED
    BY <1>1, <1>2, <2>1, RegsKept, Zenon
<1>5. ASSUME NEW q \in DataQueue PROVE RingInv(q)'
  <2>1. IsDriven /\ pc' \notin Published(q) => batch'.heads[q] <= Ahead(next[q], avail[q])
    BY <1>1, Zenon DEF ServeInv, RingInv
  <2> QED
    BY <1>1, <1>4, <2>1, RingKept, Zenon
<1>6. Left' => Left \/ pending'[RX]
  <2>1. CASE kick'[RX] = kick[RX]
    BY <1>1, <1>4, <2>1, RingNumbers, Zenon DEF Left, Busy
  <2>2. CASE kick'[RX] # kick[RX]
    <3>1. Notify(RX)
      BY <2>2, RingNumbers, ZenonT(40) DEF NotifyEvent, Notify, ServeInv, TxInv, TxTypes
    <3>2. IsReady(mmio', RX) => ~closed /\ IsReady(mmio, RX)
      BY <1>4, RingNumbers, Zenon DEF ServeInv, RegsInv
    <3>3. IsReady(mmio', RX) => pending'[RX]
      BY <3>1, <3>2, RingNumbers, Zenon DEF Notify, ServeInv, ServeTypes
    <3> QED
      BY <3>3, Zenon DEF Left
  <2> QED
    BY <2>1, <2>2, Zenon
<1>7. ServeTypes'
  BY <1>1, <1>3, Zenon DEF ServeInv, ServeTypes
<1>8. Waiting' <=> Waiting
  BY <1>1 DEF Waiting
<1>9. RxServed'
  BY <1>1, <1>3, <1>6, <1>8, Zenon DEF ServeInv, RxServed, Pass
<1>10. RxProgress'
  <2>1. /\ pc' \notin Pass /\ pc' \notin {"flags_rx", "signal", "service"}
        /\ pc' = "parked" \/ pc' \notin {"rearm", "recheck", "wait", "parked"}
    BY <1>1, Zenon DEF Pass
  <2>2. pc = "parked" => (pending[RX] => bell)
    BY Zenon DEF ServeInv, RxProgress
  <2>3. pc' = "parked" => (pending'[RX] => bell')
    <3>1. pc' = pc
      BY <1>1, Zenon
    <3> QED
      BY <1>3, <2>2, <3>1
  <2> QED
    BY <2>1, <2>3, Zenon DEF RxProgress
<1> QED
  BY <1>4, <1>5, <1>7, <1>9, <1>10, Zenon DEF ServeInv

-----------------------------------------------------------------------------
(* The device is reset, closed and started again.                          *)

(* The registers before and after a driver has started the device.         *)
LEMMA FreshQueues ==
  /\ "DRIVER_OK" \notin NewTransport.status /\ "DRIVER_OK" \in DrivenTransport.status
  /\ \A q \in DataQueue : /\ ~IsReady(NewTransport, q) /\ IsReady(DrivenTransport, q)
                          /\ DrivenTransport.queues[q].num = QueueMax
<1> DEFINE ring == [num |-> QueueMax, ready |-> TRUE, desc |-> 1, avail |-> 1, used |-> 1]
           old == [q \in Queue |-> NoRegs]
           new == [q \in Queue |-> ring]
           up == {"ACKNOWLEDGE", "DRIVER", "FEATURES_OK", "DRIVER_OK"}
<1>1. DataQueue \subseteq Queue
  BY RingNumbers, Zenon DEF DataQueue
<1>2. \A q \in DataQueue : ~old[q].ready /\ new[q].ready /\ new[q].num = QueueMax
  BY <1>1, Zenon DEF NoRegs
<1> HIDE DEF ring, old, new, up
<1>3. NewTransport.queues = old /\ NewTransport.status = {}
  BY DEF NewTransport, old
<1>4. DrivenTransport = [NewTransport EXCEPT !.status = up, !.queues = new]
  BY DEF DrivenTransport, up, new, ring
<1>5. DrivenTransport.queues = new /\ DrivenTransport.status = up
  BY <1>4, FreshRings DEF Transport
<1>6. "DRIVER_OK" \in up
  BY Zenon DEF up
<1> QED
  BY <1>2, <1>3, <1>5, <1>6 DEF IsReady

(* Writing status 0 takes every ring away.                                 *)
LEMMA ResetClears ==
  ASSUME mmio \in Transport, Publish(WriteStatus(mmio, {}))
  PROVE  "DRIVER_OK" \notin mmio'.status /\ \A q \in DataQueue : ~IsReady(mmio', q)
<1> DEFINE d == [mmio EXCEPT !.status = {}]
           old == [q \in Queue |-> NoRegs]
           r == [d EXCEPT !.queues = old, !.selected = 0, !.guest_features = {}, !.interrupt_status = {}]
<1>1. old \in [Queue -> QueueRegs] /\ \A q \in DataQueue : ~old[q].ready
  BY RingNumbers DEF NoRegs, QueueRegs, DataQueue
<1>2. d \in Transport /\ d.status = {}
  BY DEF Transport
<1>3. WriteStatus(mmio, {}) = SetIrqLevel(r, FALSE)
  BY <1>2 DEF WriteStatus, DriveStatus, IsReset, ResetDevice
<1> HIDE DEF d, old
<1>4. r \in Transport /\ r.queues = old /\ r.status = {}
  BY <1>1, <1>2, RingNumbers, Zenon DEF Transport
<1> HIDE DEF r
<1>5. SameRings(r, SetIrqLevel(r, FALSE))
  BY <1>4, LevelKeepsRings, Zenon
<1> DEFINE s == SetIrqLevel(r, FALSE)
<1>6. /\ s \in Transport /\ s.queues = old /\ s.status = {}
      /\ mmio' = [s EXCEPT !.irq_dirty = FALSE]
  BY <1>3, <1>4, <1>5, Zenon DEF SameRings, Publish
<1> HIDE DEF s
<1>7. mmio'.queues = old /\ mmio'.status = {}
  BY <1>6 DEF Transport
<1> QED
  BY <1>1, <1>7, Zenon DEF IsReady

(* A reset and a close leave no ring, no reply and nothing scheduled.      *)
LEMMA EmptyServes ==
  ASSUME ServeInv, TxInv', DeviceReset \/ CloseDevice
  PROVE  ServeInv'
<1> USE DEF memory, work, worker, guest
<1>1. /\ UNCHANGED <<avail, used, cleaned, kick, pc, batch, progressed>>
      /\ next' = [q \in DataQueue |-> 0] /\ pending' = [q \in DataQueue |-> FALSE]
      /\ pending_rx' = FALSE /\ replies' = 0 /\ pc \in {"yield", "parked"}
  BY DEF DeviceReset, CloseDevice, AtAwait
<1>2. batch' = NoBatch
  BY <1>1, Zenon DEF ServeInv, TxInv, TxDevice, Between
<1>3. ~IsDriven' /\ \A q \in DataQueue : ~IsReady(mmio', q)
  <2>1. CASE DeviceReset
    BY <2>1, ResetClears DEF DeviceReset, IsDriven, ServeInv, TxInv, TxTypes
  <2>2. CASE CloseDevice
    BY <2>2, FreshQueues, Zenon DEF CloseDevice, IsDriven
  <2> QED
    BY <2>1, <2>2
<1>4. ServeTypes'
  BY <1>1, <1>2, NothingCaptured, Zenon DEF ServeInv, ServeTypes
<1>5. RegsInv'
  BY <1>1, <1>2, <1>3, NothingCaptured, Zenon DEF RegsInv
<1>6. \A q \in DataQueue : RingInv(q)'
  BY <1>3, Zenon DEF RingInv
<1>7. ~Waiting' /\ ~pending'[RX]
  BY <1>1, RingNumbers DEF Waiting
<1>8. RxServed' /\ RxProgress'
  BY <1>1, <1>7, Zenon DEF RxServed, RxProgress, Pass
<1> QED
  BY <1>4, <1>5, <1>6, <1>8 DEF ServeInv

(* A driver starts the device with empty rings, where the worker is.       *)
LEMMA StartServes ==
  ASSUME ServeInv, TxInv', DriverStart
  PROVE  ServeInv'
<1> USE DEF memory, work, worker, guest
<1>1. /\ UNCHANGED <<next, kick, pc, batch, progressed, pending, pending_rx, replies, bell, closed>>
      /\ avail' = [q \in DataQueue |-> 0] /\ used' = [q \in DataQueue |-> 0]
      /\ cleaned' = [q \in DataQueue |-> 0] /\ mmio' = DrivenTransport
      /\ ~closed /\ mmio.status = {} /\ pc \in {"yield", "parked"}
  BY DEF DriverStart, AtAwait
<1>2. batch' = NoBatch
  BY <1>1, Zenon DEF ServeInv, TxInv, TxDevice, Between
<1>3. ~IsDriven /\ \A q \in DataQueue : next[q] = 0
  BY <1>1, Zenon DEF ServeInv, RegsInv, IsDriven
<1>4. IsDriven' /\ \A q \in DataQueue : IsReady(mmio', q) /\ mmio'.queues[q].num = QueueMax
  BY <1>1, FreshQueues, Zenon DEF IsDriven
<1>5. ServeTypes'
  BY <1>1, <1>2, NothingCaptured, RingNumbers, Zenon DEF ServeInv, ServeTypes
<1>6. RegsInv'
  BY <1>1, <1>4, Zenon DEF RegsInv
<1>7. ASSUME NEW q \in DataQueue PROVE RingInv(q)'
  <2>1. Ahead(0, 0) = 0
    BY AheadNumbers, RingNumbers, Zenon
  <2>2. cleaned'[q] = 0 /\ avail'[q] = 0 /\ next'[q] = 0 /\ used'[q] = 0 /\ batch'.heads[q] = 0
    BY <1>1, <1>2, <1>3, NothingCaptured, Zenon
  <2> QED
    BY <2>1, <2>2, RingNumbers DEF RingInv
<1>8. ~Left'
  BY <1>1, <1>3, RingNumbers, Zenon DEF Left
<1>9. RxServed'
  BY <1>1, <1>8 DEF RxServed, Pass
<1>10. RxProgress'
  BY <1>1, Zenon DEF ServeInv, RxProgress, Pass
<1> QED
  BY <1>5, <1>6, <1>7, <1>9, <1>10, Zenon DEF ServeInv

-----------------------------------------------------------------------------
(* The invariant holds at the start,                                       *)
LEMMA ServeStarts ==
  ASSUME FrontendInit
  PROVE  ServeInv
<1>1. /\ mmio = NewTransport /\ batch = NoBatch /\ pc = "top" /\ replies = 0 /\ pending_rx = FALSE
      /\ progressed = FALSE /\ closed = FALSE
      /\ used = [q \in DataQueue |-> 0] /\ cleaned = [q \in DataQueue |-> 0]
      /\ next = [q \in DataQueue |-> 0] /\ pending = [q \in DataQueue |-> FALSE]
  BY DEF FrontendInit
<1>2. ServeTypes
  <2>1. used \in [DataQueue -> Index] /\ cleaned \in [DataQueue -> Index]
    BY <1>1, RingNumbers
  <2>2. pending \in [DataQueue -> BOOLEAN]
    BY <1>1, Zenon
  <2>3. \A q \in DataQueue : 0 <= batch.done[q] /\ batch.done[q] <= batch.heads[q]
    BY <1>1, NothingCaptured, NoneIsLeast, Zenon
  <2> QED
    BY <1>1, <2>1, <2>2, <2>3, Zenon DEF ServeTypes
<1>3. ~IsDriven /\ RegsInv
  BY <1>1, FreshQueues, NothingCaptured DEF RegsInv, IsDriven
<1>4. \A q \in DataQueue : RingInv(q)
  BY <1>3, Zenon DEF RingInv
<1>5. RxServed /\ RxProgress
  BY <1>1 DEF RxServed, RxProgress, Pass, Waiting
<1> QED
  BY <1>2, <1>3, <1>4, <1>5, TxStarts DEF ServeInv

(* and every step keeps it.                                                *)
LEMMA ServeSteps ==
  ASSUME ServeInv, [FrontendNext]_frontendVars
  PROVE  ServeInv'
<1>1. TxInv'
  BY TxSteps DEF ServeInv
<1>2. CASE WorkerStep
  BY <1>1, <1>2, WaitsServe, TimerServes, TasksServe, EndOfPassServes, CaptureTxServes,
     CaptureRxServes, ProcessServes, PublishTxServes, PublishRxServes, Zenon DEF WorkerStep
<1>3. CASE \E q \in driver.queues : Post(q)
  <2>1. driver.queues \subseteq DataQueue
    BY FrontendAssumption DEF ServeInv, TxInv, TxTypes
  <2> QED
    BY <1>1, <1>3, <2>1, PostServes, Zenon
<1>4. CASE \E q \in DataQueue :
             CheckNotify(q) \/ Notify(q) \/ Drain(q) \/ Enable(q) \/ Look(q)
  BY <1>1, <1>4, HandlerServes, NotifyServes, DrainServes, Zenon
<1>5. CASE TaskSchedules \/ NotifyEvent \/ Acknowledge \/ Dispatch \/ UNCHANGED frontendVars
  BY <1>1, <1>5, TasksServe, NotifyServes, HandlerServes, Zenon
<1>6. CASE DeviceReset \/ CloseDevice \/ DriverStart
  BY <1>1, <1>6, EmptyServes, StartServes, Zenon
<1> QED
  BY <1>2, <1>3, <1>4, <1>5, <1>6, Zenon DEF FrontendNext

(* The device's rings stay in step with the driver's, however the two and  *)
(* the other tasks interleave: resync_pending_queue_entries never skips a  *)
(* buffer, publish_batch moves used and next on together, and a worker     *)
(* that sleeps unwoken leaves no reply behind that has a receive buffer,   *)
(* unless the driver is about to notify it of that buffer.                 *)
THEOREM RepliesAreNotStranded == FrontendSpec => []RingsAreServed
<1>1. ServeInv => RingsAreServed
  <2> SUFFICES ASSUME ServeInv PROVE RingsAreServed
    BY SMTT(40)
  <2>1. RingsInStep
    <3> SUFFICES ASSUME IsDriven, NEW q \in DataQueue
                 PROVE  /\ Ahead(cleaned[q], avail[q]) <= QueueMax
                        /\ Ahead(next[q], avail[q]) <= QueueMax
                        /\ Ahead(cleaned[q], next[q]) + Ahead(next[q], avail[q])
                             = Ahead(cleaned[q], avail[q])
                        /\ used[q] = next[q]
      BY ZenonT(40) DEF RingsInStep
    <3>1. cleaned[q] \in Index /\ next[q] \in Index /\ avail[q] \in Index
      BY Zenon DEF ServeInv, ServeTypes, TxInv, TxTypes
    <3>2. /\ Ahead(cleaned[q], avail[q]) <= QueueMax
          /\ Ahead(cleaned[q], next[q]) + Ahead(next[q], avail[q]) = Ahead(cleaned[q], avail[q])
          /\ used[q] = next[q]
      BY Zenon DEF ServeInv, RingInv
    <3> QED
      BY <3>1, <3>2, RoomAhead, Zenon
  <2>2. NoStrandedReply
    <3>1. pc = "parked" => (Waiting /\ Left => pending[RX]) /\ (pending[RX] => bell)
      BY DEF ServeInv, RxServed, RxProgress, Pass
    <3>2. bell = woken
      BY DEF ServeInv, TxInv, TxSleep
    <3> QED
      BY <3>1, <3>2, Zenon DEF NoStrandedReply, Waiting, Left, Busy
  <2> QED
    BY <2>1, <2>2 DEF RingsAreServed
<1> QED
  BY <1>1, ServeStarts, ServeSteps, PTL DEF FrontendSpec

=============================================================================
