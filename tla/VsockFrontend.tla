--------------------------- MODULE VsockFrontend ---------------------------
(***************************************************************************)
(* The vsock frontend component against a running guest driver             *)
(* (components/vsock-frontend/src/transport.rs, worker.rs and lib.rs, with *)
(* the Doorbell of components/device-transport).                           *)
(*                                                                         *)
(* The component is single-threaded: register accesses, the other tasks of *)
(* the component and the host's close run only where the worker awaits.    *)
(* Guest memory is shared with the guest's processors all the time, so     *)
(* each access the worker makes to a ring index or to ring flags is a step *)
(* of its own.  The guest driver is external and follows the virtio rules: *)
(* it publishes before it looks at the flag that suppresses notifications, *)
(* and looks at the used index again after it enables interrupts.          *)
(*                                                                         *)
(* Packets are abstracted to whether a transmitted packet carries payload  *)
(* and brings a reply, and whether a reply fits into one receive buffer.   *)
(***************************************************************************)
EXTENDS MmioTransport

CONSTANTS IndexSize,               \* ring indexes count modulo 2^16
          MAX_DEVICE_STEPS,        \* steps of one process_pending
          MAX_HELD_TX_COMPLETIONS, \* completions held back without interrupt
          DriverQueues,            \* sets of queues a driver may post buffers to
          TxPayloads,              \* whether its packets carry payload
          RxResults,               \* what may become of its receive buffers
          MaxReplies,              \* bound on the replies the switch holds
          MaxChores,               \* bound on the work of other tasks
          MaxResets                \* bound on the guest's device resets

RX == 0
TX == 1
EVENT == 2
DataQueue == {RX, TX}
Index == 0 .. IndexSize - 1

ASSUME FrontendAssumption ==
  /\ QueueCount = 3
  /\ IsPowerOfTwo(QueueMax)
  /\ IndexSize \in Nat /\ QueueMax < IndexSize
  /\ MAX_DEVICE_STEPS \in Nat \ {0}
  /\ MAX_HELD_TX_COMPLETIONS \in Nat \ {0}
  /\ DriverQueues \subseteq SUBSET DataQueue /\ TxPayloads \subseteq BOOLEAN
  /\ RxResults \subseteq {"refused", "retry", "sent", "part"}
  /\ MaxReplies \in Nat /\ MaxChores \in Nat /\ MaxResets \in Nat

VARIABLES
  avail,          \* guest memory: available index of each ring
  used,           \* guest memory: used index of each ring
  no_notify,      \* guest memory: NO_NOTIFY in the used flags of TX
  no_interrupt,   \* guest memory: NO_INTERRUPT in the available flags
  mmio, line,     \* the register file and the published interrupt line
  next, pending, pending_rx, held_tx_completions, \* transport::State
  replies,        \* replies the switch has queued
  bell, closed,   \* Doorbell WORK: bits and closed
  woken,          \* the waker the worker registered was called
  pc,             \* where the worker is
  batch,          \* locals of process_pending
  progressed,     \* local of run
  timed,          \* the worker waits with the 250 us timer
  chores,         \* what the other tasks may still do
  driver,         \* the queues the driver uses and the resets it has left
  cleaned,        \* guest: used index up to which completions are seen
  kick,           \* guest: what is left of posting to a ring
  isr, callback   \* guest: the interrupt handler and the ring callbacks

memory == <<avail, used, no_notify, no_interrupt>>
transport == <<mmio, line, next, pending, pending_rx, held_tx_completions>>
work == <<bell, closed, woken>>
worker == <<pc, batch, progressed, timed>>
guest == <<cleaned, kick, isr, callback>>
frontendVars == <<memory, transport, replies, work, worker, chores, driver, guest>>

-----------------------------------------------------------------------------
(* Ring indexes.                                                           *)

Ahead(from, to) == (to + IndexSize - from) % IndexSize
Advance(i, n) == (i + n) % IndexSize

(* resync_pending_queue_entries: an index further ahead than the ring is   *)
(* long is not believed, and everything up to it is skipped.               *)
PendingEntries(from, to, size) ==
  IF Ahead(from, to) <= size THEN Ahead(from, to) ELSE 0

ResyncNextWhenFull(from, to, size) == IF Ahead(from, to) < size THEN from ELSE to

ResyncNext(from, to, size) == IF Ahead(from, to) <= size THEN from ELSE to

Smaller(a, b) == IF a <= b THEN a ELSE b

-----------------------------------------------------------------------------
(* The device state as the worker and the other tasks change it.           *)

NoBatch ==
  [heads |-> [q \in DataQueue |-> 0], more |-> [q \in DataQueue |-> FALSE],
   done |-> [q \in DataQueue |-> 0], steps |-> 0, rx_enabled |-> FALSE,
   has_tx_payload |-> FALSE, requested |-> [q \in DataQueue |-> FALSE]]

(* What a driver leaves in the registers when it starts the device.        *)
DrivenTransport ==
  [NewTransport EXCEPT
     !.status = {"ACKNOWLEDGE", "DRIVER", "FEATURES_OK", "DRIVER_OK"},
     !.queues = [q \in Queue |-> [num |-> QueueMax, ready |-> TRUE,
                                  desc |-> 1, avail |-> 1, used |-> 1]]]

IsDriven == "DRIVER_OK" \in mmio.status

FrontendInit ==
  /\ avail = [q \in DataQueue |-> 0] /\ used = [q \in DataQueue |-> 0]
  /\ no_notify = FALSE /\ no_interrupt = [q \in DataQueue |-> FALSE]
  /\ mmio = NewTransport /\ line = FALSE
  /\ next = [q \in DataQueue |-> 0] /\ pending = [q \in DataQueue |-> FALSE]
  /\ pending_rx = FALSE /\ held_tx_completions = 0
  /\ replies = 0
  /\ bell = FALSE /\ closed = FALSE /\ woken = FALSE
  /\ pc = "top" /\ batch = NoBatch /\ progressed = FALSE /\ timed = FALSE
  /\ chores = MaxChores /\ driver \in [queues : DriverQueues, resets : {MaxResets}]
  /\ cleaned = [q \in DataQueue |-> 0] /\ kick = [q \in DataQueue |-> "idle"]
  /\ isr = "idle" /\ callback = [q \in DataQueue |-> "idle"]

(* state(): the line is published when an access moved it.                 *)
Publish(m) ==
  /\ mmio' = [m EXCEPT !.irq_dirty = FALSE]
  /\ line' = IF m.irq_dirty THEN m.irq_level ELSE line

(* Doorbell::ring and Doorbell::close wake the task that waits.            *)
RingUnheard == bell' = TRUE /\ UNCHANGED <<closed, woken>>
Ring1 == bell' = TRUE /\ woken' = TRUE /\ UNCHANGED closed

(* The worker is at an await, so other code of the component may run.      *)
AtAwait == pc \in {"yield", "parked"}

Goto(at) == pc' = at

-----------------------------------------------------------------------------
(* worker::run, one pass of the loop.                                      *)

(* The end of run, once the doorbell is closed: connections are reset.     *)
Finish ==
  /\ pc = "top" /\ closed
  /\ Goto("done")
  /\ replies' = 0
  /\ UNCHANGED <<memory, transport, work, batch, progressed, timed, chores, driver, guest>>

SuppressNotifications ==
  /\ pc = "top" /\ ~closed
  /\ Goto("capture_tx")
  /\ no_notify' = (no_notify \/ IsReady(mmio, TX))
  /\ pending' = [pending EXCEPT ![TX] = @ \/ IsReady(mmio, TX)]
  /\ UNCHANGED <<avail, used, no_interrupt, mmio, line, next, pending_rx,
                 held_tx_completions, replies, work, batch, progressed, timed, chores, driver,
                 guest>>

(* capture_queue_batch: the available index of a ready queue is read once. *)
Entries(q) ==
  IF IsReady(mmio, q) THEN PendingEntries(next[q], avail[q], mmio.queues[q].num) ELSE 0

Capture(b, q) ==
  LET heads == Smaller(Entries(q), MAX_DEVICE_STEPS)
  IN  [b EXCEPT !.heads[q] = heads, !.more[q] = Entries(q) > heads]

Resynced(q) ==
  IF IsReady(mmio, q)
  THEN [next EXCEPT ![q] = ResyncNext(@, avail[q], mmio.queues[q].num)] ELSE next

CaptureTx ==
  /\ pc = "capture_tx"
  /\ Goto("capture_rx")
  /\ IF pending[TX] THEN batch' = Capture(batch, TX) /\ next' = Resynced(TX)
                    ELSE UNCHANGED <<batch, next>>
  /\ UNCHANGED <<memory, mmio, line, pending, pending_rx, held_tx_completions, replies,
                 work, progressed, timed, chores, driver, guest>>

(* RX is looked at when it was notified or scheduled, or TX has work.      *)
CaptureRx ==
  /\ pc = "capture_rx"
  /\ Goto("process")
  /\ IF pending[RX] \/ batch.heads[TX] > 0
     THEN /\ batch' = [Capture(batch, RX) EXCEPT !.rx_enabled = TRUE]
          /\ next' = Resynced(RX)
     ELSE UNCHANGED <<batch, next>>
  /\ UNCHANGED <<memory, mmio, line, pending, pending_rx, held_tx_completions, replies,
                 work, progressed, timed, chores, driver, guest>>

(* process_rx on the next receive buffer.  The buffer is refused, or takes *)
(* all or part of a reply, or the reply turns out to be of an ended        *)
(* connection, or there is none.  stale says that the reply kept back from *)
(* an earlier buffer is no longer current.                                 *)
RxOutcomes(stock, stale) ==
  IF pending_rx /\ ~stale THEN RxResults \ {"retry"}
  ELSE IF stock > 0 THEN RxResults
  ELSE (RxResults \cap {"refused"}) \cup {"idle"}

(* read_tx_packet and the core's answer to it: a payload or not, and the   *)
(* replies it brings.                                                      *)
TxPacket(tx, payload, brings) == IF tx THEN payload \in TxPayloads ELSE ~payload /\ brings = 0

(* One round of the loop of process_pending: a transmitted packet, which   *)
(* may bring a reply, then a receive buffer.                               *)
Process(payload, brings, stale, outcome) ==
  LET tx == batch.done[TX] < batch.heads[TX]
      rx_on == batch.rx_enabled \/ tx
      rx == rx_on /\ batch.done[RX] < batch.heads[RX]
      stock == Smaller(replies + brings, MaxReplies)
      took == outcome \in {"retry", "sent", "part"} /\ ~(pending_rx /\ ~stale)
      completed == outcome \in {"refused", "sent", "part"}
      moved == tx \/ completed \/ outcome = "retry"
  IN  /\ pc = "process"
      /\ TxPacket(tx, payload, brings)
      /\ IF rx THEN outcome \in RxOutcomes(stock, stale) ELSE outcome = "none"
      /\ stale => pending_rx /\ rx /\ outcome # "refused"
      /\ batch' = [batch EXCEPT
           !.done = [q \in DataQueue |->
                       @[q] + IF (q = TX /\ tx) \/ (q = RX /\ completed) THEN 1 ELSE 0],
           !.rx_enabled = rx_on /\ outcome # "idle",
           !.has_tx_payload = @ \/ payload,
           !.steps = @ + 1]
      /\ pending_rx' = CASE outcome = "part" -> TRUE
                         [] outcome \in {"sent", "retry", "idle"} -> FALSE
                         [] OTHER -> pending_rx
      /\ replies' = IF took THEN stock - 1 ELSE stock
      /\ progressed' = (progressed \/ moved)
      /\ Goto(IF moved /\ batch.steps + 1 < MAX_DEVICE_STEPS THEN "process" ELSE "publish_tx")
      /\ UNCHANGED <<memory, mmio, line, next, pending, held_tx_completions,
                     work, timed, chores, driver, guest>>

(* publish_batch: completions become visible before next moves on.         *)
PublishQueue(q, flags, after) ==
  /\ pending' = [pending EXCEPT
       ![q] = /\ batch.done[q] < batch.heads[q] \/ batch.more[q]
              /\ q = TX \/ batch.rx_enabled]
  /\ used' = [used EXCEPT ![q] = Advance(@, batch.done[q])]
  /\ next' = [next EXCEPT ![q] = Advance(@, batch.done[q])]
  /\ Goto(IF batch.done[q] > 0 THEN flags ELSE after)
  /\ UNCHANGED <<avail, no_notify, no_interrupt, mmio, line, pending_rx, held_tx_completions,
                 replies, work, batch, progressed, timed, chores, driver, guest>>

PublishTx == pc = "publish_tx" /\ PublishQueue(TX, "flags_tx", "publish_rx")

PublishRx == pc = "publish_rx" /\ PublishQueue(RX, "flags_rx", "signal")

(* ... and only then are the guest's interrupt flags read.                 *)
ReadFlags(q, after) ==
  /\ batch' = [batch EXCEPT !.requested[q] = ~no_interrupt[q]]
  /\ Goto(after)
  /\ UNCHANGED <<memory, transport, replies, work, progressed, timed, chores, driver, guest>>

FlagsTx == pc = "flags_tx" /\ ReadFlags(TX, "publish_rx")

FlagsRx == pc = "flags_rx" /\ ReadFlags(RX, "signal")

(* request_used_interrupt: completions of header-only packets may wait for *)
(* a receive interrupt to carry them.                                      *)
RequestUsedInterrupt ==
  LET held == held_tx_completions + IF batch.requested[TX] THEN batch.done[TX] ELSE 0
      now == \/ batch.requested[RX]
             \/ batch.has_tx_payload
             \/ held >= MAX_HELD_TX_COMPLETIONS
  IN  /\ pc = "signal"
      /\ Goto("service")
      /\ held_tx_completions' = IF now THEN 0 ELSE held
      /\ Publish(IF now THEN Signal(mmio, INT_USED_BUFFER) ELSE mmio)
      /\ batch' = NoBatch
      /\ UNCHANGED <<memory, next, pending, pending_rx, replies, work, progressed, timed,
                     chores, driver, guest>>

(* agent::service and network::service: they may reset or open flows, with *)
(* schedule_receive_queue for whatever reply that queues.                  *)
Schedule(brings) ==
  /\ chores > 0 /\ chores' = chores - 1
  /\ replies' = Smaller(replies + brings, MaxReplies)
  /\ pending' = [pending EXCEPT ![RX] = TRUE]
  /\ Ring1

Service ==
  /\ pc = "service"
  /\ \/ /\ \E brings \in {0, 1} : Schedule(brings)
        /\ Goto("yield")
     \/ /\ Goto(IF progressed THEN "yield" ELSE "rearm")
        /\ UNCHANGED <<chores, replies, pending, work>>
  /\ progressed' = FALSE
  /\ UNCHANGED <<memory, mmio, line, next, pending_rx, held_tx_completions, batch, timed,
                 driver, guest>>

Yield ==
  /\ pc = "yield"
  /\ Goto("top")
  /\ UNCHANGED <<memory, transport, replies, work, batch, progressed, timed, chores, driver,
                 guest>>

(* rearm_tx_notifications: allow notifications, then look once more.       *)
Rearm ==
  /\ pc = "rearm"
  /\ IF IsReady(mmio, TX)
     THEN no_notify' = FALSE /\ Goto("recheck") /\ UNCHANGED <<pending, timed>>
     ELSE /\ pending' = [pending EXCEPT ![TX] = FALSE]
          /\ timed' = (held_tx_completions # 0)
          /\ Goto("wait")
          /\ UNCHANGED no_notify
  /\ UNCHANGED <<avail, used, no_interrupt, mmio, line, next, pending_rx, held_tx_completions,
                 replies, work, batch, progressed, chores, driver, guest>>

RecheckWithoutLooking ==
  /\ pc = "recheck"
  /\ pending' = [pending EXCEPT ![TX] = FALSE]
  /\ timed' = (held_tx_completions # 0)
  /\ Goto("wait")
  /\ UNCHANGED <<memory, mmio, line, next, pending_rx, held_tx_completions, replies, work,
                 batch, progressed, chores, driver, guest>>

Recheck ==
  /\ pc = "recheck"
  /\ next' = Resynced(TX)
  /\ pending' = [pending EXCEPT ![TX] = Entries(TX) # 0]
  /\ timed' = (Entries(TX) = 0 /\ held_tx_completions # 0)
  /\ Goto(IF Entries(TX) # 0 THEN "top" ELSE "wait")
  /\ UNCHANGED <<memory, mmio, line, pending_rx, held_tx_completions, replies, work, batch,
                 progressed, chores, driver, guest>>

(* Doorbell::poll_wait: register the waker, then take the bits.            *)
PollWait ==
  /\ pc = "wait"
  /\ bell' = FALSE /\ woken' = FALSE
  /\ IF bell \/ closed THEN Goto("top") /\ timed' = FALSE
                       ELSE Goto("parked") /\ UNCHANGED timed
  /\ UNCHANGED <<closed, memory, transport, replies, batch, progressed, chores, driver, guest>>

Wake ==
  /\ pc = "parked" /\ woken
  /\ Goto("wait")
  /\ UNCHANGED <<memory, transport, replies, work, batch, progressed, timed, chores, driver,
                 guest>>

(* The timer ends: select polls the doorbell first, and flushes only when  *)
(* there is no work.  A flush of a closed device would be an error.        *)
TimerEnds ==
  /\ pc = "parked" /\ timed
  /\ bell' = FALSE /\ woken' = FALSE /\ timed' = FALSE
  /\ IF bell \/ closed
     THEN Goto("top") /\ UNCHANGED transport
     ELSE /\ Goto("top")
          /\ held_tx_completions' = 0
          /\ Publish(IF held_tx_completions # 0 THEN Signal(mmio, INT_USED_BUFFER) ELSE mmio)
          /\ UNCHANGED <<next, pending, pending_rx>>
  /\ UNCHANGED <<closed, memory, replies, batch, progressed, chores, driver, guest>>

-----------------------------------------------------------------------------
(* The rest of the component, while the worker awaits.                     *)

(* A flow task delivers, consumes, resets or ends.                         *)
TaskSchedules ==
  /\ AtAwait /\ ~closed
  /\ \E brings \in {0, 1} : Schedule(brings)
  /\ UNCHANGED <<memory, mmio, line, next, pending_rx, held_tx_completions, worker, driver,
                 guest>>

(* QUEUE_NOTIFY of a data queue, and of the event queue, which only wakes. *)
Notify(q) ==
  /\ AtAwait /\ kick[q] = "notify"
  /\ kick' = [kick EXCEPT ![q] = "idle"]
  /\ IF closed \/ ~IsReady(mmio, q) THEN UNCHANGED <<pending, work>>
     ELSE pending' = [pending EXCEPT ![q] = TRUE] /\ Ring1
  /\ UNCHANGED <<memory, mmio, line, next, pending_rx, held_tx_completions, replies, worker,
                 chores, driver, cleaned, isr, callback>>

NotifyEvent ==
  /\ AtAwait /\ ~closed /\ IsReady(mmio, EVENT) /\ chores > 0
  /\ chores' = chores - 1
  /\ Ring1
  /\ UNCHANGED <<memory, transport, replies, worker, driver, guest>>

(* The driver writes status 0: reset_transport.                            *)
IsGuestIdle ==
  /\ isr = "idle"
  /\ \A q \in DataQueue : kick[q] = "idle" /\ callback[q] = "idle"

DeviceReset ==
  /\ AtAwait /\ ~closed /\ IsDriven /\ IsGuestIdle /\ driver.resets > 0
  /\ driver' = [driver EXCEPT !.resets = @ - 1]
  /\ Publish(WriteStatus(mmio, {}))
  /\ next' = [q \in DataQueue |-> 0] /\ pending' = [q \in DataQueue |-> FALSE]
  /\ pending_rx' = FALSE /\ held_tx_completions' = 0
  /\ replies' = 0
  /\ Ring1
  /\ UNCHANGED <<memory, worker, chores, guest>>

(* close_device: the doorbell is closed and the state dropped together.    *)
CloseDevice ==
  /\ AtAwait /\ ~closed
  /\ closed' = TRUE /\ bell' = TRUE /\ woken' = TRUE
  /\ mmio' = NewTransport /\ line' = FALSE
  /\ replies' = 0
  /\ next' = [q \in DataQueue |-> 0] /\ pending' = [q \in DataQueue |-> FALSE]
  /\ pending_rx' = FALSE /\ held_tx_completions' = 0
  /\ UNCHANGED <<memory, worker, chores, driver, guest>>

-----------------------------------------------------------------------------
(* The guest driver (external).                                            *)

DriverStart ==
  /\ AtAwait /\ ~closed /\ mmio.status = {} /\ IsGuestIdle
  /\ mmio' = DrivenTransport
  /\ avail' = [q \in DataQueue |-> 0] /\ used' = [q \in DataQueue |-> 0]
  /\ no_notify' = FALSE /\ no_interrupt' = [q \in DataQueue |-> FALSE]
  /\ cleaned' = [q \in DataQueue |-> 0]
  /\ UNCHANGED <<line, next, pending, pending_rx, held_tx_completions, replies, work, worker,
                 chores, driver, kick, isr, callback>>

(* A buffer is published; the driver still has to decide on a notification.*)
Post(q) ==
  /\ IsDriven /\ kick[q] # "notify"
  /\ Ahead(cleaned[q], avail[q]) < QueueMax
  /\ avail' = [avail EXCEPT ![q] = Advance(@, 1)]
  /\ kick' = [kick EXCEPT ![q] = "check"]
  /\ UNCHANGED <<used, no_notify, no_interrupt, transport, replies, work, worker, chores,
                 driver, cleaned, isr, callback>>

CheckNotify(q) ==
  /\ kick[q] = "check"
  /\ kick' = [kick EXCEPT ![q] = IF q = TX /\ no_notify THEN "idle" ELSE "notify"]
  /\ UNCHANGED <<memory, transport, replies, work, worker, chores, driver, cleaned, isr,
                 callback>>

(* The interrupt handler acknowledges, then looks at every ring.           *)
Acknowledge ==
  /\ AtAwait /\ ~closed /\ line /\ isr = "idle"
  /\ Publish(WriteInterruptAck(mmio, InterruptBit))
  /\ isr' = "acked"
  /\ UNCHANGED <<memory, next, pending, pending_rx, held_tx_completions, replies, work, worker,
                 chores, driver, cleaned, kick, callback>>

Dispatch ==
  /\ isr = "acked" /\ isr' = "idle"
  /\ callback' = [q \in DataQueue |->
       IF callback[q] = "idle" /\ used[q] # cleaned[q] THEN "drain" ELSE callback[q]]
  /\ no_interrupt' = [q \in DataQueue |-> no_interrupt[q] \/ callback'[q] = "drain"]
  /\ UNCHANGED <<avail, used, no_notify, transport, replies, work, worker, chores, driver,
                 cleaned, kick>>

(* A ring callback runs with interrupts off until the ring looks empty.    *)
Drain(q) ==
  /\ callback[q] = "drain"
  /\ callback' = [callback EXCEPT ![q] = "enable"]
  /\ cleaned' = [cleaned EXCEPT ![q] = used[q]]
  /\ UNCHANGED <<memory, transport, replies, work, worker, chores, driver, kick, isr>>

Enable(q) ==
  /\ callback[q] = "enable"
  /\ callback' = [callback EXCEPT ![q] = "look"]
  /\ no_interrupt' = [no_interrupt EXCEPT ![q] = FALSE]
  /\ UNCHANGED <<avail, used, no_notify, transport, replies, work, worker, chores, driver,
                 cleaned, kick, isr>>

Look(q) ==
  /\ callback[q] = "look"
  /\ callback' = [callback EXCEPT ![q] = IF used[q] # cleaned[q] THEN "drain" ELSE "idle"]
  /\ no_interrupt' = [no_interrupt EXCEPT ![q] = used[q] # cleaned[q]]
  /\ UNCHANGED <<avail, used, no_notify, transport, replies, work, worker, chores, driver,
                 cleaned, kick, isr>>

-----------------------------------------------------------------------------
WorkerStep ==
  \/ Finish
  \/ SuppressNotifications
  \/ CaptureTx
  \/ CaptureRx
  \/ \E payload \in BOOLEAN, brings \in {0, 1}, stale \in BOOLEAN,
        outcome \in {"refused", "retry", "sent", "part", "idle", "none"} :
       Process(payload, brings, stale, outcome)
  \/ PublishTx
  \/ FlagsTx
  \/ PublishRx
  \/ FlagsRx
  \/ RequestUsedInterrupt
  \/ Service
  \/ Yield
  \/ Rearm
  \/ Recheck
  \/ PollWait
  \/ Wake
  \/ TimerEnds

FrontendNext ==
  \/ WorkerStep
  \/ TaskSchedules
  \/ NotifyEvent
  \/ DeviceReset
  \/ CloseDevice
  \/ DriverStart
  \/ Acknowledge
  \/ Dispatch
  \/ \E q \in driver.queues : Post(q)
  \/ \E q \in DataQueue :
       CheckNotify(q) \/ Notify(q) \/ Drain(q) \/ Enable(q) \/ Look(q)

FrontendSpec == FrontendInit /\ [][FrontendNext]_frontendVars

-----------------------------------------------------------------------------
PcLabel == {"top", "capture_tx", "capture_rx", "process", "publish_tx", "flags_tx",
            "publish_rx", "flags_rx", "signal", "service", "yield", "rearm", "recheck",
            "wait", "parked", "done"}

Batch ==
  [heads : [DataQueue -> 0 .. MAX_DEVICE_STEPS], more : [DataQueue -> BOOLEAN],
   done : [DataQueue -> 0 .. MAX_DEVICE_STEPS], steps : 0 .. MAX_DEVICE_STEPS,
   rx_enabled : BOOLEAN, has_tx_payload : BOOLEAN, requested : [DataQueue -> BOOLEAN]]

(* Types; between two passes fewer completions are held back than force an *)
(* interrupt, and one pass takes no more steps than it was given.          *)
FrontendTypeOK ==
  /\ avail \in [DataQueue -> Index] /\ used \in [DataQueue -> Index]
  /\ no_notify \in BOOLEAN /\ no_interrupt \in [DataQueue -> BOOLEAN]
  /\ mmio \in Transport /\ line \in BOOLEAN
  /\ next \in [DataQueue -> Index] /\ pending \in [DataQueue -> BOOLEAN]
  /\ pending_rx \in BOOLEAN /\ held_tx_completions \in 0 .. MAX_HELD_TX_COMPLETIONS - 1
  /\ replies \in 0 .. MaxReplies
  /\ bell \in BOOLEAN /\ closed \in BOOLEAN /\ woken \in BOOLEAN
  /\ pc \in PcLabel /\ batch \in Batch /\ progressed \in BOOLEAN /\ timed \in BOOLEAN
  /\ chores \in 0 .. MaxChores
  /\ driver \in [queues : DriverQueues, resets : 0 .. MaxResets]
  /\ cleaned \in [DataQueue -> Index]
  /\ kick \in [DataQueue -> {"idle", "check", "notify"}]
  /\ isr \in {"idle", "acked"}
  /\ callback \in [DataQueue -> {"idle", "drain", "enable", "look"}]

(* A worker that sleeps with nothing to wake it has looked at every TX     *)
(* buffer: each one that is unprocessed was published by a driver that     *)
(* will still find notifications enabled, or is about to notify.           *)
NoLostTxKick ==
  /\ pc = "parked" /\ ~woken /\ IsReady(mmio, TX)
  => /\ ~no_notify
     /\ avail[TX] # next[TX] => kick[TX] \in {"check", "notify"}

(* ... and a reply with a receive buffer to go into is not left behind.    *)
NoStrandedReply ==
  /\ pc = "parked" /\ ~woken /\ IsReady(mmio, RX)
  /\ replies > 0 \/ pending_rx
  /\ avail[RX] # next[RX]
  => kick[RX] \in {"check", "notify"}

(* The driver's ring never looks overrun, not even when it is full, so no  *)
(* buffer is skipped; and what is used is exactly what was taken.          *)
RingsInStep ==
  IsDriven => \A q \in DataQueue :
    /\ Ahead(cleaned[q], avail[q]) <= QueueMax
    /\ Ahead(next[q], avail[q]) <= QueueMax
    /\ Ahead(cleaned[q], next[q]) + Ahead(next[q], avail[q]) = Ahead(cleaned[q], avail[q])
    /\ used[q] = next[q]

(* The frontend's rings stay in step with the driver's, and no reply of    *)
(* the switch is left without the receive queue being served.              *)
RingsAreServed == RingsInStep /\ NoStrandedReply

(* Whatever is published to a running device is eventually processed.      *)
TxIsServed ==
  \A i \in Index :
    (avail[TX] # next[TX] /\ next[TX] = i /\ IsDriven)
      ~> (next[TX] # i \/ ~IsDriven)

(* Whatever the device completes is eventually seen by the driver.         *)
CompletionsAreSeen ==
  \A q \in DataQueue, i \in Index :
    (used[q] # cleaned[q] /\ cleaned[q] = i /\ IsDriven)
      ~> (cleaned[q] # i \/ ~IsDriven)

(* A closed device's worker ends, and ends without an error.               *)
CloseEndsWorker == closed ~> pc = "done"

-----------------------------------------------------------------------------
(* Under fairness, with a driver that only transmits (DriverQueues has the *)
(* transmit queue alone), so that the switch has nothing to reply.         *)
LiveNext == FrontendNext /\ replies' = 0

(* The worker is a task the runtime keeps polling and its timer ends.  The *)
(* guest's processors keep running what they have begun, and a register    *)
(* access is served when the worker awaits, however briefly: yield_async   *)
(* and the wait hand the component to the task that serves the registers.  *)
LiveSpec ==
  /\ FrontendInit /\ [][LiveNext]_frontendVars
  /\ WF_frontendVars(WorkerStep)
  /\ SF_frontendVars(Acknowledge) /\ WF_frontendVars(Dispatch)
  /\ \A q \in DataQueue :
       /\ WF_frontendVars(CheckNotify(q)) /\ SF_frontendVars(Notify(q))
       /\ WF_frontendVars(Drain(q)) /\ WF_frontendVars(Enable(q)) /\ WF_frontendVars(Look(q))

(* What the driver makes available is taken, what was completed is seen by *)
(* the driver, and a closed device's worker ends.                          *)
FrontendGoesOn == TxIsServed /\ CompletionsAreSeen /\ CloseEndsWorker
=============================================================================
