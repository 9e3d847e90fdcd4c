----------------------------- MODULE MmioBridge -----------------------------
(***************************************************************************)
(* The MMIO bridge of one box (crates/terra-runtime/src/component/mmio.rs, *)
(* mmio/bridge.rs, mmio/device.rs and RuntimeVcpu in orchestration.rs):    *)
(* vCPU threads and device handles send commands through one bounded       *)
(* queue to a task that hands each device at most one request at a time    *)
(* and routes the replies back.                                            *)
(*                                                                         *)
(* A vCPU has at most one command outstanding: an access it waits for, or  *)
(* a queue kick it settles before its next access.  A device handle has at *)
(* most one control operation outstanding.  Devices are external: a        *)
(* request is answered, or fails by an error, a closed stream or the       *)
(* request timeout, each of which ends the bridge.  An address no device   *)
(* owns, and a bad width, is the target Nowhere.                           *)
(***************************************************************************)
EXTENDS Integers, Sequences, SequencesExt, FiniteSets

CONSTANTS BridgeVcpu, BridgeSlot, Nowhere,
          COMMAND_CAPACITY, CONTROL_CAPACITY

ASSUME BridgeAssumption ==
  /\ COMMAND_CAPACITY \in Nat \ {0} /\ CONTROL_CAPACITY \in Nat \ {0}
  /\ BridgeSlot # {} /\ BridgeVcpu \cap BridgeSlot = {} /\ Nowhere \notin BridgeSlot \cup BridgeVcpu

Client == BridgeVcpu \cup BridgeSlot          \* a device's handle is named by its slot
Target == BridgeSlot \cup {Nowhere}
Command == [client : Client, op : {"access", "kick", "reset", "close"}, target : Target]

IsControl(command) == command.op \in {"reset", "close"}

VARIABLES
  stopped,    \* admission: the bridge takes no more commands
  inbox,      \* commands sent and not yet received
  pending,    \* received commands with the slot they resolved to
  active,     \* active_slots
  inflight,   \* operations of the bridge
  bridge,     \* "running", "draining", "ended", "failed"
  state,      \* DeviceState of each device's handle
  closed,     \* DeviceRegistration::closed
  worker,     \* whether the device itself still serves
  vcpu,       \* "running", "waiting", "settling" or "failed"
  posted,     \* whether the vCPU has a kick to settle
  reply,      \* what each client's reply channel holds
  arrived     \* for each device, whose commands were admitted and not answered

bridgeVars == <<stopped, inbox, pending, active, inflight, bridge, state, closed, worker, vcpu,
                posted, reply, arrived>>

BridgeInit ==
  /\ stopped = FALSE /\ inbox = <<>> /\ pending = <<>>
  /\ active = {} /\ inflight = {} /\ bridge = "running"
  /\ state = [s \in BridgeSlot |-> "open"] /\ closed = [s \in BridgeSlot |-> FALSE]
  /\ worker = [s \in BridgeSlot |-> "serving"]
  /\ vcpu = [v \in BridgeVcpu |-> "running"] /\ posted = [v \in BridgeVcpu |-> FALSE]
  /\ reply = [c \in Client |-> "none"]
  /\ arrived = [s \in BridgeSlot |-> <<>>]

Resolved(queue) == [i \in DOMAIN queue |-> queue[i].command]
Queued == inbox \o Resolved(pending)
Running(is_control) == {o \in inflight : IsControl(o.command) = is_control}

-----------------------------------------------------------------------------
(* enqueue_reply: a permit of the right kind, held until the command is    *)
(* dispatched, and the admission lock across the check and the send.       *)

SharedPermits(command) == Len(Queued)

Permits(command) ==
  Len(SelectSeq(Queued, LAMBDA c : IsControl(c) = IsControl(command)))

Capacity(command) == IF IsControl(command) THEN CONTROL_CAPACITY ELSE COMMAND_CAPACITY

Admits(command) == ~stopped /\ Permits(command) < Capacity(command)

Send(command) ==
  /\ inbox' = Append(inbox, command)
  /\ reply' = [reply EXCEPT ![command.client] = "none"]
  /\ arrived' = IF command.target \in BridgeSlot
                THEN [arrived EXCEPT ![command.target] = Append(@, command.client)]
                ELSE arrived

-----------------------------------------------------------------------------
(* A vCPU thread: RuntimeVcpu::exchange.                                   *)

Access(v, t) ==
  /\ vcpu[v] = "running" /\ ~posted[v]
  /\ LET command == [client |-> v, op |-> "access", target |-> t]
     IN  IF Admits(command)
         THEN Send(command) /\ vcpu' = [vcpu EXCEPT ![v] = "waiting"]
         ELSE vcpu' = [vcpu EXCEPT ![v] = "failed"] /\ UNCHANGED <<inbox, reply, arrived>>
  /\ UNCHANGED <<stopped, pending, active, inflight, bridge, state, closed, worker, posted>>

(* post_queue_notify: a kick of an open device is not waited for.          *)
PostKick(v, s) ==
  /\ vcpu[v] = "running" /\ ~posted[v] /\ ~closed[s]
  /\ LET command == [client |-> v, op |-> "kick", target |-> s]
     IN  IF Admits(command)
         THEN Send(command) /\ posted' = [posted EXCEPT ![v] = TRUE] /\ UNCHANGED vcpu
         ELSE /\ vcpu' = [vcpu EXCEPT ![v] = "failed"]
              /\ UNCHANGED <<inbox, reply, arrived, posted>>
  /\ UNCHANGED <<stopped, pending, active, inflight, bridge, state, closed, worker>>

(* settle_posted_write, before the vCPU's next device access.              *)
Settle(v) ==
  /\ vcpu[v] = "running" /\ posted[v]
  /\ vcpu' = [vcpu EXCEPT ![v] = "settling"]
  /\ UNCHANGED <<stopped, inbox, pending, active, inflight, bridge, state, closed, worker,
                 posted, reply, arrived>>

Blocked(v) == vcpu[v] \in {"waiting", "settling"}

(* An access no device owns reads as zero: only a failure is an error.     *)
Resume(v) ==
  /\ Blocked(v) /\ reply[v] # "none"
  /\ vcpu' = [vcpu EXCEPT ![v] = IF reply[v] = "failure" THEN "failed" ELSE "running"]
  /\ posted' = [posted EXCEPT ![v] = FALSE]
  /\ UNCHANGED <<stopped, inbox, pending, active, inflight, bridge, state, closed, worker,
                 reply, arrived>>

(* RESPONSE_TIMEOUT: the command stays where it is.                        *)
GiveUp(v) ==
  /\ Blocked(v) /\ reply[v] = "none"
  /\ vcpu' = [vcpu EXCEPT ![v] = "failed"]
  /\ posted' = [posted EXCEPT ![v] = FALSE]
  /\ UNCHANGED <<stopped, inbox, pending, active, inflight, bridge, state, closed, worker,
                 reply, arrived>>

-----------------------------------------------------------------------------
(* A device handle: begin_control and submit.  The guard travels with the  *)
(* command; dropping it settles the device's state.                        *)

GuardDropped(at, succeeded) == IF at = "resetting" /\ succeeded THEN "open" ELSE "closed"

Control(s, op) ==
  /\ state[s] = "open"
  /\ LET command == [client |-> s, op |-> op, target |-> s]
     IN  IF Admits(command)
         THEN /\ Send(command)
              /\ state' = [state EXCEPT ![s] = IF op = "reset" THEN "resetting" ELSE "closing"]
              /\ UNCHANGED closed
         ELSE /\ state' = [state EXCEPT ![s] = "closed"]
              /\ closed' = [closed EXCEPT ![s] = TRUE]
              /\ UNCHANGED <<inbox, reply, arrived>>
  /\ UNCHANGED <<stopped, pending, active, inflight, bridge, worker, vcpu, posted>>

-----------------------------------------------------------------------------
(* The bridge.                                                             *)

(* next_pending: the first command with capacity, no earlier command for   *)
(* the same device and no operation on it.                                 *)
Dispatchable(i) ==
  LET o == pending[i]
  IN  /\ Cardinality(Running(IsControl(o.command))) < Capacity(o.command)
      /\ o.slot # Nowhere =>
           o.slot \notin active /\ \A j \in 1 .. i - 1 : pending[j].slot # o.slot

HasNext == \E i \in DOMAIN pending : Dispatchable(i)

AnyDevice(command, slot) == slot = Nowhere

(* request_fields: an access to a device that is closed is unmapped.       *)
Unmapped(command, slot) ==
  ~IsControl(command) /\ (slot = Nowhere \/ (slot \in BridgeSlot /\ closed[slot]))

Activated(slot) == IF slot = Nowhere THEN active ELSE active \cup {slot}

Dispatch ==
  /\ bridge = "running"
  /\ \E i \in DOMAIN pending :
       /\ Dispatchable(i) /\ \A j \in 1 .. i - 1 : ~Dispatchable(j)
       /\ pending' = RemoveAt(pending, i)
       /\ active' = Activated(pending[i].slot)
       /\ inflight' = inflight \cup
            {[command |-> pending[i].command, slot |-> pending[i].slot,
              unmapped |-> Unmapped(pending[i].command, pending[i].slot)]}
  /\ UNCHANGED <<stopped, inbox, bridge, state, closed, worker, vcpu, posted, reply, arrived>>

(* command_slot.                                                           *)
SlotOf(command) ==
  IF IsControl(command) \/ (command.target \in BridgeSlot /\ ~closed[command.target])
  THEN command.target ELSE Nowhere

Receive ==
  /\ bridge = "running" /\ ~HasNext /\ inbox # <<>>
  /\ pending' = Append(pending, [command |-> Head(inbox), slot |-> SlotOf(Head(inbox))])
  /\ inbox' = Tail(inbox)
  /\ UNCHANGED <<stopped, active, inflight, bridge, state, closed, worker, vcpu, posted,
                 reply, arrived>>

(* ReplyOwner: send, or the drop of those the bridge still holds.  The     *)
(* guard of a control operation is settled first.                          *)
Outcome(o, result) == IF o.unmapped THEN "unmapped" ELSE result

Unanswered(who) ==
  [s \in BridgeSlot |-> SelectSeq(arrived[s], LAMBDA c : c \notin who)]

Answer(o, result, dropped) ==
  LET lost == {c.client : c \in dropped}
      failed == {c.target : c \in {d \in dropped : IsControl(d)}}
      settled == [s \in BridgeSlot |->
                    IF IsControl(o.command) /\ o.command.target = s
                    THEN GuardDropped(state[s], result = "ok")
                    ELSE IF s \in failed THEN "closed" ELSE state[s]]
  IN  /\ reply' = [c \in Client |-> IF c = o.command.client THEN Outcome(o, result)
                                    ELSE IF c \in lost THEN "failure" ELSE reply[c]]
      /\ state' = settled
      /\ closed' = [s \in BridgeSlot |-> IF settled[s] # state[s] THEN settled[s] = "closed"
                                         ELSE closed[s]]
      /\ arrived' = Unanswered(lost \cup {o.command.client})

HeldCommands == ToSet(Queued) \cup {o.command : o \in inflight}

InflightForgotten(o) == ToSet(Queued)

(* What a bridge that stops drops: everything but the operation it answers.*)
DroppedWith(o) == HeldCommands \ {o.command}

DeviceClosed(o, result) ==
  worker' = IF o.command.op = "close" /\ result = "ok"
            THEN [worker EXCEPT ![o.slot] = "closed"] ELSE worker

KickStaysActive(o) == IF o.command.op = "kick" THEN active ELSE active \ {o.slot}

Freed(o) == active \ {o.slot}

(* An operation ends well, or finds no device; with the last device closed *)
(* the queue is emptied and the other operations are drained.              *)
Complete(o) ==
  /\ bridge = "running" /\ ~HasNext /\ o \in inflight
  /\ active' = Freed(o)
  /\ inflight' = inflight \ {o}
  /\ DeviceClosed(o, "ok")
  /\ LET all_closed == \A s \in BridgeSlot : closed[s] \/ (o.command.op = "close" /\ o.slot = s)
     IN  /\ Answer(o, "ok", IF all_closed THEN ToSet(inbox) ELSE {})
         /\ IF all_closed THEN stopped' = TRUE /\ inbox' = <<>> /\ bridge' = "draining"
            ELSE UNCHANGED <<stopped, inbox, bridge>>
  /\ UNCHANGED <<pending, vcpu, posted>>

(* An operation fails: the bridge stops and drops what it holds.           *)
Fail(o) ==
  /\ bridge = "running" /\ ~HasNext /\ o \in inflight /\ ~o.unmapped
  /\ Answer(o, "failure", DroppedWith(o))
  /\ stopped' = TRUE /\ bridge' = "failed"
  /\ inbox' = <<>> /\ pending' = <<>> /\ inflight' = {} /\ active' = {}
  /\ UNCHANGED <<worker, vcpu, posted>>

(* drain_operations, and the drop of what was never dispatched.            *)
Drain(o) ==
  /\ bridge = "draining" /\ o \in inflight
  /\ inflight' = inflight \ {o}
  /\ \E result \in {"ok", "failure"} :
       DeviceClosed(o, result) /\ Answer(o, result, {})
  /\ UNCHANGED <<stopped, inbox, pending, active, bridge, vcpu, posted>>

Finish ==
  /\ bridge = "draining" /\ inflight = {}
  /\ bridge' = "ended" /\ pending' = <<>> /\ active' = {}
  /\ LET lost == {c.client : c \in HeldCommands}
     IN  /\ reply' = [c \in Client |-> IF c \in lost THEN "failure" ELSE reply[c]]
         /\ arrived' = Unanswered(lost)
  /\ UNCHANGED <<stopped, inbox, inflight, state, closed, worker, vcpu, posted>>

-----------------------------------------------------------------------------
BridgeStep ==
  \/ Dispatch \/ Receive \/ Finish
  \/ \E o \in inflight : \/ Complete(o) \/ Fail(o) \/ Drain(o)

ClientStep ==
  \/ \E v \in BridgeVcpu : \/ \E t \in Target : Access(v, t)
                           \/ \E s \in BridgeSlot : PostKick(v, s)
                           \/ Settle(v) \/ Resume(v) \/ GiveUp(v)
  \/ \E s \in BridgeSlot, op \in {"reset", "close"} : Control(s, op)

BridgeNext == BridgeStep \/ ClientStep

BridgeSpec == BridgeInit /\ [][BridgeNext]_bridgeVars

Ends(c) == \E o \in inflight : o.command.client = c /\ (Complete(o) \/ Fail(o) \/ Drain(o))

-----------------------------------------------------------------------------
BridgeTypeOK ==
  /\ stopped \in BOOLEAN
  /\ inbox \in Seq(Command)
  /\ pending \in Seq([command : Command, slot : Target])
  /\ active \subseteq BridgeSlot
  /\ inflight \subseteq [command : Command, slot : Target, unmapped : BOOLEAN]
  /\ bridge \in {"running", "draining", "ended", "failed"}
  /\ state \in [BridgeSlot -> {"open", "resetting", "closing", "closed"}]
  /\ closed \in [BridgeSlot -> BOOLEAN]
  /\ worker \in [BridgeSlot -> {"serving", "closed"}]
  /\ vcpu \in [BridgeVcpu -> {"running", "waiting", "settling", "failed"}]
  /\ posted \in [BridgeVcpu -> BOOLEAN]
  /\ reply \in [Client -> {"none", "ok", "unmapped", "failure"}]
  /\ arrived \in [BridgeSlot -> Seq(Client)]

(* A device is handed one request at a time, and its requests in the order *)
(* in which the vCPUs and its handle sent them: a kick is never overtaken  *)
(* by a later access, nor a close by what came after it.                   *)
DevicesSeeSendOrder ==
  \A o \in inflight : o.slot \in BridgeSlot /\ ~o.unmapped =>
    /\ Head(arrived[o.slot]) = o.command.client
    /\ \A p \in inflight : p.slot = o.slot => p = o

(* A device that has closed is handed nothing more, although commands for  *)
(* it may have been queued before its close was answered.                  *)
ClosedDevicesAreLeftAlone ==
  \A o \in inflight : o.slot \in BridgeSlot /\ ~o.unmapped => worker[o.slot] = "serving"

(* Whoever waits for a reply has it or has a command in the bridge's       *)
(* hands: a bridge that fails or ends leaves no vCPU and no close waiting. *)
WaitingIsHeld ==
  /\ \A v \in BridgeVcpu : (vcpu[v] = "waiting" \/ posted[v]) /\ reply[v] = "none"
       => \E c \in HeldCommands : c.client = v
  /\ \A s \in BridgeSlot : state[s] \in {"resetting", "closing"}
       => \E c \in HeldCommands : c.client = s

(* A vCPU's access or kick is refused only by a bridge that has stopped:   *)
(* with a permit for each vCPU, COMMAND_CAPACITY is never the reason.      *)
AccessIsAdmitted ==
  ~stopped => \A v \in BridgeVcpu : vcpu[v] = "running" /\ ~posted[v]
                => Admits([client |-> v, op |-> "access", target |-> Nowhere])

(* A vCPU that waits is answered, whatever else is queued: no device and   *)
(* no control operation keeps it waiting for ever.                         *)
AccessIsAnswered ==
  \A v \in BridgeVcpu : []<>(vcpu[v] = "waiting" => reply[v] # "none")
=============================================================================
