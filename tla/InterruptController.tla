------------------------ MODULE InterruptController ------------------------
(***************************************************************************)
(* The x86 interrupt controller component (components/interrupt-controller *)
(* /src/lib.rs), as operators on a record c with the fields of the Rust    *)
(* struct that change.  A redirection entry is kept decoded: its low half  *)
(* holds masked, level_triggered and vector, its high half the destination *)
(* (left out: it takes no part in any decision of the controller).         *)
(***************************************************************************)
EXTENDS Naturals, Sequences, FiniteSets

CONSTANTS Slot,        \* device slots
          Pin,         \* IOAPIC pins, or GSIs
          Route,       \* routes: the pin of each slot
          Vector       \* interrupt vectors

ASSUME ControllerAssumption == Route \in [Slot -> Pin]

Entry == [masked : BOOLEAN, level_triggered : BOOLEAN, vector : Vector]
NoRegister == "none"                       \* a register that is no redirection half
Register == (Pin \X {"low", "high"}) \cup {NoRegister}

Controller ==
  [levels : [Slot -> BOOLEAN], asserted : [Pin -> BOOLEAN],
   register : Register, redirection : [Pin -> Entry]]

(* Controller::new: every line low and every entry masked.                 *)
NewController(vector) ==
  [levels |-> [s \in Slot |-> FALSE], asserted |-> [p \in Pin |-> FALSE],
   register |-> NoRegister,
   redirection |-> [p \in Pin |->
     [masked |-> TRUE, level_triggered |-> FALSE, vector |-> vector]]]

-----------------------------------------------------------------------------
(* Controller::line.  A pin is asserted while any device routed to it is.  *)

AggregatedAlone(levels, slot) == levels[slot]

Aggregated(levels, slot) == \E s \in Slot : Route[s] = Route[slot] /\ levels[s]

Line(c, slot, level) ==
  LET levels == [c.levels EXCEPT ![slot] = level]
  IN  [c EXCEPT !.levels = levels,
                !.asserted[Route[slot]] = Aggregated(levels, slot)]

LineFalls(c, slot, level) ==
  c.asserted[Route[slot]] /\ ~Line(c, slot, level).asserted[Route[slot]]

LineChanges(c, slot, level) ==
  Line(c, slot, level).asserted[Route[slot]] # c.asserted[Route[slot]]

-----------------------------------------------------------------------------
(* The IOAPIC: the vectors a step delivers.                                *)

Deliver(c, pin) == IF c.redirection[pin].masked THEN {} ELSE {c.redirection[pin].vector}

IoapicLine(c, slot, level) ==
  LET n == Line(c, slot, level)
  IN  IF LineChanges(c, slot, level) /\ n.asserted[Route[slot]]
      THEN Deliver(n, Route[slot]) ELSE {}

SelectRegister(c, register) == [c EXCEPT !.register = register]

(* Controller::write_register: the low half replaces the entry, the high   *)
(* half only its destination.                                              *)
WriteRegister(c, entry) ==
  IF c.register # NoRegister /\ c.register[2] = "low"
  THEN [c EXCEPT !.redirection[c.register[1]] = entry] ELSE c

(* Controller::access on the window: an asserted pin is delivered again.   *)
Window(c, entry) ==
  IF c.register # NoRegister /\ c.asserted[c.register[1]]
  THEN Deliver(WriteRegister(c, entry), c.register[1]) ELSE {}

(* Controller::eoi: a level-triggered line that is still high interrupts   *)
(* again.                                                                  *)
EoiOnce(c, vector) == {}

Eoi(c, vector) ==
  {v \in {vector} : \E pin \in Pin : /\ c.asserted[pin]
                                     /\ c.redirection[pin].level_triggered
                                     /\ v \in Deliver(c, pin)}

-----------------------------------------------------------------------------
(***************************************************************************)
(* The interrupt controller in IrqLines mode (KVM) behind its host queue   *)
(* (crates/terra-runtime/src/component/interrupt_controller.rs,            *)
(* grant_irq_lines): device callbacks queue transitions, one worker        *)
(* applies them and tells the hypervisor the GSI levels, and close drains  *)
(* the queue and lowers every line.                                        *)
(***************************************************************************)
CONSTANTS LineCapacity,      \* pending transitions, 256 in the code
          CloseMayTimeOut     \* whether RESPONSE_TIMEOUT is ever reached in close

ASSUME LineQueueAssumption == LineCapacity \in Nat \ {0} /\ CloseMayTimeOut \in BOOLEAN

VARIABLES lineDevice,       \* the level each device last reported
          lineRefused,      \* devices whose report failed; their components end
          lineQueue,        \* transitions on their way to the worker
          lineController,   \* the component's state
          lineChange,       \* what the worker is about to inject: {} or {<<pin, level>>}
          lineWorker,       \* "running", "ended" or "failed"
          gsi,          \* the level of each GSI as the hypervisor has it
          linesClose         \* "open", "draining", "closed" or "failed"

linesVars == <<lineDevice, lineRefused, lineQueue, lineController, lineChange, lineWorker, gsi, linesClose>>

AnyVector == CHOOSE v \in Vector : TRUE
AllLow == [p \in Pin |-> FALSE]

LinesInit ==
  /\ lineDevice = [s \in Slot |-> FALSE] /\ lineRefused = {}
  /\ lineQueue = <<>> /\ lineChange = {}
  /\ lineController = NewController(AnyVector)
  /\ lineWorker = "running" /\ gsi = AllLow /\ linesClose = "open"

LineCanSend == lineWorker = "running" /\ Len(lineQueue) < LineCapacity

(* The device's interrupt callback, InterruptQueue::send_if_open.          *)
ReportLine(s, level) ==
  /\ linesClose = "open" /\ s \notin lineRefused /\ LineCanSend
  /\ lineDevice' = [lineDevice EXCEPT ![s] = level]
  /\ lineQueue' = Append(lineQueue, <<s, level>>)
  /\ UNCHANGED <<lineRefused, lineController, lineChange, lineWorker, gsi, linesClose>>

(* A full queue, or a worker that is gone, fails the device's report ...   *)
LineRefused(s, level) ==
  /\ linesClose = "open" /\ s \notin lineRefused /\ ~LineCanSend
  /\ lineRefused' = lineRefused \cup {s}
  /\ UNCHANGED <<lineDevice, lineQueue, lineController, lineChange, lineWorker, gsi, linesClose>>

(* ... and after close it is dropped without an error.                     *)
LineDropped(s, level) ==
  /\ linesClose # "open" /\ s \notin lineRefused
  /\ lineDevice' = [lineDevice EXCEPT ![s] = level]
  /\ UNCHANGED <<lineRefused, lineQueue, lineController, lineChange, lineWorker, gsi, linesClose>>

(* The worker: the controller's irq_line, then inject.                     *)
ReceiveLine ==
  /\ lineWorker = "running" /\ lineChange = {} /\ lineQueue # <<>>
  /\ lineQueue' = Tail(lineQueue)
  /\ LET s == Head(lineQueue)[1]
         level == Head(lineQueue)[2]
     IN  /\ lineController' = Line(lineController, s, level)
         /\ lineChange' = IF LineChanges(lineController, s, level)
                          THEN {<<Route[s], lineController'.asserted[Route[s]]>>} ELSE {}
  /\ UNCHANGED <<lineDevice, lineRefused, lineWorker, gsi, linesClose>>

InjectLine ==
  /\ lineWorker = "running" /\ lineChange # {}
  /\ \E c \in lineChange : gsi' = [gsi EXCEPT ![c[1]] = c[2]]
  /\ lineChange' = {}
  /\ UNCHANGED <<lineDevice, lineRefused, lineQueue, lineController, lineWorker, linesClose>>

(* The call or the injection failed, or the component was cancelled; the   *)
(* receiver and what it held are gone.                                     *)
LineWorkerFails ==
  /\ lineWorker = "running"
  /\ lineWorker' = "failed" /\ lineQueue' = <<>> /\ lineChange' = {}
  /\ UNCHANGED <<lineDevice, lineRefused, lineController, gsi, linesClose>>

(* The sender is gone and the queue is drained.                            *)
LineWorkerEnds ==
  /\ lineWorker = "running" /\ lineChange = {} /\ lineQueue = <<>> /\ linesClose # "open"
  /\ lineWorker' = "ended"
  /\ UNCHANGED <<lineDevice, lineRefused, lineQueue, lineController, lineChange, gsi, linesClose>>

(* IrqHandle::close: drop the sender, wait for the worker, lower every     *)
(* GSI.                                                                    *)
CloseLines ==
  /\ linesClose = "open"
  /\ linesClose' = "draining"
  /\ UNCHANGED <<lineDevice, lineRefused, lineQueue, lineController, lineChange, lineWorker, gsi>>

CloseLinesEarly ==
  /\ linesClose = "draining"
  /\ linesClose' = IF lineWorker = "failed" THEN "failed" ELSE "closed"
  /\ gsi' = AllLow
  /\ UNCHANGED <<lineDevice, lineRefused, lineQueue, lineController, lineChange, lineWorker>>

CloseLinesDrained ==
  /\ linesClose = "draining" /\ lineWorker # "running"
  /\ linesClose' = IF lineWorker = "ended" THEN "closed" ELSE "failed"
  /\ gsi' = AllLow
  /\ UNCHANGED <<lineDevice, lineRefused, lineQueue, lineController, lineChange, lineWorker>>

CloseLinesTimedOut ==
  /\ CloseMayTimeOut /\ linesClose = "draining" /\ lineWorker = "running"
  /\ linesClose' = "failed"
  /\ gsi' = AllLow
  /\ UNCHANGED <<lineDevice, lineRefused, lineQueue, lineController, lineChange, lineWorker>>

LinesNext ==
  \/ \E s \in Slot, level \in BOOLEAN :
       ReportLine(s, level) \/ LineRefused(s, level) \/ LineDropped(s, level)
  \/ ReceiveLine \/ InjectLine \/ LineWorkerFails \/ LineWorkerEnds
  \/ CloseLines \/ CloseLinesDrained \/ CloseLinesTimedOut

LinesSpec == LinesInit /\ [][LinesNext]_linesVars

-----------------------------------------------------------------------------
LinesTypeOK ==
  /\ lineDevice \in [Slot -> BOOLEAN] /\ lineRefused \in SUBSET Slot
  /\ lineQueue \in Seq(Slot \X BOOLEAN) /\ Len(lineQueue) <= LineCapacity
  /\ lineController \in Controller
  /\ lineChange \in SUBSET (Pin \X BOOLEAN) /\ Cardinality(lineChange) <= 1
  /\ lineWorker \in {"running", "ended", "failed"}
  /\ gsi \in [Pin -> BOOLEAN]
  /\ linesClose \in {"open", "draining", "closed", "failed"}

Wanted(pin) == \E s \in Slot : Route[s] = pin /\ lineDevice[s]

(* Devices that share a GSI hold it up together: whenever the worker has   *)
(* caught up, a GSI is high exactly when one of its devices asserts it,    *)
(* whatever reports were refused at a full queue on the way.               *)
LinesFollowDevices ==
  linesClose = "open" /\ lineWorker = "running" /\ lineQueue = <<>> /\ lineChange = {}
         => \A p \in Pin : gsi[p] = Wanted(p)

(* A close that succeeds leaves every GSI low for good: the worker has     *)
(* drained what devices reported before, and later reports are dropped.    *)
ClosedLinesAreLow == linesClose = "closed" => gsi = AllLow

(* What an interrupt comes to: it reaches the hypervisor unless it is      *)
(* withdrawn, or the controller is closed or fails.                        *)
AssertionArrived(s) ==
  lineDevice[s] => gsi[Route[s]] \/ linesClose # "open" \/ lineWorker # "running"

-----------------------------------------------------------------------------
(***************************************************************************)
(* The interrupt controller in Ioapic mode (WHP) behind its host queue     *)
(* (crates/terra-runtime/src/component/interrupt_controller.rs,            *)
(* grant_ioapic): device lines, register accesses and end-of-interrupt     *)
(* reports are one sequence of commands, which one worker applies; it      *)
(* injects what each of them delivers before it answers.                   *)
(*                                                                         *)
(* The local APICs are external: a delivered vector is requested until a   *)
(* vCPU accepts it, then in service until the guest ends it, which the     *)
(* hypervisor reports to the IOAPIC.                                       *)
(***************************************************************************)
CONSTANTS ApicVcpu, ApicCapacity,
          Reserved,      \* vectors validate_x86_interrupts refuses
          GuestEntries   \* redirection entries the guest writes

ASSUME ApicQueueAssumption ==
  ApicCapacity \in Nat \ {0} /\ Reserved \subseteq Vector /\ GuestEntries \subseteq Entry

VARIABLES apicDevice,       \* the level each device last queued
          apicRefused,      \* devices whose report failed; their components end
          apicQueue,        \* commands on their way to the worker
          apic,   \* the component's state
          apicOpen,         \* the queue's sender is there
          apicWorker,       \* "running", "ended" or "failed"
          apicVcpu,         \* "running", "waiting" for the worker, or "failed"
          requested,    \* IRR: vectors delivered and not yet accepted
          serving       \* ISR: vectors a guest handler is running for

apicVars == <<apicDevice, apicRefused, apicQueue, apic, apicOpen, apicWorker, apicVcpu, requested, serving>>

FirstVector == CHOOSE v \in Vector : TRUE

ApicInit ==
  /\ apicDevice = [s \in Slot |-> FALSE] /\ apicRefused = {}
  /\ apicQueue = <<>> /\ apic = NewController(FirstVector)
  /\ apicOpen = TRUE /\ apicWorker = "running" /\ apicVcpu = [c \in ApicVcpu |-> "running"]
  /\ requested = {} /\ serving = {}

LineCommand == [op : {"line"}, slot : Slot, level : BOOLEAN]
SelectCommand == [op : {"select"}, register : Register, from : ApicVcpu]
WindowCommand == [op : {"window"}, entry : Entry, from : ApicVcpu]
EoiCommand == [op : {"eoi"}, vector : Vector, from : ApicVcpu]
ApicCommand == LineCommand \cup SelectCommand \cup WindowCommand \cup EoiCommand

ApicCanSend == apicOpen /\ apicWorker = "running" /\ Len(apicQueue) < ApicCapacity

-----------------------------------------------------------------------------
(* Device callbacks.  After close they are dropped without an error.       *)

ReportToApic(s, level) ==
  /\ s \notin apicRefused /\ apicDevice[s] # level /\ ApicCanSend
  /\ apicDevice' = [apicDevice EXCEPT ![s] = level]
  /\ apicQueue' = Append(apicQueue, [op |-> "line", slot |-> s, level |-> level])
  /\ UNCHANGED <<apicRefused, apic, apicWorker, apicVcpu, requested, serving, apicOpen>>

ApicRefuses(s) ==
  /\ s \notin apicRefused /\ apicOpen /\ ~ApicCanSend
  /\ apicRefused' = apicRefused \cup {s}
  /\ UNCHANGED <<apicDevice, apicQueue, apic, apicWorker, apicVcpu, requested, serving, apicOpen>>

(* IoApicHandle::request: the vCPU waits for the answer, or fails.         *)
ApicRequest(c, command) ==
  /\ apicVcpu[c] = "running"
  /\ IF ApicCanSend
     THEN /\ apicQueue' = Append(apicQueue, command)
          /\ apicVcpu' = [apicVcpu EXCEPT ![c] = "waiting"]
     ELSE /\ apicVcpu' = [apicVcpu EXCEPT ![c] = "failed"]
          /\ UNCHANGED apicQueue
  /\ UNCHANGED <<apicDevice, apicRefused, apic, apicWorker, requested, apicOpen>>

ApicRequestTimesOut(c) ==
  /\ apicVcpu[c] = "waiting"
  /\ apicVcpu' = [apicVcpu EXCEPT ![c] = "failed"]
  /\ UNCHANGED <<apicDevice, apicRefused, apicQueue, apic, apicWorker, requested, serving, apicOpen>>

GuestSelects(c, register) ==
  /\ ApicRequest(c, [op |-> "select", register |-> register, from |-> c])
  /\ UNCHANGED serving

GuestWrites(c, entry) ==
  /\ ApicRequest(c, [op |-> "window", entry |-> entry, from |-> c])
  /\ UNCHANGED serving

GuestEnds(c, vector) ==
  /\ vector \in serving
  /\ serving' = serving \ {vector}
  /\ ApicRequest(c, [op |-> "eoi", vector |-> vector, from |-> c])

GuestAccepts(vector) ==
  /\ vector \in requested /\ vector \notin serving
  /\ requested' = requested \ {vector}
  /\ serving' = serving \cup {vector}
  /\ UNCHANGED <<apicDevice, apicRefused, apicQueue, apic, apicWorker, apicVcpu, apicOpen>>

-----------------------------------------------------------------------------
(* The worker.                                                             *)

Applied(command) ==
  CASE command.op = "line"   -> Line(apic, command.slot, command.level)
    [] command.op = "select" -> SelectRegister(apic, command.register)
    [] command.op = "window" -> WriteRegister(apic, command.entry)
    [] command.op = "eoi"    -> apic

Delivered(command) ==
  CASE command.op = "line"   -> IoapicLine(apic, command.slot, command.level)
    [] command.op = "select" -> {}
    [] command.op = "window" -> Window(apic, command.entry)
    [] command.op = "eoi"    -> Eoi(apic, command.vector)

(* What becomes of the vCPUs when the receiver is dropped: a sender that   *)
(* is gone answers every request with an error.                            *)
FailNobody == apicVcpu

FailWaiting == [c \in ApicVcpu |-> IF apicVcpu[c] = "waiting" THEN "failed" ELSE apicVcpu[c]]

(* An answer nobody waits for any more is dropped.                         *)
Answered(command) ==
  IF command.op # "line" /\ apicVcpu[command.from] = "waiting"
  THEN [apicVcpu EXCEPT ![command.from] = "running"] ELSE apicVcpu

ValidInterrupts(vectors) == vectors \cap Reserved = {}

ServeApic ==
  /\ apicWorker = "running" /\ apicQueue # <<>>
  /\ LET command == Head(apicQueue)
         vectors == Delivered(command)
     IN  /\ apic' = Applied(command)
         /\ IF ValidInterrupts(vectors)
            THEN /\ requested' = requested \cup vectors
                 /\ apicVcpu' = Answered(command)
                 /\ apicQueue' = Tail(apicQueue)
                 /\ UNCHANGED apicWorker
            ELSE /\ apicWorker' = "failed" /\ apicQueue' = <<>> /\ apicVcpu' = FailWaiting
                 /\ UNCHANGED requested
  /\ UNCHANGED <<apicDevice, apicRefused, serving, apicOpen>>

(* A call times out, an injection fails, or the component is cancelled.    *)
ApicWorkerFails ==
  /\ apicWorker = "running"
  /\ apicWorker' = "failed" /\ apicQueue' = <<>> /\ apicVcpu' = FailWaiting
  /\ UNCHANGED <<apicDevice, apicRefused, apic, requested, serving, apicOpen>>

(* The sender is gone and the queue is drained.                            *)
ApicWorkerEnds ==
  /\ apicWorker = "running" /\ apicQueue = <<>> /\ ~apicOpen
  /\ apicWorker' = "ended"
  /\ UNCHANGED <<apicDevice, apicRefused, apicQueue, apic, apicVcpu, requested, serving, apicOpen>>

CloseApic ==
  /\ apicOpen /\ apicOpen' = FALSE
  /\ UNCHANGED <<apicDevice, apicRefused, apicQueue, apic, apicWorker, apicVcpu, requested, serving>>

ApicNext ==
  \/ \E s \in Slot : ApicRefuses(s) \/ \E level \in BOOLEAN : ReportToApic(s, level)
  \/ \E c \in ApicVcpu : \/ \E register \in Register : GuestSelects(c, register)
                         \/ \E entry \in GuestEntries : GuestWrites(c, entry)
                         \/ \E vector \in Vector : GuestEnds(c, vector)
                         \/ ApicRequestTimesOut(c)
  \/ \E vector \in Vector : GuestAccepts(vector)
  \/ ServeApic \/ ApicWorkerFails \/ ApicWorkerEnds \/ CloseApic

ApicSpec == ApicInit /\ [][ApicNext]_apicVars

-----------------------------------------------------------------------------
ApicTypeOK ==
  /\ apicDevice \in [Slot -> BOOLEAN] /\ apicRefused \in SUBSET Slot
  /\ apicQueue \in Seq(ApicCommand) /\ Len(apicQueue) <= ApicCapacity
  /\ apic \in Controller
  /\ apicOpen \in BOOLEAN /\ apicWorker \in {"running", "ended", "failed"}
  /\ apicVcpu \in [ApicVcpu -> {"running", "waiting", "failed"}]
  /\ requested \in SUBSET (Vector \ Reserved)
  /\ serving \in SUBSET (Vector \ Reserved)

EoiOnItsWay(vector) ==
  \E k \in 1 .. Len(apicQueue) : apicQueue[k].op = "eoi" /\ apicQueue[k].vector = vector

(* A level-triggered line that is high and unmasked is never forgotten:    *)
(* its vector is requested or in service, or the end of its service is on  *)
(* its way to the IOAPIC, which will deliver it again; however the guest   *)
(* masks, reprograms and ends interrupts while devices raise and share     *)
(* lines.  A vCPU whose report of the end was refused has failed.          *)
LevelInterruptIsNotLost ==
  apicWorker = "running" /\ (\A c \in ApicVcpu : apicVcpu[c] # "failed") =>
        \A pin \in Pin :
          LET entry == apic.redirection[pin]
          IN  apic.asserted[pin] /\ ~entry.masked /\ entry.level_triggered
            => \/ entry.vector \in requested \cup serving
               \/ EoiOnItsWay(entry.vector)

(* A vCPU waits for exactly one command that is still in the queue, and a  *)
(* running one has none there: every answer goes to the request it belongs *)
(* to, and none waits for a worker that is gone.                           *)
WaitingIsQueued ==
  \A c \in ApicVcpu :
    LET asked == {k \in 1 .. Len(apicQueue) : apicQueue[k].op # "line" /\ apicQueue[k].from = c}
    IN  /\ apicVcpu[c] = "waiting" => Cardinality(asked) = 1
        /\ apicVcpu[c] = "running" => asked = {}
=============================================================================
