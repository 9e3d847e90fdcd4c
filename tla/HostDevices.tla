---------------------------- MODULE HostDevices ----------------------------
EXTENDS Integers, Sequences, FiniteSets

(***************************************************************************)
(* The block device (components/block/src/lib.rs) over its host disk       *)
(* (crates/terra-runtime/src/component/block/{host,backing}.rs).           *)
(*                                                                         *)
(* The component is single threaded: its worker and its register accesses  *)
(* interleave only where the worker awaits the doorbell or the disk.  The  *)
(* guest posts requests, notifies and resets at any time; the host closes  *)
(* the device; disk jobs run on other threads, one at a time.              *)
(***************************************************************************)

CONSTANTS
  BlockRequests,    \* requests [type, sector, sectors, shape, value] a driver posts
  DiskSectors,      \* the capacity
  MaxTransfer,      \* MAX_TOTAL, in sectors
  MaxDiscard,       \* MAX_DISCARD, in sectors
  BlockRingSize,
  MaxPosts, MaxBlockResets, MaxDiskErrors

VARIABLES
  ring,       \* the driver's view: [life, ready, mapped, posted,
              \* used, status, and whether it owes a notification]
  block,      \* the component: [epoch, closed, avail, bell, irq]
  worker,     \* its run task
  jobs,       \* disk jobs in the order they asked for the slot
  blockDisk,       \* [data, dirty, readonly]
  closer,     \* close(): "open", "syncing", "closed" or "failed"
  blockBudget \* posts, resets and disk errors left

blockVars == <<ring, block, worker, jobs, blockDisk, closer, blockBudget>>

Sectors == 0 .. DiskSectors - 1
NewRing(life, ready, mapped) ==
  [life |-> life, ready |-> ready, mapped |-> mapped,
   posted |-> <<>>, used |-> <<>>, status |-> {}, owes |-> FALSE]
BlockIdle(pc) == [pc |-> pc, epoch |-> 0, available |-> 0, head |-> [life |-> 0, slot |-> 0, req |-> <<>>]]

BlockInit ==
  /\ ring = NewRing(0, FALSE, TRUE)
  /\ block = [epoch |-> 0, closed |-> FALSE, avail |-> 0, bell |-> FALSE, irq |-> FALSE]
  /\ worker = BlockIdle("wait") /\ jobs = <<>> /\ closer = "open"
  /\ blockDisk \in [data : {[s \in Sectors |-> 0]}, dirty : {{}}, readonly : BOOLEAN]
  /\ blockBudget = [posts |-> MaxPosts, resets |-> MaxBlockResets, errors |-> MaxDiskErrors]

-----------------------------------------------------------------------------
(* The driver.                                                              *)

ArmRing ==
  /\ ~ring.ready /\ ~block.closed
  /\ \E mapped \in BOOLEAN : ring' = NewRing(ring.life, TRUE, mapped)
  /\ UNCHANGED <<block, worker, jobs, blockDisk, closer, blockBudget>>

Post(req) ==
  /\ ring.ready /\ blockBudget.posts > 0
  /\ Len(ring.posted) - Len(ring.used) < BlockRingSize
  /\ ring' = [ring EXCEPT !.posted = Append(@, req), !.owes = TRUE]
  /\ blockBudget' = [blockBudget EXCEPT !.posts = @ - 1]
  /\ UNCHANGED <<block, worker, jobs, blockDisk, closer>>

Notify ==
  /\ ring.owes /\ ~block.closed
  /\ ring' = [ring EXCEPT !.owes = FALSE]
  /\ block' = [block EXCEPT !.bell = TRUE]
  /\ UNCHANGED <<worker, jobs, blockDisk, closer, blockBudget>>

KeepEpoch(b) == [b EXCEPT !.avail = 0, !.bell = FALSE, !.irq = FALSE]

\* mmio_write of status 0 and Block::reset.
NextEpoch(b) == [b EXCEPT !.epoch = @ + 1, !.avail = 0, !.bell = FALSE, !.irq = FALSE]

ResetDevice ==
  /\ ~block.closed /\ blockBudget.resets > 0
  /\ ring' = NewRing(ring.life + 1, FALSE, TRUE)
  /\ block' = NextEpoch(block)
  /\ blockBudget' = [blockBudget EXCEPT !.resets = @ - 1]
  /\ UNCHANGED <<worker, jobs, blockDisk, closer>>

-----------------------------------------------------------------------------
(* What a request asks for.                                                 *)

\* sector_start: a transfer is not empty and ends within the disk.
InRange(sector, sectors) == sectors > 0 /\ sector + sectors <= DiskSectors

\* execute_chain: a chain without a status byte to write is returned empty,
\* and one whose header or data does not fit gets an I/O error.
ChainFate(req) ==
  CASE req.shape = "no_status" -> "drop"
    [] req.shape \in {"bad_header", "wrong_direction"} -> "ioerr"
    [] req.type \in {"in", "out"} /\ req.sectors > MaxTransfer -> "ioerr"
    [] OTHER -> "execute"

\* execute, execute_discard, parse_discard_range: what is refused before the
\* disk is asked.
Refusal(req) ==
  CASE req.type \in {"in", "out"} -> IF InRange(req.sector, req.sectors) THEN "none" ELSE "ioerr"
    [] req.type = "flush" -> IF req.sector = 0 /\ req.sectors = 0 THEN "none" ELSE "ioerr"
    [] req.type = "discard" ->
         IF req.shape = "flags" THEN "unsupp"
         ELSE IF req.sectors <= MaxDiscard /\ InRange(req.sector, req.sectors)
              THEN "none" ELSE "ioerr"
    [] OTHER -> "unsupp"

IsCurrent(epoch) == ~block.closed /\ epoch = block.epoch

-----------------------------------------------------------------------------
(* The worker.                                                              *)

BlockRest == UNCHANGED <<jobs, blockDisk, closer, blockBudget>>

\* The tail of process_pending: the used entry, avail and the interrupt, all
\* or nothing; then another pass if the ring held more when it was read.
Complete(head, status, available) ==
  /\ ring' = [ring EXCEPT !.used = Append(@, head),
                          !.status = IF status = "none" THEN @ ELSE @ \cup {head}]
  /\ block' = [block EXCEPT !.avail = @ + 1, !.irq = TRUE]
  /\ worker' = BlockIdle(IF block.avail + 1 # available THEN "pass" ELSE "wait")

WaitForBell ==
  /\ worker.pc = "wait" /\ (block.bell \/ block.closed)
  /\ worker' = BlockIdle(IF block.closed THEN "end" ELSE "pass")
  /\ block' = [block EXCEPT !.bell = FALSE]
  /\ UNCHANGED ring /\ BlockRest

\* Up to the await: nothing to serve, or one request taken from the ring and
\* refused, or handed to the disk.
ProcessPending ==
  /\ worker.pc = "pass"
  /\ IF block.closed \/ ~ring.ready \/ ~ring.mapped \/ block.avail = Len(ring.posted)
     THEN worker' = BlockIdle("wait") /\ UNCHANGED <<ring, block, jobs>>
     ELSE LET req == ring.posted[block.avail + 1]
              head == [life |-> ring.life, slot |-> block.avail + 1, req |-> req]
              available == Len(ring.posted)
          IN  CASE ChainFate(req) = "drop" -> Complete(head, "none", available) /\ UNCHANGED jobs
                [] ChainFate(req) = "ioerr" -> Complete(head, "ioerr", available) /\ UNCHANGED jobs
                [] ChainFate(req) = "execute" /\ Refusal(req) # "none" ->
                     Complete(head, Refusal(req), available) /\ UNCHANGED jobs
                [] OTHER ->
                     /\ worker' = [pc |-> "disk", epoch |-> block.epoch,
                                   available |-> available, head |-> head]
                     /\ jobs' = Append(jobs, [for |-> "worker", req |-> req])
                     /\ UNCHANGED <<ring, block>>
  /\ UNCHANGED <<blockDisk, closer, blockBudget>>

\* run_disk_job and the backing: jobs take the one slot in turn; a read-only
\* disk refuses writes; any job may fail.
JobEffect(req, d) ==
  LET range == {s \in Sectors : s >= req.sector /\ s < req.sector + req.sectors}
      fill(v) == [s \in Sectors |-> IF s \in range THEN v ELSE d.data[s]]
  IN  CASE req.type = "in" -> d
        [] req.type \in {"flush", "sync"} -> [d EXCEPT !.dirty = {}]
        [] req.type = "out" -> [d EXCEPT !.data = fill(req.value), !.dirty = @ \cup range]
        [] req.type = "discard" -> [d EXCEPT !.data = fill(0), !.dirty = @ \cup range]

JobRefused(req) == blockDisk.readonly /\ req.type \in {"out", "discard"}

NextJob(i) == i = 1

WithoutJob(s, i) == SubSeq(s, 1, i - 1) \o SubSeq(s, i + 1, Len(s))
JobIsDone(job, ok) ==
  /\ worker' = IF job.for = "worker"
               THEN [worker EXCEPT !.pc = IF ok THEN "disk_ok" ELSE "disk_err"] ELSE worker
  /\ closer' = IF job.for = "close" THEN (IF ok THEN "closed" ELSE "failed") ELSE closer

RunJob ==
  \E i \in DOMAIN jobs :
    LET job == jobs[i]
    IN  /\ NextJob(i) /\ jobs' = WithoutJob(jobs, i)
        /\ \/ /\ ~JobRefused(job.req)
              /\ blockDisk' = JobEffect(job.req, blockDisk) /\ JobIsDone(job, TRUE)
              /\ UNCHANGED blockBudget
           \/ /\ JobRefused(job.req) /\ JobIsDone(job, FALSE)
              /\ UNCHANGED <<blockDisk, blockBudget>>
           \/ /\ ~JobRefused(job.req) /\ blockBudget.errors > 0 /\ JobIsDone(job, FALSE)
              /\ blockBudget' = [blockBudget EXCEPT !.errors = @ - 1]
              /\ UNCHANGED blockDisk
        /\ UNCHANGED <<ring, block>>

\* Past the await: an answer for an earlier epoch, or for a closed device, is
\* dropped before anything is written to guest memory.
ResumeWorker ==
  /\ worker.pc \in {"disk_ok", "disk_err"}
  /\ IF IsCurrent(worker.epoch)
     THEN Complete(worker.head, IF worker.pc = "disk_ok" THEN "ok" ELSE "ioerr", worker.available)
     ELSE worker' = BlockIdle("wait") /\ UNCHANGED <<ring, block>>
  /\ BlockRest

\* close: no more requests, a reset, then a sync behind the job under way.
CloseBlock ==
  /\ closer = "open"
  /\ block' = [NextEpoch(block) EXCEPT !.closed = TRUE]
  /\ jobs' = Append(jobs, [for |-> "close",
       req |-> [type |-> "sync", sector |-> 0, sectors |-> 0, shape |-> "ok", value |-> 0]])
  /\ closer' = "syncing"
  /\ UNCHANGED <<ring, worker, blockDisk, blockBudget>>

WorkerStep == WaitForBell \/ ProcessPending \/ ResumeWorker

BlockNext ==
  \/ ArmRing \/ Notify \/ ResetDevice \/ \E req \in BlockRequests : Post(req)
  \/ WorkerStep \/ RunJob \/ CloseBlock

BlockSpec == BlockInit /\ [][BlockNext]_blockVars

-----------------------------------------------------------------------------
BlockTypeOK ==
  /\ block.avail \in 0 .. Len(ring.posted)
  /\ closer \in {"open", "syncing", "closed", "failed"}

\* "is_current" (lib.rs:496): what the device writes into guest memory, used
\* entries and status bytes, belongs to the ring the driver has now, and used
\* entries come in the order of the requests.
NoStaleCompletion ==
  /\ \A h \in ring.status : h.life = ring.life
  /\ \A i \in DOMAIN ring.used : ring.used[i].life = ring.life /\ ring.used[i].slot = i

\* close() (lib.rs:455): when it has answered Ok, every write that ever
\* reached the disk is durable, and none is left to reach it.
CloseIsDurable == closer = "closed" => blockDisk.dirty = {} /\ jobs = <<>>

\* All the driver has posted is completed, whatever its shape and whatever the
\* disk answers, or the ring is unreadable or the device closed.
RequestsComplete == ring.mapped /\ ~block.closed => Len(ring.used) >= Len(ring.posted)

------------------------------------------------------------------------------
(***************************************************************************)
(* The memory (balloon) device: components/mem/src/transport.rs, the range *)
(* policy of terra-runtime/src/memory.rs, and the host side every device   *)
(* shares: the interrupt budget of component/context.rs and the loop of    *)
(* component/device_loop.rs that forwards the device's interrupt level.    *)
(*                                                                         *)
(* Memory is counted in half pages, so that an unaligned range exists.     *)
(***************************************************************************)

CONSTANTS BalloonReports,    \* the reports a guest may queue: sequences of descriptors
          RamHalves,         \* the size of guest RAM
          RingHalves,        \* the half pages the rings lie in
          MaxReportRanges,   \* MAX_RECLAIM_REPORT_RANGES
          MaxReportHalves,   \* MAX_RECLAIM_REPORT_BYTES
          SignalsPerWindow,  \* MAX_SIGNALS_PER_WINDOW
          MaxReports,        \* bound on the reports queued
          MaxBalloonResets   \* bound on resets

VARIABLES balloon,   \* the device: poison value, ring, doorbell, closed
          balloonLoop, \* the run loop of the component
          freed,     \* guest memory: what was discarded since the guest reused it
          context,   \* DeviceContext: the level, the budget, the notification
          driver     \* the guest and the host's loop

balloonVars == <<balloon, balloonLoop, freed, context, driver>>

LOCAL HalvesOf(range) == range.addr..(range.addr + range.len - 1)

BalloonInit ==
    /\ balloon = [poison |-> 0, avail |-> <<>>, used |-> 0, bell |-> FALSE, isr |-> FALSE, closed |-> FALSE]
    /\ balloonLoop = "wait"
    /\ freed = {}
    /\ context = [asserted |-> FALSE, window |-> 0, dropped |-> 0, notified |-> FALSE]
    /\ driver = [posts |-> 0, resets |-> 0, owes |-> FALSE, level |-> FALSE, loop |-> "wait"]

-----------------------------------------------------------------------------
(* component/context.rs *)

\* InterruptSignals::signal and notify_one.
BalloonSignal(c) == IF c.window >= SignalsPerWindow THEN [c EXCEPT !.dropped = 1]
                    ELSE [c EXCEPT !.window = @ + 1, !.notified = TRUE]

\* interrupt::Host::set_asserted.
SetAsserted(c, level) ==
    IF c.asserted = level THEN c ELSE BalloonSignal([c EXCEPT !.asserted = level])

LOCAL Forward(c) ==
    /\ driver.loop = "wait"
    /\ \/ context.notified /\ driver' = [driver EXCEPT !.level = context.asserted]
       \/ balloonLoop = "ended" /\ driver' = [driver EXCEPT !.level = context.asserted, !.loop = "ended"]
    /\ context' = c
    /\ UNCHANGED <<balloon, balloonLoop, freed>>

\* DeviceLoop::drive, woken or finished: the window ends, the level is forwarded.
ForwardLevel == Forward([context EXCEPT !.window = 0, !.notified = FALSE])

-----------------------------------------------------------------------------
(* The guest and its MMIO accesses. *)

BalloonPost ==
    /\ driver.posts < MaxReports /\ ~balloon.closed
    /\ \E r \in BalloonReports :
          /\ balloon' = [balloon EXCEPT !.avail = Append(@, r)]
          /\ freed' = freed \ UNION {HalvesOf(r[k]) : k \in DOMAIN r}
    /\ driver' = [driver EXCEPT !.posts = @ + 1, !.owes = TRUE]
    /\ UNCHANGED <<balloonLoop, context>>

\* mmio_write of QueueNotify.
BalloonNotify ==
    /\ driver.owes /\ ~balloon.closed
    /\ balloon' = [balloon EXCEPT !.bell = TRUE]
    /\ driver' = [driver EXCEPT !.owes = FALSE]
    /\ UNCHANGED <<balloonLoop, freed, context>>

\* config_write of poison_val; the guest sets it before it queues reports.
SetPoison ==
    /\ balloon.avail = <<>> /\ balloon.poison = 0 /\ ~balloon.closed /\ driver.posts = 0
    /\ balloon' = [balloon EXCEPT !.poison = 1]
    /\ UNCHANGED <<balloonLoop, freed, context, driver>>

\* InterruptACK.
BalloonAck ==
    /\ balloon.isr /\ ~balloon.closed /\ driver.level
    /\ balloon' = [balloon EXCEPT !.isr = FALSE]
    /\ context' = SetAsserted(context, FALSE)
    /\ UNCHANGED <<balloonLoop, freed, driver>>

\* mmio_write of a zero status: the rings start over; the doorbell is left.
BalloonReset ==
    /\ driver.resets < MaxBalloonResets /\ ~balloon.closed
    /\ balloon' = [balloon EXCEPT !.avail = <<>>, !.used = 0, !.isr = FALSE]
    /\ context' = SetAsserted(context, FALSE)
    /\ driver' = [driver EXCEPT !.resets = @ + 1, !.owes = FALSE]
    /\ UNCHANGED <<balloonLoop, freed>>

\* reset (by the host) configures the device anew; close takes its state.
BalloonConfigure ==
    /\ driver.resets < MaxBalloonResets /\ ~balloon.closed
    /\ balloon' = [poison |-> 0, avail |-> <<>>, used |-> 0, bell |-> FALSE, isr |-> FALSE, closed |-> FALSE]
    /\ context' = SetAsserted(context, FALSE)
    /\ driver' = [driver EXCEPT !.resets = @ + 1, !.owes = FALSE]
    /\ UNCHANGED <<balloonLoop, freed>>

BalloonClose ==
    /\ ~balloon.closed /\ driver.posts = MaxReports
    /\ balloon' = [balloon EXCEPT !.closed = TRUE, !.avail = <<>>, !.isr = FALSE]
    /\ context' = SetAsserted(context, FALSE)
    /\ UNCHANGED <<balloonLoop, freed, driver>>

-----------------------------------------------------------------------------
(* The worker. *)

BalloonOverlaps(range, halves) == HalvesOf(range) \cap halves # {}

LOCAL SumLen(r) ==
    LET sum[k \in 0..Len(r)] == IF k = 0 THEN 0 ELSE sum[k - 1] + r[k].len IN sum[Len(r)]

\* report_ranges: every descriptor is the device's to write, page aligned and
\* clear of the rings, and the report is within the limits.
ReportRanges(r) ==
    /\ r # <<>> /\ Len(r) <= MaxReportRanges
    /\ \A k \in DOMAIN r : /\ r[k].write /\ r[k].len > 0
                           /\ r[k].addr % 2 = 0 /\ r[k].len % 2 = 0
                           /\ ~BalloonOverlaps(r[k], RingHalves)
    /\ SumLen(r) <= MaxReportHalves

\* validate_ranges of terra-runtime/src/memory.rs: the ranges are mapped.
ValidateRanges(r) == \A k \in DOMAIN r : HalvesOf(r[k]) \subseteq 0..(RamHalves - 1)

\* What GuestMemory::discard may have given back when it returns: it stops at
\* the first range the host refuses.
Prefixes(r) == {UNION {HalvesOf(r[k]) : k \in 1..n} : n \in 0..Len(r)}

\* A mutant: the poison value is not looked at.
DiscardAnyReport(r) == IF ReportRanges(r) /\ ValidateRanges(r) THEN Prefixes(r) ELSE {{}}

\* discard_report and GuestRam::discard, whose errors the worker ignores.
DiscardReport(r) ==
    IF ReportRanges(r) /\ balloon.poison = 0 /\ ValidateRanges(r) THEN Prefixes(r) ELSE {{}}

\* run: the bell is taken, then reports are served one per turn until none is left.
BalloonWake ==
    /\ balloonLoop = "wait" /\ (balloon.bell \/ balloon.closed)
    /\ balloon' = [balloon EXCEPT !.bell = FALSE]
    /\ balloonLoop' = IF balloon.closed THEN "ended" ELSE "serve"
    /\ UNCHANGED <<freed, context, driver>>

ServeReport ==
    /\ balloonLoop = "serve"
    /\ IF balloon.avail = <<>>
       THEN /\ balloonLoop' = IF balloon.closed THEN "ended" ELSE "wait"
            /\ UNCHANGED <<balloon, freed, context>>
       ELSE /\ \E halves \in DiscardReport(Head(balloon.avail)) : freed' = freed \cup halves
            /\ balloon' = [balloon EXCEPT !.avail = Tail(@), !.used = @ + 1, !.isr = TRUE]
            /\ context' = SetAsserted(context, TRUE)
            /\ balloonLoop' = "serve"
    /\ UNCHANGED driver

BalloonNext ==
    \/ ForwardLevel \/ BalloonPost \/ BalloonNotify \/ SetPoison \/ BalloonAck \/ BalloonReset
    \/ BalloonConfigure \/ BalloonClose \/ BalloonWake \/ ServeReport

BalloonSpec == BalloonInit /\ [][BalloonNext]_balloonVars

-----------------------------------------------------------------------------
(* Properties *)

BalloonTypeOK == /\ balloonLoop \in {"wait", "serve", "ended"} /\ driver.loop \in {"wait", "ended"}
                 /\ context.window \in 0..SignalsPerWindow

\* Pages are given back to the host only while freed pages may read as zero,
\* whole and away from the rings the guest set up (transport.rs:180).
DiscardIsSafe == freed # {} => balloon.poison = 0 /\ freed \cap RingHalves = {}

\* The level the host forwarded is the level the device asserts, though a
\* burst of changes beyond the budget notifies nobody: a notification is
\* pending whenever one is dropped (context.rs:29).
LevelIsForwarded == driver.level = context.asserted

\* Every queued report is given back to the guest, or the ring is reset.
ReportsAreReturned == balloon.avail = <<>>

------------------------------------------------------------------------------
(***************************************************************************)
(* The host's notifications of changes in a share                          *)
(* (terra-runtime/src/component/fs/file_events.rs): the native watcher's   *)
(* callback normalizes events and queues them under a budget, a thread     *)
(* keeps the set of watched directories and passes the events on, and the  *)
(* filesystem device's host takes them from the second queue.              *)
(*                                                                         *)
(* The share has the root and one directory, "d"; "f" lies in the root and *)
(* "x" in the directory.  Directories have generations: a watch dies with  *)
(* the directory it was placed on.                                         *)
(***************************************************************************)

CONSTANTS EventBudget,   \* MAX_PENDING_FILE_EVENTS, shared by all shares of the box
          WatchBudget,   \* MAX_NATIVE_WATCHES
          MaxHostChanges \* bound on the changes made

ASSUME FileEventBounds == EventBudget \in Nat \ {0} /\ WatchBudget \in Nat \ {0}

VARIABLES tree,     \* the directory: its generation, 0 when it does not exist; changes left
          native,   \* raw events the callback has yet to see
          queue,    \* the callback's channel to the thread, "none" asks it to end
          watchOut,      \* the channel to the guest's side
          lastSeen, \* last_queued: the entry queued last
          others,   \* event permits other shares of the box hold
          watches,  \* DirectoryWatches: path to the generation watched
          session,  \* the WatchSession and the thread
          owed      \* the events a change since the guest last took them calls for

fileEventVars == <<tree, native, queue, watchOut, lastSeen, others, watches, session, owed>>

\* An entry of a queue: the event and the change that caused it.
Event(path, kind, n) == [path |-> path, kind |-> kind, n |-> n]
NoFileEvent == Event("none", "none", 0)
Same(e, f) == e.path = f.path /\ e.kind = f.kind
LOCAL Elements(s) == {s[k] : k \in DOMAIN s}
Parent(path) == IF path = "x" THEN "d" ELSE "root"

FileEventsInit ==
    /\ tree = [d |-> 0, made |-> 0, generation |-> 0]
    /\ native = <<>> /\ queue = <<>> /\ watchOut = <<>>
    /\ lastSeen = NoFileEvent /\ others = 0
    /\ watches = [p \in {} |-> 0]
    /\ session = [stopped |-> FALSE, thread |-> "starting", starter |-> "waiting", hand |-> NoFileEvent]
    /\ owed = {}

-----------------------------------------------------------------------------
(* The host.  A change is reported when its directory is watched.           *)

LOCAL Reported(path) ==
    /\ Parent(path) \in DOMAIN watches
    /\ Parent(path) = "d" => watches["d"] = tree.d

HostChanges(path, kind) ==
    /\ tree.made < MaxHostChanges /\ session.thread \in {"receiving", "updating"}
    /\ tree' = [d |-> CASE path = "d" /\ kind = "create" -> tree.generation + 1
                        [] path = "d" /\ kind = "remove" -> 0
                        [] OTHER -> tree.d,
                made |-> tree.made + 1,
                generation |-> IF kind = "create" THEN tree.generation + 1 ELSE tree.generation]
    /\ native' = IF Reported(path) THEN Append(native, Event(path, kind, tree'.made)) ELSE native
    /\ owed' = IF Reported(path) THEN owed \cup {Event(path, kind, tree'.made)} ELSE owed
    /\ UNCHANGED <<queue, watchOut, lastSeen, others, watches, session>>

HostChangesShare ==
    \/ HostChanges("f", "modify")
    \/ tree.d = 0 /\ HostChanges("d", "create")
    \/ tree.d # 0 /\ HostChanges("d", "remove")
    \/ tree.d # 0 /\ HostChanges("x", "modify")

\* The entries that hold a permit: QueuedEvent drops it with the entry.
Undelivered == (Elements(queue) \cup {session.hand} \cup Elements(watchOut)) \ {NoFileEvent}

\* Another share of the box takes or returns a permit.
OtherShare ==
    /\ others' = 1 - others /\ Cardinality(Undelivered) + others' <= EventBudget
    /\ UNCHANGED <<tree, native, queue, watchOut, lastSeen, watches, session, owed>>

-----------------------------------------------------------------------------
(* forward_event, on the watcher's thread. *)

\* LastQueued::absorbs: the weak reference tells whether the entry is still there.
Absorbs(event) == lastSeen \in Undelivered /\ Same(lastSeen, event)

\* What the guest is no longer told: its changes are reported as degraded.
Dropped(event) == owed' = {e \in owed : ~Same(e, event)}

ForwardEvent ==
    LET event == Head(native)
    IN  /\ native # <<>> /\ session.thread # "ended"
        /\ native' = Tail(native)
        /\ IF session.stopped THEN Dropped(event) /\ UNCHANGED <<queue, lastSeen>>
           ELSE IF Absorbs(event) THEN UNCHANGED <<queue, lastSeen, owed>>
           ELSE IF Cardinality(Undelivered) + others = EventBudget \/ Len(queue) = EventBudget + 1
           THEN Dropped(event) /\ UNCHANGED <<queue, lastSeen>>
           ELSE queue' = Append(queue, event) /\ lastSeen' = event /\ owed' = owed
        /\ UNCHANGED <<tree, watchOut, others, watches, session>>

-----------------------------------------------------------------------------
(* run_watches, the thread that keeps the watches. *)

Watched(w, path, generation) ==
    [p \in DOMAIN w \cup {path} |-> IF p = path THEN generation ELSE w[p]]

\* register_directory: known or over budget directories are left alone.
RegisterDirectory(w, path, generation) ==
    IF path \in DOMAIN w \/ Cardinality(DOMAIN w) = WatchBudget \/ generation = 0 THEN w
    ELSE Watched(w, path, generation)

\* register_tree(root), and the word to the starter that waits for it.
StartWatches ==
    /\ session.thread = "starting"
    /\ IF session.starter = "gone"
       THEN session' = [session EXCEPT !.thread = "ended"] /\ watches' = watches
       ELSE /\ watches' = RegisterDirectory(RegisterDirectory(watches, "root", 1), "d", tree.d)
            /\ session' = [session EXCEPT !.thread = "receiving", !.starter = "ready"]
    /\ UNCHANGED <<tree, native, queue, watchOut, lastSeen, others, owed>>

\* WATCH_START_TIMEOUT: the share goes without notifications.
StartTimesOut ==
    /\ session.starter = "waiting" /\ session.thread = "starting"
    /\ session' = [session EXCEPT !.starter = "gone", !.stopped = TRUE]
    /\ queue' = Append(queue, NoFileEvent)
    /\ UNCHANGED <<tree, native, watchOut, lastSeen, others, watches, owed>>

\* The thread takes an event; a stopped session or the end mark ends it.
ReceiveEvent ==
    /\ session.thread = "receiving" /\ queue # <<>>
    /\ queue' = Tail(queue)
    /\ IF Head(queue) = NoFileEvent \/ session.stopped
       THEN /\ session' = [session EXCEPT !.thread = "ended"]
            /\ watches' = [p \in {} |-> 0] /\ native' = <<>> /\ owed' = {}
       ELSE /\ session' = [session EXCEPT !.thread = "updating", !.hand = Head(queue)]
            /\ UNCHANGED <<watches, native, owed>>
    /\ UNCHANGED <<tree, watchOut, lastSeen, others>>

\* DirectoryWatches::update, then try_send to the guest's side.
UpdateWatches ==
    LET event == session.hand
    IN  /\ session.thread = "updating"
        /\ watches' = CASE event.path = "d" /\ event.kind = "remove" -> [p \in DOMAIN watches \ {"d"} |-> watches[p]]
                        [] event.path = "d" /\ event.kind = "create" -> RegisterDirectory(watches, "d", tree.d)
                        [] OTHER -> watches
        /\ IF Len(watchOut) = EventBudget \/ session.stopped
           THEN watchOut' = watchOut /\ Dropped(event)
           ELSE watchOut' = Append(watchOut, event) /\ owed' = owed
        /\ session' = [session EXCEPT !.thread = "receiving", !.hand = NoFileEvent]
        /\ UNCHANGED <<tree, native, queue, lastSeen, others>>

-----------------------------------------------------------------------------
(* The guest's side: watch_file_events and the drop of the session. *)

TakeEvent ==
    /\ watchOut # <<>> /\ ~session.stopped
    /\ watchOut' = Tail(watchOut)
    /\ owed' = {e \in owed : ~Same(e, Head(watchOut))}
    /\ UNCHANGED <<tree, native, queue, lastSeen, others, watches, session>>

\* Drop for WatchSession.  A mutant sends no end mark.
StopWithoutMark ==
    /\ session.starter = "ready" /\ ~session.stopped
    /\ session' = [session EXCEPT !.stopped = TRUE]
    /\ watchOut' = <<>> /\ owed' = {}
    /\ UNCHANGED <<tree, native, queue, lastSeen, others, watches>>

StopWatching ==
    /\ session.starter = "ready" /\ ~session.stopped
    /\ session' = [session EXCEPT !.stopped = TRUE]
    /\ watchOut' = <<>> /\ owed' = {}
    /\ queue' = IF Len(queue) = EventBudget + 1 THEN queue ELSE Append(queue, NoFileEvent)
    /\ UNCHANGED <<tree, native, lastSeen, others, watches>>

FileEventsNext ==
    \/ HostChangesShare \/ OtherShare \/ ForwardEvent \/ StartWatches \/ StartTimesOut
    \/ ReceiveEvent \/ UpdateWatches \/ TakeEvent \/ StopWatching

FileEventsSpec == FileEventsInit /\ [][FileEventsNext]_fileEventVars

-----------------------------------------------------------------------------
(* Properties *)

FileEventsTypeOK ==
    /\ session.thread \in {"starting", "receiving", "updating", "ended"}
    /\ session.starter \in {"waiting", "ready", "gone"}
    /\ Cardinality(DOMAIN watches) <= WatchBudget
    /\ Cardinality(Undelivered) + others <= EventBudget

\* A reported change the guest has not been told of since, and that was not
\* dropped over a limit, is on its way to the guest: merging equal events never
\* swallows a change made after the guest took the event (file_events.rs:37).
ChangesReachTheGuest ==
    \A e \in owed : \E w \in Elements(native) \cup Undelivered : Same(e, w)

\* A session that is dropped ends its thread and gives back its watches: there
\* is room for the end mark, and a thread with events left sees the flag
\* (file_events.rs:81, :91).
WatchesEnd == session.stopped => session.thread = "ended" /\ DOMAIN watches = {}
==============================================================================
