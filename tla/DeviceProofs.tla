---------------------------- MODULE DeviceProofs ----------------------------
(***************************************************************************)
(* Proofs about the block device of HostDevices, for any requests, any     *)
(* disk and any ring, and about the host files a shared directory holds    *)
(* open (HostShares), for any number of calls and any budget.              *)
(***************************************************************************)
EXTENDS HostDevices, HostShares, SequenceTheorems, FiniteSetTheorems, TLAPS

BlockJobs == [type : {"sync"}, sector : {0}, sectors : {0}, shape : {"ok"}, value : {0}]
ChainHead == [life : Nat, slot : Nat, req : BlockRequests \cup {<<>>}]
RingRecord == [life : Nat, ready : BOOLEAN, mapped : BOOLEAN, posted : Seq(BlockRequests),
               used : Seq(ChainHead), status : SUBSET ChainHead, owes : BOOLEAN]
BlockRecord == [epoch : Nat, closed : BOOLEAN, avail : Nat, bell : BOOLEAN, irq : BOOLEAN]
AtDisk == {"disk", "disk_ok", "disk_err"}
WorkerRecord == [pc : {"wait", "pass", "end"} \cup AtDisk, epoch : Nat, available : Nat, head : ChainHead]
JobRecord == [for : {"worker", "close"}, req : BlockRequests \cup BlockJobs]

BlockTypes ==
  /\ ring \in RingRecord
  /\ block \in BlockRecord
  /\ worker \in WorkerRecord
  /\ jobs \in Seq(JobRecord)
  /\ closer \in {"open", "syncing", "closed", "failed"}
  /\ "dirty" \in DOMAIN blockDisk

\* avail counts what was completed in the driver's present ring, and a ring that is not
\* set up has completed nothing.
AvailInv ==
  /\ block.avail <= Len(ring.posted)
  /\ ~block.closed => /\ block.avail = Len(ring.used)
                      /\ ~ring.ready => Len(ring.used) = 0

\* A request that is at the disk in the present epoch is the present ring's next one.
AtDiskInv ==
  /\ worker.epoch <= block.epoch
  /\ worker.pc \in AtDisk /\ IsCurrent(worker.epoch) =>
       /\ ring.ready /\ worker.head.life = ring.life
       /\ worker.head.slot = block.avail + 1 /\ worker.head.slot <= Len(ring.posted)

\* The worker waits for the one job it has queued.
JobsInv ==
  \A i \in DOMAIN jobs : jobs[i].for = "worker" =>
     worker.pc = "disk" /\ \A j \in DOMAIN jobs : jobs[j].for = "worker" => j = i

\* The sync of close() is the last job there is.
CloseInv ==
  /\ block.closed <=> closer # "open"
  /\ \A i \in DOMAIN jobs : jobs[i].for = "close" =>
       i = Len(jobs) /\ closer = "syncing" /\ jobs[i].req.type = "sync"
  /\ \A i \in DOMAIN jobs : jobs[i].req.type \in {"in", "out", "flush", "discard", "sync"}
  /\ CloseIsDurable

BlockInv == BlockTypes /\ AvailInv /\ AtDiskInv /\ JobsInv /\ CloseInv /\ NoStaleCompletion

-----------------------------------------------------------------------------
\* A new ring and an idle worker are what BlockTypes says.
LEMMA NewStates ==
  /\ \A life \in Nat, ready \in BOOLEAN, mapped \in BOOLEAN :
       LET r == NewRing(life, ready, mapped)
       IN  r \in RingRecord /\ r.life = life /\ r.ready = ready /\ r.used = <<>> /\ r.status = {}
             /\ r.posted = <<>>
  /\ \A pc \in {"wait", "pass", "end"} :
       LET w == BlockIdle(pc) IN w \in WorkerRecord /\ w.pc = pc /\ w.epoch = 0
<1>1. <<>> \in Seq(ChainHead) /\ <<>> \in Seq(BlockRequests)
  OBVIOUS
<1>2. \A life \in Nat, ready \in BOOLEAN, mapped \in BOOLEAN :
        LET r == NewRing(life, ready, mapped)
        IN  r \in RingRecord /\ r.life = life /\ r.ready = ready /\ r.used = <<>> /\ r.status = {}
             /\ r.posted = <<>>
  BY <1>1 DEF NewRing, RingRecord
<1>3. \A pc \in {"wait", "pass", "end"} :
        LET w == BlockIdle(pc) IN w \in WorkerRecord /\ w.pc = pc /\ w.epoch = 0
  BY DEF BlockIdle, WorkerRecord, ChainHead
<1> QED BY <1>2, <1>3

(* A device without a ring has completed nothing.                          *)
LEMMA BlockStarts == BlockInit => BlockInv
<1> SUFFICES ASSUME BlockInit PROVE BlockInv
  OBVIOUS
<1>1. /\ ring \in RingRecord /\ ring.used = <<>> /\ ring.status = {} /\ ~ring.ready
      /\ ring.posted = <<>>
  BY NewStates, Zenon DEF BlockInit
<1>2. worker \in WorkerRecord /\ worker.pc = "wait" /\ worker.epoch = 0
  BY NewStates DEF BlockInit
<1>3. block \in BlockRecord /\ block.epoch = 0 /\ ~block.closed /\ block.avail = 0
  BY DEF BlockInit, BlockRecord
<1>4. jobs = <<>> /\ closer = "open" /\ "dirty" \in DOMAIN blockDisk
  BY DEF BlockInit
<1>5. BlockTypes
  BY <1>1, <1>2, <1>3, <1>4 DEF BlockTypes
<1>6. AvailInv /\ AtDiskInv /\ JobsInv
  BY <1>1, <1>2, <1>3, <1>4 DEF AvailInv, AtDiskInv, JobsInv, AtDisk, IsCurrent
<1>7. CloseInv
  BY <1>3, <1>4 DEF CloseInv, CloseIsDurable
<1>8. NoStaleCompletion
  BY <1>1 DEF NoStaleCompletion
<1> QED BY <1>5, <1>6, <1>7, <1>8 DEF BlockInv

-----------------------------------------------------------------------------
\* The driver's steps.

(* A driver that sets up its ring starts with nothing completed.           *)
LEMMA ArmRingKeeps == BlockInv /\ ArmRing => BlockInv'
<1> SUFFICES ASSUME BlockInv, ArmRing PROVE BlockInv'
  OBVIOUS
<1> USE DEF BlockInv
<1>1. PICK mapped \in BOOLEAN : ring' = NewRing(ring.life, TRUE, mapped)
  BY Zenon DEF ArmRing
<1>2. ring.life \in Nat
  BY DEF BlockTypes, RingRecord
<1>3. /\ ring' \in RingRecord /\ ring'.life = ring.life /\ ring'.ready = TRUE
      /\ ring'.used = <<>> /\ ring'.status = {} /\ ring'.posted = <<>>
  BY <1>1, <1>2, NewStates, Zenon
<1>4. /\ ~ring.ready /\ ~block.closed /\ UNCHANGED <<block, worker, jobs, blockDisk, closer>>
  BY DEF ArmRing
<1>5. BlockTypes'
  BY <1>3, <1>4 DEF BlockTypes
<1>6. AvailInv'
  BY <1>3, <1>4 DEF AvailInv
<1>7. AtDiskInv'
  BY <1>3, <1>4 DEF AtDiskInv, IsCurrent
<1>8. JobsInv' /\ CloseInv'
  BY <1>4 DEF JobsInv, CloseInv, CloseIsDurable
<1>9. NoStaleCompletion'
  BY <1>3 DEF NoStaleCompletion
<1> QED BY <1>5, <1>6, <1>7, <1>8, <1>9

\* Posting and notifying touch neither what was completed nor what is at the disk.
LEMMA DriverKeeps ==
  ASSUME BlockInv, ring' \in RingRecord, block' \in BlockRecord,
         ring'.life = ring.life, ring'.ready = ring.ready, ring'.used = ring.used,
         ring'.status = ring.status, Len(ring'.posted) >= Len(ring.posted), block'.epoch = block.epoch,
         block'.closed = block.closed, block'.avail = block.avail,
         UNCHANGED <<worker, jobs, blockDisk, closer>>
  PROVE  BlockInv'
<1> USE DEF BlockInv
<1>4. /\ block.avail \in Nat /\ worker.head.slot \in Nat
      /\ Len(ring.posted) \in Nat /\ Len(ring'.posted) \in Nat
  BY DEF BlockTypes, BlockRecord, RingRecord, WorkerRecord, ChainHead
<1>5. BlockTypes'
  BY DEF BlockTypes
<1>6. AvailInv'
  BY <1>4 DEF AvailInv
<1>7. AtDiskInv'
  BY <1>4 DEF AtDiskInv, IsCurrent
<1>8. JobsInv' /\ CloseInv'
  BY DEF JobsInv, CloseInv, CloseIsDurable
<1>9. NoStaleCompletion'
  BY DEF NoStaleCompletion
<1> QED BY <1>5, <1>6, <1>7, <1>8, <1>9

(* A request that is posted goes behind those the component took.          *)
LEMMA PostKeeps == ASSUME NEW rq \in BlockRequests, BlockInv, Post(rq) PROVE BlockInv'
<1>1. ring \in RingRecord /\ block \in BlockRecord
  BY DEF BlockInv, BlockTypes
<1>2. Append(ring.posted, rq) \in Seq(BlockRequests)
  BY <1>1 DEF RingRecord
<1>3. ring' = [ring EXCEPT !.posted = Append(ring.posted, rq), !.owes = TRUE]
  BY DEF Post
<1>4. /\ ring' \in RingRecord /\ ring'.life = ring.life /\ ring'.ready = ring.ready
      /\ ring'.used = ring.used /\ ring'.status = ring.status
      /\ ring'.posted = Append(ring.posted, rq)
  BY <1>1, <1>2, <1>3, Zenon DEF RingRecord
<1>6. Len(ring'.posted) >= Len(ring.posted)
  BY <1>1, <1>4 DEF RingRecord
<1>5. UNCHANGED <<block, worker, jobs, blockDisk, closer>>
  BY DEF Post
<1> QED BY <1>1, <1>4, <1>5, <1>6, DriverKeeps

(* A notification only rings the bell.                                     *)
LEMMA NotifyKeeps == BlockInv /\ Notify => BlockInv'
<1> SUFFICES ASSUME BlockInv, Notify PROVE BlockInv'
  OBVIOUS
<1>1. ring \in RingRecord /\ block \in BlockRecord
  BY DEF BlockInv, BlockTypes
<1>2. /\ ring' \in RingRecord /\ ring'.life = ring.life /\ ring'.ready = ring.ready
      /\ ring'.used = ring.used /\ ring'.status = ring.status /\ ring'.posted = ring.posted
  BY <1>1, Zenon DEF Notify, RingRecord
<1>5. Len(ring'.posted) >= Len(ring.posted)
  BY <1>1, <1>2 DEF RingRecord
<1>3. /\ block' \in BlockRecord /\ block'.epoch = block.epoch
      /\ block'.closed = block.closed /\ block'.avail = block.avail
  BY <1>1, Zenon DEF Notify, BlockRecord
<1>4. UNCHANGED <<worker, jobs, blockDisk, closer>>
  BY DEF Notify
<1> QED BY <1>2, <1>3, <1>4, <1>5, DriverKeeps

\* A reset begins an epoch that no request at the disk belongs to.
LEMMA NextEpochIs ==
  ASSUME block \in BlockRecord
  PROVE  LET b == NextEpoch(block)
         IN  /\ b \in BlockRecord /\ b.epoch = block.epoch + 1 /\ b.avail = 0
             /\ b.closed = block.closed
<1> DEFINE next == block.epoch + 1
<1>1. next \in Nat
  BY DEF BlockRecord
<1>2. NextEpoch(block) = [block EXCEPT !.epoch = next, !.avail = 0, !.bell = FALSE, !.irq = FALSE]
  BY DEF NextEpoch
<1> HIDE DEF next
<1> DEFINE b == [block EXCEPT !.epoch = next, !.avail = 0, !.bell = FALSE, !.irq = FALSE]
<1>3. b \in BlockRecord
  BY <1>1, Zenon DEF BlockRecord
<1>4. b.epoch = next /\ b.avail = 0 /\ b.closed = block.closed
  BY DEF BlockRecord
<1> HIDE DEF b
<1>5. NextEpoch(block) = b
  BY <1>2 DEF b
<1> QED BY <1>3, <1>4, <1>5 DEF next

(* A reset starts a new epoch, in which no answer under way is current.    *)
LEMMA ResetKeeps == BlockInv /\ ResetDevice => BlockInv'
<1> SUFFICES ASSUME BlockInv, ResetDevice PROVE BlockInv'
  OBVIOUS
<1> USE DEF BlockInv
<1>1. block \in BlockRecord /\ worker \in WorkerRecord /\ ring.life + 1 \in Nat
  BY DEF BlockTypes, RingRecord
<1>2. /\ block' \in BlockRecord /\ block'.epoch = block.epoch + 1 /\ block'.avail = 0
      /\ block'.closed = block.closed
  BY <1>1, NextEpochIs DEF ResetDevice
<1>3. /\ ring' \in RingRecord /\ ring'.ready = FALSE
      /\ ring'.used = <<>> /\ ring'.status = {} /\ ring'.posted = <<>>
  BY <1>1, NewStates, Zenon DEF ResetDevice
<1>4. UNCHANGED <<worker, jobs, blockDisk, closer>>
  BY DEF ResetDevice
<1>5. BlockTypes'
  BY <1>2, <1>3, <1>4, Zenon DEF BlockTypes
<1>6. AvailInv'
  BY <1>2, <1>3, <1>4 DEF AvailInv
<1>7. worker.epoch \in Nat /\ block.epoch \in Nat /\ worker.epoch <= block.epoch
  BY <1>1 DEF WorkerRecord, BlockRecord, AtDiskInv
<1>8. AtDiskInv'
  BY <1>2, <1>4, <1>7 DEF AtDiskInv, IsCurrent
<1>9. JobsInv' /\ CloseInv'
  BY <1>2, <1>4, Zenon DEF JobsInv, CloseInv, CloseIsDurable
<1>10. NoStaleCompletion'
  BY <1>3 DEF NoStaleCompletion
<1> QED BY <1>5, <1>6, <1>8, <1>9, <1>10, Zenon

-----------------------------------------------------------------------------
\* The worker's steps.

\* The tail of process_pending completes the present ring's next request.
LEMMA CompleteKeeps ==
  ASSUME BlockInv, NEW head \in ChainHead, NEW status, NEW available,
         Complete(head, status, available),
         ~block.closed, ring.ready, head.life = ring.life, head.slot = block.avail + 1,
         head.slot <= Len(ring.posted), worker.pc # "disk", UNCHANGED <<jobs, blockDisk, closer>>
  PROVE  BlockInv'
<1> USE DEF BlockInv
<1>1. ring \in RingRecord /\ block \in BlockRecord
  BY DEF BlockTypes
<1>2. block.avail = Len(ring.used) /\ ring.used \in Seq(ChainHead)
  BY <1>1 DEF AvailInv, RingRecord
<1> DEFINE used == Append(ring.used, head)
           written == IF status = "none" THEN ring.status ELSE ring.status \cup {head}
<1>3. used \in Seq(ChainHead) /\ Len(used) = Len(ring.used) + 1
  BY <1>2
<1>4. written \in SUBSET ChainHead /\ \A h \in written : h \in ring.status \/ h = head
  BY <1>1, Zenon DEF RingRecord
<1>5. \A i \in DOMAIN used : used[i].life = ring.life /\ used[i].slot = i
  <2> SUFFICES ASSUME NEW i \in DOMAIN used PROVE used[i].life = ring.life /\ used[i].slot = i
    OBVIOUS
  <2>1. i \in 1 .. Len(ring.used) + 1 /\ Len(ring.used) \in Nat
    BY <1>2, <1>3
  <2>2. CASE i = Len(ring.used) + 1
    BY <1>2, <2>2
  <2>3. CASE i # Len(ring.used) + 1
    <3>1. i \in DOMAIN ring.used /\ used[i] = ring.used[i]
      BY <1>2, <2>1, <2>3
    <3> QED BY <3>1 DEF NoStaleCompletion
  <2> QED BY <2>2, <2>3, Zenon
<1>6. ring' = [ring EXCEPT !.used = used, !.status = written]
  BY DEF Complete
<1> HIDE DEF used, written
<1>7. /\ ring' \in RingRecord /\ ring'.life = ring.life /\ ring'.ready = ring.ready
      /\ ring'.used = used /\ ring'.status = written /\ ring'.posted = ring.posted
  BY <1>1, <1>3, <1>4, <1>6, Zenon DEF RingRecord
<1>8. /\ block' \in BlockRecord /\ block'.epoch = block.epoch
      /\ block'.closed = block.closed /\ block'.avail = block.avail + 1
  <2> DEFINE next == block.avail + 1
  <2>1. next \in Nat /\ block' = [block EXCEPT !.avail = next, !.irq = TRUE]
    BY <1>1 DEF Complete, BlockRecord
  <2> HIDE DEF next
  <2>2. /\ block' \in BlockRecord /\ block'.epoch = block.epoch
        /\ block'.closed = block.closed /\ block'.avail = next
    BY <1>1, <2>1, Zenon DEF BlockRecord
  <2> QED BY <2>2 DEF next
<1>9. \E pc \in {"wait", "pass", "end"} : worker' = BlockIdle(pc)
  BY Zenon DEF Complete
<1>10. worker' \in WorkerRecord /\ worker'.pc \notin AtDisk /\ worker'.epoch = 0
  BY <1>9, NewStates DEF AtDisk
<1>11. BlockTypes'
  BY <1>7, <1>8, <1>10, Zenon DEF BlockTypes
<1>12. AvailInv'
  BY <1>2, <1>3, <1>7, <1>8, Zenon DEF AvailInv
<1>13. AtDiskInv'
  BY <1>1, <1>8, <1>10 DEF AtDiskInv, BlockRecord
<1>14. JobsInv' /\ CloseInv'
  BY <1>8, Zenon DEF JobsInv, CloseInv, CloseIsDurable
<1>15. NoStaleCompletion'
  BY <1>4, <1>5, <1>7, Zenon DEF NoStaleCompletion
<1> QED BY <1>11, <1>12, <1>13, <1>14, <1>15, Zenon

\* A worker that goes back to waiting leaves the ring alone.
LEMMA IdleKeeps ==
  ASSUME BlockInv, NEW pc \in {"wait", "pass", "end"}, worker' = BlockIdle(pc),
         worker.pc # "disk", block' \in BlockRecord, block'.epoch = block.epoch,
         block'.closed = block.closed, block'.avail = block.avail,
         UNCHANGED <<ring, jobs, blockDisk, closer>>
  PROVE  BlockInv'
<1> USE DEF BlockInv
<1>1. worker' \in WorkerRecord /\ worker'.pc \notin AtDisk /\ worker'.epoch = 0
  BY NewStates DEF AtDisk
<1>2. BlockTypes'
  BY <1>1, Zenon DEF BlockTypes
<1>3. AvailInv' /\ AtDiskInv'
  BY <1>1 DEF AvailInv, AtDiskInv, BlockRecord
<1>4. JobsInv' /\ CloseInv'
  BY Zenon DEF JobsInv, CloseInv, CloseIsDurable
<1>5. NoStaleCompletion'
  BY DEF NoStaleCompletion
<1> QED BY <1>2, <1>3, <1>4, <1>5, Zenon

(* A worker that waits for the bell holds no request.                      *)
LEMMA WaitKeeps == BlockInv /\ WaitForBell => BlockInv'
<1> SUFFICES ASSUME BlockInv, WaitForBell PROVE BlockInv'
  OBVIOUS
<1>1. block \in BlockRecord
  BY DEF BlockInv, BlockTypes
<1>2. /\ block' \in BlockRecord /\ block'.epoch = block.epoch
      /\ block'.closed = block.closed /\ block'.avail = block.avail
  BY <1>1, Zenon DEF WaitForBell, BlockRecord
<1>3. PICK pc \in {"wait", "pass", "end"} : worker' = BlockIdle(pc)
  BY DEF WaitForBell
<1>4. worker.pc # "disk" /\ UNCHANGED <<ring, jobs, blockDisk, closer>>
  BY DEF WaitForBell, BlockRest
<1> QED BY <1>2, <1>3, <1>4, IdleKeeps, Zenon

(* A worker that comes back from its await completes its request if it is  *)
(* still current.                                                          *)
LEMMA ResumeKeeps == BlockInv /\ ResumeWorker => BlockInv'
<1> SUFFICES ASSUME BlockInv, ResumeWorker PROVE BlockInv'
  OBVIOUS
<1>1. worker.pc \in {"disk_ok", "disk_err"} /\ UNCHANGED <<jobs, blockDisk, closer>>
  BY DEF ResumeWorker, BlockRest
<1>2. worker.head \in ChainHead /\ block \in BlockRecord
  BY DEF BlockInv, BlockTypes, WorkerRecord
<1>3. CASE IsCurrent(worker.epoch)
  <2>1. /\ ring.ready /\ worker.head.life = ring.life /\ worker.head.slot = block.avail + 1
        /\ worker.head.slot <= Len(ring.posted) /\ ~block.closed
    BY <1>1, <1>3, Zenon DEF BlockInv, AtDiskInv, AtDisk, IsCurrent
  <2>2. PICK status \in {"ok", "ioerr"} : Complete(worker.head, status, worker.available)
    BY <1>3 DEF ResumeWorker
  <2> QED BY <1>1, <1>2, <2>1, <2>2, CompleteKeeps, Zenon
<1>4. CASE ~IsCurrent(worker.epoch)
  <2>1. worker' = BlockIdle("wait") /\ UNCHANGED <<ring, block>>
    BY <1>4 DEF ResumeWorker
  <2> QED BY <1>1, <1>2, <2>1, IdleKeeps, Zenon
<1> QED BY <1>3, <1>4

\* What goes to the disk is one of the four requests a disk knows.
LEMMA ExecutedTypes ==
  ASSUME NEW rq, ChainFate(rq) = "execute", Refusal(rq) = "none"
  PROVE  rq.type \in {"in", "out", "flush", "discard"}
BY DEF Refusal

\* A place of the ring and its request are the head of a chain.
LEMMA HeadsAreHeads ==
  \A n, m \in Nat, rq \in BlockRequests : [life |-> n, slot |-> m, req |-> rq] \in ChainHead
BY DEF ChainHead

(* process_pending takes the next request of the ring and hands its job to *)
(* the disk.                                                               *)
LEMMA ProcessKeeps == BlockInv /\ ProcessPending => BlockInv'
<1> SUFFICES ASSUME BlockInv, ProcessPending PROVE BlockInv'
  OBVIOUS
<1> USE DEF BlockInv
<1>1. /\ ring \in RingRecord /\ block \in BlockRecord /\ worker.pc = "pass"
      /\ UNCHANGED <<blockDisk, closer>>
  BY DEF BlockTypes, ProcessPending
<1>2. CASE block.closed \/ ~ring.ready \/ ~ring.mapped \/ block.avail = Len(ring.posted)
  <2>1. worker' = BlockIdle("wait") /\ UNCHANGED <<ring, block, jobs>>
    BY <1>2 DEF ProcessPending
  <2> QED BY <1>1, <2>1, IdleKeeps, Zenon
<1>3. CASE ~(block.closed \/ ~ring.ready \/ ~ring.mapped \/ block.avail = Len(ring.posted))
  <2> DEFINE rq == ring.posted[block.avail + 1]
             head == [life |-> ring.life, slot |-> block.avail + 1, req |-> rq]
             available == Len(ring.posted)
  <2>1. block.avail + 1 \in 1 .. Len(ring.posted) /\ ring.posted \in Seq(BlockRequests)
    BY <1>1, <1>3 DEF AvailInv, BlockRecord, RingRecord
  <2>2. rq \in BlockRequests
    BY <2>1
  <2>3. /\ head \in ChainHead /\ head.life = ring.life /\ head.slot = block.avail + 1
        /\ head.slot <= Len(ring.posted)
    <3>1. ring.life \in Nat
      BY <1>1, Zenon DEF RingRecord
    <3>2. block.avail + 1 \in Nat /\ block.avail + 1 <= Len(ring.posted)
      BY <2>1
    <3> HIDE DEF rq
    <3>3. head \in ChainHead
      BY ONLY <2>2, <3>1, <3>2, HeadsAreHeads, Zenon
    <3> QED BY <3>2, <3>3, Zenon
  <2>4. \/ \E status \in {"none", "ioerr", Refusal(rq)} :
             Complete(head, status, available) /\ UNCHANGED jobs
        \/ /\ ChainFate(rq) \notin {"drop", "ioerr"}
           /\ ~(ChainFate(rq) = "execute" /\ Refusal(rq) # "none")
           /\ worker' = [pc |-> "disk", epoch |-> block.epoch, available |-> available, head |-> head]
           /\ jobs' = Append(jobs, [for |-> "worker", req |-> rq])
           /\ UNCHANGED <<ring, block>>
    BY <1>3 DEF ProcessPending
  <2>5. ChainFate(rq) \in {"drop", "ioerr", "execute"}
    BY Zenon DEF ChainFate
  <2> HIDE DEF rq, head
  <2>6. CASE \E status \in {"none", "ioerr", Refusal(rq)} :
               Complete(head, status, available) /\ UNCHANGED jobs
    BY <1>1, <1>3, <2>3, <2>6, CompleteKeeps, Zenon
  <2>7. CASE /\ ChainFate(rq) \notin {"drop", "ioerr"}
             /\ ~(ChainFate(rq) = "execute" /\ Refusal(rq) # "none")
             /\ worker' = [pc |-> "disk", epoch |-> block.epoch, available |-> available, head |-> head]
             /\ jobs' = Append(jobs, [for |-> "worker", req |-> rq])
             /\ UNCHANGED <<ring, block>>
    <3> DEFINE job == [for |-> "worker", req |-> rq]
    <3>1. rq.type \in {"in", "out", "flush", "discard"}
      BY <2>5, <2>7, ExecutedTypes, Zenon
    <3>2. /\ worker' \in WorkerRecord /\ worker'.pc = "disk" /\ worker'.epoch = block.epoch
          /\ worker'.head = head
      BY <1>1, <2>1, <2>3, <2>7 DEF WorkerRecord, AtDisk, BlockRecord
    <3>3. job \in JobRecord /\ job.for = "worker" /\ job.req = rq
      BY <2>2 DEF JobRecord
    <3>4. jobs \in Seq(JobRecord) /\ jobs' = Append(jobs, job)
      BY <2>7 DEF BlockTypes
    <3> HIDE DEF job
    <3>5. /\ jobs' \in Seq(JobRecord) /\ Len(jobs') = Len(jobs) + 1 /\ Len(jobs) \in Nat
          /\ jobs'[Len(jobs) + 1] = job
          /\ \A i \in DOMAIN jobs' : i # Len(jobs) + 1 => i \in DOMAIN jobs /\ jobs'[i] = jobs[i]
      BY <3>3, <3>4
    <3>6. \A i \in DOMAIN jobs : jobs[i].for # "worker" /\ jobs[i].for # "close"
      <4>1. \A i \in DOMAIN jobs : jobs[i].for # "worker"
        BY <1>1 DEF JobsInv
      <4>2. closer = "open"
        BY <1>3 DEF CloseInv
      <4> QED BY <4>1, <4>2, Zenon DEF CloseInv
    <3>7. BlockTypes'
      BY <1>1, <2>7, <3>2, <3>5, Zenon DEF BlockTypes
    <3>8. AvailInv' /\ AtDiskInv'
      <4>1. UNCHANGED <<ring, block>> /\ block.epoch \in Nat
        BY <1>1, <2>7, Zenon DEF BlockRecord
      <4>2. /\ worker'.pc = "disk" /\ worker'.epoch = block'.epoch
            /\ worker'.head.life = ring'.life /\ worker'.head.slot = block'.avail + 1
            /\ worker'.head.slot <= Len(ring'.posted)
        BY <2>3, <3>2, <4>1, Zenon
      <4>3. AvailInv'
        BY <1>1, <4>1, Zenon DEF AvailInv
      <4>4. block'.epoch <= block'.epoch
        BY <4>1
      <4> QED
        BY <1>3, <4>1, <4>2, <4>3, <4>4, Zenon DEF AtDiskInv
    <3>9. JobsInv'
      BY <3>2, <3>5, <3>6, Zenon DEF JobsInv
    <3>10. CloseInv'
      <4>1. closer = "open" /\ closer' = "open" /\ block' = block
        BY <1>1, <1>3, <2>7, Zenon DEF CloseInv
      <4>2. CloseIsDurable'
        BY <4>1 DEF CloseIsDurable
      <4> QED BY <3>1, <3>3, <3>5, <3>6, <4>1, <4>2, Zenon DEF CloseInv
    <3>11. NoStaleCompletion'
      BY <2>7, Zenon DEF NoStaleCompletion
    <3> QED BY <3>7, <3>8, <3>9, <3>10, <3>11, Zenon
  <2> QED BY <2>4, <2>6, <2>7, Zenon
<1> QED BY <1>2, <1>3, Zenon

-----------------------------------------------------------------------------
\* The disk and the close.

\* The prover does these sums apart from the sequences they are about.
LEMMA Sums ==
  /\ \A n \in Nat : n >= 1 /\ ~(2 <= n) => n = 1
  /\ \A n, m \in Int : 1 = n /\ m = n - 1 => m = 0
OBVIOUS

\* An empty queue has no job.
LEMMA NoJobs == \A i : i \notin DOMAIN <<>>
OBVIOUS

\* The first job leaves the queue and the others move up.
LEMMA FirstJobLeaves ==
  ASSUME NEW S, NEW q \in Seq(S), 1 \in DOMAIN q
  PROVE  LET t == WithoutJob(q, 1)
         IN  /\ t \in Seq(S) /\ Len(t) = Len(q) - 1
             /\ \A i \in DOMAIN t : i + 1 \in DOMAIN q /\ t[i] = q[i + 1]
<1> DEFINE u == SubSeq(q, 2, Len(q))
<1>1. Len(q) \in Nat /\ Len(q) >= 1
  OBVIOUS
<1>2. \A i \in 2 .. Len(q) : q[i] \in S
  BY <1>1
<1>3. /\ u \in Seq(S) /\ Len(u) = Len(q) - 1
      /\ \A i \in 1 .. Len(q) - 1 : u[i] = q[i + 1]
  <2>1. /\ u \in Seq(S) /\ Len(u) = IF 2 <= Len(q) THEN Len(q) - 2 + 1 ELSE 0
        /\ \A i \in 1 .. Len(q) - 2 + 1 : u[i] = q[2 + i - 1]
    BY <1>1, <1>2, SubSeqProperties
  <2>2. \A i \in 1 .. Len(q) - 1 : 2 + i - 1 = i + 1
    OBVIOUS
  <2>3. Len(u) = Len(q) - 1
    <3> HIDE DEF u
    <3>1. CASE 2 <= Len(q)
      BY <1>1, <2>1, <3>1
    <3>2. CASE ~(2 <= Len(q))
      <4>1. Len(q) = 1
        BY <1>1, <3>2, Sums, Zenon
      <4> QED BY <2>1, <3>2, <4>1
    <3> QED BY <3>1, <3>2
  <2>4. ASSUME NEW i \in 1 .. Len(q) - 1 PROVE u[i] = q[i + 1]
    <3>1. i \in 1 .. Len(q) - 2 + 1
      BY <1>1
    <3> QED BY <3>1, <2>1, <2>2
  <2> QED BY <2>1, <2>3, <2>4, Zenon
<1>4. SubSeq(q, 1, 1 - 1) = <<>>
  BY SubSeqEmpty
<1>5. WithoutJob(q, 1) = u
  <2>1. <<>> \o u = u
    BY <1>3, ConcatEmptySeq
  <2>2. 1 + 1 = 2
    OBVIOUS
  <2> QED BY <1>4, <2>1, <2>2, Zenon DEF WithoutJob
<1>6. \A i \in DOMAIN u : i \in 1 .. Len(q) - 1 /\ i + 1 \in DOMAIN q
  BY <1>1, <1>3
<1> HIDE DEF u
<1> QED BY <1>3, <1>5, <1>6

\* Every effect of a job leaves the disk a record, and a sync leaves nothing dirty.
LEMMA JobEffectIs ==
  ASSUME NEW rq, NEW d, "dirty" \in DOMAIN d,
         rq.type \in {"in", "out", "flush", "discard", "sync"}
  PROVE  LET e == JobEffect(rq, d)
         IN  "dirty" \in DOMAIN e /\ (rq.type = "sync" => e.dirty = {})
BY Zenon DEF JobEffect

(* A job of the disk's thread is the oldest one, and answers its own       *)
(* worker.                                                                 *)
LEMMA RunJobKeeps == BlockInv /\ RunJob => BlockInv'
<1> SUFFICES ASSUME BlockInv, RunJob PROVE BlockInv'
  OBVIOUS
<1> USE DEF BlockInv
<1>1. jobs \in Seq(JobRecord) /\ worker \in WorkerRecord
  BY DEF BlockTypes
<1>2. /\ 1 \in DOMAIN jobs /\ jobs' = WithoutJob(jobs, 1)
      /\ \/ /\ ~JobRefused(jobs[1].req)
            /\ blockDisk' = JobEffect(jobs[1].req, blockDisk) /\ JobIsDone(jobs[1], TRUE)
         \/ blockDisk' = blockDisk /\ JobIsDone(jobs[1], FALSE)
      /\ UNCHANGED <<ring, block>>
  BY Zenon DEF RunJob, NextJob
<1> DEFINE job == jobs[1]
<1>3. /\ jobs' \in Seq(JobRecord) /\ Len(jobs') = Len(jobs) - 1
      /\ \A i \in DOMAIN jobs' : i + 1 \in DOMAIN jobs /\ jobs'[i] = jobs[i + 1]
  BY <1>1, <1>2, FirstJobLeaves, Zenon
<1>4. job.for \in {"worker", "close"} /\ job.req.type \in {"in", "out", "flush", "discard", "sync"}
  <2>1. job \in JobRecord
    BY <1>1, <1>2
  <2>2. job.for \in {"worker", "close"}
    BY <2>1 DEF JobRecord
  <2>3. job.req.type \in {"in", "out", "flush", "discard", "sync"}
    BY <1>2, Zenon DEF CloseInv
  <2> QED BY <2>2, <2>3, Zenon
<1>5. "dirty" \in DOMAIN blockDisk'
  BY <1>2, <1>4, JobEffectIs, Zenon DEF BlockTypes
<1>6. CASE job.for = "worker"
  <2>1. worker.pc = "disk" /\ closer' = closer
    BY <1>2, <1>6 DEF JobsInv, JobIsDone
  <2>2. PICK pc \in {"disk_ok", "disk_err"} : worker' = [worker EXCEPT !.pc = pc]
    BY <1>2, <1>6 DEF JobIsDone
  <2>3. /\ worker' \in WorkerRecord /\ worker'.pc = pc /\ worker'.epoch = worker.epoch
        /\ worker'.head = worker.head
    BY <1>1, <2>2, Zenon DEF WorkerRecord, AtDisk
  <2>4. \A i \in DOMAIN jobs' : jobs'[i].for # "worker"
    <3> SUFFICES ASSUME NEW i \in DOMAIN jobs', jobs'[i].for = "worker" PROVE FALSE
      OBVIOUS
    <3>1. i + 1 \in DOMAIN jobs /\ jobs[i + 1].for = "worker" /\ i \in Nat \ {0}
      BY <1>3
    <3>2. i + 1 = 1
      BY <1>2, <1>6, <3>1, Zenon DEF JobsInv
    <3> QED BY <3>1, <3>2
  <2>5. BlockTypes'
    BY <1>2, <1>3, <1>5, <2>1, <2>3, Zenon DEF BlockTypes
  <2>6. AvailInv' /\ NoStaleCompletion'
    BY <1>2, Zenon DEF AvailInv, NoStaleCompletion
  <2>7. AtDiskInv'
    BY <1>2, <2>1, <2>3, Zenon DEF AtDiskInv, AtDisk, IsCurrent
  <2>8. JobsInv'
    BY <2>4 DEF JobsInv
  <2>9. CloseInv'
    <3>1. closer # "closed"
      BY <1>2 DEF CloseInv, CloseIsDurable
    <3>2. CloseIsDurable'
      BY <2>1, <3>1, Zenon DEF CloseIsDurable
    <3>3. ASSUME NEW i \in DOMAIN jobs'
          PROVE  /\ jobs'[i].for = "close" =>
                      i = Len(jobs') /\ closer' = "syncing" /\ jobs'[i].req.type = "sync"
                 /\ jobs'[i].req.type \in {"in", "out", "flush", "discard", "sync"}
      <4>1. i + 1 \in DOMAIN jobs /\ jobs'[i] = jobs[i + 1] /\ i \in Nat /\ Len(jobs) \in Nat
        BY <1>1, <1>3
      <4>2. i + 1 = Len(jobs) => i = Len(jobs')
        BY <1>3, <4>1
      <4> QED BY <2>1, <4>1, <4>2, Zenon DEF CloseInv
    <3> QED BY <1>2, <2>1, <3>2, <3>3, Zenon DEF CloseInv
  <2> QED BY <2>5, <2>6, <2>7, <2>8, <2>9, Zenon
<1>7. CASE job.for = "close"
  <2>1. /\ 1 = Len(jobs) /\ closer = "syncing" /\ job.req.type = "sync" /\ block.closed
    BY <1>2, <1>7, Zenon DEF CloseInv
  <2>2. jobs' = <<>>
    <3>1. Len(jobs') \in Int /\ Len(jobs) \in Int
      BY <1>1, <1>3
    <3>2. Len(jobs') = 0
      BY <1>3, <2>1, <3>1, Sums, Zenon
    <3> QED BY <1>3, <3>2, EmptySeq, Zenon
  <2>3. worker' = worker /\ closer' \in {"closed", "failed"}
    BY <1>2, <1>7, Zenon DEF JobIsDone
  <2>4. closer' = "closed" => blockDisk'.dirty = {}
    <3>1. closer' = "closed" => blockDisk' = JobEffect(job.req, blockDisk)
      BY <1>2, <1>7 DEF JobIsDone
    <3> QED BY <1>4, <2>1, <3>1, JobEffectIs, Zenon DEF BlockTypes
  <2>5. BlockTypes'
    BY <1>2, <1>3, <1>5, <2>3, Zenon DEF BlockTypes
  <2>6. AvailInv' /\ NoStaleCompletion'
    BY <1>2, Zenon DEF AvailInv, NoStaleCompletion
  <2>7. AtDiskInv'
    BY <1>2, <2>3, Zenon DEF AtDiskInv, IsCurrent
  <2>8. JobsInv'
    BY <2>2, NoJobs, Zenon DEF JobsInv
  <2>9. CloseInv'
    <3>1. block' = block
      BY <1>2, Zenon
    <3>2. block'.closed
      BY <2>1, <3>1
    <3>3. CloseIsDurable'
      BY <2>2, <2>4, <3>1, NoJobs, Zenon DEF CloseIsDurable
    <3> QED
      BY <2>2, <2>3, <3>2, <3>3, NoJobs, Zenon DEF CloseInv
  <2> QED BY <2>5, <2>6, <2>7, <2>8, <2>9, Zenon
<1> QED BY <1>4, <1>6, <1>7, Zenon

(* close() lets no job come after its sync.                                *)
LEMMA CloseKeeps == BlockInv /\ CloseBlock => BlockInv'
<1> SUFFICES ASSUME BlockInv, CloseBlock PROVE BlockInv'
  OBVIOUS
<1> USE DEF BlockInv
<1>1. block \in BlockRecord /\ worker \in WorkerRecord /\ jobs \in Seq(JobRecord)
  BY DEF BlockTypes
<1> DEFINE b == NextEpoch(block)
           sync == [type |-> "sync", sector |-> 0, sectors |-> 0, shape |-> "ok", value |-> 0]
           job == [for |-> "close", req |-> sync]
<1>2. b \in BlockRecord /\ b.epoch = block.epoch + 1 /\ b.avail = 0
  BY <1>1, NextEpochIs
<1>3. /\ closer = "open" /\ block' = [b EXCEPT !.closed = TRUE] /\ jobs' = Append(jobs, job)
      /\ closer' = "syncing" /\ UNCHANGED <<ring, worker, blockDisk>>
  BY DEF CloseBlock
<1> HIDE DEF b
<1>4. /\ block' \in BlockRecord /\ block'.closed /\ block'.epoch = block.epoch + 1
      /\ block'.avail = 0
  BY <1>2, <1>3, Zenon DEF BlockRecord
<1>5. job \in JobRecord /\ job.for = "close" /\ job.req.type = "sync"
  BY DEF JobRecord, BlockJobs
<1> HIDE DEF job
<1>6. /\ jobs' \in Seq(JobRecord) /\ Len(jobs') = Len(jobs) + 1 /\ Len(jobs) \in Nat
      /\ jobs'[Len(jobs) + 1] = job
      /\ \A i \in DOMAIN jobs' : i # Len(jobs) + 1 => i \in DOMAIN jobs /\ jobs'[i] = jobs[i]
  BY <1>1, <1>3, <1>5
<1>7. BlockTypes'
  BY <1>3, <1>4, <1>6, Zenon DEF BlockTypes
<1>8. AvailInv'
  <2>1. Len(ring.posted) \in Nat
    BY DEF BlockTypes, RingRecord
  <2> QED BY <1>3, <1>4, <2>1 DEF AvailInv
<1>9. AtDiskInv'
  <2>1. worker.epoch \in Nat /\ block.epoch \in Nat /\ worker.epoch <= block.epoch
    BY <1>1 DEF WorkerRecord, BlockRecord, AtDiskInv
  <2>2. worker.epoch <= block.epoch + 1
    BY <2>1
  <2> QED BY <1>3, <1>4, <2>2, Zenon DEF AtDiskInv, IsCurrent
<1>10. JobsInv'
  BY <1>3, <1>5, <1>6 DEF JobsInv
<1>11. CloseInv'
  <2>1. \A i \in DOMAIN jobs : jobs[i].for # "close"
    BY <1>3 DEF CloseInv
  <2>2. CloseIsDurable'
    BY <1>3 DEF CloseIsDurable
  <2> QED BY <1>3, <1>4, <1>5, <1>6, <2>1, <2>2, Zenon DEF CloseInv
<1>12. NoStaleCompletion'
  BY <1>3 DEF NoStaleCompletion
<1> QED BY <1>7, <1>8, <1>9, <1>10, <1>11, <1>12, Zenon

(* The invariant holds in every state of the block device.                 *)
LEMMA BlockInvariant == BlockSpec => []BlockInv
<1>1. BlockInv /\ [BlockNext]_blockVars => BlockInv'
  <2> SUFFICES ASSUME BlockInv, [BlockNext]_blockVars PROVE BlockInv'
    OBVIOUS
  <2>1. CASE UNCHANGED blockVars
    BY <2>1, Zenon DEF blockVars, BlockInv, BlockTypes, AvailInv, AtDiskInv, JobsInv, CloseInv,
                CloseIsDurable, NoStaleCompletion, IsCurrent
  <2>2. CASE BlockNext
    BY <2>2, ArmRingKeeps, NotifyKeeps, ResetKeeps, PostKeeps, WaitKeeps, ProcessKeeps,
       ResumeKeeps, RunJobKeeps, CloseKeeps, Zenon DEF BlockNext, WorkerStep
  <2> QED BY <2>1, <2>2, Zenon
<1> QED BY <1>1, BlockStarts, PTL DEF BlockSpec

\* The component never looks past what the driver has posted: avail, its count of the
\* requests it took from the ring, stays within the driver's index (process_pending).
THEOREM BlockTypeCorrect == BlockSpec => []BlockTypeOK
<1>1. BlockInv => BlockTypeOK
  <2> SUFFICES ASSUME BlockInv PROVE BlockTypeOK
    OBVIOUS
  <2>1. block.avail \in Nat /\ Len(ring.posted) \in Nat
    BY DEF BlockInv, BlockTypes, BlockRecord, RingRecord
  <2> QED BY <2>1 DEF BlockInv, BlockTypes, AvailInv, BlockTypeOK
<1> QED BY <1>1, BlockInvariant, PTL

\* What the block device writes into guest memory belongs to the ring the driver has now,
\* in the order of its requests (is_current, process_pending): an answer of the disk that
\* a reset or a close overtook is dropped, however many resets came before it and however
\* many requests were posted.
THEOREM CompletionsAreCurrent == BlockSpec => []NoStaleCompletion
<1>1. BlockInv => NoStaleCompletion
  BY Zenon DEF BlockInv
<1> QED BY <1>1, BlockInvariant, PTL

\* When close() has answered Ok, every write that reached the disk is durable and none is
\* on its way: the sync is the last job the disk gets.
THEOREM ClosedDiskIsDurable == BlockSpec => []CloseIsDurable
<1>1. BlockInv => CloseIsDurable
  BY Zenon DEF BlockInv, CloseInv
<1> QED BY <1>1, BlockInvariant, PTL

-----------------------------------------------------------------------------
(***************************************************************************)
(* The permits that open files of a share are paid with.                   *)
(***************************************************************************)

(* The descriptors that are open, and the calls that are opening one.      *)
OpenSlots == {r \in DescriptorSlots : descriptorTable[r] # Closed}
InFlight == {c \in OpenCalls : descOpening[c] # "idle"}

(* Types; no descriptor is closed without a permit that covers it.         *)
DescTypes ==
  /\ freePermits \in Nat
  /\ descriptorTable \in [DescriptorSlots -> {Closed, "file", "dir"}]
  /\ descOpening \in [OpenCalls -> {"idle", "open", "metadata"}]
  /\ closing \in [paid : Nat, unpaid : {0}]

(* Every permit is free, beside an open descriptor, with a call that is    *)
(* opening one, or with one that is being closed.                          *)
PermitsInv ==
  /\ permitOf = OpenSlots
  /\ freePermits + Cardinality(permitOf) + Cardinality(InFlight) + closing.paid = DescriptorBudget
  /\ shareIsReadOnly => ~modeSet

(* The inductive invariant.                                                *)
DescInv == DescTypes /\ PermitsInv

(* A permit can be taken from those there are.                             *)
LEMMA OneFewer == \A n \in Nat : n # 0 => n - 1 \in Nat
OBVIOUS

(* Both sets can be counted.                                               *)
LEMMA DescCounts ==
  ASSUME DescTypes
  PROVE  /\ IsFiniteSet(OpenSlots) /\ Cardinality(OpenSlots) \in Nat
         /\ IsFiniteSet(InFlight) /\ Cardinality(InFlight) \in Nat
<1>1. OpenSlots \subseteq DescriptorSlots /\ InFlight \subseteq OpenCalls
  BY DEF OpenSlots, InFlight
<1> QED
  BY <1>1, FS_Subset, FS_CardinalityType, DescriptorAssumption, Zenon

(* A new store has every permit free.                                      *)
LEMMA DescStarts == DescInit => DescInv
<1> SUFFICES ASSUME DescInit PROVE DescInv
  OBVIOUS
<1>1. DescTypes
  BY DescriptorAssumption, Zenon DEF DescInit, DescTypes
<1>2. OpenSlots = {} /\ InFlight = {}
  BY DEF DescInit, OpenSlots, InFlight
<1>3. Cardinality(OpenSlots) = 0 /\ Cardinality(InFlight) = 0
  BY <1>2, FS_EmptySet, Zenon
<1>4. freePermits + 0 + 0 + closing.paid = DescriptorBudget
  BY DescriptorAssumption DEF DescInit
<1>5. PermitsInv
  BY <1>2, <1>3, <1>4, Zenon DEF DescInit, PermitsInv
<1> QED
  BY <1>1, <1>5, Zenon DEF DescInv

(* push_descriptor makes one more open descriptor,                         *)
LEMMA SlotOpens ==
  ASSUME DescTypes, NEW r \in FreeSlots, NEW kind \in {"file", "dir"},
         descriptorTable' = [descriptorTable EXCEPT ![r] = kind]
  PROVE  /\ descriptorTable' \in [DescriptorSlots -> {Closed, "file", "dir"}]
         /\ OpenSlots' = OpenSlots \cup {r}
         /\ Cardinality(OpenSlots') = Cardinality(OpenSlots) + 1
<1>1. r \in DescriptorSlots /\ r \notin OpenSlots
  BY DEF FreeSlots, OpenSlots
<1>2. OpenSlots' = OpenSlots \cup {r}
  BY <1>1 DEF OpenSlots, DescTypes, Closed
<1>3. Cardinality(OpenSlots \cup {r}) = Cardinality(OpenSlots) + 1
  BY <1>1, DescCounts, FS_AddElement, Zenon
<1> QED
  BY <1>1, <1>2, <1>3, Zenon DEF DescTypes

(* a call that begins is one more in flight,                               *)
LEMMA CallBegins ==
  ASSUME DescTypes, NEW c \in OpenCalls, descOpening[c] = "idle", NEW call \in {"open", "metadata"},
         descOpening' = [descOpening EXCEPT ![c] = call]
  PROVE  /\ descOpening' \in [OpenCalls -> {"idle", "open", "metadata"}]
         /\ Cardinality(InFlight') = Cardinality(InFlight) + 1
<1>1. c \notin InFlight /\ InFlight' = InFlight \cup {c}
  BY DEF InFlight, DescTypes
<1>2. Cardinality(InFlight \cup {c}) = Cardinality(InFlight) + 1
  BY <1>1, DescCounts, FS_AddElement, Zenon
<1> QED
  BY <1>1, <1>2, Zenon DEF DescTypes

(* and one that ends is one less.                                          *)
LEMMA CallEnds ==
  ASSUME DescTypes, NEW c \in OpenCalls, descOpening[c] # "idle",
         descOpening' = [descOpening EXCEPT ![c] = "idle"]
  PROVE  /\ descOpening' \in [OpenCalls -> {"idle", "open", "metadata"}]
         /\ Cardinality(InFlight) = Cardinality(InFlight') + 1
<1>1. c \in InFlight /\ InFlight' = InFlight \ {c}
  BY DEF InFlight, DescTypes
<1>2. Cardinality(InFlight \ {c}) = Cardinality(InFlight) - 1
  BY <1>1, DescCounts, FS_RemoveElement, Zenon
<1>3. Cardinality(InFlight) \in Nat
  BY DescCounts
<1> QED
  BY <1>1, <1>2, <1>3 DEF DescTypes

(* The share's root is granted to the component.                           *)
LEMMA GrantKeeps == DescInv /\ GrantDirectory => DescInv'
<1> SUFFICES ASSUME DescInv, GrantDirectory PROVE DescInv'
  OBVIOUS
<1> USE DEF DescInv
<1>0. InFlight' = InFlight /\ UNCHANGED <<closing, shareIsReadOnly, modeSet>>
  BY Zenon DEF GrantDirectory, InFlight
<1>1. CASE FreeSlots = {}
  <2>1. UNCHANGED <<descriptorTable, permitOf, freePermits, descOpening>> /\ OpenSlots' = OpenSlots
    BY <1>1, Zenon DEF GrantDirectory, OpenSlots
  <2> QED
    BY <1>0, <2>1, Zenon DEF DescTypes, PermitsInv
<1>2. CASE FreeSlots # {}
  <2>1. PICK r \in FreeSlots : /\ descriptorTable' = [descriptorTable EXCEPT ![r] = "dir"]
                               /\ permitOf' = permitOf \cup {r}
    BY <1>2, Zenon DEF GrantDirectory
  <2>2. freePermits' = freePermits - 1 /\ freePermits > 0 /\ descOpening' = descOpening
    BY <1>2 DEF GrantDirectory
  <2>3. /\ descriptorTable' \in [DescriptorSlots -> {Closed, "file", "dir"}]
        /\ OpenSlots' = OpenSlots \cup {r}
        /\ Cardinality(OpenSlots') = Cardinality(OpenSlots) + 1
    BY <2>1, SlotOpens, Zenon
  <2>4. DescTypes'
    BY <1>0, <2>2, <2>3 DEF DescTypes
  <2>5. permitOf' = OpenSlots' /\ permitOf = OpenSlots
    BY <2>1, <2>3, Zenon DEF PermitsInv
  <2>6. freePermits' + Cardinality(OpenSlots') + Cardinality(InFlight') + closing'.paid = DescriptorBudget
    BY <1>0, <2>2, <2>3, <2>5, DescCounts DEF DescTypes, PermitsInv
  <2> QED
    BY <1>0, <2>4, <2>5, <2>6, Zenon DEF PermitsInv
<1> QED
  BY <1>1, <1>2, Zenon

(* open-at takes a permit before it opens,                                 *)
LEMMA BeginOpenKeeps ==
  ASSUME DescInv, NEW c \in OpenCalls, NEW r \in DescriptorSlots, BeginOpen(c, r)
  PROVE  DescInv'
<1> USE DEF DescInv
<1>0. OpenSlots' = OpenSlots /\ UNCHANGED <<descriptorTable, permitOf, closing, shareIsReadOnly, modeSet>>
  BY Zenon DEF BeginOpen, OpenSlots
<1>1. CASE freePermits = 0
  <2>1. UNCHANGED <<freePermits, descOpening>> /\ InFlight' = InFlight
    BY <1>1, Zenon DEF BeginOpen, InFlight
  <2> QED
    BY <1>0, <2>1, Zenon DEF DescTypes, PermitsInv
<1>2. CASE freePermits # 0
  <2>1. PICK call \in {"open", "metadata"} : descOpening' = [descOpening EXCEPT ![c] = call]
    BY <1>2, Zenon DEF BeginOpen
  <2>2. freePermits' = freePermits - 1 /\ descOpening[c] = "idle"
    BY <1>2 DEF BeginOpen
  <2>3. /\ descOpening' \in [OpenCalls -> {"idle", "open", "metadata"}]
        /\ Cardinality(InFlight') = Cardinality(InFlight) + 1
    BY <2>1, <2>2, CallBegins, Zenon
  <2>4. DescTypes'
    <3>1. freePermits' \in Nat
      BY <1>2, <2>2, OneFewer, Zenon DEF DescTypes
    <3> QED
      BY <1>0, <2>3, <3>1, Zenon DEF DescTypes
  <2>5. freePermits' + Cardinality(OpenSlots) + Cardinality(InFlight') + closing.paid = DescriptorBudget
    BY <2>2, <2>3, DescCounts DEF DescTypes, PermitsInv
  <2> QED
    BY <1>0, <2>4, <2>5, Zenon DEF PermitsInv
<1> QED
  BY <1>1, <1>2, Zenon

(* and its permit goes beside the new descriptor or is given back.         *)
LEMMA EndOpenKeeps ==
  ASSUME DescInv, NEW c \in OpenCalls, EndOpen(c)
  PROVE  DescInv'
<1> USE DEF DescInv
<1>0. UNCHANGED <<closing, shareIsReadOnly, modeSet>>
  BY DEF EndOpen
<1>1. /\ descOpening' \in [OpenCalls -> {"idle", "open", "metadata"}]
      /\ Cardinality(InFlight) = Cardinality(InFlight') + 1
  BY CallEnds, Zenon DEF EndOpen
<1>2. Cardinality(InFlight') \in Nat
  <2>1. InFlight' \subseteq OpenCalls
    BY DEF InFlight
  <2> QED
    BY <2>1, FS_Subset, FS_CardinalityType, DescriptorAssumption, Zenon
<1>3. CASE freePermits' = freePermits + 1 /\ UNCHANGED <<descriptorTable, permitOf>>
  <2>1. OpenSlots' = OpenSlots
    BY <1>3, Zenon DEF OpenSlots
  <2>2. DescTypes'
    <3>1. freePermits' \in Nat
      BY <1>3 DEF DescTypes
    <3> QED
      BY <1>0, <1>1, <1>3, <3>1, Zenon DEF DescTypes
  <2>3. freePermits' + Cardinality(OpenSlots) + Cardinality(InFlight') + closing.paid = DescriptorBudget
    <3> DEFINE o == Cardinality(OpenSlots)
               i == Cardinality(InFlight)
               j == Cardinality(InFlight')
               p == closing.paid
    <3>1. /\ freePermits \in Nat /\ o \in Nat /\ i \in Nat /\ j \in Nat /\ p \in Nat
          /\ i = j + 1 /\ freePermits' = freePermits + 1
          /\ freePermits + o + i + p = DescriptorBudget
      BY <1>1, <1>2, <1>3, DescCounts, Zenon DEF DescTypes, PermitsInv
    <3> HIDE DEF o, i, j, p
    <3>2. (freePermits + 1) + o + j + p = freePermits + o + (j + 1) + p
      BY <3>1
    <3> QED
      BY <3>1, <3>2, Zenon DEF o, j, p
  <2> QED
    BY <1>0, <1>3, <2>1, <2>2, <2>3, Zenon DEF PermitsInv
<1>4. CASE ~(freePermits' = freePermits + 1 /\ UNCHANGED <<descriptorTable, permitOf>>)
  <2>1. PICK kind \in {"file", "dir"} : PushDescriptor(kind)
    BY <1>4, Zenon DEF EndOpen
  <2>2. freePermits' = freePermits
        /\ \E r \in FreeSlots : /\ descriptorTable' = [descriptorTable EXCEPT ![r] = kind]
                                /\ permitOf' = permitOf \cup {r}
    BY <1>4, <2>1 DEF PushDescriptor
  <2>3. PICK r \in FreeSlots : /\ descriptorTable' = [descriptorTable EXCEPT ![r] = kind]
                               /\ permitOf' = permitOf \cup {r}
    BY <2>2, Zenon
  <2>4. /\ descriptorTable' \in [DescriptorSlots -> {Closed, "file", "dir"}]
        /\ OpenSlots' = OpenSlots \cup {r}
        /\ Cardinality(OpenSlots') = Cardinality(OpenSlots) + 1
    BY <2>3, SlotOpens, Zenon
  <2>5. DescTypes'
    BY <1>0, <1>1, <2>2, <2>4, Zenon DEF DescTypes
  <2>6. permitOf' = OpenSlots' /\ permitOf = OpenSlots
    BY <2>3, <2>4, Zenon DEF PermitsInv
  <2>7. freePermits' + Cardinality(OpenSlots') + Cardinality(InFlight') + closing.paid = DescriptorBudget
    BY <1>1, <1>2, <2>2, <2>4, <2>6, DescCounts DEF DescTypes, PermitsInv
  <2> QED
    BY <1>0, <2>5, <2>6, <2>7, Zenon DEF PermitsInv
<1> QED
  BY <1>3, <1>4, Zenon

(* retire_descriptor sends the permit along with the descriptor,           *)
LEMMA RetireKeeps ==
  ASSUME DescInv, NEW r \in DescriptorSlots, RetireDescriptor(r)
  PROVE  DescInv'
<1> USE DEF DescInv
<1> DEFINE more == closing.paid + 1
<1>0. InFlight' = InFlight /\ UNCHANGED <<descOpening, freePermits, shareIsReadOnly, modeSet>>
  BY Zenon DEF RetireDescriptor, CloseThenReturn, InFlight
<1>1. r \in OpenSlots /\ permitOf = OpenSlots
  BY Zenon DEF RetireDescriptor, OpenSlots, PermitsInv
<1>2. OpenSlots' = OpenSlots \ {r} /\ permitOf' = OpenSlots \ {r}
  BY <1>1 DEF RetireDescriptor, OpenSlots, DescTypes
<1>3. Cardinality(OpenSlots') = Cardinality(OpenSlots) - 1
  BY <1>1, <1>2, DescCounts, FS_RemoveElement, Zenon
<1>4. more \in Nat
  BY DEF DescTypes
<1>5. closing' = [closing EXCEPT !.paid = more]
  BY <1>1 DEF RetireDescriptor, CloseThenReturn
<1>6. closing' \in [paid : Nat, unpaid : {0}] /\ closing'.paid = more
  <2> HIDE DEF more
  <2> QED BY <1>4, <1>5, Zenon DEF DescTypes
<1>7. descriptorTable' \in [DescriptorSlots -> {Closed, "file", "dir"}]
  BY Zenon DEF RetireDescriptor, DescTypes
<1>8. freePermits' + Cardinality(OpenSlots') + Cardinality(InFlight') + closing'.paid = DescriptorBudget
  BY <1>0, <1>1, <1>3, <1>6, DescCounts DEF DescTypes, PermitsInv
<1> QED
  BY <1>0, <1>2, <1>6, <1>7, <1>8, Zenon DEF DescTypes, PermitsInv

(* which frees it once the descriptor is closed.                           *)
LEMMA CloseDescriptorKeeps == DescInv /\ CloseDescriptor => DescInv'
<1> SUFFICES ASSUME DescInv, CloseDescriptor PROVE DescInv'
  OBVIOUS
<1> USE DEF DescInv
<1> DEFINE less == closing.paid - 1
<1>0. /\ InFlight' = InFlight /\ OpenSlots' = OpenSlots
      /\ UNCHANGED <<descriptorTable, permitOf, descOpening, shareIsReadOnly, modeSet>>
  BY DEF CloseDescriptor, InFlight, OpenSlots
<1>1. closing.paid > 0 /\ freePermits' = freePermits + 1 /\ closing' = [closing EXCEPT !.paid = less]
  BY DEF CloseDescriptor, DescTypes
<1>2. less \in Nat
  BY <1>1 DEF DescTypes
<1>3. closing' \in [paid : Nat, unpaid : {0}] /\ closing'.paid = less
  <2> HIDE DEF less
  <2> QED BY <1>1, <1>2 DEF DescTypes
<1>4. freePermits' + Cardinality(OpenSlots) + Cardinality(InFlight) + closing'.paid = DescriptorBudget
  BY <1>1, <1>3, DescCounts DEF DescTypes, PermitsInv
<1> QED
  BY <1>0, <1>1, <1>3, <1>4 DEF DescTypes, PermitsInv

(* A store that is dropped retires everything at once.                     *)
LEMMA RetireStoreKeeps == DescInv /\ RetireStore => DescInv'
<1> SUFFICES ASSUME DescInv, RetireStore PROVE DescInv'
  OBVIOUS
<1> USE DEF DescInv
<1>1. OpenSlots' = {} /\ InFlight' = {} /\ permitOf' = {} /\ UNCHANGED <<closing, shareIsReadOnly, modeSet>>
  BY DEF RetireStore, OpenSlots, InFlight
<1>2. freePermits' = freePermits + Cardinality(permitOf) + Cardinality(InFlight)
  BY DEF RetireStore, InFlight
<1>3. Cardinality({}) = 0
  BY FS_EmptySet, Zenon
<1>4. freePermits' + 0 + 0 + closing.paid = DescriptorBudget
  BY <1>2, DescCounts DEF DescTypes, PermitsInv
<1>5. freePermits' \in Nat
  BY <1>2, DescCounts DEF DescTypes, PermitsInv
<1>6. DescTypes'
  BY <1>1, <1>5 DEF RetireStore, DescTypes
<1> QED
  BY <1>1, <1>3, <1>4, <1>6, Zenon DEF PermitsInv

(* The permits always add up.                                              *)
LEMMA DescInvariant == DescSpec => []DescInv
<1>1. DescInit => DescInv
  BY DescStarts, Zenon
<1>2. DescInv /\ [DescNext]_descVars => DescInv'
  <2> SUFFICES ASSUME DescInv, [DescNext]_descVars PROVE DescInv'
    OBVIOUS
  <2>1. CASE \E r \in DescriptorSlots : RetireDescriptor(r)
    BY <2>1, RetireKeeps, Zenon
  <2>2. CASE \E r \in DescriptorSlots : ReadByClone(r) \/ WriteByClone(r)
    <3>1. /\ UNCHANGED <<freePermits, descriptorTable, permitOf, descOpening, closing, shareIsReadOnly>>
          /\ UNCHANGED modeSet \/ ~shareIsReadOnly
      BY <2>2, Zenon DEF ReadByClone, WriteByClone
    <3>2. DescTypes' /\ OpenSlots' = OpenSlots /\ InFlight' = InFlight
      BY <3>1 DEF DescInv, DescTypes, OpenSlots, InFlight
    <3> QED
      <4>1. freePermits' = freePermits /\ permitOf' = permitOf /\ closing' = closing
        BY <3>1, Zenon
      <4>2. (freePermits + Cardinality(permitOf) + Cardinality(InFlight) + closing.paid = DescriptorBudget)'
        BY <3>2, <4>1 DEF DescInv, PermitsInv
      <4>3. permitOf' = OpenSlots'
        BY <3>2, <4>1, Zenon DEF DescInv, PermitsInv
      <4>4. shareIsReadOnly' => ~modeSet'
        BY <3>1, Zenon DEF DescInv, PermitsInv
      <4> QED
        BY <3>2, <4>2, <4>3, <4>4, Zenon DEF DescInv, PermitsInv
  <2>3. CASE \E r \in DescriptorSlots, c \in OpenCalls : BeginOpen(c, r)
    BY <2>3, BeginOpenKeeps, Zenon
  <2>4. CASE \E c \in OpenCalls : EndOpen(c)
    BY <2>4, EndOpenKeeps, Zenon
  <2>5. CASE EndClone \/ UNCHANGED descVars
    <3>1. UNCHANGED <<freePermits, descriptorTable, permitOf, descOpening, closing, shareIsReadOnly, modeSet>>
      BY <2>5, Zenon DEF EndClone, descVars
    <3>2. OpenSlots' = OpenSlots /\ InFlight' = InFlight
      BY <3>1, Zenon DEF OpenSlots, InFlight
    <3> QED
      BY <3>1, <3>2, Zenon DEF DescInv, DescTypes, PermitsInv
  <2> QED
    BY <2>1, <2>2, <2>3, <2>4, <2>5, GrantKeeps, CloseDescriptorKeeps, RetireStoreKeeps, Zenon DEF DescNext
<1> QED
  BY <1>1, <1>2, PTL DEF DescSpec

(* For any number of descriptors, calls and permits: the host files open   *)
(* for a component, being opened or being closed never outnumber the       *)
(* budget, no permit is lost or paid twice (open-at, push_descriptor,      *)
(* retire_descriptor), and a read-only share's modes are never set.        *)
THEOREM OpenFilesStayInBudget == DescSpec => []DescriptorsArePaid
<1>1. DescInv => DescriptorsArePaid
  <2> SUFFICES ASSUME DescInv PROVE DescriptorsArePaid
    OBVIOUS
  <2>1. Cardinality(OpenSlots) + Cardinality(InFlight) + closing.paid + closing.unpaid <= DescriptorBudget
    BY DescCounts DEF DescInv, DescTypes, PermitsInv
  <2> QED
    BY <2>1, Zenon DEF DescriptorsArePaid, DescInv, PermitsInv, OpenSlots, InFlight
<1> QED
  BY <1>1, DescInvariant, PTL
=============================================================================
