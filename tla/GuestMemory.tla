---------------------------- MODULE GuestMemory ----------------------------
EXTENDS Integers, Sequences, FiniteSets
LOCAL INSTANCE FiniteSetsExt
LOCAL INSTANCE SequencesExt

(***************************************************************************)
(* A device's copies to and from guest memory, from the device's side      *)
(* (device-transport read_guest_ranges, write_guest_ranges) through the    *)
(* host's bounded imports (terra-runtime memory.rs) to the regions of RAM  *)
(* (terra-hypervisor memory.rs), and the discarding of pages.  A copy is   *)
(* cut into pieces and the pieces into batches, one host call each; the    *)
(* guest stores to its memory meanwhile.                                   *)
(***************************************************************************)

CONSTANTS Regions,         \* [base, size]: guest RAM, apart
          AddressTop,      \* where guest addresses overflow (2^64)
          CopyRanges,      \* ranges [addr, len] a copy may name
          MaxCopyRanges,   \* ranges of one copy
          MaxSingleCopy, MaxBatchCopy, MaxBatchRanges,
          PageSizes,       \* page sizes of the host
          DiscardBytes     \* MAX_RECLAIM_REPORT_BYTES

VARIABLES ram,             \* the byte at each address of the regions
          copy,            \* the copy that runs
          guestStored      \* the address the guest stored to meanwhile

copyVars == <<ram, copy, guestStored>>

Mapped == UNION {r.base..(r.base + r.size - 1) : r \in Regions}
RamLimit == Max({r.base + r.size : r \in Regions})
NotYet == AddressTop

FirstByte(a) == a
GuestByte == 2 * AddressTop
Zero == 3 * AddressTop
DataByte(i) == AddressTop + i

-----------------------------------------------------------------------------
(* The device's side.                                                      *)

Overflows(range) == range.addr + range.len > AddressTop

(* The pieces of a range, each of one single copy at most.                 *)
Pieces(range) ==
  [i \in 1..((range.len + MaxSingleCopy - 1) \div MaxSingleCopy) |->
    [addr |-> range.addr + (i - 1) * MaxSingleCopy,
     len |-> Min({MaxSingleCopy, range.len - (i - 1) * MaxSingleCopy})]]

BatchBytes(batch) == MapThenSumSet(LAMBDA i : batch[i].len, DOMAIN batch)

(* A batch closed one piece too late.                                      *)
BatchIsFull(batch, piece) ==
  /\ batch # <<>>
  /\ Len(batch) = MaxBatchRanges \/ BatchBytes(batch) + piece.len > MaxBatchCopy

(* for_each_batch.                                                         *)
ForEachBatch(pieces) ==
  FoldLeft(LAMBDA done, piece :
             IF done = <<>> \/ BatchIsFull(Last(done), piece) THEN Append(done, <<piece>>)
             ELSE [done EXCEPT ![Len(done)] = Append(@, piece)],
           <<>>, pieces)

-----------------------------------------------------------------------------
(* The host's side.                                                        *)

CopyLenAllowed(len) == len <= MaxSingleCopy

(* One piece goes by itself, several as a batch.                           *)
HostAdmits(batch) ==
  /\ \A i \in DOMAIN batch : CopyLenAllowed(batch[i].len)
  /\ Len(batch) > 1 => Len(batch) <= MaxBatchRanges /\ BatchBytes(batch) <= MaxBatchCopy

ContainsRange(range) ==
  /\ ~Overflows(range) /\ range.addr + range.len <= RamLimit
  /\ \E r \in Regions : r.base <= range.addr /\ range.addr + range.len <= r.base + r.size

ReadBytes(range) == [i \in 1..range.len |-> ram[range.addr + i - 1]]

(* The whole host pages of a range; its region starts on a host page.      *)
FullHostPages(range, page) ==
  LET region == CHOOSE r \in Regions : /\ r.base <= range.addr
                                       /\ range.addr + range.len <= r.base + r.size
      offset == range.addr - region.base
      start == ((offset + page - 1) \div page) * page
      end == ((offset + range.len) \div page) * page
  IN IF end > start THEN (region.base + start)..(region.base + end - 1) ELSE {}

(* Pages rounded outward.                                                  *)
TouchedHostPages(range, page) ==
  LET region == CHOOSE r \in Regions : /\ r.base <= range.addr
                                       /\ range.addr + range.len <= r.base + r.size
      offset == range.addr - region.base
      start == (offset \div page) * page
      end == ((offset + range.len + page - 1) \div page) * page
  IN ((region.base + start)..(region.base + end - 1)) \cap Mapped

DiscardHostRange(range, page) == FullHostPages(range, page)

-----------------------------------------------------------------------------

CopyInit ==
  /\ ram = [a \in Mapped |-> FirstByte(a)]
  /\ guestStored = NotYet
  /\ \E op \in {"read", "write", "discard"}, n \in 0..MaxCopyRanges, page \in PageSizes :
       \E ranges \in [1..n -> CopyRanges] :
         copy = [op |-> op, ranges |-> ranges, page |-> page, status |-> "new",
                 todo |-> <<>>, bytes |-> <<>>, written |-> 0]

GuestStores(a) ==
  /\ guestStored = NotYet /\ copy.op # "discard" /\ copy.status = "copying"
  /\ ram' = [ram EXCEPT ![a] = GuestByte]
  /\ guestStored' = a
  /\ UNCHANGED copy

(* The addresses are checked for overflow first.                           *)
BeginCopy ==
  /\ copy.status = "new" /\ copy.op # "discard"
  /\ copy' = IF \E i \in DOMAIN copy.ranges : Overflows(copy.ranges[i])
             THEN [copy EXCEPT !.status = "unmapped"]
             ELSE [copy EXCEPT !.status = "copying", !.todo = ForEachBatch(
                     FlattenSeq([i \in DOMAIN copy.ranges |-> Pieces(copy.ranges[i])]))]
  /\ UNCHANGED <<ram, guestStored>>

(* One host call: every range of the batch is checked before any byte.     *)
IssueBatch ==
  /\ copy.status = "copying" /\ copy.todo # <<>>
  /\ LET batch == Head(copy.todo)
         before(i) == MapThenSumSet(LAMBDA j : batch[j].len, 1..(i - 1))
         written(a) == {i \in DOMAIN batch : batch[i].addr <= a /\ a < batch[i].addr + batch[i].len}
     IN IF ~HostAdmits(batch) THEN copy' = [copy EXCEPT !.status = "tooLarge"] /\ UNCHANGED ram
        ELSE IF \E i \in DOMAIN batch : ~ContainsRange(batch[i])
        THEN copy' = [copy EXCEPT !.status = "unmapped"] /\ UNCHANGED ram
        ELSE IF copy.op = "read"
        THEN /\ copy' = [copy EXCEPT !.todo = Tail(@),
                           !.bytes = @ \o FlattenSeq([i \in DOMAIN batch |-> ReadBytes(batch[i])])]
             /\ UNCHANGED ram
        ELSE /\ ram' = [a \in Mapped |->
                 IF written(a) = {} THEN ram[a]
                 ELSE LET i == Max(written(a))
                      IN DataByte(copy.written + before(i) + a - batch[i].addr)]
             /\ copy' = [copy EXCEPT !.todo = Tail(@), !.written = @ + BatchBytes(batch)]
  /\ UNCHANGED guestStored

EndCopy ==
  /\ copy.status = "copying" /\ copy.todo = <<>>
  /\ copy' = [copy EXCEPT !.status = "done"]
  /\ UNCHANGED <<ram, guestStored>>

(* GuestRam::discard: the whole list is valid before a page goes.          *)
Discard ==
  /\ copy.status = "new" /\ copy.op = "discard"
  /\ LET ranges == copy.ranges
         valid == /\ BatchBytes(ranges) <= DiscardBytes
                  /\ \A i \in DOMAIN ranges : /\ ranges[i].len > 0
                                              /\ ContainsRange(ranges[i])
                                              /\ FullHostPages(ranges[i], copy.page) # {}
         pages == UNION {DiscardHostRange(ranges[i], copy.page) : i \in DOMAIN ranges}
     IN IF valid
        THEN /\ ram' = [a \in Mapped |-> IF a \in pages THEN Zero ELSE ram[a]]
             /\ copy' = [copy EXCEPT !.status = "done"]
        ELSE /\ copy' = [copy EXCEPT !.status = "refused"]
             /\ UNCHANGED ram
  /\ UNCHANGED guestStored

CopyNext == BeginCopy \/ IssueBatch \/ EndCopy \/ Discard \/ \E a \in Mapped : GuestStores(a)

CopySpec == CopyInit /\ [][CopyNext]_copyVars

-----------------------------------------------------------------------------

RangeBytes(range) == range.addr..(range.addr + range.len - 1)
Named == UNION {RangeBytes(copy.ranges[i]) : i \in DOMAIN copy.ranges}

(* The address and the position in the copy of each byte of its ranges.    *)
Addresses == FlattenSeq([i \in DOMAIN copy.ranges |->
                          [k \in 1..copy.ranges[i].len |-> copy.ranges[i].addr + k - 1]])

(* A device's copy is never refused for its size, because the device cuts  *)
(* it to what the host admits (for_each_batch, BoundedMemory); a copy that *)
(* succeeds moved every byte of its ranges in their order, and whatever    *)
(* becomes of it no byte outside them changes; a discard empties nothing   *)
(* but whole host pages inside its ranges, all or nothing                  *)
(* (discard_host_range).                                                   *)
CopiesAreExact ==
  /\ copy.status # "tooLarge"
  /\ \A a \in Mapped \ Named : ram[a] = FirstByte(a) \/ (a = guestStored /\ ram[a] = GuestByte)
  /\ copy.op = "read" /\ copy.status = "done" =>
       /\ Len(copy.bytes) = Len(Addresses)
       /\ \A k \in DOMAIN Addresses :
            \/ copy.bytes[k] = FirstByte(Addresses[k])
            \/ guestStored = Addresses[k] /\ copy.bytes[k] = GuestByte
  /\ copy.op = "write" /\ copy.status = "done" =>
       \A k \in DOMAIN Addresses :
         \/ ram[Addresses[k]] = DataByte(k - 1)
         \/ \E l \in DOMAIN Addresses : l > k /\ Addresses[l] = Addresses[k]
         \/ guestStored = Addresses[k] /\ ram[Addresses[k]] = GuestByte
  /\ copy.op = "discard" /\ copy.status = "refused" => \A a \in Mapped : ram[a] = FirstByte(a)

------------------------------------------------------------------------------
(***************************************************************************)
(* The split virtqueue of the block, file-sharing and memory devices       *)
(* (device-transport read_split_ring_available, split_ring_chain,          *)
(* complete_split_ring_entry): a driver publishes descriptor chains in the *)
(* available ring, the device walks them and publishes the used ring, each *)
(* guest-memory access a step of its own.  Indices wrap (2^16 there).  In  *)
(* a second kind of behaviour the walk is given any table at all, which a  *)
(* driver may write.                                                       *)
(***************************************************************************)

CONSTANTS RingSize,        \* entries of the ring, a power of two
          IndexModulus,    \* where the indices wrap
          RingMaxPosts,
          ChainLimit,      \* max_descriptors
          WalkTables       \* tables a walk is tried with

VARIABLES avail, used,     \* the rings in guest memory: idx and ring
          descriptors,     \* the descriptor table in guest memory
          driverSide,      \* the driver: step, free descriptors, indices
          deviceSide,      \* the device: step, next entry, chain in hand
          postedChains,    \* requests on their way: head to chain
          ringPosts,
          walkCase         \* a walk of any table, or none

ringVars == <<avail, used, descriptors, driverSide, deviceSide, postedChains, ringPosts, walkCase>>

Slots == 0..(RingSize - 1)
NoHead == RingSize
NoWalk == [table |-> <<>>, head |-> 0, limit |-> 0]
PlainDescriptor == [next |-> 0, hasNext |-> FALSE, allowed |-> TRUE]

(* visited: a descriptor met twice is refused, so is one past the ring or  *)
(* with a flag the device does not know.                                   *)
WalkStep(table, walk) ==
  LET i == walk.index
      d == table[i]
      size == Cardinality(DOMAIN table)
  IN IF walk.status # "walking" THEN walk
     ELSE IF i >= size \/ i \in ToSet(walk.chain) THEN [walk EXCEPT !.status = "bad"]
     ELSE IF ~d.allowed THEN [walk EXCEPT !.status = "bad"]
     ELSE IF ~d.hasNext THEN [walk EXCEPT !.chain = Append(@, i), !.status = "ok"]
     ELSE IF d.next >= size \/ d.next \in ToSet(walk.chain) \cup {i}
     THEN [walk EXCEPT !.status = "bad"]
     ELSE [walk EXCEPT !.chain = Append(@, i), !.index = d.next]

(* A walk that trusts the table to end.                                    *)
WalkForever(table, index, limit) ==
  LET walked == FoldLeft(LAMBDA w, n : IF w.status = "walking" /\ w.index \in DOMAIN table
                           THEN [chain |-> Append(w.chain, w.index),
                                 index |-> table[w.index].next,
                                 status |-> IF table[w.index].hasNext THEN "walking" ELSE "ok"]
                           ELSE w,
                         [chain |-> <<>>, index |-> index, status |-> "walking"],
                         [n \in 1..limit |-> n])
  IN IF walked.status = "walking" THEN [walked EXCEPT !.status = "tooLong"] ELSE walked

SplitRingChain(table, index, limit) ==
  LET walked == FoldLeft(LAMBDA w, n : WalkStep(table, w),
                         [chain |-> <<>>, index |-> index,
                          status |-> IF limit = 0 THEN "bad" ELSE "walking"],
                         [n \in 1..limit |-> n])
  IN IF walked.status = "walking" THEN [walked EXCEPT !.status = "tooLong"] ELSE walked

-----------------------------------------------------------------------------

RingInit ==
  /\ avail = [idx |-> 0, ring |-> [s \in Slots |-> NoHead]]
  /\ used = [idx |-> 0, ring |-> [s \in Slots |-> NoHead]]
  /\ descriptors = [s \in Slots |-> PlainDescriptor]
  /\ driverSide = [at |-> "idle", free |-> Slots, idx |-> 0, head |-> NoHead, seen |-> 0,
                   got |-> NoHead]
  /\ deviceSide = [at |-> "idle", next |-> 0, head |-> NoHead, chain |-> <<>>, slot |-> 0]
  /\ postedChains = [s \in Slots |-> <<>>]
  /\ ringPosts = 0
  /\ \/ walkCase = NoWalk
     \/ \E t \in WalkTables :
          \E head, limit \in 0..Cardinality(DOMAIN t) :
            walkCase = [table |-> t, head |-> head, limit |-> limit]

Runs == walkCase = NoWalk

(* The driver links a chain of free descriptors and writes its head.       *)
PostChain ==
  /\ Runs /\ driverSide.at = "idle" /\ ringPosts < RingMaxPosts
  /\ \E n \in 1..ChainLimit : \E p \in [1..n -> driverSide.free] :
       /\ \A i, j \in 1..n : i # j => p[i] # p[j]
       /\ descriptors' = [s \in Slots |->
            IF \E i \in 1..n : p[i] = s
            THEN LET i == CHOOSE i \in 1..n : p[i] = s
                 IN [next |-> IF i < n THEN p[i + 1] ELSE 0, hasNext |-> i < n, allowed |-> TRUE]
            ELSE descriptors[s]]
       /\ driverSide' = [driverSide EXCEPT !.at = "publish", !.head = p[1],
                                           !.free = @ \ {p[i] : i \in 1..n}]
       /\ avail' = [avail EXCEPT !.ring[driverSide.idx % RingSize] = p[1]]
       /\ postedChains' = [postedChains EXCEPT ![p[1]] = p]
  /\ ringPosts' = ringPosts + 1
  /\ UNCHANGED <<used, deviceSide, walkCase>>

PublishAvailable ==
  /\ driverSide.at = "publish"
  /\ avail' = [avail EXCEPT !.idx = (driverSide.idx + 1) % IndexModulus]
  /\ driverSide' = [driverSide EXCEPT !.at = "idle", !.idx = (@ + 1) % IndexModulus]
  /\ UNCHANGED <<used, descriptors, deviceSide, postedChains, ringPosts, walkCase>>

(* The driver takes a used entry once the index says it is there.          *)
CollectUsed ==
  /\ driverSide.at = "idle" /\ used.idx # driverSide.seen
  /\ LET head == used.ring[driverSide.seen % RingSize]
     IN /\ driverSide' = [driverSide EXCEPT
                            !.seen = (@ + 1) % IndexModulus, !.got = head,
                            !.free = @ \cup (IF head \in Slots THEN ToSet(postedChains[head])
                                             ELSE {})]
        /\ postedChains' = IF head \in Slots THEN [postedChains EXCEPT ![head] = <<>>]
                           ELSE postedChains
  /\ UNCHANGED <<avail, used, descriptors, deviceSide, ringPosts, walkCase>>

-----------------------------------------------------------------------------

ResyncPending(next, available) ==
  LET count == (available - next) % IndexModulus
  IN IF count <= RingSize THEN [next |-> next, count |-> count]
     ELSE [next |-> available, count |-> 0]

(* read_split_ring_available: the index, then the head at the next entry.  *)
ReadAvailableIndex ==
  /\ Runs /\ deviceSide.at = "idle"
  /\ LET pending == ResyncPending(deviceSide.next, avail.idx)
     IN /\ pending.count > 0 \/ pending.next # deviceSide.next
        /\ deviceSide' = [deviceSide EXCEPT !.next = pending.next,
                            !.at = IF pending.count > 0 THEN "head" ELSE "idle"]
  /\ UNCHANGED <<avail, used, descriptors, driverSide, postedChains, ringPosts, walkCase>>

ReadAvailableHead ==
  /\ deviceSide.at = "head"
  /\ deviceSide' = [deviceSide EXCEPT !.at = "walk", !.head = avail.ring[deviceSide.next % RingSize]]
  /\ UNCHANGED <<avail, used, descriptors, driverSide, postedChains, ringPosts, walkCase>>

(* The table is read and walked; a request is executed on its chain.       *)
TakeChain ==
  /\ deviceSide.at = "walk"
  /\ LET walk == SplitRingChain(descriptors, deviceSide.head, ChainLimit)
     IN deviceSide' = [deviceSide EXCEPT !.next = (@ + 1) % IndexModulus,
                         !.chain = walk.chain,
                         !.at = IF walk.status = "ok" THEN "index" ELSE "failed"]
  /\ UNCHANGED <<avail, used, descriptors, driverSide, postedChains, ringPosts, walkCase>>

(* complete_split_ring_entry: the used index, the entry, the index again.  *)
ReadUsedIndex ==
  /\ deviceSide.at = "index"
  /\ deviceSide' = [deviceSide EXCEPT !.at = "entry", !.slot = used.idx]
  /\ UNCHANGED <<avail, used, descriptors, driverSide, postedChains, ringPosts, walkCase>>

(* The index first.                                                        *)
PublishUsed ==
  \/ /\ deviceSide.at = "entry"
     /\ used' = [used EXCEPT !.ring[deviceSide.slot % RingSize] = deviceSide.head]
     /\ deviceSide' = [deviceSide EXCEPT !.at = "publish"]
     /\ UNCHANGED <<avail, descriptors, driverSide, postedChains, ringPosts, walkCase>>
  \/ /\ deviceSide.at = "publish"
     /\ used' = [used EXCEPT !.idx = (deviceSide.slot + 1) % IndexModulus]
     /\ deviceSide' = [deviceSide EXCEPT !.at = "idle", !.chain = <<>>]
     /\ UNCHANGED <<avail, descriptors, driverSide, postedChains, ringPosts, walkCase>>

RingNext == \/ PostChain \/ PublishAvailable \/ CollectUsed
            \/ ReadAvailableIndex \/ ReadAvailableHead \/ TakeChain \/ ReadUsedIndex
            \/ PublishUsed

RingSpec == RingInit /\ [][RingNext]_ringVars

-----------------------------------------------------------------------------

(* The device works on exactly the chain its driver posted under the head, *)
(* the driver collects no entry the device did not finish and none twice,  *)
(* and no published request is lost, through wraps of the indices          *)
(* (read_split_ring_available, complete_split_ring_entry).                 *)
RingDeliversOnce ==
  /\ deviceSide.at \in {"index", "entry", "publish"} =>
       deviceSide.chain = postedChains[deviceSide.head]
  /\ deviceSide.at # "failed"
  /\ \A i \in 0..(RingSize - 1) :
       i < (used.idx - driverSide.seen) % IndexModulus =>
         LET head == used.ring[(driverSide.seen + i) % RingSize]
         IN /\ head \in Slots /\ postedChains[head] # <<>>
            /\ deviceSide.at \in {"index", "entry", "publish"} => head # deviceSide.head
  /\ LET inUse == Cardinality({s \in Slots : postedChains[s] # <<>>})
         waiting == (avail.idx - deviceSide.next) % IndexModulus
         finished == (used.idx - driverSide.seen) % IndexModulus
         unpublished == IF driverSide.at = "publish" THEN 1 ELSE 0
         inHand == IF deviceSide.at \in {"index", "entry", "publish"} THEN 1 ELSE 0
     IN inUse = waiting + finished + unpublished + inHand

(* Whatever the table holds, a walk ends with a path of distinct, known    *)
(* descriptors from the head to the first one without a successor, or      *)
(* fails exactly when there is no such path within the limit               *)
(* (split_ring_chain).                                                     *)
WalksAreChains ==
  walkCase # NoWalk =>
    LET t == walkCase.table
        result == SplitRingChain(t, walkCase.head, walkCase.limit)
        isPath(p) == /\ p[1] = walkCase.head
                     /\ \A i \in DOMAIN p : t[p[i]].allowed /\ (t[p[i]].hasNext <=> i < Len(p))
                     /\ \A i \in 1..(Len(p) - 1) : p[i + 1] = t[p[i]].next
                     /\ Cardinality(ToSet(p)) = Len(p)
        paths == {p \in UNION {[1..n -> DOMAIN t] : n \in 1..walkCase.limit} : isPath(p)}
    IN IF paths = {} THEN result.status # "ok"
       ELSE result.status = "ok" /\ result.chain \in paths
==============================================================================
