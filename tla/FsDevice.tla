----------------------------- MODULE FsDevice -----------------------------
EXTENDS Integers, Sequences, FiniteSets, Functions, TLC

(***************************************************************************)
(* The tables of the filesystem device (components/fs/src/transport.rs,    *)
(* `State`): the node ids handed to the guest, the open handles and        *)
(* directories, the entries file events are reported against and the one   *)
(* pending event request.  A file is its identity (dev, ino); descriptors  *)
(* are left out.  Every operator takes a table and returns a table.        *)
(***************************************************************************)

CONSTANTS MaxNodes,       \* max_nodes, the size of the node table (root included)
          MaxHandles,     \* MAX_HANDLES
          MaxDirectories, \* MAX_DIRECTORIES
          MaxEntries      \* MAX_NODES as the bound of event_entries

RootNode == 1
RootFile == 0
NoEvent == [unique |-> 0, life |-> 0, taken |-> FALSE]

LOCAL Smallest(S) == CHOOSE x \in S : \A y \in S : x <= y
LOCAL Without(f, x) == Restrict(f, DOMAIN f \ {x})
LOCAL With(f, x, v) == [y \in DOMAIN f \cup {x} |-> IF y = x THEN v ELSE f[y]]

\* State::new keeps the root's record and forgets the rest.
NewTable ==
    [nodes |-> (RootNode :> [file |-> RootFile, lookups |-> 1]), unused |-> {},
     handles |-> <<>>, directories |-> <<>>, nextHandle |-> 2, nextNode |-> 2,
     entries |-> <<>>, events |-> FALSE, request |-> NoEvent]

\* node_id_by_identity: the node id of a file, 0 when it has none.
IdOfFile(t, file) ==
    LET ids == {n \in DOMAIN t.nodes : t.nodes[n].file = file}
    IN  IF ids = {} THEN 0 ELSE Smallest(ids)

NodeIsHeld(t, id) == \/ \E h \in DOMAIN t.handles : t.handles[h].node = id
                     \/ \E d \in DOMAIN t.directories : t.directories[d] = id

MarkUnusedIfUnheld(t, id) ==
    IF id # RootNode /\ id \in DOMAIN t.nodes /\ t.nodes[id].lookups = 0 /\ ~NodeIsHeld(t, id)
    THEN [t EXCEPT !.unused = @ \cup {id}] ELSE t

Forget(t, id, count) ==
    IF id = RootNode \/ id \notin DOMAIN t.nodes THEN t
    ELSE LET left == IF t.nodes[id].lookups > count THEN t.nodes[id].lookups - count ELSE 0
         IN  MarkUnusedIfUnheld([t EXCEPT !.nodes[id].lookups = left], id)

EvictUnusedNode(t) ==
    IF t.unused = {} THEN t
    ELSE LET id == Smallest(t.unused)
         IN  [t EXCEPT !.unused = @ \ {id}, !.nodes = Without(@, id)]

IncrementLookup(t, id) ==
    IF id \notin DOMAIN t.nodes THEN t
    ELSE [t EXCEPT !.nodes[id].lookups = @ + 1, !.unused = @ \ {id}]

\* node_id: the table after a lookup of `file`, and its id (0 for EMFILE).
NodeId(t, file) ==
    LET known == IdOfFile(t, file)
        room  == IF Cardinality(DOMAIN t.nodes) = MaxNodes THEN EvictUnusedNode(t) ELSE t
    IN  IF known # 0 THEN [table |-> IncrementLookup(t, known), id |-> known]
        ELSE IF Cardinality(DOMAIN room.nodes) = MaxNodes THEN [table |-> room, id |-> 0]
        ELSE [table |-> [room EXCEPT !.nodes = With(@, t.nextNode, [file |-> file, lookups |-> 1]),
                                     !.nextNode = @ + 1],
              id    |-> t.nextNode]

\* store_handle: EMFILE (id 0) when the table of handles is full.
StoreHandle(t, node, writable) ==
    IF Cardinality(DOMAIN t.handles) = MaxHandles THEN [table |-> t, id |-> 0]
    ELSE [table |-> [t EXCEPT !.handles = With(@, t.nextHandle, [node |-> node, writable |-> writable]),
                              !.nextHandle = @ + 1, !.unused = @ \ {node}],
          id    |-> t.nextHandle]

StoreDirectory(t, node) ==
    IF Cardinality(DOMAIN t.directories) = MaxDirectories THEN [table |-> t, id |-> 0]
    ELSE [table |-> [t EXCEPT !.directories = With(@, t.nextHandle, node),
                              !.nextHandle = @ + 1, !.unused = @ \ {node}],
          id    |-> t.nextHandle]

ReleaseFile(t, h) ==
    IF h \notin DOMAIN t.handles THEN t
    ELSE MarkUnusedIfUnheld([t EXCEPT !.handles = Without(@, h)], t.handles[h].node)

ReleaseDirectory(t, h) ==
    IF h \notin DOMAIN t.directories THEN t
    ELSE MarkUnusedIfUnheld([t EXCEPT !.directories = Without(@, h)], t.directories[h])

\* remember_lookup: the first child seen under a name stays until it is
\* forgotten or an event removes it; the map evicts its first key when full.
RememberLookup(t, name, child) ==
    LET kept == IF Cardinality(DOMAIN t.entries) = MaxEntries
                THEN Without(t.entries, Smallest(DOMAIN t.entries)) ELSE t.entries
        stale == name \notin DOMAIN kept \/ kept[name] \notin DOMAIN t.nodes
    IN  IF stale \/ t.nodes[kept[name]].lookups = 0
        THEN [t EXCEPT !.entries = With(kept, name, child)] ELSE [t EXCEPT !.entries = kept]

\* encode_event under the table: the child the event names, and whether the
\* path still leads to it; otherwise the entry is dropped.
EncodeEvent(t, event, fileAt) ==
    LET child == IF event.name \in DOMAIN t.entries THEN t.entries[event.name] ELSE 0
        same  == /\ child # 0 /\ event.kind \in {"modify", "metadata"}
                 /\ fileAt # 0 /\ IdOfFile(t, fileAt) = child
    IN  [table |-> IF same THEN t ELSE [t EXCEPT !.entries = Without(@, event.name)],
         payload |-> [name |-> event.name, kind |-> event.kind, child |-> child, same |-> same]]

\* clear_runtime and cancel_event_request.
ClearRuntime(t) == NewTable
CancelEvents(t) == [t EXCEPT !.events = FALSE, !.request = NoEvent]

------------------------------------------------------------------------------
(***************************************************************************)
(* The filesystem device (components/fs/src/transport.rs and its           *)
(* submodules): two request rings, the run loop, the I/O scheduler and the *)
(* worker that answers the guest's event request, between a guest kernel   *)
(* that follows the protocol and a host directory.                         *)
(*                                                                         *)
(* The component is single threaded: a turn of `run` between two awaits is *)
(* one step.  A reset (an MMIO write) or a host file operation ending may  *)
(* fall between any two turns.                                             *)
(***************************************************************************)

CONSTANTS FsScripts,    \* the requests a guest may send, as sequences of opcodes
          FsNames,      \* the names of the shared directory, numbers from 1
          MaxActiveIo,  \* MAX_ACTIVE_IO
          MaxPendingIo, \* MAX_PENDING_IO
          MaxFsResets,  \* bound on device resets
          MaxFsEvents   \* bound on changes made by the host

ASSUME FsBounds == /\ MaxNodes \in Nat \ {0} /\ MaxActiveIo \in Nat \ {0}
                   /\ MaxPendingIo \in Nat \ {0}

VARIABLES fsScript,  \* what the guest still sends
          kernel,    \* the guest: its node references, handles, posted requests
          rings,     \* the rings: life (reset_count), avail, used, doorbell bits
          table,     \* STATE
          io,        \* the IoScheduler
          share,     \* the host: the file of each name, the writes of each file, changes
          runner,    \* the run loop
          watcher    \* the event worker

fsVars == <<fsScript, kernel, rings, table, io, share, runner, watcher>>

HIPRIO == 0
REQUEST == 1
Queues == {HIPRIO, REQUEST}
Files == 0..(2 * Cardinality(FsNames) + 1)

NewKernel == [ready |-> FALSE, refs |-> <<>>, handles |-> <<>>, dirs |-> {}, waiting |-> {}]

FsInit ==
    /\ fsScript \in FsScripts
    /\ kernel = NewKernel
    /\ rings = [life |-> 0, avail |-> [q \in Queues |-> <<>>], used |-> <<>>, bits |-> {},
                turn |-> HIPRIO, owes |-> {}, posts |-> 0, first |-> 0,
                resets |-> 0]
    /\ table = NewTable
    /\ io = [pending |-> <<>>, active |-> {}]
    /\ share = [at |-> [n \in FsNames |-> n], fresh |-> Cardinality(FsNames) + 1,
                log |-> [f \in Files |-> <<>>], changes |-> <<>>, made |-> 0]
    /\ runner = [pc |-> "top", known |-> 0]
    /\ watcher = [pc |-> "idle", bell |-> FALSE, request |-> NoEvent, event |-> [name |-> 0, kind |-> "none"]]

-----------------------------------------------------------------------------
(* The guest kernel. *)

LOCAL Refs(n) == IF n \in DOMAIN kernel.refs THEN kernel.refs[n] ELSE 0
LOCAL Busy(n) == \E r \in kernel.waiting : r.node = n /\ r.op # "event"
LOCAL Held(n) == \E h \in DOMAIN kernel.handles : kernel.handles[h] = n
LOCAL Drop(f, x) == Restrict(f, DOMAIN f \ {x})
LOCAL Put(f, x, v) == [y \in DOMAIN f \cup {x} |-> IF y = x THEN v ELSE f[y]]

\* The requests the kernel may send as its next one: on nodes it refers to,
\* handles it holds; a node is forgotten only when nothing uses it.
Sendable(op) ==
    LET q == [id |-> rings.posts + 1, op |-> op, node |-> RootNode, name |-> 0, handle |-> 0,
              life |-> rings.life, queue |-> IF op = "forget" THEN HIPRIO ELSE REQUEST]
        known == {n \in DOMAIN kernel.refs : kernel.refs[n] > 0}
    IN  CASE op = "init" -> {r \in {q} : rings.avail[HIPRIO] = <<>>}
          [] op \in {"lookup", "create", "unlink", "mkdir", "rename"} ->
                {[q EXCEPT !.name = n] : n \in FsNames}
          [] op \in {"event", "cancel", "opendir", "malformed", "getattr"} -> {q}
          [] op \in {"open", "link"} -> {[q EXCEPT !.node = n] : n \in known}
          [] op = "forget" -> {[q EXCEPT !.node = n] : n \in {m \in known : ~Busy(m) /\ ~Held(m)}}
          [] op \in {"write", "read"} ->
                {[q EXCEPT !.node = kernel.handles[h], !.handle = h] : h \in DOMAIN kernel.handles}
          [] op = "release" ->
                {[q EXCEPT !.node = kernel.handles[h], !.handle = h] :
                    h \in {k \in DOMAIN kernel.handles : \A r \in kernel.waiting : r.handle # k}}
          [] op \in {"readdir", "releasedir"} -> {[q EXCEPT !.handle = h] : h \in kernel.dirs}
          [] OTHER -> {}

KernelPosts(k, r) ==
    [k EXCEPT !.waiting = IF r.op = "forget" THEN @ ELSE @ \cup {r},
              !.refs = IF r.op = "forget" THEN Drop(@, r.node) ELSE @,
              !.handles = IF r.op = "release" THEN Drop(@, r.handle) ELSE @,
              !.dirs = IF r.op = "releasedir" THEN @ \ {r.handle} ELSE @]

FsPost ==
    /\ fsScript # <<>> /\ runner.pc # "closed"
    /\ kernel.ready \/ (Head(fsScript) = "init" /\ kernel.waiting = {})
    /\ \E r \in Sendable(Head(fsScript)) :
          LET sent == IF r.op = "forget" THEN [r EXCEPT !.handle = Refs(r.node)] ELSE r
          IN  /\ rings' = [rings EXCEPT !.avail[r.queue] = Append(@, sent), !.posts = @ + 1,
                                        !.owes = @ \cup {r.queue}]
              /\ kernel' = KernelPosts(kernel, r)
    /\ fsScript' = Tail(fsScript)
    /\ UNCHANGED <<table, io, share, runner, watcher>>

\* The guest skips a request it has no node or handle for.
FsSkip ==
    /\ fsScript # <<>> /\ kernel.ready /\ runner.pc # "closed"
    /\ Sendable(Head(fsScript)) = {} /\ kernel.waiting = {}
    /\ fsScript' = Tail(fsScript)
    /\ UNCHANGED <<kernel, rings, table, io, share, runner, watcher>>

-----------------------------------------------------------------------------
(* MMIO: the doorbell, a reset, the close. *)

\* mmio_write of QueueNotify.
FsNotify ==
    /\ runner.pc # "closed"
    /\ \E q \in rings.owes :
          rings' = [rings EXCEPT !.owes = @ \ {q}, !.bits = @ \cup {q}]
    /\ UNCHANGED <<fsScript, kernel, table, io, share, runner, watcher>>

\* invalidate_queues and clear_work.
InvalidateQueues(b) == [b EXCEPT !.life = @ + 1, !.avail = [q \in Queues |-> <<>>], !.used = <<>>,
                                 !.bits = {}, !.turn = HIPRIO, !.owes = {}, !.first = b.posts]

\* mmio_write of a zero status: the guest starts over with INIT.
FsReset ==
    /\ rings.resets < MaxFsResets /\ runner.pc # "closed"
    /\ rings' = [InvalidateQueues(rings) EXCEPT !.resets = @ + 1]
    /\ kernel' = NewKernel
    /\ fsScript' = <<"init">> \o fsScript
    /\ UNCHANGED <<table, io, share, runner, watcher>>

\* close: the rings go first, then the writable handles are synced against a
\* deadline; the loop sees the closed doorbell and drops what it runs.
FsClose ==
    /\ runner.pc # "closed" /\ fsScript = <<>>
    /\ rings' = InvalidateQueues(rings)
    /\ kernel' = NewKernel
    /\ table' = NewTable
    /\ io' = [pending |-> <<>>, active |-> {}]
    /\ runner' = [runner EXCEPT !.pc = "closed"]
    /\ watcher' = [watcher EXCEPT !.pc = "idle", !.bell = FALSE, !.request = NoEvent]
    /\ UNCHANGED <<fsScript, share>>

-----------------------------------------------------------------------------
(* Replies.  `b` and `k` are the rings and the kernel before the reply.     *)

\* send_reply and complete: the entry goes into the ring as it is now, and the
\* kernel takes what it is told.
UsedEntry(b, r) == [b EXCEPT !.used = Append(@, r.id)]

Answered(k, r, result) ==
    LET told == [k EXCEPT !.waiting = @ \ {r}]
        count == IF result.node \in DOMAIN k.refs THEN k.refs[result.node] ELSE 0
    IN  IF ~result.ok \/ r \notin k.waiting THEN told
        ELSE CASE r.op = "init" -> [NewKernel EXCEPT !.ready = TRUE]
               [] r.op \in {"lookup", "link", "mkdir"} ->
                     [told EXCEPT !.refs = Put(@, result.node, count + 1)]
               [] r.op = "create" -> [told EXCEPT !.refs = Put(@, result.node, count + 1),
                                                  !.handles = Put(@, result.handle, result.node)]
               [] r.op = "open" -> [told EXCEPT !.handles = Put(@, result.handle, r.node)]
               [] r.op = "opendir" -> [told EXCEPT !.dirs = @ \cup {result.handle}]
               [] OTHER -> told

Ok == [ok |-> TRUE, node |-> 0, handle |-> 0]
Err == [ok |-> FALSE, node |-> 0, handle |-> 0]

\* reply_to_event_request: only to the ring the request came from.
EventReply(b, k, req) ==
    LET r == {w \in k.waiting : w.id = req.unique}
    IN  IF req = NoEvent \/ req.life # b.life \/ r = {} THEN [rings |-> b, kernel |-> k]
        ELSE LET w == CHOOSE w \in r : TRUE
             IN  [rings |-> UsedEntry(b, w), kernel |-> Answered(k, w, Ok)]

-----------------------------------------------------------------------------
(* The scheduler (transport/io.rs).                                         *)

FsNoFile == -1
Unordered == {"lookup", "getattr", "readdir"}

\* prepare_io and prepare_file_io: what the operation is ordered by, or an error.
FileIdentity(t, r) ==
    CASE r.op \in Unordered -> [ok |-> TRUE, file |-> FsNoFile]
      [] r.op \in {"write", "read"} /\ r.handle \notin DOMAIN t.handles -> [ok |-> FALSE, file |-> FsNoFile]
      [] r.node \notin DOMAIN t.nodes -> [ok |-> FALSE, file |-> FsNoFile]
      [] OTHER -> [ok |-> TRUE, file |-> t.nodes[r.node].file]

HasWorkFromResetCount(s, life) == \/ \E j \in s.active : j.r.life = life
                                  \/ \E k \in DOMAIN s.pending : s.pending[k].r.life = life

Enqueue(s, r, file) ==
    [s EXCEPT !.pending = Append(@, [r |-> r, file |-> file, stage |-> "host", found |-> 0])]

\* An operation may start when no running one is on its file.
Startable(active, file) == file = FsNoFile \/ \A j \in active : j.file # file

\* request_node: all but reads and writes look their node up when they start.
StartJob(j, t, life) ==
    IF j.r.op \in {"write", "read"} \/ (j.r.life = life /\ j.r.node \in DOMAIN t.nodes)
    THEN j ELSE [j EXCEPT !.stage = "failed"]

\* The loop of poll_complete that starts pending operations, oldest first.
StartPending(s, t, life) ==
    LET after[k \in 0..Len(s.pending)] ==
            IF k = 0 THEN [pending |-> <<>>, active |-> s.active]
            ELSE LET j == s.pending[k]
                     a == after[k - 1]
                 IN  IF Cardinality(a.active) < MaxActiveIo /\ Startable(a.active, j.file)
                     THEN [a EXCEPT !.active = @ \cup {StartJob(j, t, life)}]
                     ELSE [a EXCEPT !.pending = Append(@, j)]
    IN  after[Len(s.pending)]

\* RequestState::with and what each operation does to the tables at its end.
FinishJob(t, j, life) ==
    LET r == j.r
        entry == NodeId(t, j.found)
        opened == StoreHandle(entry.table, entry.id, TRUE)
        file == StoreHandle(t, r.node, TRUE)
        dir == StoreDirectory(t, r.node)
        failed(u) == [table |-> u, result |-> Err]
    IN  IF j.stage = "failed" THEN failed(t)
        ELSE IF r.op \in {"write", "read", "unlink", "getattr", "readdir"}
        THEN [table |-> t, result |-> Ok]
        ELSE IF r.life # life THEN failed(t)
        ELSE CASE r.op = "rename" -> [table |-> t, result |-> Ok]
               [] r.op = "link" -> [table |-> IncrementLookup(t, r.node),
                                    result |-> [Ok EXCEPT !.node = r.node]]
               [] r.op = "open" -> IF file.id = 0 THEN failed(t)
                                   ELSE [table |-> file.table, result |-> [Ok EXCEPT !.handle = file.id]]
               [] r.op = "opendir" -> IF dir.id = 0 THEN failed(t)
                                      ELSE [table |-> dir.table, result |-> [Ok EXCEPT !.handle = dir.id]]
               [] entry.id = 0 -> failed(entry.table)
               [] r.op = "create" -> IF opened.id = 0 THEN failed(entry.table)
                                     ELSE [table |-> opened.table,
                                           result |-> [ok |-> TRUE, node |-> entry.id, handle |-> opened.id]]
               [] r.op = "mkdir" -> [table |-> entry.table, result |-> [Ok EXCEPT !.node = entry.id]]
               [] OTHER -> [table |-> RememberLookup(entry.table, r.name, entry.id),
                            result |-> [Ok EXCEPT !.node = entry.id]]

\* The host finishes a file operation: any time after it started, before or
\* after a reset.
HostStep ==
    /\ \E j \in io.active :
        LET r == j.r
            there == r.name # 0 /\ share.at[r.name] # 0
            done(f) == io' = [io EXCEPT !.active = (@ \ {j}) \cup {[j EXCEPT !.stage = "done", !.found = f]}]
            fails == io' = [io EXCEPT !.active = (@ \ {j}) \cup {[j EXCEPT !.stage = "failed"]}]
            makes == /\ share' = [share EXCEPT !.at[r.name] = share.fresh, !.fresh = @ + 1]
                     /\ done(share.fresh)
            other == CHOOSE n \in FsNames : n # r.name
        IN  /\ j.stage = "host"
            /\ CASE r.op = "write" -> share' = [share EXCEPT !.log[j.file] = Append(@, r.id)] /\ done(0)
                 [] r.op = "lookup" /\ there -> share' = share /\ done(share.at[r.name])
                 [] r.op = "create" /\ there -> share' = share /\ done(share.at[r.name])
                 [] r.op \in {"create", "mkdir"} /\ ~there -> makes
                 [] r.op = "unlink" /\ there -> share' = [share EXCEPT !.at[r.name] = 0] /\ done(0)
                 [] r.op = "rename" /\ there ->
                       share' = [share EXCEPT !.at[other] = share.at[r.name], !.at[r.name] = 0] /\ done(0)
                 [] r.op \in {"lookup", "mkdir", "unlink", "rename"} -> share' = share /\ fails
                 [] OTHER -> share' = share /\ done(0)
    /\ UNCHANGED <<fsScript, kernel, rings, table, runner, watcher>>

-----------------------------------------------------------------------------
(* The run loop.  `d` is the device in the middle of a turn: its rings,     *)
(* the kernel they answer, the table, the scheduler and the event bell.     *)

Respond(d, r, result) == [d EXCEPT !.rings = UsedEntry(@, r), !.kernel = Answered(@, r, result)]

\* execute_immediate: the requests answered without the host.
Immediate == {"init", "cancel", "release", "releasedir", "event"}
ExecuteImmediate(d, r) ==
    CASE r.op = "init" ->
           Respond([d EXCEPT !.table = [ClearRuntime(@) EXCEPT !.events = TRUE]], r, Ok)
      [] r.op = "cancel" -> Respond(d, r, Ok)
      [] r.op = "release" -> Respond([d EXCEPT !.table = ReleaseFile(@, r.handle)], r, Ok)
      [] r.op = "releasedir" -> Respond([d EXCEPT !.table = ReleaseDirectory(@, r.handle)], r, Ok)
      [] r.op = "event" -> Respond(d, r, Err)

ExecuteRequest(d, r) ==
    LET identity == FileIdentity(d.table, r)
    IN  CASE r.op = "init" /\ HasWorkFromResetCount(d.io, r.life) -> Respond(d, r, Err)
          [] r.op \in Immediate -> ExecuteImmediate(d, r)
          [] ~identity.ok -> Respond(d, r, Err)
          [] Len(d.io.pending) + Cardinality(d.io.active) = MaxPendingIo -> Respond(d, r, Err)
          [] OTHER -> [d EXCEPT !.io = Enqueue(@, r, identity.file)]

\* available: the ring's next request, if there is one, is taken off it.
Available(d, q) == d.rings.avail[q] # <<>>
TakeRequest(d, q) == [d EXCEPT !.rings.avail[q] = Tail(@)]

\* read_request_buffers: the chain is no request.
IsMalformed(r) == r.op = "malformed"

\* forget_request, of one node: the batched form repeats it.
ForgetRequest(d, r) == [d EXCEPT !.table = Forget(@, r.node, r.handle)]

\* process_request takes one request off ring q.
ProcessRequest(d0, q) ==
    IF ~Available(d0, q) THEN d0
    ELSE LET r == Head(d0.rings.avail[q])
             d == TakeRequest(d0, q)
             cancelled == EventReply(d.rings, d.kernel, d.table.request)
         IN  CASE IsMalformed(r) -> Respond(d, r, Err)
               [] r.op = "forget" -> Respond(ForgetRequest(d, r), r, Ok)
               [] r.op = "event" /\ d.table.events /\ d.table.request = NoEvent ->
                     [d EXCEPT !.table.request = [unique |-> r.id, life |-> d.rings.life, taken |-> FALSE],
                               !.bell = TRUE]
               [] r.op = "cancel" ->
                     ExecuteRequest([d EXCEPT !.table = CancelEvents(@), !.rings = cancelled.rings,
                                              !.kernel = cancelled.kernel], r)
               [] OTHER -> ExecuteRequest(d, r)

\* A mutant: the answer is sent whatever happened since.
CompleteIoAlways(d, j, result) == Respond(d, j.r, result)

\* complete_io: an answer goes only into the ring its request came from.
CompleteIo(d, j, result) == IF d.rings.life = j.r.life THEN Respond(d, j.r, result) ELSE d

\* take_work: one queue, in turn; the other bit is rung again.
TakeWork(b) ==
    IF b.bits = {} THEN [rings |-> b, queue |-> {}]
    ELSE LET q == IF b.turn \in b.bits THEN b.turn ELSE 1 - b.turn
         IN  [rings |-> [b EXCEPT !.bits = @ \ {q}, !.turn = 1 - q], queue |-> {q}]

\* queue_work_if_current after process_request says more is available.
Requeue(d, q) ==
    IF d.rings.avail[q] # <<>> THEN [d EXCEPT !.rings.bits = @ \cup {q}] ELSE d

\* The top of the loop: a reset seen for the first time drops the pending
\* operations and the tables.
ObserveReset(d, known) ==
    IF d.rings.life = known THEN d
    ELSE [d EXCEPT !.io.pending = <<>>, !.table = ClearRuntime(@)]

\* poll_work and the rest of the turn, with the operation that completes in it.
Turn(d, known, completed) ==
    LET ended == [d EXCEPT !.io.active = @ \ completed]
        j == CHOOSE j \in completed : TRUE
        finish == FinishJob(d.table, j, d.rings.life)
        replied == IF completed = {} THEN ended
                   ELSE CompleteIo([ended EXCEPT !.table = finish.table], j, finish.result)
        work == TakeWork(replied.rings)
        taken == [replied EXCEPT !.rings = work.rings]
    IN  IF d.rings.life # known THEN [taken EXCEPT !.rings.bits = @ \cup work.queue]
        ELSE IF work.queue = {} THEN taken
        ELSE LET q == CHOOSE q \in work.queue : TRUE IN Requeue(ProcessRequest(taken, q), q)

\* The loop has something to do: what wakes it from poll_fn.
RunReady ==
    \/ runner.pc = "top"
    \/ /\ runner.pc = "waiting"
       /\ \/ rings.bits # {} \/ rings.life # runner.known
          \/ \E j \in io.active : j.stage # "host"

FsRun ==
    LET now == [rings |-> rings, kernel |-> kernel, table |-> table, io |-> io, bell |-> watcher.bell]
        known == IF runner.pc = "top" THEN rings.life ELSE runner.known
        seen == IF runner.pc = "top" THEN ObserveReset(now, runner.known) ELSE now
        d == [seen EXCEPT !.io = StartPending(@, seen.table, seen.rings.life)]
        ready == {j \in d.io.active : j.stage # "host"}
        idle == ready = {} /\ rings.bits = {} /\ rings.life = known
    IN  /\ RunReady
        /\ \E completed \in IF ready = {} THEN {{}} ELSE {{j} : j \in ready} :
              LET e == Turn(d, known, completed)
              IN  /\ rings' = e.rings /\ kernel' = e.kernel /\ table' = e.table /\ io' = e.io
                  /\ watcher' = [watcher EXCEPT !.bell = e.bell]
        /\ runner' = [pc |-> IF idle THEN "waiting" ELSE "top", known |-> known]
        /\ UNCHANGED <<fsScript, share>>

-----------------------------------------------------------------------------
(* Host changes and the event worker (receive_events). *)

\* Somebody on the host changes the share.
HostChange ==
    /\ share.made < MaxFsEvents
    /\ \E n \in FsNames, kind \in {"modify", "remove"} :
          /\ kind = "modify" => share.at[n] # 0
          /\ share' = [share EXCEPT !.made = @ + 1, !.at[n] = IF kind = "remove" THEN 0 ELSE @,
                                    !.changes = Append(@, [name |-> n, kind |-> kind])]
    /\ UNCHANGED <<fsScript, kernel, rings, table, io, runner, watcher>>

\* The worker takes a request off the channel, with its cancellation.
EventTake ==
    /\ watcher.pc = "idle" /\ watcher.bell /\ runner.pc # "closed"
    /\ IF table.request = NoEvent \/ table.request.taken
       THEN watcher' = [watcher EXCEPT !.bell = FALSE] /\ table' = table
       ELSE /\ watcher' = [watcher EXCEPT !.bell = FALSE, !.pc = "next", !.request = table.request]
            /\ table' = [table EXCEPT !.request.taken = TRUE]
    /\ UNCHANGED <<fsScript, kernel, rings, io, share, runner>>

LOCAL Aborted == table.request.unique # watcher.request.unique
LOCAL Rest == [watcher EXCEPT !.pc = "idle", !.request = NoEvent, !.event = [name |-> 0, kind |-> "none"]]

EventAborted ==
    /\ watcher.pc \in {"next", "encode"} /\ Aborted
    /\ watcher' = Rest
    /\ UNCHANGED <<fsScript, kernel, rings, table, io, share, runner>>

EventNext ==
    /\ watcher.pc = "next" /\ ~Aborted /\ share.changes # <<>>
    /\ watcher' = [watcher EXCEPT !.pc = "encode", !.event = Head(share.changes)]
    /\ share' = [share EXCEPT !.changes = Tail(@)]
    /\ UNCHANGED <<fsScript, kernel, rings, table, io, runner>>

\* The last await of encode_event has ended: the table is consulted under
\* the life of the request, and the answer sent if it is still the one waited for.
EventReplyStep ==
    LET e == EncodeEvent(table, watcher.event, share.at[watcher.event.name])
        sent == EventReply(rings, kernel, table.request)
    IN  /\ watcher.pc = "encode" /\ ~Aborted
        /\ IF watcher.request.life # rings.life
           THEN watcher' = [watcher EXCEPT !.pc = "next"] /\ UNCHANGED <<rings, kernel, table>>
           ELSE /\ rings' = sent.rings /\ kernel' = sent.kernel
                /\ table' = [e.table EXCEPT !.request = NoEvent]
                /\ watcher' = Rest
        /\ UNCHANGED <<fsScript, io, share, runner>>

FsNext == \/ FsPost \/ FsSkip \/ FsNotify \/ FsReset \/ FsClose \/ HostStep \/ FsRun \/ HostChange
          \/ EventTake \/ EventAborted \/ EventNext \/ EventReplyStep

FsSpec == FsInit /\ [][FsNext]_fsVars

-----------------------------------------------------------------------------
(* Properties *)

FsTypeOK ==
    /\ rings.bits \subseteq Queues /\ rings.turn \in Queues
    /\ runner.pc \in {"top", "waiting", "closed"}
    /\ watcher.pc \in {"idle", "next", "encode"}
    /\ table.unused \subseteq DOMAIN table.nodes \ {RootNode}
    /\ Cardinality(DOMAIN table.nodes) <= MaxNodes
    /\ Cardinality(io.active) <= MaxActiveIo

\* An entry is used only for a request the guest put into the ring since the
\* last reset, and once: an operation, an event or a cancellation that ends
\* after a reset answers nothing (transport.rs:1082 complete_io, :733
\* reply_to_event_request).
NoStaleReply == \A i, k \in DOMAIN rings.used :
                   rings.used[i] > rings.first /\ (i # k => rings.used[i] # rings.used[k])

\* Writes to one file reach it in the order the guest sent them, across
\* resets too: the scheduler runs one operation per file (transport/io.rs:52).
FileOrderHolds == \A f \in Files : \A i, k \in DOMAIN share.log[f] :
                     i < k => share.log[f][i] < share.log[f][k]

\* A node the guest refers to or has open is in the table, whatever was
\* evicted to make room (transport.rs:237 mark_unused_if_unheld).
HeldNodesAreKept ==
    rings.life = runner.known =>
        /\ \A n \in DOMAIN kernel.refs :
              kernel.refs[n] > 0 => n \in DOMAIN table.nodes /\ table.nodes[n].lookups >= kernel.refs[n]
        /\ \A h \in DOMAIN kernel.handles : kernel.handles[h] \in DOMAIN table.nodes

\* Every request but a wait for an event is answered, or the guest resets the
\* device: neither queue starves the other (transport.rs:166 take_work).
RequestsAreAnswered ==
    \A q \in Queues : rings.avail[q] = <<>> /\ \A r \in kernel.waiting : r.op = "event"
==============================================================================
