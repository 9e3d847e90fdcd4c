---------------------------- MODULE HostShares ----------------------------
EXTENDS Integers, Sequences, FiniteSets
LOCAL INSTANCE FiniteSetsExt
LOCAL INSTANCE Functions

(***************************************************************************)
(* The nodes of a shared directory (components/fs/src/host.rs and the      *)
(* requests of transport/requests.rs that use them).  A node keeps a       *)
(* descriptor of its file, or only a name and the file's identity.  Every  *)
(* request is a sequence of host calls with an await between them, and the *)
(* names of the directory move between any two: another request renames,   *)
(* or a process on the host does.  Here: one directory, one request at a   *)
(* time and any changes beside it, each call one step.  A file is its      *)
(* identity, which the host does not use again.                            *)
(***************************************************************************)

CONSTANTS EntryNames,       \* names in the directory
          HostFiles,        \* files that may come to exist
          FileKind(_),      \* "file", "dir" or "link"
          NodeFirstEntries,     \* the directories to start from
          MaxNodeRequests, NodeMaxHostChanges

VARIABLES nodeEntry,            \* what each name names
          nodes,            \* the node table, by identity
          req,              \* the request that runs
          openFiles,        \* handles given out, with the file they are for
          resized,          \* files whose size was set, likewise
          requests, hostChanges

nodeVars == <<nodeEntry, nodes, req, openFiles, resized, requests, hostChanges>>

Nothing == "nothing"
NoNode == [desc |-> Nothing, access |-> {}, name |-> Nothing, identity |-> Nothing]
NoRequest == [kind |-> "none", at |-> "idle", name |-> Nothing, to |-> Nothing, node |-> NoNode,
              of |-> Nothing, access |-> {}, trunc |-> FALSE, excl |-> FALSE,
              found |-> Nothing, then |-> Nothing]

Unused == {f \in HostFiles : (\A n \in EntryNames : nodeEntry[n] # f) /\ nodes[f] = NoNode
                             /\ \A h \in openFiles : h.file # f}

(* expected_identity: the descriptor's file, or the one noted with the     *)
(* name.                                                                   *)
ExpectedIdentity(node) == IF node.desc # Nothing THEN node.desc ELSE node.identity

NodeInit ==
  /\ nodeEntry \in NodeFirstEntries
  /\ nodes = [f \in HostFiles |-> NoNode]
  /\ req = NoRequest
  /\ openFiles = {} /\ resized = {}
  /\ requests = 0 /\ hostChanges = 0

Begin(r) ==
  /\ req.at = "idle" /\ requests < MaxNodeRequests
  /\ requests' = requests + 1
  /\ req' = r
  /\ UNCHANGED <<nodes, openFiles, resized, hostChanges>>

Fails == req' = NoRequest
Continue(at) == req' = [req EXCEPT !.at = at]
OnlyRequest == UNCHANGED <<nodeEntry, nodes, openFiles, resized, requests, hostChanges>>

-----------------------------------------------------------------------------

(* A process on the host removes, moves or replaces what a name names.     *)
HostMoves ==
  /\ hostChanges < NodeMaxHostChanges /\ hostChanges' = hostChanges + 1
  /\ \E n \in EntryNames, f \in Unused \cup {Nothing} \cup {nodeEntry[m] : m \in EntryNames} :
       /\ f # nodeEntry[n]
       /\ nodeEntry' = [m \in EntryNames |-> IF m = n THEN f
                                             ELSE IF nodeEntry[m] = f THEN Nothing ELSE nodeEntry[m]]
  /\ UNCHANGED <<nodes, req, openFiles, resized, requests>>

(* A node the guest has forgotten and nothing holds.                       *)
EvictNode(f) ==
  /\ nodes[f] # NoNode /\ req.at = "idle" /\ \A h \in openFiles : h.of # f
  /\ nodes' = [nodes EXCEPT ![f] = NoNode]
  /\ UNCHANGED <<nodeEntry, req, openFiles, resized, requests, hostChanges>>

-----------------------------------------------------------------------------
(* lookup: the type decides how the name is opened.                        *)

LookUp(name) ==
  /\ Begin([NoRequest EXCEPT !.kind = "lookup", !.at = "lookupStat", !.name = name])
  /\ UNCHANGED nodeEntry

LookupStat ==
  /\ req.at = "lookupStat"
  /\ IF nodeEntry[req.name] = Nothing THEN Fails
     ELSE Continue(IF FileKind(nodeEntry[req.name]) = "link" THEN "lookupHash" ELSE "lookupOpen")
  /\ OnlyRequest

AfterLookup == [lookup |-> "stat", mkdir |-> "mode", symlink |-> "stat",
                rename |-> "stat"][req.kind]

Found(node) == req' = [req EXCEPT !.at = AfterLookup, !.node = node]

(* A host that refuses every access is asked for metadata alone; no link   *)
(* is followed.                                                            *)
LookupOpen ==
  /\ req.at = "lookupOpen"
  /\ LET f == nodeEntry[req.name]
     IN \/ /\ f = Nothing \/ FileKind(f) = "link"
           /\ Fails
        \/ /\ f # Nothing /\ FileKind(f) # "link"
           /\ \/ Found([desc |-> f, access |-> {"read"}, name |-> req.name, identity |-> Nothing])
              \/ Continue("lookupMetadata")
  /\ OnlyRequest

(* open_metadata_at, which not every host has.                             *)
LookupMetadata ==
  /\ req.at = "lookupMetadata"
  /\ LET f == nodeEntry[req.name]
     IN \/ Continue("lookupHash")
        \/ /\ f = Nothing \/ FileKind(f) = "link"
           /\ Fails
        \/ /\ f # Nothing /\ FileKind(f) # "link"
           /\ Found([desc |-> f, access |-> {}, name |-> req.name, identity |-> Nothing])
  /\ OnlyRequest

LookupHash ==
  /\ req.at = "lookupHash"
  /\ LET f == nodeEntry[req.name]
     IN IF f = Nothing THEN Fails
        ELSE Found([NoNode EXCEPT !.name = req.name, !.identity = f])
  /\ OnlyRequest

(* stat: of the descriptor, or of the name once it still names the node.   *)
StatNode ==
  /\ req.at = "stat"
  /\ IF req.node.desc # Nothing
     THEN req' = [req EXCEPT !.found = req.node.desc, !.at = "file"]
     ELSE IF nodeEntry[req.node.name] # ExpectedIdentity(req.node) THEN Fails
     ELSE Continue("pathStat")
  /\ OnlyRequest

PathStat ==
  /\ req.at = "pathStat"
  /\ LET f == nodeEntry[req.node.name]
     IN IF f = Nothing THEN Fails ELSE req' = [req EXCEPT !.found = f, !.at = "file"]
  /\ OnlyRequest

(* node_id: the node is filed under the identity its stat has; a create    *)
(* stores its handle too.                                                  *)
InsertEntry ==
  /\ req.at = "file" /\ req.kind \in {"lookup", "mkdir", "symlink", "create"}
  /\ nodes' = [nodes EXCEPT ![req.found] = req.node]
  /\ openFiles' = IF req.kind = "create"
                  THEN openFiles \cup {[of |-> req.found, file |-> req.of]} ELSE openFiles
  /\ Fails
  /\ UNCHANGED <<nodeEntry, resized, requests, hostChanges>>

-----------------------------------------------------------------------------
(* open_path, for a node's descriptor under other access: a node with a    *)
(* name alone looks whether the name is still its own, and whatever was    *)
(* opened is compared with the node.                                       *)

CheckedPath ==
  /\ req.at = "pathCheck"
  /\ IF nodeEntry[req.node.name] # ExpectedIdentity(req.node) THEN Fails ELSE Continue("pathOpen")
  /\ OnlyRequest

PathOpen ==
  /\ req.at = "pathOpen"
  /\ LET f == nodeEntry[req.node.name]
     IN \/ Fails
        \/ /\ f # Nothing /\ FileKind(f) # "link"
           /\ req' = [req EXCEPT !.found = f, !.at = "pathVerify"]
  /\ OnlyRequest

(* An open that trusts the name.                                           *)
VerifyIdentity ==
  /\ req.at = "pathVerify"
  /\ IF req.found # ExpectedIdentity(req.node) THEN Fails
     ELSE req' = [req EXCEPT !.at = req.then]
  /\ OnlyRequest

-----------------------------------------------------------------------------

RequestOn(f, r) ==
  /\ nodes[f] # NoNode
  /\ Begin([r EXCEPT !.node = nodes[f], !.of = ExpectedIdentity(nodes[f])])
  /\ UNCHANGED nodeEntry

(* open and the part of setattr that opens.                                *)
OpenNode(f) ==
  \E access \in {{"read"}, {"write"}, {"read", "write"}}, trunc \in BOOLEAN :
    RequestOn(f, [NoRequest EXCEPT
      !.kind = "open", !.access = access, !.trunc = trunc,
      !.found = nodes[f].desc,
      !.at = IF nodes[f].desc # Nothing THEN "openFlags" ELSE "openCheck"])

SetSize(f) ==
  RequestOn(f, [NoRequest EXCEPT
    !.kind = "resize", !.access = {"write"}, !.trunc = TRUE, !.found = nodes[f].desc,
    !.at = IF nodes[f].desc # Nothing THEN "openFlags" ELSE "openCheck"])

(* A writable handle of the node is resized in place.                      *)
SetSizeOpen(h) ==
  /\ resized' = resized \cup {h}
  /\ requests < MaxNodeRequests /\ req.at = "idle" /\ requests' = requests + 1
  /\ UNCHANGED <<nodeEntry, nodes, req, openFiles, hostChanges>>

(* Only a regular file is opened by its name, a pipe would block.          *)
OpenChecksType ==
  /\ req.at = "openCheck"
  /\ IF nodeEntry[req.node.name] # ExpectedIdentity(req.node) \/ nodeEntry[req.node.name] = Nothing
     THEN Fails
     ELSE Continue("openType")
  /\ OnlyRequest

OpenType ==
  /\ req.at = "openType"
  /\ LET f == nodeEntry[req.node.name]
     IN IF f = Nothing \/ FileKind(f) # "file" THEN Fails
        ELSE req' = [req EXCEPT !.at = "pathCheck", !.then = "openFlags"]
  /\ OnlyRequest

(* A descriptor just opened by its name has the access asked for.          *)
OpenFlagsSuffice ==
  /\ req.at = "openFlags"
  /\ IF FileKind(req.found) # "file" THEN Fails
     ELSE IF req.then = "openFlags" \/ req.access \subseteq req.node.access
     THEN Continue("opened")
     ELSE req' = [req EXCEPT !.at = "pathOpen", !.then = "opened"]
  /\ OnlyRequest

OpenDone ==
  /\ req.at = "opened"
  /\ resized' = IF req.trunc THEN resized \cup {[of |-> req.of, file |-> req.found]} ELSE resized
  /\ openFiles' = IF req.kind = "open"
                  THEN openFiles \cup {[of |-> req.of, file |-> req.found]} ELSE openFiles
  /\ Fails
  /\ UNCHANGED <<nodeEntry, nodes, requests, hostChanges>>

(* open_directory through resolve_descriptor.                              *)
OpenDirectory(f) ==
  RequestOn(f, [NoRequest EXCEPT
    !.kind = "opendir", !.found = nodes[f].desc, !.then = "directory",
    !.at = IF nodes[f].desc # Nothing THEN "directory" ELSE "pathCheck"])

DirectoryOpened ==
  /\ req.at = "directory"
  /\ openFiles' = IF FileKind(req.found) = "dir"
                  THEN openFiles \cup {[of |-> req.of, file |-> req.found]} ELSE openFiles
  /\ Fails
  /\ UNCHANGED <<nodeEntry, nodes, resized, requests, hostChanges>>

-----------------------------------------------------------------------------
(* create: the name is opened twice, once for the handle and once for the  *)
(* node, and both must be one file.                                        *)

Create(name) ==
  \E excl \in BOOLEAN :
    /\ Begin([NoRequest EXCEPT !.kind = "create", !.at = "createStat", !.name = name,
                               !.excl = excl])
    /\ UNCHANGED nodeEntry

CreateStat ==
  /\ req.at = "createStat"
  /\ LET f == nodeEntry[req.name]
     IN IF f # Nothing /\ FileKind(f) # "file" THEN Fails ELSE Continue("createOpen")
  /\ OnlyRequest

CreateOpen ==
  /\ req.at = "createOpen"
  /\ LET f == nodeEntry[req.name]
     IN \/ /\ f = Nothing
           /\ \E g \in {h \in Unused : FileKind(h) = "file"} :
                /\ nodeEntry' = [nodeEntry EXCEPT ![req.name] = g]
                /\ req' = [req EXCEPT !.of = g, !.at = "createCache"]
        \/ /\ f # Nothing /\ ~req.excl /\ FileKind(f) = "file"
           /\ req' = [req EXCEPT !.of = f, !.at = "createCache"]
           /\ UNCHANGED nodeEntry
        \/ Fails /\ UNCHANGED nodeEntry
  /\ UNCHANGED <<nodes, openFiles, resized, requests, hostChanges>>

CreateCache ==
  /\ req.at = "createCache"
  /\ LET f == nodeEntry[req.name]
         cached(g, access) == req' = [req EXCEPT !.at = "stat", !.node =
                                [desc |-> g, access |-> access, name |-> req.name,
                                 identity |-> Nothing]]
     IN \/ \* the second open is refused
           cached(req.of, {"read", "write"})
        \/ IF f # req.of THEN Fails ELSE cached(f, {"read"})
  /\ OnlyRequest

-----------------------------------------------------------------------------

MakeChild(kind, name, fileKind) ==
  /\ nodeEntry[name] = Nothing
  /\ \E f \in {g \in Unused : FileKind(g) = fileKind} : nodeEntry' = [nodeEntry EXCEPT ![name] = f]
  /\ Begin([NoRequest EXCEPT !.kind = kind, !.at = "lookupStat", !.name = name])

MakeDirectory(name) == MakeChild("mkdir", name, "dir")

(* apply_create_mode on what the lookup found.                             *)
CreateMode ==
  /\ req.at = "mode"
  /\ IF req.node.desc # Nothing THEN Continue("stat")
     ELSE req' = [req EXCEPT !.at = "pathCheck", !.then = "stat"]
  /\ OnlyRequest

MakeSymlink(name) == MakeChild("symlink", name, "link")

Unlink(name) ==
  /\ nodeEntry[name] # Nothing
  /\ nodeEntry' = [nodeEntry EXCEPT ![name] = Nothing]
  /\ Begin(NoRequest)

(* rename_entry: the file is looked up first, so that the node can be      *)
(* pointed at its new name afterwards.                                     *)
Rename(name, to) ==
  /\ Begin([NoRequest EXCEPT !.kind = "rename", !.at = "lookupStat", !.name = name, !.to = to])
  /\ UNCHANGED nodeEntry

RenameEntry ==
  /\ req.at = "file" /\ req.kind = "rename"
  /\ IF nodeEntry[req.name] = Nothing THEN UNCHANGED <<nodeEntry, nodes>>
     ELSE /\ nodeEntry' = [nodeEntry EXCEPT ![req.to] = nodeEntry[req.name], ![req.name] = Nothing]
          /\ nodes' = IF nodes[req.found] = NoNode THEN nodes
                      ELSE [nodes EXCEPT ![req.found].name = req.to]
  /\ Fails
  /\ UNCHANGED <<openFiles, resized, requests, hostChanges>>

Link(f, to) ==
  RequestOn(f, [NoRequest EXCEPT !.kind = "link", !.at = "pathCheck", !.to = to,
                                 !.then = "none"])

(* link_at follows the check of the path, not its open.                    *)
LinkEntry ==
  /\ req.at = "pathOpen" /\ req.kind = "link"
  /\ nodeEntry' = IF nodeEntry[req.node.name] # Nothing /\ nodeEntry[req.to] = Nothing
                  THEN [nodeEntry EXCEPT ![req.to] = nodeEntry[req.node.name]] ELSE nodeEntry
  /\ Fails
  /\ UNCHANGED <<nodes, openFiles, resized, requests, hostChanges>>

(* remove_entry of a directory the host refuses to remove because its own  *)
(* node holds it open: the descriptor is given up for the name.            *)
RemoveDirectory(name) ==
  /\ nodeEntry[name] # Nothing /\ FileKind(nodeEntry[name]) = "dir"
  /\ Begin([NoRequest EXCEPT !.kind = "rmdir", !.at = "rmdirHash", !.name = name])
  /\ UNCHANGED nodeEntry

ReleaseCachedDirectory ==
  /\ req.at = "rmdirHash"
  /\ LET f == nodeEntry[req.name]
     IN IF \/ f = Nothing
           \/ nodes[f].desc = Nothing
           \/ \E h \in openFiles : h.file = f
        THEN Fails /\ UNCHANGED nodes
        ELSE /\ nodes' = [nodes EXCEPT ![f] = [NoNode EXCEPT !.name = req.name, !.identity = f]]
             /\ Continue("rmdir")
  /\ UNCHANGED <<nodeEntry, openFiles, resized, requests, hostChanges>>

RemoveAgain ==
  /\ req.at = "rmdir"
  /\ LET f == nodeEntry[req.name]
     IN nodeEntry' = IF f # Nothing /\ FileKind(f) = "dir" THEN [nodeEntry EXCEPT ![req.name] = Nothing]
                     ELSE nodeEntry
  /\ Fails
  /\ UNCHANGED <<nodes, openFiles, resized, requests, hostChanges>>

-----------------------------------------------------------------------------

NodeNext ==
  \/ HostMoves
  \/ \E n \in EntryNames :
       \/ LookUp(n) \/ Create(n) \/ MakeDirectory(n) \/ MakeSymlink(n) \/ Unlink(n)
       \/ RemoveDirectory(n)
       \/ \E to \in EntryNames \ {n} : Rename(n, to)
  \/ \E f \in HostFiles :
       \/ EvictNode(f) \/ OpenNode(f) \/ SetSize(f) \/ OpenDirectory(f)
       \/ \E to \in EntryNames : Link(f, to)
  \/ \E h \in openFiles : SetSizeOpen(h)
  \/ LookupStat \/ LookupOpen \/ LookupMetadata \/ LookupHash \/ StatNode \/ PathStat
  \/ InsertEntry \/ CheckedPath \/ (req.kind # "link" /\ PathOpen) \/ VerifyIdentity
  \/ OpenChecksType \/ OpenType \/ OpenFlagsSuffice \/ OpenDone \/ DirectoryOpened
  \/ CreateStat \/ CreateOpen \/ CreateCache \/ CreateMode
  \/ RenameEntry \/ LinkEntry \/ ReleaseCachedDirectory \/ RemoveAgain

NodeSpec == NodeInit /\ [][NodeNext]_nodeVars

-----------------------------------------------------------------------------

(* Whatever happens to the names meanwhile, a handle the guest is given is *)
(* of the node it opened (or of the file it created), a size is set on the *)
(* node it was asked for, and a node's descriptor is of the file the node  *)
(* is filed under (verify_identity in open_path and create, node_id).      *)
NodesKeepTheirFile ==
  /\ \A h \in openFiles \cup resized : h.file = h.of
  /\ \A f \in HostFiles : nodes[f].desc \in {Nothing, f}

------------------------------------------------------------------------------
(***************************************************************************)
(* Reading the directories of a share (components/fs/src/host.rs, impl     *)
(* Directory).  A read with cookie 0 reads the host's directory in batches *)
(* into a cache charged to one budget for all open directories; the guest  *)
(* then fetches pages by cookie.  Files vanish while this goes on.  A      *)
(* directory is locked by the request that reads it, two directories are   *)
(* read at once.                                                           *)
(***************************************************************************)

CONSTANTS OpenDirs,
          Listing(_),         \* the names the host lists for a directory
          NameLength(_),
          EntryLimit,         \* most entries of a page (64)
          PageBytes,          \* sizes the guest asks for
          BatchEntries,       \* most entries of a batch (64)
          MaxCachedEntries,   \* 65 536
          MaxCacheBytes,      \* MAX_DIRECTORY_CACHE_BYTES
          MaxRewinds

VARIABLES dirRead,     \* per directory: the request in flight
          cache,       \* per directory: the cached entries, NoCache without
          reserved,    \* per directory: bytes of its live reservations
          cacheUsed,   \* DIRECTORY_CACHE_BYTES
          dirReader,      \* per directory: the guest's side
          vanished

dirVars == <<dirRead, cache, reserved, cacheUsed, dirReader, vanished>>

NoCache == <<"none">>
NoRead == [at |-> "idle", cookie |-> 0, bytes |-> 0, entries |-> <<>>, charge |-> 0,
           from |-> 0, page |-> <<>>]

(* The wire size of an entry, a multiple of 8.                             *)
DirentSize(name) == 8 * ((24 + NameLength(name) + 7) \div 8)

(* What an entry is charged for: its name and two copies of its record.    *)
EntryCharge(name) == NameLength(name) + 2

SizeOf(names) == MapThenSumSet(LAMBDA i : DirentSize(names[i]), DOMAIN names)
ChargeOf(names) == MapThenSumSet(LAMBDA i : EntryCharge(names[i]), DOMAIN names)

DirInit ==
  /\ dirRead = [d \in OpenDirs |-> NoRead]
  /\ cache = [d \in OpenDirs |-> NoCache]
  /\ reserved = [d \in OpenDirs |-> 0]
  /\ cacheUsed = 0
  /\ dirReader = [d \in OpenDirs |-> [at |-> "reading", cookie |-> 0, seen |-> <<>>, rewinds |-> 0]]
  /\ vanished = {}

(* CacheReservation: grown batch by batch, given back when dropped.        *)
Grow(d, bytes) ==
  /\ cacheUsed + bytes <= MaxCacheBytes
  /\ cacheUsed' = cacheUsed + bytes
  /\ reserved' = [reserved EXCEPT ![d] = @ + bytes]

Release(d, bytes) ==
  /\ cacheUsed' = cacheUsed - bytes
  /\ reserved' = [reserved EXCEPT ![d] = @ - bytes]

(* A reservation that is forgotten.                                        *)
KeepCharged(d, bytes) ==
  /\ cacheUsed' = cacheUsed
  /\ reserved' = [reserved EXCEPT ![d] = @ - bytes]

DropReservation(d, bytes) == Release(d, bytes)

Vanish(name) ==
  /\ name \notin vanished
  /\ vanished' = vanished \cup {name}
  /\ UNCHANGED <<dirRead, cache, reserved, cacheUsed, dirReader>>

-----------------------------------------------------------------------------

(* readdir begins: cookie 0 forgets what was cached.                       *)
Readdir(d) ==
  /\ dirReader[d].at = "reading" /\ dirRead[d].at = "idle"
  /\ \E bytes \in PageBytes :
       dirRead' = [dirRead EXCEPT ![d] =
         [NoRead EXCEPT !.at = IF dirReader[d].cookie = 0 \/ cache[d] = NoCache
                               THEN "caching" ELSE "paging",
                        !.cookie = dirReader[d].cookie, !.from = dirReader[d].cookie, !.bytes = bytes]]
  /\ IF dirReader[d].cookie = 0 /\ cache[d] # NoCache
     THEN /\ cache' = [cache EXCEPT ![d] = NoCache]
          /\ DropReservation(d, ChargeOf(cache[d]))
     ELSE UNCHANGED <<cache, reserved, cacheUsed>>
  /\ UNCHANGED <<dirReader, vanished>>

RequestFails(d, charge) ==
  /\ dirRead' = [dirRead EXCEPT ![d] = NoRead]
  /\ dirReader' = [dirReader EXCEPT ![d].at = "failed"]
  /\ DropReservation(d, charge)

(* cache_entries: one batch of the stream.                                 *)
CacheBatch(d) ==
  LET r == dirRead[d]
      rest == SubSeq(Listing(d), Len(r.entries) + 1, Len(Listing(d)))
  IN /\ r.at = "caching" /\ rest # <<>>
     /\ \E k \in 1..BatchEntries :
          /\ k <= Len(rest)
          /\ LET batch == SubSeq(rest, 1, k)
                 bytes == ChargeOf(batch)
             IN IF \/ cacheUsed + bytes > MaxCacheBytes
                   \/ Len(r.entries) + k > MaxCachedEntries
                THEN RequestFails(d, r.charge)
                ELSE /\ Grow(d, bytes)
                     /\ dirRead' = [dirRead EXCEPT ![d].entries = @ \o batch,
                                                   ![d].charge = @ + bytes]
                     /\ UNCHANGED dirReader
     /\ UNCHANGED <<cache, vanished>>

(* The stream is at its end; its completion tells whether it read all.     *)
CacheEnds(d) ==
  LET r == dirRead[d]
  IN /\ r.at = "caching"
     /\ \/ /\ Len(r.entries) = Len(Listing(d))
           /\ cache' = [cache EXCEPT ![d] = r.entries]
           /\ dirRead' = [dirRead EXCEPT ![d].at = "paging"]
           /\ UNCHANGED <<reserved, cacheUsed, dirReader>>
        \/ /\ RequestFails(d, r.charge)
           /\ UNCHANGED cache
     /\ UNCHANGED vanished

(* The candidates of one pass: as many entries as fit beside the results.  *)
Candidates(d) ==
  LET r == dirRead[d]
      upTo(n) == SubSeq(cache[d], r.from + 1, r.from + n)
      fits == {n \in 0..Len(cache[d]) : /\ r.from + n <= Len(cache[d])
                                        /\ Len(r.page) + n <= EntryLimit
                                        /\ SizeOf([i \in DOMAIN r.page |-> r.page[i].name])
                                             + SizeOf(upTo(n)) <= r.bytes}
  IN IF fits = {} THEN 0 ELSE Max(fits)

(* A pass asks for the identity of every candidate; one that has vanished  *)
(* is left out and the next pass takes its room.                           *)
ReadPass(d) ==
  LET r == dirRead[d]
      n == Candidates(d)
      found == SelectSeq([i \in 1..n |-> [name |-> cache[d][r.from + i], next |-> r.from + i]],
                         LAMBDA e : e.name \notin vanished)
  IN /\ r.at = "paging" /\ Len(r.page) < EntryLimit /\ n > 0
     /\ dirRead' = [dirRead EXCEPT ![d].page = @ \o found, ![d].from = @ + n]
     /\ UNCHANGED <<cache, reserved, cacheUsed, dirReader, vanished>>

(* One pass is all.                                                        *)
PageIsComplete(d) == Len(dirRead[d].page) >= EntryLimit \/ Candidates(d) = 0

(* dirents_out encodes what fits, again.                                   *)
DirentsOut(page, max) ==
  LET fits == {n \in 0..Len(page) : SizeOf([i \in 1..n |-> page[i].name]) <= max}
  IN SubSeq(page, 1, Max(fits))

(* The page is answered; an empty page ends the listing for the guest,     *)
(* which goes on from the cookie of the last entry otherwise.              *)
Page(d) ==
  LET r == dirRead[d]
      page == DirentsOut(r.page, r.bytes)
  IN /\ r.at = "paging" /\ PageIsComplete(d)
     /\ dirRead' = [dirRead EXCEPT ![d] = NoRead]
     /\ dirReader' = [dirReader EXCEPT
             ![d].seen = @ \o [i \in DOMAIN page |-> page[i].name],
             ![d].cookie = IF page = <<>> THEN @ ELSE page[Len(page)].next,
             ![d].at = IF page = <<>> THEN "done" ELSE "reading"]
     /\ UNCHANGED <<cache, reserved, cacheUsed, vanished>>

(* The guest reads from the start again.                                   *)
Rewind(d) ==
  /\ dirRead[d].at = "idle" /\ dirReader[d].at # "closed" /\ dirReader[d].rewinds < MaxRewinds
  /\ dirReader' = [dirReader EXCEPT ![d] = [at |-> "reading", cookie |-> 0, seen |-> <<>>,
                                            rewinds |-> @.rewinds + 1]]
  /\ UNCHANGED <<dirRead, cache, reserved, cacheUsed, vanished>>

(* RELEASEDIR drops the directory with its cache.                          *)
CloseDirectory(d) ==
  /\ dirRead[d].at = "idle" /\ dirReader[d].at # "closed"
  /\ dirReader' = [dirReader EXCEPT ![d].at = "closed", ![d].seen = <<>>]
  /\ cache' = [cache EXCEPT ![d] = NoCache]
  /\ IF cache[d] = NoCache THEN UNCHANGED <<reserved, cacheUsed>>
     ELSE DropReservation(d, ChargeOf(cache[d]))
  /\ UNCHANGED <<dirRead, vanished>>

DirNext ==
  \/ \E d \in OpenDirs : \/ Readdir(d) \/ CacheBatch(d) \/ CacheEnds(d) \/ ReadPass(d)
                         \/ Page(d) \/ Rewind(d) \/ CloseDirectory(d)
                         \/ \E name \in Range(Listing(d)) : Vanish(name)

DirSpec == DirInit /\ [][DirNext]_dirVars

-----------------------------------------------------------------------------

(* A guest that reads to an empty page has seen every entry of the         *)
(* directory that is still there exactly once and in order, whichever      *)
(* entries vanished between the pages (readdir, dirents_out); and the      *)
(* budget holds what the live caches are charged for, within its limit     *)
(* (CacheReservation).                                                     *)
ListingsAreWhole ==
  /\ \A d \in OpenDirs :
       LET seen == dirReader[d].seen
       IN /\ \E at \in [DOMAIN seen -> DOMAIN Listing(d)] :
               /\ \A i, j \in DOMAIN seen : i < j => at[i] < at[j]
               /\ \A i \in DOMAIN seen : Listing(d)[at[i]] = seen[i]
          /\ dirReader[d].at = "done" => Range(Listing(d)) \ vanished \subseteq Range(seen)
  /\ cacheUsed = MapThenSumSet(LAMBDA d : reserved[d], OpenDirs)
  /\ cacheUsed <= MaxCacheBytes
  /\ \A d \in OpenDirs : reserved[d] = (IF cache[d] = NoCache THEN dirRead[d].charge
                                        ELSE ChargeOf(cache[d]))

------------------------------------------------------------------------------
(***************************************************************************)
(* The descriptors a file-sharing component holds on the host              *)
(* (terra-runtime component/fs/host.rs).  An open takes a permit of the    *)
(* budget before it starts and keeps it in the table beside the            *)
(* descriptor; a drop removes the table entry at once and closes the file  *)
(* on a blocking thread, which alone gives the permit back.  Other calls   *)
(* work on a clone, and the store may be dropped at any time.              *)
(***************************************************************************)

CONSTANTS DescriptorSlots,    \* representations the table may use
          OpenCalls,          \* opens that may be in flight
          DescriptorBudget,   \* resource_capacity
          MaxOpens

ASSUME DescriptorAssumption ==
  IsFiniteSet(DescriptorSlots) /\ IsFiniteSet(OpenCalls) /\ DescriptorBudget \in Nat

VARIABLES freePermits,
          descriptorTable,  \* per representation: closed, or what is open
          permitOf,         \* representations with a permit beside them
          descOpening,          \* per call: its state
          closing,          \* descriptors being closed, with their permits
          borrowed,         \* calls that work on a clone of a descriptor
          shareIsReadOnly,  \* rigid
          storeLive, opensMade, modeSet

descVars == <<freePermits, descriptorTable, permitOf, descOpening, closing, borrowed,
              shareIsReadOnly, storeLive, opensMade, modeSet>>

Closed == "closed"

DescInit ==
  /\ freePermits = DescriptorBudget
  /\ descriptorTable = [r \in DescriptorSlots |-> Closed]
  /\ permitOf = {}
  /\ descOpening = [c \in OpenCalls |-> "idle"]
  /\ closing = [paid |-> 0, unpaid |-> 0]
  /\ borrowed = 0
  /\ shareIsReadOnly \in BOOLEAN
  /\ storeLive = TRUE /\ opensMade = 0 /\ modeSet = FALSE

FreeSlots == {r \in DescriptorSlots : descriptorTable[r] = Closed}

(* push_descriptor; a full table drops the descriptor and the permit.      *)
PushDescriptor(kind) ==
  IF FreeSlots = {}
  THEN freePermits' = freePermits + 1 /\ UNCHANGED <<descriptorTable, permitOf>>
  ELSE /\ \E r \in FreeSlots :
            /\ descriptorTable' = [descriptorTable EXCEPT ![r] = kind]
            /\ permitOf' = permitOf \cup {r}
       /\ UNCHANGED freePermits

(* get_directories grants the share's root.                                *)
GrantDirectory ==
  /\ storeLive /\ freePermits > 0 /\ opensMade < MaxOpens /\ opensMade' = opensMade + 1
  /\ \/ /\ FreeSlots # {}
        /\ \E r \in FreeSlots : /\ descriptorTable' = [descriptorTable EXCEPT ![r] = "dir"]
                                /\ permitOf' = permitOf \cup {r}
        /\ freePermits' = freePermits - 1
     \/ /\ FreeSlots = {}
        /\ UNCHANGED <<descriptorTable, permitOf, freePermits>>
  /\ UNCHANGED <<descOpening, closing, borrowed, shareIsReadOnly, storeLive, modeSet>>

(* open-at and open-metadata-at take their permit first; without one the   *)
(* call fails.                                                             *)
BeginOpen(c, r) ==
  /\ storeLive /\ descOpening[c] = "idle" /\ descriptorTable[r] = "dir" /\ opensMade < MaxOpens
  /\ opensMade' = opensMade + 1
  /\ IF freePermits = 0 THEN UNCHANGED <<freePermits, descOpening>>
     ELSE /\ freePermits' = freePermits - 1
          /\ \E call \in {"open", "metadata"} : descOpening' = [descOpening EXCEPT ![c] = call]
  /\ UNCHANGED <<descriptorTable, permitOf, closing, borrowed, shareIsReadOnly, storeLive, modeSet>>

(* The host opened the file, or not; on Windows it is opened again to      *)
(* share deletes, and an open that fails there is undone.                  *)
EndOpen(c) ==
  /\ storeLive /\ descOpening[c] # "idle"
  /\ descOpening' = [descOpening EXCEPT ![c] = "idle"]
  /\ \/ \E kind \in {"file", "dir"} : PushDescriptor(kind)
     \/ /\ freePermits' = freePermits + 1
        /\ UNCHANGED <<descriptorTable, permitOf>>
  /\ UNCHANGED <<closing, borrowed, shareIsReadOnly, storeLive, opensMade, modeSet>>

(* The permit returns at once.                                             *)
ReturnThenClose(r) ==
  /\ freePermits' = freePermits + (IF r \in permitOf THEN 1 ELSE 0)
  /\ closing' = [closing EXCEPT !.unpaid = @ + 1]

CloseThenReturn(r) ==
  /\ closing' = IF r \in permitOf THEN [closing EXCEPT !.paid = @ + 1]
                ELSE [closing EXCEPT !.unpaid = @ + 1]
  /\ UNCHANGED freePermits

(* retire_descriptor, for the resource's drop and release-descriptor.      *)
RetireDescriptor(r) ==
  /\ storeLive /\ descriptorTable[r] # Closed
  /\ descriptorTable' = [descriptorTable EXCEPT ![r] = Closed]
  /\ permitOf' = permitOf \ {r}
  /\ CloseThenReturn(r)
  /\ UNCHANGED <<descOpening, borrowed, shareIsReadOnly, storeLive, opensMade, modeSet>>

(* The blocking thread drops the descriptor, then its permit.              *)
CloseDescriptor ==
  /\ \/ /\ closing.paid > 0
        /\ closing' = [closing EXCEPT !.paid = @ - 1]
        /\ freePermits' = freePermits + 1
     \/ /\ closing.unpaid > 0
        /\ closing' = [closing EXCEPT !.unpaid = @ - 1]
        /\ UNCHANGED freePermits
  /\ UNCHANGED <<descriptorTable, permitOf, descOpening, borrowed, shareIsReadOnly, storeLive,
                 opensMade, modeSet>>

(* statfs, get-mode and get-mode-at clone the descriptor for a thread.     *)
ReadByClone(r) ==
  /\ storeLive /\ descriptorTable[r] # Closed /\ borrowed = 0
  /\ borrowed' = 1
  /\ UNCHANGED <<freePermits, descriptorTable, permitOf, descOpening, closing, shareIsReadOnly,
                 storeLive, opensMade, modeSet>>

(* set-mode and set-mode-at refuse a read-only share first.                *)
WriteByClone(r) ==
  /\ storeLive /\ descriptorTable[r] # Closed /\ borrowed = 0 /\ ~shareIsReadOnly
  /\ borrowed' = 1 /\ modeSet' = TRUE
  /\ UNCHANGED <<freePermits, descriptorTable, permitOf, descOpening, closing, shareIsReadOnly,
                 storeLive, opensMade>>

EndClone ==
  /\ borrowed = 1 /\ borrowed' = 0
  /\ UNCHANGED <<freePermits, descriptorTable, permitOf, descOpening, closing, shareIsReadOnly,
                 storeLive, opensMade, modeSet>>

(* retire: the store's host is dropped on a thread of its own, calls in    *)
(* flight with it.                                                         *)
RetireStore ==
  /\ storeLive /\ storeLive' = FALSE
  /\ descriptorTable' = [r \in DescriptorSlots |-> Closed]
  /\ permitOf' = {}
  /\ descOpening' = [c \in OpenCalls |-> "idle"]
  /\ freePermits' = freePermits + Cardinality(permitOf)
                      + Cardinality({c \in OpenCalls : descOpening[c] # "idle"})
  /\ UNCHANGED <<closing, borrowed, shareIsReadOnly, opensMade, modeSet>>

DescNext ==
  \/ GrantDirectory
  \/ \E r \in DescriptorSlots : \/ RetireDescriptor(r) \/ ReadByClone(r) \/ WriteByClone(r)
                                \/ \E c \in OpenCalls : BeginOpen(c, r)
  \/ \E c \in OpenCalls : EndOpen(c)
  \/ CloseDescriptor \/ EndClone \/ RetireStore

DescSpec == DescInit /\ [][DescNext]_descVars

-----------------------------------------------------------------------------

(* Files open on behalf of the component, or being opened or closed for    *)
(* it, never outnumber the budget, and every permit is with one of them or *)
(* free (open-at, push_descriptor, retire_descriptor); a read-only share's *)
(* modes are never set (clone_writable_descriptor).                        *)
DescriptorsArePaid ==
  LET open == {r \in DescriptorSlots : descriptorTable[r] # Closed}
      inFlight == {c \in OpenCalls : descOpening[c] # "idle"}
  IN /\ Cardinality(open) + Cardinality(inFlight) + closing.paid + closing.unpaid
          <= DescriptorBudget
     /\ freePermits + Cardinality(permitOf) + Cardinality(inFlight) + closing.paid
          = DescriptorBudget
     /\ permitOf = open
     /\ shareIsReadOnly => ~modeSet

------------------------------------------------------------------------------
(***************************************************************************)
(* Changing a share on Windows (terra-platform filesystem/share/windows.rs *)
(* and symlink_broker.rs, called from terra-runtime component/fs/host.rs). *)
(* The calls Windows offers take paths while the guest holds directories:  *)
(* a call pins the directory (a handle that shares no delete, so that      *)
(* neither it nor a directory above it can be renamed), asks for its path  *)
(* and changes that path.  The calls run on threads of their own, and the  *)
(* host's processes rename directories too.  Links of a sandboxed box go   *)
(* through a channel to the launcher, which resolves them from the root.   *)
(***************************************************************************)

CONSTANTS ShareDirs,       \* directories beneath the root
          ShareCalls,      \* threads of the box that call
          FirstPlaces,     \* where the directories may be at first
          LeafNames, MaxShareCalls, MaxHostRenames

VARIABLES place,           \* where each directory is
          shareCall,       \* per thread: its call
          brokerLock,      \* the thread that holds the channel
          brokerRequests, brokerReplies, brokerAlive,
          shareBroker,          \* the launcher's thread
          changed,         \* the last change: the directory meant and the one changed
          callsMade, hostRenames

shareVars == <<place, shareCall, brokerLock, brokerRequests, brokerReplies, brokerAlive,
               shareBroker, changed, callsMade, hostRenames>>

Root == "root"
Nowhere == "nowhere"
NoCall == [op |-> "none", at |-> "idle", dir |-> Root, leaf |-> "", to |-> Root, toLeaf |-> "",
           path |-> <<>>, toPath |-> <<>>, pins |-> {}, reply |-> Nowhere]
NoWork == [at |-> "reading", path |-> <<>>, for |-> Nowhere, pin |-> {}]

ShareInit ==
  /\ place \in FirstPlaces
  /\ shareCall = [c \in ShareCalls |-> NoCall]
  /\ brokerLock = Nowhere /\ brokerRequests = <<>> /\ brokerReplies = <<>> /\ brokerAlive = TRUE
  /\ shareBroker = NoWork
  /\ changed = {}
  /\ callsMade = 0 /\ hostRenames = 0

-----------------------------------------------------------------------------
(* The host's tree.                                                        *)

(* nt_final_path: where an open directory is now.                          *)
FinalPath(d) ==
  LET path[n \in 0..Cardinality(ShareDirs), e \in ShareDirs \cup {Root}] ==
        IF e = Root \/ n = 0 THEN <<>> ELSE Append(path[n - 1, place[e].up], place[e].name)
  IN path[Cardinality(ShareDirs), d]

DirAt(path) ==
  IF path = <<>> THEN Root
  ELSE IF \E d \in ShareDirs : FinalPath(d) = path
  THEN CHOOSE d \in ShareDirs : FinalPath(d) = path
  ELSE Nowhere

Above(d, e) == Len(FinalPath(d)) <= Len(FinalPath(e))
               /\ SubSeq(FinalPath(e), 1, Len(FinalPath(d))) = FinalPath(d)

Pinned == UNION {shareCall[c].pins : c \in ShareCalls} \cup shareBroker.pin

(* A directory is not renamed while it or one beneath it is open without   *)
(* delete sharing.                                                         *)
CanRename(d, up, name) ==
  /\ d \in ShareDirs /\ up # Nowhere
  /\ \A p \in Pinned : p = Root \/ ~Above(d, p)
  /\ up = Root \/ ~Above(d, up)
  /\ \A e \in ShareDirs : place[e] # [up |-> up, name |-> name]

HostRenames(d, up, name) ==
  /\ hostRenames < MaxHostRenames /\ CanRename(d, up, name)
  /\ place' = [place EXCEPT ![d] = [up |-> up, name |-> name]]
  /\ hostRenames' = hostRenames + 1
  /\ UNCHANGED <<shareCall, brokerLock, brokerRequests, brokerReplies, brokerAlive, shareBroker,
                 changed, callsMade>>

-----------------------------------------------------------------------------
(* Calls that resolve their leaf on this side.                             *)

BeginCall(c, op, dir, leaf, to, toLeaf) ==
  /\ shareCall[c].at = "idle" /\ callsMade < MaxShareCalls
  /\ callsMade' = callsMade + 1
  /\ shareCall' = [shareCall EXCEPT ![c] =
       [NoCall EXCEPT !.op = op, !.at = IF op = "brokerLink" THEN "locate" ELSE "pin",
                      !.dir = dir, !.leaf = leaf, !.to = to, !.toLeaf = toLeaf]]
  /\ UNCHANGED <<place, brokerLock, brokerRequests, brokerReplies, brokerAlive, shareBroker,
                 changed, hostRenames>>

CreateDirectoryAt(c, dir) == BeginCall(c, "leaf", dir, "", dir, "")

RemoveDirectoryAt(c, dir) == BeginCall(c, "leaf", dir, "", dir, "")

UnlinkFileAt(c, dir) == BeginCall(c, "leaf", dir, "", dir, "")

HardLinkAt(c, dir, to) == BeginCall(c, "link", dir, "", to, "")

RenameAt(c, dir, leaf, to, toLeaf) == BeginCall(c, "rename", dir, leaf, to, toLeaf)

(* The link is made through the handle itself.                             *)
SymlinkAt(c, dir) == BeginCall(c, "symlink", dir, "", dir, "")

StepCall(c, r) ==
  /\ shareCall' = [shareCall EXCEPT ![c] = r]
  /\ UNCHANGED <<brokerLock, brokerRequests, brokerReplies, brokerAlive, shareBroker, callsMade,
                 hostRenames>>

(* A handle that shares deletes pins nothing.                              *)
PinDirectory(d) == {d}

(* resolve_parent and nt_final_path, for the old leaf and then the new.    *)
PinOld(c) ==
  /\ shareCall[c].at = "pin"
  /\ StepCall(c, [shareCall[c] EXCEPT !.at = "path", !.pins = PinDirectory(shareCall[c].dir)])
  /\ UNCHANGED <<place, changed>>

ResolveOld(c) ==
  /\ shareCall[c].at = "path"
  /\ StepCall(c, [shareCall[c] EXCEPT !.path = FinalPath(shareCall[c].dir),
                    !.at = IF shareCall[c].op \in {"link", "rename"} THEN "pinTo" ELSE "act"])
  /\ UNCHANGED <<place, changed>>

PinNew(c) ==
  /\ shareCall[c].at = "pinTo"
  /\ StepCall(c, [shareCall[c] EXCEPT !.at = "pathTo",
                                      !.pins = @ \cup PinDirectory(shareCall[c].to)])
  /\ UNCHANGED <<place, changed>>

ResolveNew(c) ==
  /\ shareCall[c].at = "pathTo"
  /\ StepCall(c, [shareCall[c] EXCEPT !.at = "act", !.toPath = FinalPath(shareCall[c].to)])
  /\ UNCHANGED <<place, changed>>

Change(meant, at) == [meant |-> meant, at |-> at]

(* symlink_at creates the link beneath the handle it has.                  *)
SymlinkInParent(c) ==
  /\ shareCall[c].at = "act" /\ shareCall[c].op = "symlink"
  /\ changed' = {Change(shareCall[c].dir, shareCall[c].dir)}
  /\ StepCall(c, NoCall)
  /\ UNCHANGED place

(* The other changes go by path; dropping the pins ends the call.          *)
Act(c) ==
  LET r == shareCall[c]
      old == DirAt(r.path)
      new == DirAt(r.toPath)
      moved == DirAt(Append(r.path, r.leaf))
  IN /\ r.at = "act" /\ r.op # "symlink"
     /\ IF r.op = "leaf"
        THEN /\ changed' = {Change(r.dir, old)} \ {Change(r.dir, Nowhere)}
             /\ UNCHANGED place
        ELSE IF old = Nowhere \/ new = Nowhere
        THEN UNCHANGED <<changed, place>>
        ELSE /\ changed' = {Change(r.dir, old), Change(r.to, new)}
             /\ IF r.op = "rename" /\ CanRename(moved, new, r.toLeaf)
                THEN place' = [place EXCEPT ![moved] = [up |-> new, name |-> r.toLeaf]]
                ELSE UNCHANGED place
     /\ StepCall(c, NoCall)

-----------------------------------------------------------------------------
(* Links by way of the launcher: the request names the share's root and    *)
(* the path beneath it, without a pin.                                     *)

SymlinkByBroker(c, dir) == BeginCall(c, "brokerLink", dir, "", dir, "")

Locate(c) ==
  /\ shareCall[c].at = "locate"
  /\ StepCall(c, [shareCall[c] EXCEPT !.path = FinalPath(shareCall[c].dir), !.at = "lock"])
  /\ UNCHANGED <<place, changed>>

(* A channel without a lock.                                               *)
ChannelIsFree == brokerLock = Nowhere

(* exchange holds the channel from its request to its reply.               *)
SendRequest(c) ==
  /\ shareCall[c].at = "lock" /\ ChannelIsFree
  /\ IF brokerAlive
     THEN /\ brokerLock' = c
          /\ brokerRequests' = Append(brokerRequests, [path |-> shareCall[c].path, for |-> c])
          /\ shareCall' = [shareCall EXCEPT ![c].at = "reply"]
     ELSE /\ shareCall' = [shareCall EXCEPT ![c] = NoCall]
          /\ UNCHANGED <<brokerLock, brokerRequests>>
  /\ UNCHANGED <<place, brokerReplies, brokerAlive, shareBroker, changed, callsMade, hostRenames>>

BrokerReads ==
  /\ brokerAlive /\ shareBroker.at = "reading" /\ brokerRequests # <<>>
  /\ shareBroker' = [NoWork EXCEPT !.at = "resolve", !.path = Head(brokerRequests).path,
                                   !.for = Head(brokerRequests).for]
  /\ brokerRequests' = Tail(brokerRequests)
  /\ UNCHANGED <<place, shareCall, brokerLock, brokerReplies, brokerAlive, changed,
                 callsMade, hostRenames>>

(* answer: the directory is opened beneath the root and pinned.            *)
BrokerResolves ==
  /\ shareBroker.at = "resolve"
  /\ LET d == DirAt(shareBroker.path)
     IN shareBroker' = [shareBroker EXCEPT !.at = "answer", !.pin = IF d = Nowhere THEN {} ELSE {d}]
  /\ UNCHANGED <<place, shareCall, brokerLock, brokerRequests, brokerReplies, brokerAlive,
                 changed, callsMade, hostRenames>>

BrokerAnswers ==
  /\ shareBroker.at = "answer"
  /\ brokerReplies' = Append(brokerReplies, shareBroker.for)
  /\ changed' = {Change(d, d) : d \in shareBroker.pin}
  /\ shareBroker' = NoWork
  /\ UNCHANGED <<place, shareCall, brokerLock, brokerRequests, brokerAlive, callsMade,
                 hostRenames>>

(* The launcher ends and with it the channel.                              *)
BrokerEnds ==
  /\ brokerAlive
  /\ brokerAlive' = FALSE
  /\ shareBroker' = NoWork
  /\ UNCHANGED <<place, shareCall, brokerLock, brokerRequests, brokerReplies, changed,
                 callsMade, hostRenames>>

ReadReply(c) ==
  /\ shareCall[c].at = "reply"
  /\ \/ /\ brokerReplies # <<>>
        /\ shareCall' = [shareCall EXCEPT ![c].at = "answered", ![c].reply = Head(brokerReplies)]
        /\ brokerReplies' = Tail(brokerReplies)
     \/ /\ brokerReplies = <<>> /\ ~brokerAlive
        /\ shareCall' = [shareCall EXCEPT ![c] = NoCall]
        /\ UNCHANGED brokerReplies
  /\ brokerLock' = IF brokerLock = c THEN Nowhere ELSE brokerLock
  /\ UNCHANGED <<place, brokerRequests, brokerAlive, shareBroker, changed, callsMade, hostRenames>>

EndLink(c) ==
  /\ shareCall[c].at = "answered"
  /\ StepCall(c, NoCall)
  /\ UNCHANGED <<place, changed>>

-----------------------------------------------------------------------------

ShareNext ==
  \/ \E d \in ShareDirs, up \in ShareDirs \cup {Root}, n \in LeafNames : HostRenames(d, up, n)
  \/ \E c \in ShareCalls :
       \/ \E d \in ShareDirs :
            \/ CreateDirectoryAt(c, d) \/ RemoveDirectoryAt(c, d) \/ UnlinkFileAt(c, d)
            \/ SymlinkAt(c, d) \/ SymlinkByBroker(c, d)
            \/ \E to \in ShareDirs : HardLinkAt(c, d, to)
       \/ \E d, to \in ShareDirs \cup {Root}, n, m \in LeafNames : RenameAt(c, d, n, to, m)
       \/ PinOld(c) \/ ResolveOld(c) \/ PinNew(c) \/ ResolveNew(c) \/ SymlinkInParent(c) \/ Act(c)
       \/ Locate(c) \/ SendRequest(c) \/ ReadReply(c) \/ EndLink(c)
  \/ BrokerReads \/ BrokerResolves \/ BrokerAnswers \/ BrokerEnds

ShareSpec == ShareInit /\ [][ShareNext]_shareVars

-----------------------------------------------------------------------------

(* A call that goes by path changes the directory its handle names,        *)
(* although directories are renamed between the moment the path was asked  *)
(* for and its use (pin_directory); and each thread that waits on the      *)
(* launcher's channel gets the reply to its own request (exchange).        *)
ChangesStayInPlace ==
  /\ \A x \in changed : x.at = x.meant
  /\ \A c \in ShareCalls : shareCall[c].at = "answered" => shareCall[c].reply = c
==============================================================================
