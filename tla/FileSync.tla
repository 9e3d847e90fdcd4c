----------------------------- MODULE FileSync -----------------------------
EXTENDS Integers, Sequences, FiniteSets
LOCAL INSTANCE FiniteSetsExt
LOCAL INSTANCE SequencesExt

(***************************************************************************)
(* What `terra sync` decides to do and in which order it does it           *)
(* (crates/terra/src/cmd/sync): the plan made from the two manifests, its  *)
(* five phases, and their effect on the destination tree, where making or  *)
(* removing an entry also changes the time of the directory it is in.      *)
(*                                                                         *)
(* A path is a sequence of components, <<>> the root; a tree maps paths to *)
(* entries.  Sorting by the length of a path's text is modelled by the     *)
(* number of its components: all the code needs is that a parent is        *)
(* shorter.                                                                *)
(***************************************************************************)

CONSTANTS SourceTrees,  \* trees a source may be
          TargetTrees,  \* trees a destination may be
          FileSize(_)   \* the size of a file's data

VARIABLES options,  \* --delete, --checksum, --dry-run and the direction
          planSource, target0, planTarget,  \* the trees: source, target before and now
          syncing,  \* "plan", "run", "done", "refused", "failed"
          planWork,     \* the actions of the plan that are not done yet
          stats     \* copied, updated, deleted, skipped

planVars == <<options, planSource, target0, planTarget, syncing, planWork, stats>>

Now == 9        \* the time of a directory that changes during the sync
NewMode == 7    \* the mode a directory is created with

\* effective_mode: what arrives at the destination; the host takes no mode that
\* lets others write.
EffectiveMode(mode, direction) == IF direction = "to guest" THEN mode ELSE 0

PlanInit ==
    /\ options \in [delete : BOOLEAN, checksum : BOOLEAN, dry : BOOLEAN, direction : {"to guest", "to host"}]
    /\ planSource \in SourceTrees /\ target0 \in TargetTrees /\ planTarget = target0
    /\ syncing = "plan" /\ planWork = {}
    /\ stats = [copied |-> 0, updated |-> 0, deleted |-> 0, skipped |-> 0]

LOCAL PlanParent(path) == SubSeq(path, 1, Len(path) - 1)
LOCAL IsDir(entry) == entry.kind = "dir"

\* validate_manifest: every listed parent is a directory, only the root may be
\* missing.
ValidManifest(tree) ==
    \A p \in DOMAIN tree : p # <<>> =>
        IF PlanParent(p) \in DOMAIN tree THEN IsDir(tree[PlanParent(p)]) ELSE PlanParent(p) = <<>>

\* validate_plan_conflicts: a directory and something else do not replace each
\* other.
NoConflicts ==
    /\ ValidManifest(planSource) /\ ValidManifest(planTarget)
    /\ \A p \in DOMAIN planSource \cap DOMAIN planTarget : IsDir(planSource[p]) <=> IsDir(planTarget[p])

LOCAL Action(do, p) == [do |-> do, path |-> p]
LOCAL SameTime(p) == planSource[p].mtime = planTarget[p].mtime
LOCAL SameAttributes(p) ==
    EffectiveMode(planSource[p].mode, options.direction) = planTarget[p].mode /\ SameTime(p)

\* plan_file_update: by checksum, or by size and time.
PlanFileUpdate(p) ==
    LET identical == IF options.checksum THEN planSource[p].data = planTarget[p].data ELSE SameTime(p) IN
    IF planTarget[p].kind # "file" \/ FileSize(planSource[p].data) # FileSize(planTarget[p].data) \/ ~identical
    THEN {Action("transfer", p)}
    ELSE IF SameAttributes(p) THEN {Action("skip", p)} ELSE {Action("file metadata", p)}

\* The loop of build_plan over the source.
PlanSource(p) ==
    IF p \notin DOMAIN planTarget
    THEN CASE planSource[p].kind = "dir"  -> {Action("mkdir", p), Action("dir metadata", p)}
           [] planSource[p].kind = "file" -> {Action("transfer", p)}
           [] planSource[p].kind = "link" -> {Action("symlink", p)}
    ELSE CASE planSource[p].kind = "dir"  -> {Action(IF SameAttributes(p) THEN "skip" ELSE "dir metadata", p)}
           [] planSource[p].kind = "link" ->
                    {Action(IF planTarget[p].kind = "link" /\ planTarget[p].data = planSource[p].data THEN "skip" ELSE "symlink", p)}
           [] planSource[p].kind = "file" -> PlanFileUpdate(p)

\* The loop over what only the destination has.
PlanTarget(p) ==
    IF p = <<>> \/ p \in DOMAIN planSource THEN {}
    ELSE {Action(IF options.delete THEN "remove" ELSE "skip", p)}

\* find_changed_parent.
ChangedParent(action) ==
    IF action.do \in {"mkdir", "transfer", "symlink", "remove"} /\ action.path # <<>>
    THEN {PlanParent(action.path)} ELSE {}

\* build_plan: a directory that would be skipped but whose entries change gets
\* its attributes back.
BuildPlan ==
    LET actions == UNION ({PlanSource(p) : p \in DOMAIN planSource} \cup {PlanTarget(p) : p \in DOMAIN planTarget})
        changed == UNION {ChangedParent(a) : a \in actions}
        restores(a) == /\ a.do = "skip" /\ a.path \in changed \cap DOMAIN planSource
                       /\ IsDir(planSource[a.path]) IN
    {IF restores(a) THEN Action("dir metadata", a.path) ELSE a : a \in actions}

LOCAL Count(actions, do) == Cardinality({a \in actions : a.do \in do})

\* The plan, refused on a conflict; a dry run only counts.
MakePlan ==
    /\ syncing = "plan"
    /\ IF ~NoConflicts THEN syncing' = "refused" /\ UNCHANGED <<planWork, stats>>
       ELSE LET actions == BuildPlan
                copies == {"transfer", "symlink"} IN
            /\ planWork' = IF options.dry THEN {} ELSE {a \in actions : a.do # "skip"}
            /\ syncing' = IF options.dry THEN "done" ELSE "run"
            /\ stats' = IF options.dry
                        THEN [copied |-> Count(actions, copies), updated |-> Count(actions, {"file metadata"}),
                              deleted |-> Count(actions, {"remove"}), skipped |-> Count(actions, {"skip"})]
                        ELSE [stats EXCEPT !.skipped = Count(actions, {"skip"})]
    /\ UNCHANGED <<options, planSource, target0, planTarget>>

\* The phases of execute_plan in their order.
Phases == <<{"mkdir"}, {"transfer", "symlink"}, {"file metadata"}, {"remove"}, {"dir metadata"}>>

LOCAL PhaseOf(a) == CHOOSE i \in 1..Len(Phases) : a.do \in Phases[i]

\* A mutant: the removals are sorted as the creations are.
RunsTopDown(a) ==
    \A b \in planWork \ {a} :
        \/ PhaseOf(a) < PhaseOf(b)
        \/ PhaseOf(a) = PhaseOf(b) /\ (a.do \in {"mkdir", "remove"} => Len(a.path) <= Len(b.path))

\* The sorts of execute_plan: directories are made from the root down, and
\* removed and given their attributes from the leaves up.
RunsNext(a) ==
    \A b \in planWork \ {a} :
        \/ PhaseOf(a) < PhaseOf(b)
        \/ PhaseOf(a) = PhaseOf(b) /\ (a.do = "mkdir" => Len(a.path) <= Len(b.path))
                                   /\ (a.do \in {"remove", "dir metadata"} => Len(a.path) >= Len(b.path))

LOCAL Touch(tree, p) ==
    IF p # <<>> /\ PlanParent(p) \in DOMAIN tree THEN [tree EXCEPT ![PlanParent(p)].mtime = Now] ELSE tree
LOCAL Put(tree, p, entry) == [q \in DOMAIN tree \cup {p} |-> IF q = p THEN entry ELSE tree[q]]
LOCAL Mode(p) == EffectiveMode(planSource[p].mode, options.direction)

\* What an action does to the destination: a transferred file and a link are
\* renamed into place.
Perform(a) ==
    LET p == a.path IN
    CASE a.do = "mkdir" -> Touch(Put(planTarget, p, [kind |-> "dir", data |-> 0, mode |-> NewMode, mtime |-> Now]), p)
      [] a.do = "transfer" -> Touch(Put(planTarget, p, [planSource[p] EXCEPT !.mode = Mode(p)]), p)
      [] a.do = "symlink" -> Touch(Put(planTarget, p, [planSource[p] EXCEPT !.mtime = Now]), p)
      [] a.do \in {"file metadata", "dir metadata"} ->
            [planTarget EXCEPT ![p].mode = Mode(p), ![p].mtime = planSource[p].mtime]
      [] a.do = "remove" -> Touch([q \in DOMAIN planTarget \ {p} |-> planTarget[q]], p)

\* What an action needs of the destination.
CanPerform(a) ==
    CASE a.do \in {"mkdir", "transfer", "symlink"} ->
            (a.path # <<>> /\ PlanParent(a.path) \in DOMAIN planTarget) => IsDir(planTarget[PlanParent(a.path)])
      [] a.do = "remove" -> ~\E p \in DOMAIN planTarget : Len(p) > Len(a.path) /\ SubSeq(p, 1, Len(a.path)) = a.path
      [] OTHER -> a.path \in DOMAIN planTarget

\* execute_create_dirs, execute_transfers_and_symlinks, execute_deletions and
\* execute_metadata_updates, one entry; the first failure ends the sync.
ExecuteOne ==
    /\ syncing = "run"
    /\ \E a \in planWork :
         /\ RunsNext(a)
         /\ \/ CanPerform(a) /\ planTarget' = Perform(a) /\ planWork' = planWork \ {a} /\ UNCHANGED syncing
            \/ syncing' = "failed" /\ planWork' = {} /\ UNCHANGED planTarget
         /\ stats' = CASE a.do \in {"transfer", "symlink"} -> [stats EXCEPT !.copied = @ + 1]
                       [] a.do = "file metadata" -> [stats EXCEPT !.updated = @ + 1]
                       [] a.do = "remove" -> [stats EXCEPT !.deleted = @ + 1]
                       [] OTHER -> stats
    /\ UNCHANGED <<options, planSource, target0>>

\* EndSession.
EndSync ==
    /\ syncing = "run" /\ planWork = {} /\ syncing' = "done"
    /\ UNCHANGED <<options, planSource, target0, planTarget, planWork, stats>>

PlanNext == MakePlan \/ ExecuteOne \/ EndSync

PlanSpec == PlanInit /\ [][PlanNext]_planVars

-----------------------------------------------------------------------------
(* Properties *)

PlanTypeOK == syncing \in {"plan", "run", "done", "refused", "failed"} /\ \A a \in planWork : a.do # "skip"

LOCAL Arrived(p) ==
    /\ p \in DOMAIN planTarget /\ planTarget[p].kind = planSource[p].kind
    /\ planSource[p].kind # "link" =>
             planTarget[p].mtime = planSource[p].mtime /\ planTarget[p].mode = EffectiveMode(planSource[p].mode, options.direction)
    /\ planSource[p].kind # "dir" =>
             \/ planTarget[p].data = planSource[p].data
             \/ /\ ~options.checksum /\ p \in DOMAIN target0 /\ planTarget[p].data = target0[p].data
                /\ FileSize(target0[p].data) = FileSize(planSource[p].data) /\ target0[p].mtime = planSource[p].mtime

\* A sync that ends well leaves the destination as the source: every entry with
\* its data, mode and time, the directories too though entries were made and
\* removed in them; what only the destination had is gone or as it was.  A
\* refused or dry sync leaves it alone.
SyncArrives ==
    /\ (syncing \in {"plan", "refused"} \/ options.dry) => planTarget = target0
    /\ (syncing = "done" /\ ~options.dry) =>
         /\ \A p \in DOMAIN planSource : Arrived(p)
         /\ \A p \in DOMAIN target0 \ DOMAIN planSource :
              p # <<>> => IF options.delete THEN p \notin DOMAIN planTarget
                          ELSE p \in DOMAIN planTarget /\ planTarget[p] = target0[p]
         /\ DOMAIN planTarget \subseteq DOMAIN planSource \cup DOMAIN target0

\* The order of the phases is enough: no action of a plan finds its directory
\* missing, replaced or, when it is removed, not empty.
PlanCanRun == \A a \in planWork : (syncing = "run" /\ RunsNext(a)) => CanPerform(a)

------------------------------------------------------------------------------
(***************************************************************************)
(* One file of `terra sync`, either way: the host's executor               *)
(* (cmd/sync/exec.rs) and the guest agent's sync session (terra-agent      *)
(* sync.rs) over one connection that carries frames and raw file data,     *)
(* while the source is written to, writes fail, the agent shuts down or    *)
(* the connection breaks.                                                  *)
(***************************************************************************)

CONSTANTS FileChunks,  \* chunks of the source file at the beginning
          CopyMaxEdits     \* bound on changes of the source

VARIABLES direction,  \* "upload" or "download"
          original,   \* the source, as <<stamp, data>> after each change
          fileCopy,       \* the destination: <<>> as it was, or <<stamp, data>>
          hostEnd,    \* the host: pc, what it expects, chunks done, staged data
          fileAgentEnd,   \* the agent: pc, what it was told, chunks done, temp data
          fileWire,       \* frames and data up and down, and whether it is open
          halt,       \* the agent shuts down
          misread     \* file data was taken for a request

syncVars == <<direction, original, fileCopy, hostEnd, fileAgentEnd, fileWire, halt, misread>>

NoTemp == "no temp"
LOCAL Source == original[Len(original)]      \* <<stamp, data>>
LOCAL Stamp(file) == file[1]
LOCAL Data(file) == file[2]
LOCAL Meta(file) == <<file[1], Len(file[2])>>

FileSyncInit ==
    /\ direction \in {"upload", "download"}
    /\ original = << <<1, [k \in 1..FileChunks |-> 1]>> >> /\ fileCopy = <<>>
    /\ hostEnd = [pc |-> "start", expected |-> <<1, FileChunks>>, done |-> 0, temp |-> NoTemp]
    /\ fileAgentEnd = [pc |-> "serve", meta |-> <<0, 0>>, done |-> 0, temp |-> NoTemp]
    /\ fileWire = [up |-> <<>>, down |-> <<>>, open |-> TRUE]
    /\ halt = FALSE /\ misread = FALSE

\* The source is written in place or truncated; its time changes with it.
EditSource ==
    /\ Len(original) <= CopyMaxEdits
    /\ LET stamp == Stamp(Source) + 1 IN
       \/ \E k \in 1..Len(Data(Source)) :
            original' = Append(original, <<stamp, [Data(Source) EXCEPT ![k] = stamp]>>)
       \/ /\ Len(Data(Source)) > 0
          /\ original' = Append(original, <<stamp, SubSeq(Data(Source), 1, Len(Data(Source)) - 1)>>)
    /\ UNCHANGED <<direction, fileCopy, hostEnd, fileAgentEnd, fileWire, halt, misread>>

ShutDownAgent ==
    /\ ~halt /\ halt' = TRUE
    /\ UNCHANGED <<direction, original, fileCopy, hostEnd, fileAgentEnd, fileWire, misread>>

\* The box goes away or the stream stalls for its timeout.
BreakWire ==
    /\ fileWire.open /\ fileWire' = [fileWire EXCEPT !.open = FALSE]
    /\ UNCHANGED <<direction, original, fileCopy, hostEnd, fileAgentEnd, halt, misread>>

LOCAL Up(frames) == fileWire' = [fileWire EXCEPT !.up = @ \o frames]
LOCAL Down(frames) == fileWire' = [fileWire EXCEPT !.down = @ \o frames]
LOCAL TakeUp(replies) == fileWire' = [fileWire EXCEPT !.up = Tail(@), !.down = @ \o replies]
LOCAL TakeDown(requests) == fileWire' = [fileWire EXCEPT !.down = Tail(@), !.up = @ \o requests]

-----------------------------------------------------------------------------
(* The host. *)

LOCAL HostUnchanged == UNCHANGED <<direction, original, fileAgentEnd, halt, misread>>
LOCAL HostAt(pc) == hostEnd.pc = pc /\ fileWire.open
LOCAL Reply == fileWire.down # <<>>

\* An error of the host's: its staged file is dropped, the connection closed.
HostFails ==
    /\ hostEnd.pc \notin {"done", "failed"}
    /\ \/ ~fileWire.open /\ ~Reply
       \/ Reply /\ hostEnd.pc \in {"ready", "success"} /\ Head(fileWire.down) = <<"Err">>
       \/ hostEnd.pc \in {"send", "receive"}
    /\ hostEnd' = [hostEnd EXCEPT !.pc = "failed", !.temp = NoTemp]
    /\ fileWire' = [fileWire EXCEPT !.open = FALSE]
    /\ HostUnchanged /\ UNCHANGED fileCopy

\* execute_transfers_and_symlinks: an upload whose source changed since the
\* plan is not begun; otherwise the request is sent.
HostBegins ==
    /\ HostAt("start")
    /\ IF direction = "upload" /\ Meta(Source) # hostEnd.expected
       THEN hostEnd' = [hostEnd EXCEPT !.pc = "failed"] /\ fileWire' = [fileWire EXCEPT !.open = FALSE]
       ELSE /\ hostEnd' = [hostEnd EXCEPT !.pc = "ready"]
            /\ Up(IF direction = "upload" THEN << <<"WriteFile", hostEnd.expected>> >> ELSE << <<"ReadFile">> >>)
    /\ HostUnchanged /\ UNCHANGED fileCopy

\* send_file_into_guest and fetch_file_from_guest once the agent is ready; a
\* download of something else than was planned is refused.
HostReady ==
    /\ hostEnd.pc = "ready" /\ Reply
    /\ \/ /\ Head(fileWire.down) = <<"WriteFileReady">>
          /\ hostEnd' = [hostEnd EXCEPT !.pc = "send"] /\ TakeDown(<<>>)
       \/ /\ Head(fileWire.down)[1] = "ReadFileReady"
          /\ IF Head(fileWire.down)[2] = hostEnd.expected
             THEN hostEnd' = [hostEnd EXCEPT !.pc = "receive", !.temp = <<>>] /\ TakeDown(<<>>)
             ELSE hostEnd' = [hostEnd EXCEPT !.pc = "failed"] /\ fileWire' = [fileWire EXCEPT !.open = FALSE]
    /\ HostUnchanged /\ UNCHANGED fileCopy

\* A chunk read from the source as it is now; one that is not there any more
\* ends the transfer (HostFails).
HostSends ==
    /\ HostAt("send") /\ hostEnd.done < hostEnd.expected[2] /\ hostEnd.done < Len(Data(Source))
    /\ hostEnd' = [hostEnd EXCEPT !.done = @ + 1]
    /\ Up(<< <<"Data", Data(Source)[hostEnd.done + 1]>> >>)
    /\ HostUnchanged /\ UNCHANGED fileCopy

\* All was sent from a source that did not change: CommitFile.
HostCommits ==
    /\ HostAt("send") /\ hostEnd.done = hostEnd.expected[2] /\ Meta(Source) = hostEnd.expected
    /\ hostEnd' = [hostEnd EXCEPT !.pc = "success"] /\ Up(<< <<"CommitFile">> >>)
    /\ HostUnchanged /\ UNCHANGED fileCopy

HostReceives ==
    /\ hostEnd.pc = "receive" /\ Reply /\ hostEnd.done < hostEnd.expected[2] /\ Head(fileWire.down)[1] = "Data"
    /\ hostEnd' = [hostEnd EXCEPT !.done = @ + 1, !.temp = Append(@, Head(fileWire.down)[2])]
    /\ TakeDown(<<>>)
    /\ HostUnchanged /\ UNCHANGED fileCopy

HostWaits ==
    /\ hostEnd.pc = "receive" /\ hostEnd.done = hostEnd.expected[2]
    /\ hostEnd' = [hostEnd EXCEPT !.pc = "success"]
    /\ HostUnchanged /\ UNCHANGED <<fileCopy, fileWire>>

\* The agent's Success: an upload is done, a download renamed into place.
HostFinishes ==
    /\ hostEnd.pc = "success" /\ Reply /\ Head(fileWire.down) = <<"Success">>
    /\ hostEnd' = [hostEnd EXCEPT !.pc = "done", !.temp = NoTemp]
    /\ fileCopy' = IF direction = "download" THEN <<hostEnd.expected[1], hostEnd.temp>> ELSE fileCopy
    /\ fileWire' = [fileWire EXCEPT !.open = FALSE, !.down = Tail(@)]
    /\ HostUnchanged

-----------------------------------------------------------------------------
(* The agent. *)

LOCAL AgentUnchanged == UNCHANGED <<direction, original, hostEnd, halt>>
LOCAL Request == fileWire.up # <<>>
LOCAL AgentPc(pc) == fileAgentEnd' = [fileAgentEnd EXCEPT !.pc = pc]

\* A request's failure is replied to and the session goes on; a file under its
\* temporary name goes with it.
LOCAL FailRequest == fileAgentEnd' = [fileAgentEnd EXCEPT !.pc = "serve", !.temp = NoTemp, !.done = 0]

\* serve_sync_session ends: no more requests, the shutdown, or what is no
\* request.
CopyAgentEnds ==
  /\ fileAgentEnd.pc # "ended"
  /\ \/ ~fileWire.open /\ ~Request
     \/ halt
     \/ fileAgentEnd.pc = "serve" /\ Request /\ Head(fileWire.up)[1] \in {"Data", "CommitFile"}
  /\ fileAgentEnd' = [fileAgentEnd EXCEPT !.pc = "ended", !.temp = NoTemp]
  /\ fileWire' = [fileWire EXCEPT !.open = FALSE]
  /\ AgentUnchanged /\ UNCHANGED <<fileCopy, misread>>

\* write_file begins under a temporary name; read_file opens the source.
AgentServes ==
    /\ fileAgentEnd.pc = "serve" /\ Request /\ ~halt
    /\ \/ /\ Head(fileWire.up)[1] = "WriteFile"
          /\ \/ /\ fileAgentEnd' = [pc |-> "data", meta |-> Head(fileWire.up)[2], done |-> 0, temp |-> <<>>]
                /\ TakeUp(<< <<"WriteFileReady">> >>)
             \/ FailRequest /\ TakeUp(<< <<"Err">> >>)
       \/ /\ Head(fileWire.up)[1] = "ReadFile"
          /\ \/ /\ fileAgentEnd' = [fileAgentEnd EXCEPT !.pc = "stream", !.meta = Meta(Source), !.done = 0]
                /\ TakeUp(<< <<"ReadFileReady", Meta(Source)>> >>)
             \/ FailRequest /\ TakeUp(<< <<"Err">> >>)
    /\ AgentUnchanged /\ UNCHANGED <<fileCopy, misread>>

\* The next frame is read where file data is: data that decodes is a request.
AgentReadsData ==
    /\ fileAgentEnd.pc = "serve" /\ Request /\ ~halt /\ Head(fileWire.up)[1] = "Data"
    /\ misread' = TRUE /\ TakeUp(<< <<"Reply">> >>)
    /\ AgentUnchanged /\ UNCHANGED <<fileCopy, fileAgentEnd>>

\* stream_exact of write_file: a chunk is written, or cannot be.
AgentWrites ==
    /\ fileAgentEnd.pc = "data" /\ Request /\ ~halt /\ fileAgentEnd.done < fileAgentEnd.meta[2] /\ Head(fileWire.up)[1] = "Data"
    /\ \/ /\ fileAgentEnd' = [fileAgentEnd EXCEPT !.done = @ + 1, !.temp = Append(@, Head(fileWire.up)[2])]
          /\ TakeUp(<<>>)
       \/ FailRequest /\ TakeUp(<< <<"Err">> >>)
    /\ AgentUnchanged /\ UNCHANGED <<fileCopy, misread>>

\* The sender's CommitFile: attributes, sync and the rename, or an error.
AgentCommits ==
    /\ fileAgentEnd.pc = "data" /\ Request /\ ~halt /\ fileAgentEnd.done = fileAgentEnd.meta[2]
    /\ \/ /\ Head(fileWire.up) = <<"CommitFile">>
          /\ fileCopy' = <<fileAgentEnd.meta[1], fileAgentEnd.temp>>
          /\ fileAgentEnd' = [fileAgentEnd EXCEPT !.pc = "serve", !.temp = NoTemp] /\ TakeUp(<< <<"Success">> >>)
       \/ FailRequest /\ TakeUp(<< <<"Err">> >>) /\ UNCHANGED fileCopy
    /\ AgentUnchanged /\ UNCHANGED misread

\* stream_exact of read_file, from the source as it is now; a source that
\* became shorter ends the session.
AgentStreams ==
    /\ fileAgentEnd.pc = "stream" /\ ~halt /\ fileWire.open /\ fileAgentEnd.done < fileAgentEnd.meta[2]
    /\ IF fileAgentEnd.done < Len(Data(Source))
       THEN /\ fileAgentEnd' = [fileAgentEnd EXCEPT !.done = @ + 1]
            /\ Down(<< <<"Data", Data(Source)[fileAgentEnd.done + 1]>> >>)
       ELSE AgentPc("ended") /\ fileWire' = [fileWire EXCEPT !.open = FALSE]
    /\ AgentUnchanged /\ UNCHANGED <<fileCopy, misread>>

\* is_unchanged_since, after the data.
AgentConfirms ==
    /\ fileAgentEnd.pc = "stream" /\ ~halt /\ fileWire.open /\ fileAgentEnd.done = fileAgentEnd.meta[2]
    /\ AgentPc("serve")
    /\ Down(IF Meta(Source) = fileAgentEnd.meta THEN << <<"Success">> >> ELSE << <<"Err">> >>)
    /\ AgentUnchanged /\ UNCHANGED <<fileCopy, misread>>

-----------------------------------------------------------------------------

FileSyncNext ==
    \/ EditSource \/ ShutDownAgent \/ BreakWire
    \/ HostFails \/ HostBegins \/ HostReady \/ HostSends \/ HostCommits \/ HostReceives \/ HostWaits \/ HostFinishes
    \/ CopyAgentEnds \/ AgentServes \/ AgentReadsData \/ AgentWrites \/ AgentCommits \/ AgentStreams \/ AgentConfirms

FileSyncSpec == FileSyncInit /\ [][FileSyncNext]_syncVars

-----------------------------------------------------------------------------
(* Properties *)

FileSyncTypeOK ==
    /\ hostEnd.done \in 0..FileChunks /\ fileAgentEnd.done \in 0..FileChunks
    /\ hostEnd.pc \in {"start", "ready", "send", "receive", "success", "done", "failed"}
    /\ fileAgentEnd.pc \in {"serve", "data", "stream", "ended"}

\* The destination is never part of a file or a mixture: whatever is written
\* to the source and whatever fails, it is as it was or all of the source as
\* it was at the time the copy bears, and it is that once the host reports it.
CopyIsWhole ==
    /\ fileCopy # <<>> => \E i \in 1..Len(original) : fileCopy = original[i]
    /\ hostEnd.pc = "done" => fileCopy # <<>> /\ Stamp(fileCopy) = hostEnd.expected[1]

------------------------------------------------------------------------------
(***************************************************************************)
(* The first half of `terra sync` (crates/terra/src/cmd/sync.rs,           *)
(* endpoint.rs, scan.rs and the agent's sync.rs): parse the endpoints,     *)
(* look at the source and the destination, decide where the copy goes,     *)
(* scan both sides one entry at a time, and check the manifests before a   *)
(* plan is made of them.  Other processes change both trees meanwhile.     *)
(*                                                                         *)
(* A tree maps absolute paths (sequences of names) to kinds, "none" where  *)
(* nothing is; the source is SourceBase, the destination DestBase.  The    *)
(* box's side answers over one ordered stream while the command waits, so  *)
(* a request, the agent's work for it and the reply are one step, and so   *)
(* are an entry the agent sends and the command's handling of it.  The     *)
(* plan goes on from the manifests.                                        *)
(***************************************************************************)

CONSTANTS Endpoints,      \* what the two arguments may be, as endpoints are written
          SourceBase, DestBase,   \* the paths the two endpoints name
          SourceTreesSeen, DestTreesSeen,  \* the trees at the start, over prefix-closed sets of paths
          MaxSyncEntries, MaxSyncMetadata, EntryOverhead,  \* the budget of a manifest
          MaxTreeChanges  \* bound: changes by other processes

VARIABLES scanAsked,      \* the two endpoints and --delete
          trees,      \* [source, destination]
          at,         \* what the command does next
          scanUpload,     \* the direction, once the endpoints are parsed
          seen,       \* [source, destination]: the kind last looked at
          scanSession,    \* the agent's Session: root and the status it began with
          root,       \* the effective root at the destination
          walk,       \* the scan under way
          manifests,  \* [source, destination]: relative path -> kind
          steady,     \* [source, destination]: paths there since a tree's scan began
          treeChanges

scanSideVars == <<scanAsked, trees, at, scanUpload, seen, scanSession, root, walk, manifests, steady, treeChanges>>

ScanSides == {"source", "destination"}
Kinds == {"none", "file", "large", "dir", "link", "special"}
GuestSide == IF scanUpload THEN "destination" ELSE "source"
ScanNoManifest == [p \in {} |-> "none"]
NotWalking == [side |-> "none", dirs |-> <<>>, dir |-> <<>>, left |-> {}, metadata |-> 0]

ScanSideInit ==
    /\ scanAsked \in [src : Endpoints, dst : Endpoints, delete : BOOLEAN]
    /\ trees \in [source : SourceTreesSeen, destination : DestTreesSeen]
    /\ at = "parse" /\ scanUpload = FALSE
    /\ seen = [s \in ScanSides |-> "none"]
    /\ scanSession = [root |-> <<>>, status |-> "none"]
    /\ root = <<>> /\ walk = NotWalking
    /\ manifests = [s \in ScanSides |-> ScanNoManifest]
    /\ steady = [s \in ScanSides |-> {}]
    /\ treeChanges = 0

LOCAL Goto(where) == at' = where
LOCAL Refuse == Goto("refused")

\* parse_endpoint: "box:" and ":" name the box's side and want an absolute path
\* that is more than separators; "name:/" is refused; a drive letter and all the
\* rest is a path of the host.
ParseEndpoint(e) ==
    CASE e.prefix = "box"   -> IF e.rest \in {"absolute", "root"} THEN "guest" ELSE "refused"
      [] e.prefix = "named" -> IF e.rest # "relative" THEN "refused" ELSE "host"
      [] OTHER              -> "host"

\* parse_endpoints: one side is the host's, the other the box's.
ScanParse ==
  /\ at = "parse"
  /\ LET from == ParseEndpoint(scanAsked.src)
         to == ParseEndpoint(scanAsked.dst) IN
     IF "refused" \notin {from, to} /\ from # to
     THEN Goto("source") /\ scanUpload' = (from = "host")
     ELSE Refuse /\ UNCHANGED scanUpload
  /\ UNCHANGED <<scanAsked, trees, seen, scanSession, root, walk, manifests, steady, treeChanges>>

\* The kind of the entry at a path: a link on the way leads to another tree.
KindsAt(tree, path) ==
    IF path \notin DOMAIN tree THEN {"none"}
    ELSE IF \E n \in 1 .. Len(path) - 1 : tree[SubSeq(path, 1, n)] = "link" THEN Kinds
    ELSE {tree[path]}

\* inspect_root and Session::begin.
InspectRoot(kind) ==
    CASE kind = "none" -> "Missing"
      [] kind = "dir"  -> "ExistingDirectory"
      [] kind = "link" -> "ExistingSymlink"
      [] kind \in {"file", "large"} -> "ExistingFile"
      [] OTHER -> "error"

\* begin_session; the session is the agent's from then on. The command goes on unless the
\* entry is of a kind it refuses.
BeginSession(side, path, refused, next) ==
    \E kind \in KindsAt(trees[side], path) :
        IF InspectRoot(kind) = "error"
        THEN Refuse /\ UNCHANGED <<scanSession, seen>>
        ELSE /\ scanSession' = [root |-> path, status |-> InspectRoot(kind)]
             /\ seen' = [seen EXCEPT ![side] = kind]
             /\ IF kind \in refused THEN Refuse ELSE Goto(next)

\* The start of sync_host_to_guest: the source on the host.
InspectHostSource ==
    /\ at = "source" /\ scanUpload
    /\ LET kind == trees.source[SourceBase] IN
       /\ seen' = [seen EXCEPT !.source = kind]
       /\ IF \/ kind \in {"none", "special"}
             \/ kind = "link" /\ scanAsked.src.trailing
             \/ scanAsked.delete /\ kind # "dir"
          THEN Refuse ELSE Goto("destination")
    /\ UNCHANGED <<scanAsked, trees, scanUpload, scanSession, root, walk, manifests, steady, treeChanges>>

\* The start of sync_guest_to_host: the source in the box.
BeginGuestSource ==
    /\ at = "source" /\ ~scanUpload
    /\ BeginSession("source", SourceBase,
                    {"none"} \cup (IF scanAsked.src.trailing THEN {"link"} ELSE {})
                             \cup (IF scanAsked.delete THEN Kinds \ {"dir"} ELSE {}),
                    "destination")
    /\ UNCHANGED <<scanAsked, trees, scanUpload, root, walk, manifests, steady, treeChanges>>

BeginGuestDestination ==
    /\ at = "destination" /\ scanUpload
    /\ BeginSession("destination", DestBase,
                    IF scanAsked.dst.trailing THEN {"file", "large", "link"} ELSE {}, "place")
    /\ UNCHANGED <<scanAsked, trees, scanUpload, root, walk, manifests, steady, treeChanges>>

InspectHostDestination ==
    /\ at = "destination" /\ ~scanUpload
    /\ LET kind == trees.destination[DestBase] IN
       /\ seen' = [seen EXCEPT !.destination = kind]
       /\ IF scanAsked.dst.trailing /\ kind \notin {"none", "dir"} THEN Refuse ELSE Goto("place")
    /\ UNCHANGED <<scanAsked, trees, scanUpload, scanSession, root, walk, manifests, steady, treeChanges>>

\* resolve_placement: into an existing directory under the source's name, unless
\* a separator says that the contents of a directory are meant.
ResolvePlacement(isDir, srcTrailing, dstIsDir, dstTrailing) ==
    LET inside == Append(DestBase, Last(SourceBase)) IN
    IF isDir
    THEN IF ~srcTrailing /\ dstIsDir THEN inside ELSE DestBase
    ELSE IF dstIsDir \/ dstTrailing THEN inside ELSE DestBase

Place ==
    /\ at = "place"
    /\ root' = ResolvePlacement(seen.source = "dir", scanAsked.src.trailing,
                                seen.destination = "dir", scanAsked.dst.trailing)
    /\ IF scanUpload THEN Goto(IF root' = DestBase THEN "first scan" ELSE "begin again")
       ELSE IF seen.source = "link" /\ root' = DestBase THEN Refuse
       ELSE Goto("first scan")
    /\ UNCHANGED <<scanAsked, trees, scanUpload, seen, scanSession, walk, manifests, steady, treeChanges>>

\* The second BeginSession of an upload, for the root the copy really goes to.
BeginAgain ==
    /\ at = "begin again"
    /\ BeginSession("destination", root, {}, "first scan")
    /\ UNCHANGED <<scanAsked, trees, scanUpload, root, walk, manifests, steady, treeChanges>>

Base(side) == IF side = "source" THEN SourceBase ELSE root
Relative(side, path) == SubSeq(path, Len(Base(side)) + 1, Len(path))
\* The paths of a tree that are below a place, the place included, and there.
PathsThere(side, tree) ==
    {Relative(side, p) : p \in {q \in DOMAIN tree : tree[q] # "none" /\ IsPrefix(Base(side), q)}}

\* SyncManifestBudget::add_entry, for the entries a manifest has and the bytes
\* counted so far.
EntryCost(path, kind) == Len(path) + (IF kind = "link" THEN 1 ELSE 0) + EntryOverhead
WithinBudget(entries, metadata) == entries <= MaxSyncEntries /\ metadata <= MaxSyncMetadata

\* What an entry may be on either side: entry_at in the box, host_entry on the
\* host.  A special file or one over the size limit ends the scan.
EntryAt(kind) == kind \in {"file", "dir", "link"}
HostEntry(kind) == kind \notin {"none", "large", "special"}
Describable(side, kind) == IF side = GuestSide THEN EntryAt(kind) ELSE HostEntry(kind)
ChildEntry(dir, name) == Append(dir, name)

\* The order of the scans: an upload reads the host first, a download the box.
ScanOf(where) == IF where = "first scan" THEN "source" ELSE "destination"
AfterScan(side) == IF side = "source" THEN "second scan" ELSE "plan"

LOCAL EndWith(side, manifest) ==
    /\ manifests' = [manifests EXCEPT ![side] = manifest]
    /\ walk' = NotWalking /\ Goto(AfterScan(side))

\* The root's entry: the agent's scan, or scan_host_directory and
\* single_host_entry_map, the latter from what was looked at before.
ScanRoot(side) ==
    /\ at \in {"first scan", "scan target"} \/ (at = "second scan" /\ scanUpload)
    /\ side = ScanOf(at) /\ walk = NotWalking
    /\ LET guest == side = GuestSide
           single == ~guest /\ seen[side] # "dir" IN
       /\ steady' = [steady EXCEPT ![side] =
             IF single \/ (guest /\ scanSession.status = "Missing") THEN {} ELSE PathsThere(side, trees[side])]
       /\ \E kind \in IF single THEN {seen[side]} ELSE KindsAt(trees[side], Base(side)) :
            LET cost == IF guest THEN EntryCost(<<>>, kind) ELSE 0
                first == [p \in {<<>>} |-> kind] IN
            IF (guest /\ scanSession.status = "Missing") \/ (single /\ kind = "none")
            THEN EndWith(side, ScanNoManifest)
            ELSE IF ~Describable(side, kind) \/ (guest /\ ~WithinBudget(1, cost))
            THEN Refuse /\ UNCHANGED <<walk, manifests>>
            ELSE IF kind = "dir" \/ ~(guest \/ single)
            THEN /\ manifests' = [manifests EXCEPT ![side] = first]
                 /\ walk' = [side |-> side, dirs |-> <<Base(side)>>, dir |-> <<>>, left |-> {}, metadata |-> cost]
                 /\ UNCHANGED at
            ELSE EndWith(side, first)
    /\ UNCHANGED <<scanAsked, trees, scanUpload, seen, scanSession, root, treeChanges>>

\* A download looks at the effective root on the host before it scans it.
LookAtTarget ==
    /\ at = "second scan" /\ ~scanUpload /\ walk = NotWalking
    /\ \E kind \in KindsAt(trees.destination, root) : seen' = [seen EXCEPT !.destination = kind]
    /\ Goto("scan target")
    /\ UNCHANGED <<scanAsked, trees, scanUpload, scanSession, root, walk, manifests, steady, treeChanges>>

\* pop_front and read_dir, which follows a link that took the directory's place.
TakeDirectory ==
    /\ walk.side # "none" /\ walk.left = {} /\ walk.dirs # <<>>
    /\ LET dir == Head(walk.dirs)
           tree == trees[walk.side]
           places == {Last(q) : q \in {q \in DOMAIN tree : Len(q) = Len(dir) + 1 /\ IsPrefix(dir, q)}} IN
       \E kind \in KindsAt(tree, dir) :
         \E names \in IF kind = "dir" /\ KindsAt(tree, dir) = {"dir"}
                      THEN {{n \in places : tree[Append(dir, n)] # "none"}} ELSE SUBSET places :
           IF kind \in {"dir", "link"}
           THEN walk' = [walk EXCEPT !.dirs = Tail(@), !.dir = dir, !.left = names] /\ UNCHANGED at
           ELSE Refuse /\ walk' = NotWalking
    /\ UNCHANGED <<scanAsked, trees, scanUpload, seen, scanSession, root, manifests, steady, treeChanges>>

\* A scan that does not go into the directories of a directory.
\* The directories a scan goes on with.
EnqueueDirectory(dirs, path, kind) == IF kind = "dir" THEN Append(dirs, path) ELSE dirs

\* One entry of a directory: child_entry and entry_at in the box with the
\* command's add_entry, or host_entry and add_entry on the host.
ReadEntry ==
    /\ walk.side # "none"
    /\ \E name \in walk.left :
       LET path == ChildEntry(walk.dir, name)
           rel == Relative(walk.side, path)
           side == walk.side IN
       \E kind \in KindsAt(trees[side], path) :
         LET cost == walk.metadata + EntryCost(rel, kind) IN
         IF \/ ~Describable(side, kind)
            \/ ~WithinBudget(Cardinality(DOMAIN manifests[side]) + 1, cost)
         THEN Refuse /\ walk' = NotWalking /\ UNCHANGED manifests
         ELSE /\ manifests' = [manifests EXCEPT
                    ![side] = [p \in DOMAIN manifests[side] \cup {rel} |->
                                  IF p = rel THEN kind ELSE manifests[side][p]]]
              /\ walk' = [walk EXCEPT !.left = @ \ {name}, !.metadata = cost,
                                      !.dirs = EnqueueDirectory(@, path, kind)]
              /\ UNCHANGED at
    /\ UNCHANGED <<scanAsked, trees, scanUpload, seen, scanSession, root, steady, treeChanges>>

\* validate_manifest.
LOCAL ScanParent(path) == SubSeq(path, 1, Len(path) - 1)
ValidSyncManifest(m) ==
    \A p \in DOMAIN m : p # <<>> =>
        IF ScanParent(p) \in DOMAIN m THEN m[ScanParent(p)] = "dir" ELSE ScanParent(p) = <<>>

EndOfScan ==
    /\ walk.side # "none" /\ walk.left = {} /\ walk.dirs = <<>>
    /\ walk' = NotWalking
    /\ Goto(IF walk.side = GuestSide /\ ~ValidSyncManifest(manifests[walk.side])
            THEN "refused" ELSE AfterScan(walk.side))
    /\ UNCHANGED <<scanAsked, trees, scanUpload, seen, scanSession, root, manifests, steady, treeChanges>>

\* A check that only looks whether there is a root.
\* validate_root_kind: the manifest begins as the session said.
ValidateRootKind(m) ==
    IF scanSession.status = "Missing" THEN m = ScanNoManifest
    ELSE <<>> \in DOMAIN m /\ InspectRoot(m[<<>>]) = scanSession.status

\* validate_plan_conflicts, the first thing build_plan does.
ValidatePlanConflicts ==
    /\ \A side \in ScanSides : ValidSyncManifest(manifests[side])
    /\ \A p \in DOMAIN manifests.source \cap DOMAIN manifests.destination :
          manifests.source[p] = "dir" <=> manifests.destination[p] = "dir"

MakeSyncPlan ==
    /\ at = "plan"
    /\ Goto(IF ValidateRootKind(manifests[GuestSide]) /\ ValidatePlanConflicts THEN "planned" ELSE "refused")
    /\ UNCHANGED <<scanAsked, trees, scanUpload, seen, scanSession, root, walk, manifests, steady, treeChanges>>

\* A reply that does not come in time, a broken stream, an agent that stops, a
\* name that is not UTF-8.
LoseAgent ==
    /\ at \notin {"parse", "planned", "refused"} /\ Refuse
    /\ walk' = NotWalking
    /\ UNCHANGED <<scanAsked, trees, scanUpload, seen, scanSession, root, manifests, steady, treeChanges>>

\* Another process makes, replaces or removes an entry, and what is below it.
ChangeTree(side) ==
    /\ at \notin {"parse", "planned", "refused"} /\ treeChanges < MaxTreeChanges
    /\ \E path \in DOMAIN trees[side], kind \in Kinds :
         /\ kind # trees[side][path]
         /\ Len(path) > 1 => trees[side][ScanParent(path)] = "dir"
         /\ LET gone == {q \in DOMAIN trees[side] : IsPrefix(path, q)} IN
            /\ trees' = [trees EXCEPT ![side] = [q \in DOMAIN @ |->
                  IF q = path THEN kind ELSE IF q \in gone THEN "none" ELSE trees[side][q]]]
            /\ steady' = [steady EXCEPT ![side] = {p \in @ : Base(side) \o p \notin gone}]
    /\ treeChanges' = treeChanges + 1
    /\ UNCHANGED <<scanAsked, at, scanUpload, seen, scanSession, root, walk, manifests>>

ScanSideNext ==
    \/ ScanParse \/ InspectHostSource \/ BeginGuestSource \/ BeginGuestDestination \/ InspectHostDestination
    \/ Place \/ BeginAgain \/ LookAtTarget \/ TakeDirectory \/ ReadEntry \/ EndOfScan \/ MakeSyncPlan
    \/ LoseAgent
    \/ \E side \in ScanSides : ScanRoot(side) \/ ChangeTree(side)

\* What a plan is made of (the manifests of scan_host_directory and
\* scan_guest_entries, checked by validate_root_kind and validate_manifest):
\* each manifest is a tree within the budget; what was there all through a
\* side's scan is in its manifest, whatever other processes did meanwhile, so
\* --delete removes nothing only because the scan did not see its source; entries
\* are planned for removal only below a source that is a directory; and an
\* upload adds to an existing directory only when its source ended in a separator
\* or the directory has the source's name.
PlansRestOnTheTrees ==
    at = "planned" =>
        /\ \A side \in ScanSides :
              /\ Cardinality(DOMAIN manifests[side]) <= MaxSyncEntries
              /\ steady[side] \subseteq DOMAIN manifests[side]
              /\ \A p \in DOMAIN manifests[side] \ {<<>>} :
                    ScanParent(p) \in DOMAIN manifests[side] /\ manifests[side][ScanParent(p)] = "dir"
        /\ DOMAIN manifests.destination \ (DOMAIN manifests.source \cup {<<>>}) # {}
              => manifests.source[<<>>] = "dir"
        /\ (scanUpload /\ root = DestBase /\ ~scanAsked.src.trailing /\ manifests.source[<<>>] = "dir")
                  => manifests.destination = ScanNoManifest

ScanSideSpec == ScanSideInit /\ [][ScanSideNext]_scanSideVars

------------------------------------------------------------------------------
(***************************************************************************)
(* The name probes of a download (crates/terra/src/cmd/sync/names.rs):     *)
(* before a plan is made, every name of both manifests is created as a     *)
(* file in a hidden directory beside its destination, so that the          *)
(* destination's own file system says which names are the same.  The       *)
(* probes are made in the order of the directories, nested where the       *)
(* directory does not exist yet, and are removed in reverse; the times of  *)
(* the directories they were made in are put back.                         *)
(*                                                                         *)
(* A directory compares names exactly or folded.  What a new directory     *)
(* takes over from the one it is made in is up to the file system: any     *)
(* function. This is Linux and Windows; macOS has no setting of single     *)
(* directories.                                                            *)
(***************************************************************************)

CONSTANTS DirOrder,    \* the directories of the manifests as BTreeMap sorts them, <<>> the root
          SyncNameSets,   \* the sets of names a directory may hold
          FoldedName(_),  \* a name as a folding directory compares it
          MaxProbeFaults  \* bound: calls of the host that fail

VARIABLES existing,    \* directories that exist (rigid), <<>> among them or none
          setting,     \* how they compare names (rigid); of "above", the nearest ancestor
          inherit,     \* the setting a directory made in another gets (rigid)
          sought,      \* directory -> the names of both manifests (rigid)
          missingAbove,   \* how many directories the root is below an existing one (rigid)
          probes,      \* Vec<DirectoryProbe>, with the settings its directories have
          making,      \* the probe under construction
          inserted,    \* directory -> names inserted
          probeAt,          \* "make", "new", "resolve", "close", "drop", "done", "failed"
          mtime,       \* existing directory -> "own" or "probe"
          cleaned,     \* no removal has failed
          probeFaults

nameVars == <<existing, setting, inherit, sought, missingAbove, probes, making, inserted, probeAt, mtime, cleaned, probeFaults>>

Dirs == ToSet(DirOrder)
ProbeAbove == <<"..">>
Settings == {"exact", "folded"}
LOCAL Parent(d) == SubSeq(d, 1, Len(d) - 1)
NoProbe == [dir |-> ProbeAbove, parent |-> ProbeAbove, nested |-> FALSE, staging |-> "exact", names |-> "exact", time |-> "own"]

\* Every path but the root's is in the name set of its parent.
ProbesInit ==
    /\ \E e \in SUBSET Dirs :
          /\ \A d \in e : d = <<>> \/ Parent(d) \in e
          /\ existing = e
    /\ setting \in [existing \cup {ProbeAbove} -> Settings]
    /\ inherit \in [Settings -> Settings]
    /\ sought \in [Dirs -> SyncNameSets]
    /\ \A d \in Dirs : {Last(c) : c \in {c \in Dirs \ {<<>>} : Parent(c) = d}} \subseteq sought[d]
    /\ missingAbove \in IF <<>> \in existing THEN {1} ELSE {1, 2}
    /\ probes = <<>> /\ making = NoProbe /\ probeAt = "make"
    /\ inserted = [d \in Dirs |-> {}]
    /\ mtime = [d \in existing \cup {ProbeAbove} |-> "own"]
    /\ cleaned = TRUE /\ probeFaults = 0

rigid == <<existing, setting, inherit, sought, missingAbove>>

ProbeSame(a, b, how) == a = b \/ (how = "folded" /\ FoldedName(a) = FoldedName(b))
ProbeOf(d) == SelectInSeq(probes, LAMBDA p : p.dir = d)
HasProbe(d) == ProbeOf(d) # 0

Fault == probeFaults < MaxProbeFaults /\ probeFaults' = probeFaults + 1

\* Where the probe of a directory goes: into the directory, into the nearest one
\* above a root that does not exist, or into the probe of its parent.
ProbePlace(d) ==
    IF d \in existing THEN [parent |-> d, nested |-> FALSE, how |-> setting[d]]
    ELSE IF d = <<>> THEN [parent |-> ProbeAbove, nested |-> FALSE, how |-> setting[ProbeAbove]]
    ELSE [parent |-> Parent(d), nested |-> TRUE, how |-> probes[ProbeOf(Parent(d))].staging]

\* The next directory of HostNames::new that has no probe yet; add_directory
\* makes the probe of a parent first.
NextDirectory == DirOrder[SelectInSeq(DirOrder, LAMBDA d : ~HasProbe(d))]

\* DirectoryProbe::new: the parent's time is read and the staging directory made,
\* which changes that time.
MakeProbe ==
    /\ probeAt = "make" /\ \E d \in Dirs : ~HasProbe(d)
    /\ \A d \in Dirs : HasProbe(d) => inserted[d] = sought[d]
    /\ LET d == NextDirectory
           where == ProbePlace(d)
           staging == inherit[where.how] IN
       /\ making' = [dir |-> d, parent |-> where.parent, nested |-> where.nested, staging |-> staging,
                     names |-> inherit[staging], time |-> IF where.nested THEN "own" ELSE mtime[where.parent]]
       /\ mtime' = IF where.nested THEN mtime ELSE [mtime EXCEPT ![where.parent] = "probe"]
    /\ probeAt' = "new"
    /\ UNCHANGED <<rigid, probes, inserted, cleaned, probeFaults>>

\* Settings that are only compared within the probe.
\* verify_comparison_settings, as both calls of DirectoryProbe::new make it.
VerifySettings(p) ==
    /\ p.staging = p.names
    /\ (~p.nested /\ p.parent = p.dir) => setting[p.dir] = p.names

\* The rest of DirectoryProbe::new.
FinishProbe ==
    /\ probeAt = "new"
    /\ probes' = Append(probes, making) /\ making' = NoProbe
    /\ probeAt' = IF VerifySettings(making) THEN "make" ELSE "drop"
    /\ UNCHANGED <<rigid, inserted, mtime, cleaned, probeFaults>>

\* create_dir or reading a setting fails: the probe is dropped like a finished one.
ProbeFails ==
    /\ probeAt = "new" /\ Fault
    /\ probes' = Append(probes, making) /\ making' = NoProbe /\ probeAt' = "drop"
    /\ UNCHANGED <<rigid, inserted, mtime, cleaned>>

\* The staging directory cannot be made; the other probes are dropped.
MakeFails ==
    /\ probeAt = "make" /\ (\E d \in Dirs : ~HasProbe(d)) /\ Fault /\ probeAt' = "drop"
    /\ UNCHANGED <<rigid, probes, making, inserted, mtime, cleaned>>

\* insert_name: create_new finds a name that is the same in this directory.
InsertName ==
    /\ probeAt = "make" /\ probes # <<>>
    /\ LET p == Last(probes) IN
       \E name \in sought[p.dir] \ inserted[p.dir] :
          IF \E other \in inserted[p.dir] : ProbeSame(name, other, p.names)
          THEN probeAt' = "drop" /\ UNCHANGED inserted
          ELSE inserted' = [inserted EXCEPT ![p.dir] = @ \cup {name}] /\ UNCHANGED probeAt
    /\ UNCHANGED <<rigid, probes, making, mtime, cleaned, probeFaults>>

\* HostNames::new is done; build_plan validates the links with resolve_component
\* and then closes the names whatever came out.
ResolveNames ==
    /\ probeAt = "make" /\ \A d \in Dirs : HasProbe(d) /\ inserted[d] = sought[d]
    /\ probeAt' = "resolve"
    /\ UNCHANGED <<rigid, probes, making, inserted, mtime, cleaned, probeFaults>>
BeginClose ==
    /\ probeAt = "resolve" /\ probeAt' = "close"
    /\ UNCHANGED <<rigid, probes, making, inserted, mtime, cleaned, probeFaults>>

\* Probes closed in the order they were made.
\* The probe that goes next: pop takes the last.
NextToClose == Len(probes)

\* DirectoryProbe::close: the staging directory is removed with what is in it,
\* then the parent's time is set.  A nested probe is in another's staging
\* directory: once that is gone its removal fails.
CloseProbe(restores) ==
    /\ probeAt \in {"close", "drop"} /\ probes # <<>>
    /\ LET p == probes[NextToClose] IN
       /\ cleaned' = (cleaned /\ restores /\ (p.nested => HasProbe(p.parent)))
       /\ probes' = RemoveAt(probes, NextToClose)
       /\ mtime' = IF p.nested \/ ~restores THEN mtime ELSE [mtime EXCEPT ![p.parent] = p.time]
    /\ UNCHANGED <<rigid, making, inserted, probeAt>>
CloseOne == CloseProbe(TRUE) /\ UNCHANGED probeFaults
CloseFails == CloseProbe(FALSE) /\ Fault

EndNames ==
    /\ probeAt \in {"close", "drop"} /\ probes = <<>>
    /\ probeAt' = IF probeAt = "close" /\ cleaned THEN "done" ELSE "failed"
    /\ UNCHANGED <<rigid, probes, making, inserted, mtime, cleaned, probeFaults>>

ProbesNext ==
    \/ MakeProbe \/ FinishProbe \/ ProbeFails \/ MakeFails \/ InsertName \/ ResolveNames \/ BeginClose
    \/ CloseOne \/ CloseFails \/ EndNames

\* How a directory will compare names once the sync has made it.
PlacedSetting[d \in Dirs] ==
    IF d \in existing THEN setting[d]
    ELSE IF d # <<>> THEN inherit[PlacedSetting[Parent(d)]]
    ELSE IF missingAbove = 1 THEN inherit[setting[ProbeAbove]] ELSE inherit[inherit[setting[ProbeAbove]]]

\* Names that pass the probes (insert_name, verify_comparison_settings) are
\* different entries in the directory they will be placed in, existing or made by
\* the sync, however the file system passes its comparison settings on.
NamesAreComparedAsPlaced ==
    probeAt = "resolve" =>
             \A d \in Dirs : \A a, b \in sought[d] : a # b => ~ProbeSame(a, b, PlacedSetting[d])

\* However making the probes ends, DirectoryProbe::close and the Drop of HostNames
\* put every directory's time back, unless a removal or a restore itself fails;
\* without such a failure the names are closed without an error.
ProbesLeaveNoTrace ==
    probeAt \in {"done", "failed"} =>
             /\ cleaned => \A d \in DOMAIN mtime : mtime[d] = "own"
             /\ probeFaults = 0 => cleaned

ProbesSpec == ProbesInit /\ [][ProbesNext]_nameVars

------------------------------------------------------------------------------
(***************************************************************************)
(* The links of a download (cmd/sync/security.rs, names.rs): which         *)
(* symlinks of the guest's tree may be made on the host beside the links   *)
(* that are there, checked against what a lookup on the host can then      *)
(* meet.                                                                   *)
(*                                                                         *)
(* A link's target is [rooted, parts]; a path is a sequence of components. *)
(* The limit on the work of a check, which refuses more, is left out.      *)
(***************************************************************************)

CONSTANTS LinkPaths,    \* paths that may hold a link
          LinkTargets,  \* targets of links
          FoldName(_),  \* the name under which the host finds a component
          MaxFollows    \* MAX_SYMLINK_FOLLOWS

VARIABLES guestTree,  \* per path: Absent, Other (file or directory), or a link's target
          hostTree,   \* the same on the host
          verdict     \* "unchecked", "valid", "refused"

linkVars == <<guestTree, hostTree, verdict>>

LinkAbsent == [rooted |-> FALSE, parts |-> <<"none">>]
Other == [rooted |-> FALSE, parts |-> <<"other">>]
LOCAL IsLink(entry) == entry \notin {LinkAbsent, Other}

LinksInit ==
    /\ guestTree \in [LinkPaths -> LinkTargets \cup {LinkAbsent, Other}]
    /\ hostTree \in [LinkPaths -> LinkTargets \cup {LinkAbsent}]
    /\ verdict = "unchecked"

LOCAL AllButLast(s) == SubSeq(s, 1, Len(s) - 1)

\* HostNames: two names of one directory that the host takes for the same are
\* refused; a component resolves to the name it has there.
NamesCollide ==
    \E p, q \in {r \in LinkPaths : guestTree[r] # LinkAbsent \/ hostTree[r] # LinkAbsent} :
        p # q /\ AllButLast(p) = AllButLast(q) /\ FoldName(p[Len(p)]) = FoldName(q[Len(q)])

ResolveComponent(parent, component) ==
    LET known == {p \in LinkPaths : /\ AllButLast(p) = parent /\ FoldName(p[Len(p)]) = FoldName(component)
                                    /\ guestTree[p] # LinkAbsent \/ hostTree[p] # LinkAbsent} IN
    IF known = {} THEN component ELSE (CHOOSE p \in known : TRUE)[Len(parent) + 1]

\* link_sides: the guest's entry, and a host link the guest does not repeat.
LinkSides(p) ==
    (IF guestTree[p] # LinkAbsent THEN {[target |-> guestTree[p], guest |-> TRUE]} ELSE {})
    \cup (IF IsLink(hostTree[p]) /\ hostTree[p] # guestTree[p]
          THEN {[target |-> hostTree[p], guest |-> FALSE]} ELSE {})

LOCAL HasLink(p) == p \in LinkPaths /\ (IsLink(guestTree[p]) \/ IsLink(hostTree[p]))

\* validate_download_symlink_target: relative, and lexically inside the root.
RECURSIVE StaysInside(_, _)
StaysInside(depth, parts) ==
    \/ parts = <<>>
    \/ IF Head(parts) = ".." THEN depth > 0 /\ StaysInside(depth - 1, Tail(parts))
       ELSE StaysInside(depth + 1, Tail(parts))

ValidTarget(p, target) == ~target.rooted /\ target.parts # <<>> /\ StaysInside(Len(p) - 1, target.parts)

\* A mutant: only the links of the guest itself must stay inside.
OnlyGuestSides(branch, side) == side.guest

\* Whether a chain has met an entry of the guest's.
IsGuestInfluenced(branch, side) == branch.guest \/ side.guest

\* walk_branch with follows_link: the chain is refused (FALSE) when the
\* guest's part in it may leave the root or go on too long; a chain of the
\* host's own is its own business.
RECURSIVE WalkBranch(_)
WalkBranch(b) ==
    IF b.pending = <<>> THEN TRUE
    ELSE IF Head(b.pending) = ".."
    THEN IF b.resolved = <<>> THEN ~b.guest
         ELSE WalkBranch([b EXCEPT !.resolved = AllButLast(@), !.pending = Tail(@)])
    ELSE LET name == Append(b.resolved, ResolveComponent(b.resolved, Head(b.pending)))
             rest == Tail(b.pending) IN
         IF ~HasLink(name) THEN WalkBranch([b EXCEPT !.resolved = name, !.pending = rest])
         ELSE \A side \in LinkSides(name) :
                LET guest == IsGuestInfluenced(b, side) IN
                IF ~IsLink(side.target)
                THEN WalkBranch([b EXCEPT !.resolved = name, !.pending = rest, !.guest = guest])
                ELSE LET followed == b.followed + 1 IN
                     IF guest /\ (followed > MaxFollows \/ ~ValidTarget(name, side.target)) THEN FALSE
                     ELSE IF ~guest /\ (followed > MaxFollows \/ side.target.rooted) THEN TRUE
                     ELSE WalkBranch([resolved |-> b.resolved, pending |-> side.target.parts \o rest,
                                      followed |-> followed, guest |-> guest])

\* validate_link_resolutions, from the link itself.
ValidateLink(p) ==
    WalkBranch([resolved |-> AllButLast(p), pending |-> <<p[Len(p)]>>, followed |-> 0, guest |-> FALSE])

\* build_plan's checks of a download: the names, then every link.
ValidateDownloadLinks ==
    /\ verdict = "unchecked"
    /\ verdict' = IF ~NamesCollide /\ \A p \in LinkPaths : HasLink(p) => ValidateLink(p) THEN "valid" ELSE "refused"
    /\ UNCHANGED <<guestTree, hostTree>>

LinksNext == ValidateDownloadLinks
LinksSpec == LinksInit /\ [][LinksNext]_linkVars

-----------------------------------------------------------------------------
(* Properties *)

\* What a lookup on the host meets, in a tree of which the guest's entries in
\* `made` are installed: whether it leaves the root after an entry of the
\* guest's.
RECURSIVE Leaves(_, _)
Leaves(made, b) ==
    IF b.pending = <<>> \/ b.followed > MaxFollows THEN FALSE
    ELSE IF Head(b.pending) = ".."
    THEN IF b.resolved = <<>> THEN b.guest
         ELSE Leaves(made, [b EXCEPT !.resolved = AllButLast(@), !.pending = Tail(@)])
    ELSE LET name == Append(b.resolved, ResolveComponent(b.resolved, Head(b.pending)))
             entry == IF name \notin LinkPaths THEN LinkAbsent
                      ELSE IF name \in made THEN guestTree[name] ELSE hostTree[name]
             guest == b.guest \/ name \in made IN
         IF ~IsLink(entry) THEN Leaves(made, [b EXCEPT !.resolved = name, !.pending = Tail(@), !.guest = guest])
         ELSE IF entry.rooted THEN guest
         ELSE Leaves(made, [resolved |-> b.resolved, pending |-> entry.parts \o Tail(b.pending),
                            followed |-> b.followed + 1, guest |-> guest])

\* A download that is not refused never makes a lookup on the host leave the
\* destination through what came from the guest, at any point of the sync:
\* with any part of the guest's entries in place.
LinksStayInside ==
    verdict = "valid" =>
        \A made \in SUBSET {p \in LinkPaths : guestTree[p] # LinkAbsent}, p \in LinkPaths :
            ~Leaves(made, [resolved |-> <<>>, pending |-> p, followed |-> 0, guest |-> FALSE])
==============================================================================
