---------------------------- MODULE BoxCommands ----------------------------
EXTENDS Integers, Sequences, FiniteSets
LOCAL INSTANCE FiniteSetsExt

(***************************************************************************)
(* The run lock of one box and the commands that meet at it: start, setup, *)
(* stop and rm (crates/terra/src/state/lock.rs, cmd/{start,stop,rm}.rs,    *)
(* sys/unix.rs), with the supervisor and VM processes they launch          *)
(* (vm/supervisor.rs, vm/boot.rs).  The lock is an flock on the file the   *)
(* path names: it belongs to an inode, is shared by every process that     *)
(* inherited the descriptor, and goes when the last of them dies.          *)
(***************************************************************************)

CONSTANTS
  Clients,      \* the terra commands
  Plans,        \* sets of [Clients -> {"start", "setup", "stop", "rm", "force"}]
  MaxLaunches   \* bound on the boxes launched

ASSUME LockAssumption ==
  /\ IsFiniteSet(Clients) /\ MaxLaunches \in Nat
  /\ Plans \subseteq [Clients -> {"start", "setup", "stop", "rm", "force"}]

VARIABLES
  stateDir,  \* the box's directory is there
  path,      \* the inode run.pid names, 0 when there is none
  inodes,    \* inodes made so far
  line,      \* [inode -> what is written in it]
  supPid,    \* the launch supervisor.pid names, 0 when there is none
  vmPid,     \* the launch host.pid names
  socket,    \* the launch that bound the control socket
  launch,    \* [launch -> its supervisor and VM]
  client,    \* [Clients -> the state of the command]
  unlocked   \* some rm took run.pid away without the lock of that file

lockVars == <<stateDir, path, inodes, line, supPid, vmPid, socket, launch, client, unlocked>>
lockFiles == <<stateDir, path, inodes, line, supPid, vmPid, socket>>

Launches == 1 .. MaxLaunches
MaxInodes == 2 * Cardinality(Clients)   \* bound on the lock files made
Blank == [vm |-> 0, setup |-> FALSE]

\* A process of a launch is not there yet, has yet to check the lock it was
\* handed, is up, was killed but has not died, or is gone.
NoLaunch == [ino |-> 0, sup |-> "none", told |-> 0, vm |-> "none",
             setup |-> FALSE, asked |-> FALSE]
Lives(state) == state \in {"claim", "up", "killed"}

LockInit ==
  /\ stateDir \in BOOLEAN /\ path = 0 /\ inodes = 0
  /\ line = [i \in 1 .. MaxInodes |-> Blank]
  /\ supPid = 0 /\ vmPid = 0 /\ socket = 0
  /\ launch = [k \in Launches |-> NoLaunch]
  /\ \E plan \in Plans :
       client = [c \in Clients |->
                  [plan |-> plan[c], pc |-> "begin", fd |-> 0, locked |-> FALSE,
                   probe |-> 0, saw |-> "free", target |-> 0, role |-> "vm",
                   bound |-> "none", mine |-> 0, late |-> FALSE, back |-> "begin"]]
  /\ unlocked = FALSE

-----------------------------------------------------------------------------
(* flock.                                                                   *)

ExclusivelyHeld(i) ==
  \/ \E c \in Clients : client[c].locked /\ client[c].fd = i
  \/ \E k \in Launches : launch[k].ino = i /\ (Lives(launch[k].sup) \/ Lives(launch[k].vm))
SharedHeld(i) == \E c \in Clients : client[c].probe = i

LockAt(c, pc) == client[c].pc = pc
LockGoto(c, pc) == client' = [client EXCEPT ![c].pc = pc]
LockFinish(c) == client' = [client EXCEPT ![c].pc = "done", ![c].locked = FALSE]
LockRest == UNCHANGED <<launch, unlocked>>

Forced(c) == client[c].plan = "force"

\* get_holder probes the lock with a shared one, then reads the line of
\* whatever file the path names by then.  `back` is where it returns to.
Probes == [begin |-> "began", stop |-> "stop_saw", await |-> "await_saw", reap |-> "reap_saw"]

Probe(c) ==
  /\ client[c].pc \in DOMAIN Probes
  /\ LockAt(c, "begin") => client[c].plan = "start" \/ (Forced(c) /\ stateDir)
  /\ LET back == Probes[client[c].pc]
     IN  \/ /\ path = 0
            /\ client' = [client EXCEPT ![c].saw = "free", ![c].pc = back]
         \/ /\ path # 0 /\ ExclusivelyHeld(path)
            /\ client' = [client EXCEPT ![c].pc = "mark", ![c].back = back]
         \/ /\ path # 0 /\ ~ExclusivelyHeld(path)
            /\ client' = [client EXCEPT ![c].pc = "drop", ![c].back = back,
                                        ![c].probe = path]
  /\ UNCHANGED lockFiles /\ LockRest

ProbeDrop(c) ==
  /\ LockAt(c, "drop")
  /\ client' = [client EXCEPT ![c].pc = client[c].back, ![c].saw = "free", ![c].probe = 0]
  /\ UNCHANGED lockFiles /\ LockRest

ProbeMark(c) ==
  /\ LockAt(c, "mark")
  /\ client' = [client EXCEPT ![c].pc = client[c].back,
       ![c].saw = IF path # 0 /\ line[path].setup THEN "setting_up" ELSE "running"]
  /\ UNCHANGED lockFiles /\ LockRest

\* lock_run makes the directory; try_lock_run opens the file, making it when
\* it is not there, and then tries the lock on what it opened.
OpenLock(c) ==
  /\ \/ LockAt(c, "open")
     \/ LockAt(c, "begin") /\ client[c].plan = "setup"
  /\ stateDir' = TRUE
  /\ IF path = 0
     THEN /\ inodes < MaxInodes
          /\ inodes' = inodes + 1 /\ path' = inodes + 1
     ELSE UNCHANGED <<inodes, path>>
  /\ client' = [client EXCEPT ![c].pc = "try", ![c].fd = path']
  /\ UNCHANGED <<line, supPid, vmPid, socket>> /\ LockRest

\* lock_run retries for LOCK_CONTENTION_GRACE, opening the file anew.
TryLock(c) ==
  /\ LockAt(c, "try")
  /\ IF ExclusivelyHeld(client[c].fd) \/ SharedHeld(client[c].fd)
     THEN LockGoto(c, "open") \/ LockFinish(c)
     ELSE client' = [client EXCEPT ![c].pc = "locked", ![c].locked = TRUE]
  /\ UNCHANGED lockFiles /\ LockRest

\* The line and the pids of a holder that died go.
ClearStale(c) ==
  /\ LockAt(c, "locked")
  /\ line' = [line EXCEPT ![client[c].fd] = Blank]
  /\ supPid' = 0 /\ vmPid' = 0
  /\ LockGoto(c, CASE client[c].plan = "start" -> "launch"
                   [] client[c].plan = "setup" -> "mark_setup"
                   [] OTHER -> "remove")
  /\ UNCHANGED <<stateDir, path, inodes, socket>> /\ LockRest

-----------------------------------------------------------------------------
(* start and setup.                                                         *)

\* build_start_plan: only a free box is booted.
StartPlan(c) ==
  /\ LockAt(c, "began") /\ client[c].plan = "start"
  /\ IF client[c].saw = "free" THEN LockGoto(c, "open") ELSE LockFinish(c)
  /\ UNCHANGED lockFiles /\ LockRest

MarkSettingUp(c) ==
  /\ LockAt(c, "mark_setup")
  /\ line' = [line EXCEPT ![client[c].fd].setup = TRUE]
  /\ LockGoto(c, "launch")
  /\ UNCHANGED <<stateDir, path, inodes, supPid, vmPid, socket>> /\ LockRest

\* The supervisor inherits the locked descriptor.
SpawnSupervisor(c) ==
  /\ LockAt(c, "launch")
  /\ \E k \in Launches :
       /\ launch[k] = NoLaunch
       /\ \A j \in Launches : j < k => launch[j] # NoLaunch
       /\ launch' = [launch EXCEPT ![k].ino = client[c].fd, ![k].sup = "claim",
                                   ![k].setup = client[c].plan = "setup"]
       /\ client' = [client EXCEPT ![c].pc = "wait", ![c].mine = k]
  /\ UNCHANGED <<lockFiles, unlocked>>

\* A boot waits for the VM to be up, a setup for it to end; the setup takes
\* its mark away.  The descriptor closes when the command ends.
EndLaunch(c) ==
  /\ LockAt(c, "wait")
  /\ LET l == launch[client[c].mine]
     IN  \/ l.sup = "gone"
         \/ client[c].plan = "start" /\ l.vm = "up"
  /\ line' = IF client[c].plan = "setup"
             THEN [line EXCEPT ![client[c].fd].setup = FALSE] ELSE line
  /\ LockFinish(c)
  /\ UNCHANGED <<stateDir, path, inodes, supPid, vmPid, socket>> /\ LockRest

\* A command may be killed.  The supervisor of a setup dies with it.
ClientDies(c) ==
  /\ client[c].pc \notin {"begin", "done"}
  /\ client' = [client EXCEPT ![c].pc = "done", ![c].locked = FALSE, ![c].probe = 0]
  /\ launch' = [k \in Launches |->
                  IF k = client[c].mine /\ launch[k].setup /\ Lives(launch[k].sup)
                  THEN [launch[k] EXCEPT !.sup = "killed"] ELSE launch[k]]
  /\ UNCHANGED <<lockFiles, unlocked>>

-----------------------------------------------------------------------------
(* The processes of a launch.                                               *)

\* claim_inherited_lock: the descriptor must be of the file the path names.
ClaimedAnyFile(k) == launch[k].ino # 0
Claimed(k) == launch[k].ino = path

SupervisorClaims(k) ==
  /\ launch[k].sup = "claim"
  /\ launch' = [launch EXCEPT ![k].sup = IF Claimed(k) THEN "up" ELSE "gone"]
  /\ UNCHANGED <<lockFiles, client, unlocked>>

\* run_box: supervisor.pid, the control socket of a boot and the VM process,
\* then the VM's pid in host.pid and on the lock's line.
SupervisorRuns(k) ==
  /\ launch[k].sup = "up" /\ launch[k].told < 3
  /\ launch' = [launch EXCEPT ![k].told = @ + 1,
                              ![k].vm = IF launch[k].told = 1 THEN "claim" ELSE @]
  /\ supPid' = IF launch[k].told = 0 THEN k ELSE supPid
  /\ socket' = IF launch[k].told = 1 /\ ~launch[k].setup THEN k ELSE socket
  /\ vmPid' = IF launch[k].told = 2 THEN k ELSE vmPid
  /\ line' = IF launch[k].told = 2
             THEN [line EXCEPT ![launch[k].ino] = [vm |-> k, setup |-> launch[k].setup]]
             ELSE line
  /\ UNCHANGED <<stateDir, path, inodes, client, unlocked>>

\* run_vm_process reads its spec, which follows its pid's publication.
VmClaims(k) ==
  /\ launch[k].vm = "claim" /\ launch[k].told = 3
  /\ launch' = [launch EXCEPT ![k].vm = IF Claimed(k) THEN "up" ELSE "gone"]
  /\ UNCHANGED <<lockFiles, client, unlocked>>

\* The workload ends, the setup finishes, or the box was asked to stop.
VmExits(k) ==
  /\ launch[k].vm = "up"
  /\ launch' = [launch EXCEPT ![k].vm = "gone"]
  /\ UNCHANGED <<lockFiles, client, unlocked>>

SupervisorExits(k) ==
  /\ launch[k].sup = "up" /\ launch[k].vm = "gone"
  /\ launch' = [launch EXCEPT ![k].sup = "gone"]
  /\ UNCHANGED <<lockFiles, client, unlocked>>

\* SIGKILL takes effect; a supervisor's death kills its VM.
Dies(k) ==
  /\ \/ /\ launch[k].sup = "killed"
        /\ launch' = [launch EXCEPT ![k].sup = "gone",
                        ![k].vm = IF Lives(launch[k].vm) THEN "killed" ELSE @]
     \/ /\ launch[k].vm = "killed"
        /\ launch' = [launch EXCEPT ![k].vm = "gone"]
  /\ UNCHANGED <<lockFiles, client, unlocked>>

-----------------------------------------------------------------------------
(* stop, and rm with and without --force.                                   *)

\* What stop_and_wait's caller does once the box is free.
Stopped(c) == IF Forced(c) THEN LockGoto(c, "open") ELSE LockFinish(c)

\* rm looks for the directory first.
BeginRm(c) ==
  /\ LockAt(c, "begin")
  /\ \/ client[c].plan = "rm" /\ stateDir /\ LockGoto(c, "open")
     \/ client[c].plan \in {"rm", "force"} /\ ~stateDir /\ LockFinish(c)
  /\ UNCHANGED lockFiles /\ LockRest

BeginStop(c) ==
  /\ \/ LockAt(c, "begin") /\ client[c].plan = "stop" /\ LockGoto(c, "stop")
     \/ LockAt(c, "began") /\ Forced(c)
          /\ IF client[c].saw = "free" THEN LockGoto(c, "open") ELSE LockGoto(c, "stop")
  /\ UNCHANGED lockFiles /\ LockRest

RequestStop(c) ==
  /\ LockAt(c, "stop_saw")
  /\ CASE client[c].saw = "free"                        -> Stopped(c)
       [] client[c].saw = "setting_up" /\ ~Forced(c)    -> LockFinish(c)
       [] client[c].saw = "setting_up" /\ Forced(c)     -> LockGoto(c, "locate")
       [] client[c].saw = "running"                     -> LockGoto(c, "ask")
  /\ UNCHANGED lockFiles /\ LockRest

\* The stop byte goes to whoever listens; a refused connection is retried
\* until the deadline.
Ask(c) ==
  /\ LockAt(c, "ask")
  /\ \/ /\ socket # 0 /\ Lives(launch[socket].vm)
        /\ launch' = [launch EXCEPT ![socket].asked = TRUE]
        /\ LockGoto(c, "await")
     \/ /\ ~(socket # 0 /\ Lives(launch[socket].vm))
        /\ \/ LockGoto(c, "stop")
           \/ client' = [client EXCEPT ![c].pc = "await", ![c].late = TRUE]
        /\ UNCHANGED launch
  /\ UNCHANGED <<lockFiles, unlocked>>

\* wait_until_stopped, up to the deadline.
AwaitStopped(c) ==
  /\ LockAt(c, "await_saw")
  /\ \/ client[c].saw = "free" /\ Stopped(c)
     \/ client[c].saw # "free" /\ ~client[c].late /\ LockGoto(c, "await")
     \/ client[c].saw # "free"
          /\ client' = [client EXCEPT ![c].pc = "locate", ![c].late = TRUE]
  /\ UNCHANGED lockFiles /\ LockRest

\* locate_stop_target: the supervisor's pid, else the VM's, else the line's.
Target ==
  CASE supPid # 0 -> [launch |-> supPid, role |-> "sup"]
    [] supPid = 0 /\ vmPid # 0 -> [launch |-> vmPid, role |-> "vm"]
    [] OTHER -> [launch |-> IF path = 0 THEN 0 ELSE line[path].vm, role |-> "vm"]

LocateTarget(c) ==
  /\ LockAt(c, "locate")
  /\ IF Target.launch = 0 THEN LockFinish(c)
     ELSE client' = [client EXCEPT ![c].pc = "pidfd", ![c].target = Target.launch,
                                   ![c].role = Target.role]
  /\ UNCHANGED lockFiles /\ LockRest

TargetLives(c) == Lives(launch[client[c].target][client[c].role])

\* signal_pidfd: open the pid, which another program may have by now, then
\* compare the start time of whoever has it, then signal what was opened.
OpenPidfd(c) ==
  /\ LockAt(c, "pidfd")
  /\ IF TargetLives(c)
     THEN client' = [client EXCEPT ![c].pc = "compare", ![c].bound = "box"]
     ELSE \/ client' = [client EXCEPT ![c].pc = "compare", ![c].bound = "stranger"]
          \/ LockFinish(c)
  /\ UNCHANGED lockFiles /\ LockRest

CompareStartTime(c) ==
  /\ LockAt(c, "compare")
  /\ IF TargetLives(c) THEN LockGoto(c, "signal") ELSE LockFinish(c)
  /\ UNCHANGED lockFiles /\ LockRest

Signal(c) ==
  /\ LockAt(c, "signal")
  /\ launch' = IF client[c].bound = "box" /\ TargetLives(c)
               THEN [launch EXCEPT ![client[c].target][client[c].role] = "killed"]
               ELSE launch
  /\ LockGoto(c, "reap")
  /\ UNCHANGED <<lockFiles, unlocked>>

\* The kill's outcome: gone, or wedged, which only rm --force goes past.
AwaitKilled(c) ==
  /\ LockAt(c, "reap_saw")
  /\ \/ client[c].saw = "free" /\ Stopped(c)
     \/ client[c].saw # "free" /\ LockGoto(c, "reap")
     \/ client[c].saw # "free" /\ IF Forced(c) THEN LockGoto(c, "remove") ELSE LockFinish(c)
  /\ UNCHANGED lockFiles /\ LockRest

\* rm reads the directory and moves the pids and the sockets away; with
\* --purge run.pid goes too.
RemoveBox(c) ==
  /\ LockAt(c, "remove")
  /\ IF stateDir
     THEN /\ supPid' = 0 /\ vmPid' = 0 /\ socket' = 0
          /\ LockFinish(c) \/ LockGoto(c, "unlink")
     ELSE LockFinish(c) /\ UNCHANGED <<supPid, vmPid, socket>>
  /\ UNCHANGED <<stateDir, path, inodes, line>> /\ LockRest

HoldsNamedFile(c) == client[c].locked /\ client[c].fd = path

\* remove_file takes whatever file the name has by now.
UnlinkLock(c) ==
  /\ LockAt(c, "unlink")
  /\ IF path = 0 THEN LockFinish(c) /\ UNCHANGED unlocked
     ELSE LockGoto(c, "unlinked") /\ unlocked' = (unlocked \/ ~HoldsNamedFile(c))
  /\ path' = 0
  /\ UNCHANGED <<stateDir, inodes, line, supPid, vmPid, socket, launch>>

\* remove_dir fails when a file is there again.
EndRm(c) ==
  /\ LockAt(c, "unlinked")
  /\ stateDir' = (stateDir /\ (path # 0 \/ supPid # 0 \/ vmPid # 0 \/ socket # 0))
  /\ LockFinish(c)
  /\ UNCHANGED <<path, inodes, line, supPid, vmPid, socket>> /\ LockRest

-----------------------------------------------------------------------------
LockNext ==
  \/ \E c \in Clients :
       \/ Probe(c) \/ ProbeDrop(c) \/ ProbeMark(c) \/ OpenLock(c) \/ TryLock(c)
       \/ ClearStale(c) \/ StartPlan(c) \/ MarkSettingUp(c) \/ SpawnSupervisor(c)
       \/ EndLaunch(c) \/ ClientDies(c) \/ BeginRm(c) \/ BeginStop(c) \/ RequestStop(c) \/ Ask(c)
       \/ AwaitStopped(c) \/ LocateTarget(c) \/ OpenPidfd(c) \/ CompareStartTime(c)
       \/ Signal(c) \/ AwaitKilled(c) \/ RemoveBox(c) \/ UnlinkLock(c) \/ EndRm(c)
  \/ \E k \in Launches :
       \/ SupervisorClaims(k) \/ SupervisorRuns(k) \/ VmClaims(k) \/ VmExits(k)
       \/ SupervisorExits(k) \/ Dies(k)

LockSpec == LockInit /\ [][LockNext]_lockVars

-----------------------------------------------------------------------------
\* lock_run, pass_lock and claim_inherited_lock: at most one VM of a box is
\* up, although rm --purge takes away the file others may have opened and not
\* yet locked.  An rm that takes run.pid away without holding the lock of that
\* very file gives this up: rm --force of a wedged box, and an rm whose lock is
\* of a file another rm has taken away meanwhile.
OneVmPerBox == ~unlocked => Cardinality({k \in Launches : launch[k].vm = "up"}) <= 1

\* signal_pidfd: a stop signals only a process of the box, although the pid
\* it read may have passed to another program at any step.
OnlyTheBoxIsSignalled == \A c \in Clients : LockAt(c, "signal") => client[c].bound = "box"

------------------------------------------------------------------------------
(***************************************************************************)
(* The stop channel of a foreground command (crates/terra/src/sys/unix.rs):*)
(* the control connection is registered by the main thread while a signal  *)
(* handler, on any thread, asks for the stop.  STOP_FD and STOP_REQUESTED  *)
(* are sequentially consistent atomics, so each access is one step.        *)
(***************************************************************************)

CONSTANT Handlers   \* the deliveries of SIGINT, SIGTERM and SIGHUP

VARIABLES
  stopFd,      \* the registered connection: "unset", "set", or "taken"
  stopAsked,   \* STOP_REQUESTED
  stopAt,      \* [thread -> where it is]
  stopBytes    \* STOP_SIGNAL bytes written to the connection

stopVars == <<stopFd, stopAsked, stopAt, stopBytes>>
StopThreads == Handlers \cup {"register"}

StopInit ==
  /\ stopFd = "unset" /\ stopAsked = FALSE /\ stopBytes = 0
  /\ stopAt = [t \in StopThreads |-> "begin"]

LOCAL Move(t, at) == stopAt' = [stopAt EXCEPT ![t] = at]

\* register_stop_channel stores the connection, then looks for a request.
StoreChannel ==
  /\ stopAt["register"] = "begin"
  /\ stopFd' = "set" /\ Move("register", "stored")
  /\ UNCHANGED <<stopAsked, stopBytes>>

SkipLookForRequest ==
  /\ stopAt["register"] = "stored" /\ Move("register", "end")
  /\ UNCHANGED <<stopFd, stopAsked, stopBytes>>

LookForRequest ==
  /\ stopAt["register"] = "stored"
  /\ Move("register", IF stopAsked THEN "send" ELSE "end")
  /\ UNCHANGED <<stopFd, stopAsked, stopBytes>>

\* The handler notes the request before it sends.
HandleSignal(h) ==
  /\ stopAt[h] = "begin"
  /\ stopAsked' = TRUE /\ Move(h, "send")
  /\ UNCHANGED <<stopFd, stopBytes>>

\* send_stop swaps the connection out and writes if it got one.

SwapChannel(t) ==
  /\ stopAt[t] = "send"
  /\ Move(t, IF stopFd = "set" THEN "write" ELSE "end")
  /\ stopFd' = IF stopFd = "set" THEN "taken" ELSE stopFd
  /\ UNCHANGED <<stopAsked, stopBytes>>

WriteStop(t) ==
  /\ stopAt[t] = "write"
  /\ stopBytes' = stopBytes + 1 /\ Move(t, "end")
  /\ UNCHANGED <<stopFd, stopAsked>>

StopNext ==
  \/ StoreChannel \/ LookForRequest
  \/ \E h \in Handlers : HandleSignal(h)
  \/ \E t \in StopThreads : SwapChannel(t) \/ WriteStop(t)

StopSpec == StopInit /\ [][StopNext]_stopVars

\* "whichever ran first, the other sends" (unix.rs:396-399): however the
\* registration and the signals interleave, no second byte is ever written,
\* and once all have run a request made has been sent.
StopIsSentOnce ==
  /\ stopBytes <= 1
  /\ stopAsked /\ (\A t \in StopThreads : stopAt[t] \in {"begin", "end"})
       /\ stopAt["register"] = "end" => stopBytes = 1

------------------------------------------------------------------------------
(***************************************************************************)
(* Which box a command is about: names (crates/terra/src/name.rs), a BOX   *)
(* argument and the default box (recipe/resolve.rs), the manifest          *)
(* terra.yaml (recipe.rs), the state directory of a box and of its project *)
(* (state.rs), what `ls` lists (cmd/ls.rs), and the project directory that *)
(* the last `rm --purge` sweeps (cmd/rm.rs).                               *)
(*                                                                         *)
(* A word is a sequence of characters of a small alphabet.  A project is   *)
(* typed in one of several spellings; `real` says which directory each is. *)
(* The slug of a project is taken to be its real directory: the digest has *)
(* no collisions.  The manifest is shared with the guest, so any may be    *)
(* read.  Commands about one box exclude each other (the run lock).        *)
(***************************************************************************)

CONSTANTS MaxBoxCommands,  \* bound: terra processes
          Spellings,       \* ways a project directory is typed
          Projects,        \* the directories they are
          BoxArgs,         \* BOX arguments typed
          ManifestNames,   \* sets of names a manifest declares
          SetUpBoxes,      \* sets of boxes set up before
          OldDirectories,  \* names of directories an older terra, or nobody, left
          ReservedNames, DeviceNames, RecipeExtension, MaxNameLength,
          MaxRelinks       \* bound: links set anew

VARIABLES system,      \* "unix" or "windows" (rigid)
          real,        \* spelling -> project: a link may be set anew
          slugDir,     \* project -> [exists, origin, boxes, pinned, other]
          nameCmd,         \* command -> where it is
          begun, relinks,
          sweptUnder   \* ghost: projects swept while a box was being made there

Commands == 1..MaxBoxCommands

namesVars == <<system, real, slugDir, nameCmd, begun, relinks, sweptUnder>>

NoOrigin == <<"none">>
NoSlug == [exists |-> FALSE, origin |-> NoOrigin, boxes |-> {}, pinned |-> {}, other |-> {}]
NoCmd == [at |-> "idle", verb |-> "stop", arg |-> <<>>, spelling |-> "", manifest |-> {}, name |-> <<>>,
          project |-> "", existing |-> {}]

(***************************************************************************)
(* Names.                                                                  *)
(***************************************************************************)
LOCAL Lower(c) == IF c = "A" THEN "a" ELSE c
LOCAL Separators == {"/"}
LOCAL Punctuation == {".", "-", "_"}
LOCAL Storable(c) == c \notin Separators \cup {"~", "\\", " "}
LOCAL LastOf(w, chars) == Max({0} \cup {i \in DOMAIN w : w[i] \in chars})
LOCAL LastDot(w) == LastOf(w, {"."})
LOCAL FirstDot(w) == Min({Len(w) + 1} \cup {i \in DOMAIN w : w[i] = "."})

NormalizeBoxName(w) == [i \in DOMAIN w |-> Lower(w[i])]

\* Path::extension and file_stem of a file name: a leading dot starts no extension.
HasExtension(w) == LastDot(w) > 1
Extension(w) == SubSeq(w, LastDot(w) + 1, Len(w))
FileName(w) == SubSeq(w, LastOf(w, Separators) + 1, Len(w))
FileStem(w) == IF HasExtension(FileName(w)) THEN SubSeq(FileName(w), 1, LastDot(FileName(w)) - 1) ELSE FileName(w)
IsRecipeExt(w) == HasExtension(w) /\ Extension(w) = RecipeExtension

\* is_path: how a BOX argument that names a recipe file looks.
IsPath(w) ==
    \/ w # <<>> /\ w[1] \in {".", "~"} \cup Separators
    \/ \E i \in DOMAIN w : w[i] \in Separators
    \/ IsRecipeExt(FileName(w))

IsWindowsDeviceName(w) ==
    NormalizeBoxName(SubSeq(w, 1, FirstDot(w) - 1)) \in DeviceNames

ValidateStorageName(w) ==
    /\ w # <<>> /\ w[Len(w)] # "."
    /\ ~IsWindowsDeviceName(w)
    /\ \A i \in DOMAIN w : Storable(w[i])

ValidateBoxName(w) ==
    LET name == NormalizeBoxName(w)
    IN /\ name \notin ReservedNames
       /\ ~IsRecipeExt(name)
       /\ ValidateStorageName(name)
       /\ Len(name) <= MaxNameLength
       /\ name[1] \notin Punctuation

\* box_hostname: dots and underscores become dashes; dashes at the end go.
BoxHostname(w) ==
    LET dashed == [i \in DOMAIN w |-> IF w[i] \in Punctuation THEN "-" ELSE Lower(w[i])]
    IN SubSeq(dashed, 1, Max({0} \cup {i \in DOMAIN dashed : dashed[i] # "-"}))

\* BoxArg::parse: the kind of argument and the name of the box.
ParseArg(w) ==
    LET name == IF IsPath(w) THEN FileStem(w) ELSE w
    IN [kind |-> IF ~ValidateBoxName(name) THEN "invalid" ELSE IF IsPath(w) THEN "recipe" ELSE "name",
        name |-> name]

(***************************************************************************)
(* The state directory.                                                    *)
(***************************************************************************)
\* BoxRef::resolve: the project's slug and the normalised name.
BoxDir(spelling, w) == [project |-> real[spelling], name |-> NormalizeBoxName(w)]

\* list_boxes_in: directories, not hidden, whose name a box name resolves to.
ListBoxesIn(project) ==
    {n \in slugDir[project].boxes \cup slugDir[project].other : n[1] # "." /\ n = NormalizeBoxName(n)}

\* write_origin: the resolved directory on Unix, the typed path on Windows.
Origin(spelling) == IF system = "unix" THEN <<"real", real[spelling]>> ELSE <<"typed", spelling>>

(***************************************************************************)
(* The manifest.                                                           *)
(***************************************************************************)
NoManifest == [kind |-> "none", names |-> {}, paths |-> TRUE]
Manifests == {NoManifest, [NoManifest EXCEPT !.kind = "broken"], [kind |-> "map", names |-> UNION ManifestNames, paths |-> FALSE]}
             \cup [kind : {"map"}, names : ManifestNames, paths : {TRUE}]

\* load_manifest: every name is valid, every reference is a path, and no box is named twice.
ManifestIsSound(m) ==
    /\ m.kind = "map" /\ m.paths
    /\ \A n \in m.names : ValidateBoxName(n)
    /\ \A n, o \in m.names : NormalizeBoxName(n) = NormalizeBoxName(o) => n = o

\* load_manifest_or_warn: one that is not sound counts as none.
DeclaredNames(m) == IF ManifestIsSound(m) THEN {NormalizeBoxName(n) : n \in m.names} ELSE {}

NamesInit ==
    /\ system \in {"unix", "windows"}
    /\ \E p \in {CHOOSE p \in Projects : TRUE}, boxes \in SetUpBoxes, other \in {{}, OldDirectories} :
          /\ real = [s \in Spellings |-> p]
          /\ slugDir = [q \in Projects |->
                       IF q = p /\ boxes \cup other # {}
                       THEN [exists |-> TRUE, origin |-> IF boxes = {} THEN NoOrigin ELSE <<"real", p>>,
                             boxes |-> boxes, pinned |-> boxes, other |-> other]
                       ELSE NoSlug]
    /\ nameCmd = [c \in Commands |-> NoCmd]
    /\ begun = 0 /\ relinks = 0 /\ sweptUnder = {}

LOCAL Quiet == \A c \in Commands : nameCmd[c].at \in {"idle", "acted", "refused"}

\* A spelling leads elsewhere from now on; not in the middle of a command.
Relink(s) ==
    /\ Quiet
    /\ relinks < MaxRelinks /\ relinks' = relinks + 1
    /\ real' \in {[real EXCEPT ![s] = p] : p \in Projects \ {real[s]}}
    /\ UNCHANGED <<system, slugDir, nameCmd, begun, sweptUnder>>

(***************************************************************************)
(* A command.                                                              *)
(***************************************************************************)
LOCAL Step(c, fields) ==
    nameCmd' = [nameCmd EXCEPT ![c] = [f \in DOMAIN nameCmd[c] |-> IF f \in DOMAIN fields THEN fields[f] ELSE nameCmd[c][f]]]

LOCAL Busy(dir, c) ==
    \E d \in Commands \ {c} : /\ nameCmd[d].at \in {"make", "origin", "pin", "remove"}
                              /\ [project |-> nameCmd[d].project, name |-> nameCmd[d].name] = dir

\* resolve_box and resolve_recipe begin alike: the manifest is read, once, and is what the
\* guest, or anyone, has made of it by then.
BeginCommand(c) ==
    /\ nameCmd[c].at = "idle" /\ c = begun + 1
    /\ begun' = begun + 1
    /\ \E verb \in {"setup", "rm", "stop"}, arg \in BoxArgs \cup {<<>>}, s \in Spellings, m \in Manifests :
          nameCmd' = [nameCmd EXCEPT ![c] = [NoCmd EXCEPT !.at = "choose", !.verb = verb, !.arg = arg,
                                                          !.spelling = s, !.project = real[s],
                                                          !.manifest = DeclaredNames(m)]]
    /\ UNCHANGED <<system, real, slugDir, relinks, sweptUnder>>

KnownNames(c) == ListBoxesIn(nameCmd[c].project) \cup nameCmd[c].manifest

DefaultIsFirst(c) == IF KnownNames(c) = {} THEN <<>> ELSE CHOOSE n \in KnownNames(c) : TRUE

\* choose_default_box_name: the only box there is, set up or declared.
DefaultBoxName(c) ==
    IF Cardinality(KnownNames(c)) = 1 THEN CHOOSE n \in KnownNames(c) : TRUE ELSE <<>>

\* What each verb does with the box once it is named: stop wants a pinned box, rm what there
\* is, setup makes it.  A recipe path is only setup's.
ChooseBox(c) ==
    /\ nameCmd[c].at = "choose"
    /\ LET parsed == ParseArg(nameCmd[c].arg)
           name == IF nameCmd[c].arg = <<>> THEN DefaultBoxName(c) ELSE parsed.name
           refused == \/ nameCmd[c].arg # <<>> /\ parsed.kind = "invalid"
                      \/ nameCmd[c].arg # <<>> /\ parsed.kind = "recipe" /\ nameCmd[c].verb # "setup"
                      \/ name = <<>>
       IN /\ Step(c, [at |-> IF refused THEN "refused"
                             ELSE CASE nameCmd[c].verb = "setup" -> "make" [] nameCmd[c].verb = "rm" -> "remove" [] OTHER -> "check",
                      name |-> IF refused THEN <<>> ELSE BoxDir(nameCmd[c].spelling, name).name,
                      manifest |-> {},
                      existing |-> IF nameCmd[c].arg = <<>> THEN slugDir[nameCmd[c].project].boxes ELSE {}])
          /\ ~refused /\ nameCmd[c].verb # "stop" => ~Busy(BoxDir(nameCmd[c].spelling, name), c)
    /\ UNCHANGED <<system, real, slugDir, begun, relinks, sweptUnder>>

\* Existence::MustExist.
CheckPinned(c) ==
    /\ nameCmd[c].at = "check"
    /\ Step(c, [at |-> IF nameCmd[c].name \in slugDir[nameCmd[c].project].pinned THEN "acted" ELSE "refused"])
    /\ UNCHANGED <<system, real, slugDir, begun, relinks, sweptUnder>>

LOCAL SetDir(p, fields) ==
    slugDir' = [slugDir EXCEPT ![p] = [f \in DOMAIN slugDir[p] |-> IF f \in DOMAIN fields THEN fields[f] ELSE slugDir[p][f]]]

\* prepare_state_dir: the directory (with the project's), then the origin; then the recipe is
\* pinned.  Without the project's directory the origin cannot be written.
MakeDir(c) ==
    /\ nameCmd[c].at = "make"
    /\ SetDir(nameCmd[c].project, [exists |-> TRUE, boxes |-> slugDir[nameCmd[c].project].boxes \cup {nameCmd[c].name}])
    /\ Step(c, [at |-> "origin"])
    /\ UNCHANGED <<system, real, begun, relinks, sweptUnder>>

WriteOrigin(c) ==
    /\ nameCmd[c].at = "origin"
    /\ SetDir(nameCmd[c].project, [origin |-> Origin(nameCmd[c].spelling)])
    /\ Step(c, [at |-> "pin"])
    /\ UNCHANGED <<system, real, begun, relinks, sweptUnder>>

PinBox(c) ==
    /\ nameCmd[c].at = "pin"
    /\ SetDir(nameCmd[c].project, [pinned |-> slugDir[nameCmd[c].project].pinned \cup {nameCmd[c].name}])
    /\ Step(c, [at |-> "acted"])
    /\ UNCHANGED <<system, real, begun, relinks, sweptUnder>>

\* `rm --purge` (the files of the box are module BoxStorage's), then sweep_project_dir.
RemoveDir(c) ==
    /\ nameCmd[c].at = "remove"
    /\ IF nameCmd[c].name \in slugDir[nameCmd[c].project].boxes
       THEN /\ SetDir(nameCmd[c].project, [boxes |-> slugDir[nameCmd[c].project].boxes \ {nameCmd[c].name},
                                           pinned |-> slugDir[nameCmd[c].project].pinned \ {nameCmd[c].name}])
            /\ Step(c, [at |-> "sweep"])
       ELSE Step(c, [at |-> "refused"]) /\ UNCHANGED slugDir
    /\ UNCHANGED <<system, real, begun, relinks, sweptUnder>>

SweepLook(c) ==
    /\ nameCmd[c].at = "sweep"
    /\ Step(c, [at |-> IF ListBoxesIn(nameCmd[c].project) = {} THEN "label" ELSE "acted"])
    /\ UNCHANGED <<system, real, slugDir, begun, relinks, sweptUnder>>

SweepLabel(c) ==
    /\ nameCmd[c].at = "label"
    /\ SetDir(nameCmd[c].project, [origin |-> NoOrigin])
    /\ sweptUnder' = sweptUnder \cup
          (IF \E d \in Commands \ {c} : nameCmd[d].project = nameCmd[c].project /\ nameCmd[d].verb = "setup" /\ nameCmd[d].at \notin {"idle", "refused"}
           THEN {nameCmd[c].project} ELSE {})
    /\ Step(c, [at |-> "rmdir"])
    /\ UNCHANGED <<system, real, begun, relinks>>

SweepDir(c) ==
    /\ nameCmd[c].at = "rmdir"
    /\ IF slugDir[nameCmd[c].project].boxes \cup slugDir[nameCmd[c].project].other = {} /\ slugDir[nameCmd[c].project].origin = NoOrigin
       THEN SetDir(nameCmd[c].project, [exists |-> FALSE])
       ELSE UNCHANGED slugDir
    /\ Step(c, [at |-> "acted"])
    /\ UNCHANGED <<system, real, begun, relinks, sweptUnder>>

\* `ls --all` relinks nothing: the boxes of every project with an origin, and under it.
OnThisMachine ==
    UNION {{<<slugDir[p].origin, n>> : n \in ListBoxesIn(p)} :
           p \in {q \in Projects : slugDir[q].exists /\ slugDir[q].origin # NoOrigin}}

Run(c) ==
    \/ BeginCommand(c) \/ ChooseBox(c) \/ CheckPinned(c)
    \/ MakeDir(c) \/ WriteOrigin(c) \/ PinBox(c)
    \/ RemoveDir(c) \/ SweepLook(c) \/ SweepLabel(c) \/ SweepDir(c)

NamesNext == (\E c \in Commands : Run(c)) \/ (\E s \in Spellings : Relink(s))
NamesSpec == NamesInit /\ [][NamesNext]_namesVars

(***************************************************************************)
(* Properties.                                                             *)
(***************************************************************************)
\* Every pinned box has a name that stands for it alone: `ls` lists it, its directory is
\* what its name in any case leads to, its host name is one a guest can have, and no other
\* box's directory differs from it by case only (BoxRef::resolve, validate_box_name,
\* list_boxes_in, box_hostname).
BoxesAreListed ==
    \A p \in Projects : \A n \in slugDir[p].pinned :
        /\ n \in ListBoxesIn(p)
        /\ BoxHostname(n) # <<>> /\ BoxHostname(n)[1] # "-" /\ BoxHostname(n)[Len(BoxHostname(n))] # "-"
        /\ \A s \in Spellings, w \in BoxArgs : real[s] = p =>
              (BoxDir(s, w).name = n <=> [i \in DOMAIN w |-> Lower(w[i])] = n)
        /\ \A o \in slugDir[p].pinned : [i \in DOMAIN o |-> Lower(o[i])] = [i \in DOMAIN n |-> Lower(n[i])] => o = n

\* A command that names no box acts on a box only where it is the only one; and whatever is
\* in terra.yaml, a command that names a box which is set up reaches it
\* (choose_default_box_name, load_manifest_or_warn).
NamedBoxIsReached ==
    \A c \in Commands :
        /\ nameCmd[c].at \in {"check", "make", "remove", "acted"} /\ nameCmd[c].arg = <<>> /\ nameCmd[c].name \in nameCmd[c].existing =>
                  {n \in nameCmd[c].existing : n[1] # "."} = {nameCmd[c].name}
        /\ nameCmd[c].at = "refused" /\ nameCmd[c].verb \in {"stop", "rm"} /\ nameCmd[c].arg # <<>> /\ ParseArg(nameCmd[c].arg).kind = "name" =>
                  NormalizeBoxName(nameCmd[c].arg) = nameCmd[c].name

\* A box that is set up is listed by `ls --all`, on Unix under its project's own directory
\* - unless an `rm` swept the project while the box was being made (write_origin,
\* list_boxes_on_this_machine, sweep_project_dir).
BoxesHaveTheirOrigin ==
    \A p \in Projects : \A n \in slugDir[p].pinned :
        p \in sweptUnder \/ \E o \in {<<"real", p>>} \cup {<<"typed", s>> : s \in Spellings} :
                                 /\ <<o, n>> \in OnThisMachine
                                 /\ system = "unix" => o = <<"real", p>>
==============================================================================
