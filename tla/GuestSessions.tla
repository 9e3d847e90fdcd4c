--------------------------- MODULE GuestSessions ---------------------------
EXTENDS Integers, Sequences, FiniteSets
LOCAL INSTANCE SequencesExt

(***************************************************************************)
(* The guest agent's shared terminal (terra-agent session.rs) and the      *)
(* services that use it (services.rs): several tasks deliver to the        *)
(* clients under the delivery lock, each write may time out, and the       *)
(* shared size is computed under one lock and applied to the terminal      *)
(* later.                                                                  *)
(***************************************************************************)

CONSTANTS Terminals,     \* client connections; also their ids
          TermSizes,     \* sizes a client may ask for (rows and columns as one)
          DefaultSize,   \* the size without any client's
          MaxOutput,     \* bound on the chunks of output
          TermMaxResizes,    \* bound on a client's resizes
          MaxControls    \* bound on detach requests

VARIABLES screen,   \* the session: output so far, view, exit, attached clients
          terminal, \* the size of the terminal itself
          termConn,     \* per client: pc, frames it was sent, whether it is open
          task,     \* what each task is doing
          asked     \* detach requests so far

sessionVars == <<screen, terminal, termConn, task, asked>>

\* The tasks that deliver: the pump of the terminal's output, the console's
\* end, the session control, and one task per client.
Deliverers == {"pump", "console", "control"} \cup Terminals

LOCAL Idle == [op |-> "idle", todo |-> {}, frame |-> <<>>, size |-> 0, failed |-> {}]
LOCAL Attached == {c \in Terminals : screen.size[c] >= 0}
LOCAL Gone == -1       \* not attached
LOCAL Unsized == 0     \* attached, no size reported

SessionInit ==
    /\ screen = [out |-> 0, view |-> DefaultSize, exit |-> FALSE, size |-> [c \in Terminals |-> Gone]]
    /\ terminal = DefaultSize
    /\ termConn = [c \in Terminals |-> [pc |-> "new", frames |-> <<>>, open |-> TRUE, resizes |-> 0]]
    /\ task = [t \in Deliverers |-> Idle] /\ asked = 0

\* The delivery lock is free.
DeliveryFree == \A t \in Deliverers : task[t].op \in {"idle", "size"}

\* The size the view takes: the tightest of the attached, else the default.
LOCAL Tightest(size) ==
    LET sizes == {size[c] : c \in {d \in Terminals : size[d] > 0}} IN
    IF sizes = {} THEN DefaultSize ELSE CHOOSE m \in sizes : \A n \in sizes : m <= n

\* Inner::update_shared_size: the size to apply, 0 when the view has it already.
UpdateSharedSize(size) == IF screen.view = Tightest(size) THEN 0 ELSE Tightest(size)

LOCAL Begin(t, op, todo, frame, size) ==
    task' = [task EXCEPT ![t] = [op |-> op, todo |-> todo, frame |-> frame, size |-> size, failed |-> {}]]

LOCAL ApplySize(size) == terminal' = IF size = 0 THEN terminal ELSE size

-----------------------------------------------------------------------------
(* What begins a delivery, under both locks. *)

\* feed_output: the screen takes the chunk; nothing once the session ended.
FeedOutput ==
    /\ DeliveryFree /\ task["pump"] = Idle /\ screen.out < MaxOutput /\ ~screen.exit
    /\ screen' = [screen EXCEPT !.out = @ + 1]
    /\ Begin("pump", "feed", Attached, <<"Out", screen.out + 1>>, 0)
    /\ UNCHANGED <<terminal, termConn, asked>>

\* broadcast_exit takes the clients; the pump may still be there when the
\* terminal did not drain in time.
BroadcastExit ==
    /\ DeliveryFree /\ task["console"] = Idle /\ ~screen.exit
    /\ screen' = [screen EXCEPT !.exit = TRUE, !.size = [c \in Terminals |-> Gone]]
    /\ Begin("console", "last", Attached, <<"Exit">>, 0)
    /\ UNCHANGED <<terminal, termConn, asked>>

\* attach_client: the repaint of a screen that saw output, and the exit code
\* when the session already ended.
AttachClient(c) ==
    /\ DeliveryFree /\ task[c] = Idle /\ termConn[c].pc = "new"
    /\ screen' = [screen EXCEPT !.size[c] = IF screen.exit THEN Gone ELSE Unsized]
    /\ termConn' = [termConn EXCEPT ![c].pc = "attach"]
    /\ Begin(c, IF screen.exit THEN "ended" ELSE "attach", IF screen.out > 0 THEN {c} ELSE {}, <<"Screen", screen.out>>, 0)
    /\ UNCHANGED <<terminal, asked>>

LOCAL Detach(t, who) ==
    LET size == [c \in Terminals |-> IF c \in who THEN Gone ELSE screen.size[c]] IN
    /\ DeliveryFree /\ task[t] = Idle
    /\ screen' = [screen EXCEPT !.size = size, !.view = Tightest(size)]
    /\ Begin(t, "last", who, <<"Detached">>, UpdateSharedSize(size))

\* detach_client at the end of serve_client; nothing for one already removed.
TermDetachClient(c) ==
  /\ termConn[c].pc = "leave" /\ termConn' = [termConn EXCEPT ![c].pc = "done"]
  /\ IF c \in Attached THEN Detach(c, {c})
     ELSE DeliveryFree /\ UNCHANGED <<screen, task>>
  /\ UNCHANGED <<terminal, asked>>

\* serve_session_control: detach one, or all of them.
DetachByControl(who) ==
    /\ asked < MaxControls /\ asked' = asked + 1
    /\ who = Attached \/ (who \subseteq Attached /\ Cardinality(who) = 1)
    /\ Detach("control", who)
    /\ UNCHANGED <<terminal, termConn>>

-----------------------------------------------------------------------------
(* The writes of a delivery, and what follows them. *)

\* ClientConn::write: the frame arrives, or the client does not read for the
\* timeout or is gone.  The last frame of a client closes its connection.
DeliverFrame(t, c) ==
    /\ task[t].op # "idle" /\ c \in task[t].todo
    /\ \E ok \in {o \in BOOLEAN : o => termConn[c].open} :
         /\ termConn' = [termConn EXCEPT ![c].frames = IF ok THEN Append(@, task[t].frame) ELSE @,
                                         ![c].open = @ /\ ok /\ task[t].op # "last"]
         /\ task' = [task EXCEPT ![t].todo = @ \ {c}, ![t].failed = IF ok THEN @ ELSE @ \cup {c}]
    /\ UNCHANGED <<screen, terminal, asked>>

\* feed_output ends: the clients that failed are no longer attached.
EndFeed ==
    /\ task["pump"].op = "feed" /\ task["pump"].todo = {}
    /\ screen' = [screen EXCEPT !.size = [c \in Terminals |-> IF c \in task["pump"].failed THEN Gone ELSE @[c]]]
    /\ task' = [task EXCEPT !["pump"] = Idle]
    /\ UNCHANGED <<terminal, termConn, asked>>

\* attach_client ends: a failed repaint removes the client, and an ended
\* session's code is its last frame.
EndAttach(c) ==
    /\ task[c].op \in {"attach", "ended"} /\ task[c].todo = {}
    /\ \/ /\ task[c].failed # {}
          /\ screen' = [screen EXCEPT !.size[c] = Gone] /\ termConn' = [termConn EXCEPT ![c].pc = "done"]
          /\ task' = [task EXCEPT ![c] = Idle]
       \/ /\ task[c].failed = {} /\ task[c].op = "ended"
          /\ termConn' = [termConn EXCEPT ![c].pc = "serve"]
          /\ Begin(c, "last", {c}, <<"Exit">>, 0) /\ UNCHANGED screen
       \/ /\ task[c].failed = {} /\ task[c].op = "attach"
          /\ termConn' = [termConn EXCEPT ![c].pc = "serve"]
          /\ task' = [task EXCEPT ![c] = Idle] /\ UNCHANGED screen
    /\ UNCHANGED <<terminal, asked>>

\* The end of a detach or of the exit: the size computed at its beginning.
EndLast(t) ==
    /\ task[t].op = "last" /\ task[t].todo = {}
    /\ ApplySize(task[t].size)
    /\ task' = [task EXCEPT ![t] = Idle]
    /\ UNCHANGED <<screen, termConn, asked>>

-----------------------------------------------------------------------------
(* A client's own task. *)

\* set_client_size, without the delivery lock; one of zero rows is ignored,
\* one of a removed client too.
SetClientSize(c, size) ==
    /\ termConn[c].pc = "serve" /\ termConn[c].resizes < TermMaxResizes /\ task[c] = Idle
    /\ termConn' = [termConn EXCEPT ![c].resizes = @ + 1]
    /\ IF c \notin Attached THEN UNCHANGED <<screen, task>>
       ELSE LET sizes == [screen.size EXCEPT ![c] = size] IN
            /\ screen' = [screen EXCEPT !.size = sizes, !.view = Tightest(sizes)]
            /\ Begin(c, "size", {}, <<>>, UpdateSharedSize(sizes))
    /\ UNCHANGED <<terminal, asked>>

ApplyClientSize(c) ==
    /\ task[c].op = "size" /\ ApplySize(task[c].size)
    /\ task' = [task EXCEPT ![c] = Idle]
    /\ UNCHANGED <<screen, termConn, asked>>

\* serve_client's loop ends: EOF, an error, or input the workload does not
\* take in time.
LeaveClient(c) ==
    /\ termConn[c].pc = "serve" /\ task[c] = Idle
    /\ termConn' = [termConn EXCEPT ![c].pc = "leave"]
    /\ UNCHANGED <<screen, terminal, task, asked>>

\* close_clients on the agent's shutdown, after the exit was broadcast or
\* instead of it; without the delivery lock.
CloseClients ==
    /\ task["console"] = Idle /\ (~screen.exit \/ Attached # {})
    /\ screen' = [screen EXCEPT !.exit = TRUE, !.size = [c \in Terminals |-> Gone]]
    /\ termConn' = [c \in Terminals |-> [termConn[c] EXCEPT !.open = @ /\ c \notin Attached]]
    /\ UNCHANGED <<terminal, task, asked>>

-----------------------------------------------------------------------------

SessionNext ==
    \/ FeedOutput \/ BroadcastExit \/ EndFeed \/ CloseClients
    \/ \E c \in Terminals :
         \/ AttachClient(c) \/ EndAttach(c) \/ TermDetachClient(c) \/ ApplyClientSize(c) \/ LeaveClient(c)
         \/ \E size \in TermSizes : SetClientSize(c, size)
         \/ \E t \in Deliverers : DeliverFrame(t, c)
    \/ \E t \in Deliverers : EndLast(t)
    \/ \E who \in SUBSET Terminals : DetachByControl(who)

SessionSpec == SessionInit /\ [][SessionNext]_sessionVars

-----------------------------------------------------------------------------
(* Properties *)

SessionTypeOK ==
    /\ screen.out \in 0..MaxOutput /\ terminal \in TermSizes \cup {DefaultSize}
    /\ \A c \in Terminals : screen.size[c] \in {Gone, Unsized} \cup TermSizes

\* What a client has seen of the output after its frames.
LOCAL NoDelivery == \A t \in Deliverers : task[t].op \in {"idle", "size"}
LOCAL Seen(frames, i) == IF frames[i][1] \in {"Out", "Screen"} THEN frames[i][2] ELSE 0

\* A client's view has no gap and no repetition, whoever delivers to it: after
\* the repaint every chunk comes once and in order, an attached client that is
\* not being written to has all of the output, and nothing follows its end.
OutputIsSeenOnce ==
    \A c \in Terminals : LET frames == termConn[c].frames IN
      /\ \A i \in 2..Len(frames) :
           /\ frames[i - 1][1] \notin {"Exit", "Detached"}
           /\ frames[i][1] = "Out" => frames[i][2] = Seen(frames, i - 1) + 1
           /\ frames[i][1] # "Screen"
      /\ (c \in Attached /\ NoDelivery /\ screen.out > 0) =>
           Len(frames) > 0 /\ Seen(frames, Len(frames)) = screen.out

------------------------------------------------------------------------------
(***************************************************************************)
(* One command execution of the guest agent (terra-agent exec.rs): the     *)
(* command's process, the pumps of its input and output, the frames the    *)
(* client receives, and what ends it: the process, the client's            *)
(* disconnect, a client that does not read, or the agent's shutdown.       *)
(***************************************************************************)

CONSTANTS ExecModes,   \* {"pty", "pipes"}
          MaxChunks    \* bound on the chunks written to one stream

VARIABLES execution,  \* the request: mode, pc, code
          child,      \* the process: state, descendant holding its output, exit seen
          execStream,     \* per stream: chunks written, chunks taken by its pump
          pump,       \* per stream: "off", "read", "send", "ok", "err"
          input,      \* the input pump: "off", "on", "ended"
          execPeer,       \* the client: connected; the shutdown of the agent
          execSent        \* frames sent: <<stream, chunk>>, <<"Exit", code>>

execVars == <<execution, child, execStream, pump, input, execPeer, execSent>>

LOCAL PipedStreams == IF execution.mode = "pty" THEN {"Out"} ELSE {"Out", "Err"}
LOCAL Goto(pc) == execution' = [execution EXCEPT !.pc = pc]
LOCAL Reply(code) == execution' = [execution EXCEPT !.pc = "reply", !.code = code]

ExecInit ==
    /\ execution \in {[mode |-> m, pc |-> "request", code |-> "none"] : m \in ExecModes}
    /\ child = [state |-> "none", held |-> FALSE, seen |-> FALSE, drained |-> FALSE]
    /\ execStream = [s \in {"Out", "Err"} |-> [written |-> 0, taken |-> 0]]
    /\ pump = [s \in {"Out", "Err"} |-> "off"] /\ input = "off"
    /\ execPeer = [connected |-> TRUE, shutdown |-> FALSE] /\ execSent = <<>>

-----------------------------------------------------------------------------
(* The client, the agent and the processes. *)

Disconnect ==
    /\ execPeer.connected /\ execPeer' = [execPeer EXCEPT !.connected = FALSE]
    /\ UNCHANGED <<execution, child, execStream, pump, input, execSent>>

ShutDown ==
    /\ ~execPeer.shutdown /\ execPeer' = [execPeer EXCEPT !.shutdown = TRUE]
    /\ UNCHANGED <<execution, child, execStream, pump, input, execSent>>

\* The process, or a descendant that outlives it, writes.
ChildWrites(s) ==
    /\ child.state = "run" \/ child.held
    /\ s \in PipedStreams /\ execStream[s].written < MaxChunks
    /\ execStream' = [execStream EXCEPT ![s].written = @ + 1]
    /\ UNCHANGED <<execution, child, pump, input, execPeer, execSent>>

\* The process exits; a descendant may keep its output open.
ChildExits ==
    /\ child.state = "run"
    /\ \E held \in BOOLEAN : child' = [child EXCEPT !.state = "dead", !.held = held]
    /\ UNCHANGED <<execution, execStream, pump, input, execPeer, execSent>>

-----------------------------------------------------------------------------
(* serve_exec and run_exec. *)

\* The request, or none in time, or one without a command.
ReadRequest ==
    /\ execution.pc = "request"
    /\ \/ execPeer.shutdown /\ Goto("done")
       \/ ~execPeer.shutdown /\ (Goto("spawn") \/ Reply("not run"))
    /\ UNCHANGED <<child, execStream, pump, input, execPeer, execSent>>

\* spawn_pty, spawn_pipes; a failure is told to the client.
SpawnCommand ==
    /\ execution.pc = "spawn"
    /\ \/ /\ Goto("run") /\ child' = [child EXCEPT !.state = "run"]
          /\ pump' = [s \in {"Out", "Err"} |-> IF s \in PipedStreams THEN "read" ELSE "ok"]
          /\ input' = "on" /\ UNCHANGED execSent
       \/ /\ Reply("not run") /\ UNCHANGED <<child, pump, input>>
          /\ execSent' \in {execSent} \cup (IF execPeer.connected /\ ~execPeer.shutdown THEN {Append(execSent, <<"Failure">>)} ELSE {})
    /\ UNCHANGED <<execStream, execPeer>>

\* The group gets KILL; a descendant that left it does not.
LOCAL Killed == IF child.state = "run" THEN {[child EXCEPT !.state = "dead", !.held = h] : h \in BOOLEAN} ELSE {child}

\* A mutant: the end of the input leaves the process alone.
EndInputOnly ==
    /\ execution.pc = "run" /\ input = "on" /\ ~execPeer.connected
    /\ input' = "ended"
    /\ UNCHANGED <<execution, child, execStream, pump, execPeer, execSent>>

\* pump_input ends: the client is gone, sent what is no frame, or the
\* process's input failed.
EndInput ==
    /\ execution.pc = "run" /\ input = "on"
    /\ input' = "ended" /\ child' \in Killed
    /\ UNCHANGED <<execution, execStream, pump, execPeer, execSent>>

-----------------------------------------------------------------------------
(* drive_output and pump_output. *)

\* wait_owned's status: from here the pumps have the drain grace left.
SeeExit ==
    /\ execution.pc = "run" /\ child.state = "dead" /\ ~child.seen
    /\ child' = [child EXCEPT !.seen = TRUE]
    /\ UNCHANGED <<execution, execStream, pump, input, execPeer, execSent>>

ReadChunk(s) ==
    /\ pump[s] = "read" /\ ~execPeer.shutdown /\ ~child.drained
    /\ execStream[s].taken < execStream[s].written
    /\ execStream' = [execStream EXCEPT ![s].taken = @ + 1] /\ pump' = [pump EXCEPT ![s] = "send"]
    /\ UNCHANGED <<execution, child, input, execPeer, execSent>>

\* A pump fails: the other is dropped and the group killed.
LOCAL FailPumps == pump' = [s \in {"Out", "Err"} |-> "err"] /\ child' \in Killed

\* send_output under the writer's lock: shut down, written, or not in time.
SendChunk(s) ==
    /\ pump[s] = "send"
    /\ \/ ~execPeer.shutdown /\ execPeer.connected /\ execSent' = Append(execSent, <<s, execStream[s].taken>>)
          /\ pump' = [pump EXCEPT ![s] = "read"] /\ UNCHANGED child
       \/ FailPumps /\ UNCHANGED execSent
    /\ UNCHANGED <<execution, execStream, input, execPeer>>

\* The drain grace runs out after the exit was seen.
DrainGrace ==
    /\ child.seen /\ ~child.drained /\ execution.pc = "run"
    /\ child' = [child EXCEPT !.drained = TRUE]
    /\ UNCHANGED <<execution, execStream, pump, input, execPeer, execSent>>

\* The source ended, its grace ran out, it failed, or the agent shuts down.
EndPump(s) ==
    /\ pump[s] = "read"
    /\ \/ /\ child.drained \/ (child.state = "dead" /\ ~child.held /\ execStream[s].taken = execStream[s].written)
          /\ ~execPeer.shutdown /\ pump' = [pump EXCEPT ![s] = "ok"] /\ UNCHANGED child
       \/ FailPumps
    /\ UNCHANGED <<execution, execStream, input, execPeer, execSent>>

\* The join of the wait and the pumps.
FinishOutput ==
    /\ execution.pc = "run" /\ child.seen /\ \A s \in PipedStreams : pump[s] \in {"ok", "err"}
    /\ Reply(IF \E s \in PipedStreams : pump[s] = "err" THEN "not run" ELSE "status")
    /\ UNCHANGED <<child, execStream, pump, input, execPeer, execSent>>

\* The last frame of serve_exec.
SendExit ==
    /\ execution.pc = "reply" /\ Goto("done")
    /\ \/ UNCHANGED execSent
       \/ execPeer.connected /\ ~execPeer.shutdown /\ execSent' = Append(execSent, <<"Exit", execution.code>>)
    /\ UNCHANGED <<child, execStream, pump, input, execPeer>>

-----------------------------------------------------------------------------

LOCAL PumpStep(s) == SendChunk(s) \/ EndPump(s)
ExecStep == ReadRequest \/ SpawnCommand \/ SeeExit \/ DrainGrace \/ FinishOutput \/ SendExit

ExecNext ==
    \/ Disconnect \/ ShutDown \/ ChildExits \/ ExecStep \/ EndInput
    \/ \E s \in {"Out", "Err"} : ChildWrites(s) \/ ReadChunk(s) \/ PumpStep(s)

ExecSpec == ExecInit /\ [][ExecNext]_execVars

-----------------------------------------------------------------------------
(* Properties *)

ExecTypeOK ==
    /\ execution.pc \in {"request", "spawn", "run", "reply", "done"}
    /\ execution.code \in {"none", "not run", "status"}
    /\ child.state \in {"none", "run", "dead"} /\ child.held \in BOOLEAN

LOCAL Chunks(s) == SelectSeq(execSent, LAMBDA f : f[1] = s)

\* An exit with the process's status is the last frame: the process is over,
\* every chunk taken from its output was sent before, each stream's in order,
\* and unless the drain grace cut it off that is all it wrote.
ExitComesLast ==
    \A i \in 1..Len(execSent) : execSent[i] = <<"Exit", "status">> =>
        /\ i = Len(execSent) /\ child.state = "dead"
        /\ \A s \in PipedStreams :
             /\ Chunks(s) = [k \in 1..execStream[s].taken |-> <<s, k>>]
             /\ ~child.drained => execStream[s].taken = execStream[s].written

\* An execution whose client is gone or whose agent shuts down ends, though
\* its process neither exits nor writes by itself; no process is left behind.
ExecutionEnds ==
    ~execPeer.connected \/ execPeer.shutdown => execution.pc = "done" /\ child.state # "run"

------------------------------------------------------------------------------
(***************************************************************************)
(* A box's disks from boot to boot: the host makes and grows the images    *)
(* (vm/image.rs, vm/resources.rs), the agent as PID 1 replays and grows    *)
(* the filesystems, mounts the root the plan's way, bakes what run boots   *)
(* rely on, and remounts everything read-only at the end                   *)
(* (terra-agent bootstrap.rs, mounts.rs, agent.rs).  The VM may be killed  *)
(* at any step.  Sizes are in kernel pages of PageUnits units.             *)
(***************************************************************************)

CONSTANTS RootModes,         \* of "writable", "readonly", "overlay": the recipe's
          ImageSizes,        \* sizes in units a recipe may ask for
          BakedBlocks,       \* blocks of the prebaked filesystems
          BlockUnits,        \* units of a block
          PageUnits,         \* units of a page
          RemountAttempts,   \* REMOUNT_ATTEMPTS
          MaxBoots           \* bound: boots

ASSUME BootSizes ==
  /\ BlockUnits \in Nat \ {0} /\ PageUnits \in Nat \ {0}
  /\ \A s \in ImageSizes : s >= BakedBlocks * BlockUnits

Disks == {"root", "volume", "upper"}

VARIABLES rootMode,          \* rigid: the recipe's
          image,             \* disk -> units, 0 when there is no image
          fs,                \* disk -> [blocks, journal, mounted, trimmed]
          vm,                \* "off" or the boot's step
          bootMode,          \* "create" or "run"
          growing,           \* disks still to grow, in order
          attempts, busy,
          places,            \* the root image has its mount points and links
          failedBoot,        \* the outcome so far is an error
          warned,            \* disks whose growth was skipped or failed
          baked,             \* the stamp
          rootBoots

bootDiskVars == <<rootMode, image, fs, vm, bootMode, growing, attempts, busy, places, failedBoot, warned,
                  baked, rootBoots>>

BootDiskInit ==
  /\ rootMode \in RootModes
  /\ image = [d \in Disks |-> 0]
  /\ fs = [d \in Disks |-> [blocks |-> 0, journal |-> "clean", mounted |-> "no", trimmed |-> FALSE]]
  /\ vm = "off" /\ bootMode = "none" /\ growing = <<>> /\ attempts = 0 /\ busy = FALSE
  /\ places = FALSE /\ failedBoot = FALSE /\ warned = {} /\ baked = FALSE /\ rootBoots = 0

-----------------------------------------------------------------------------
(* The host, between boots                                                 *)

(* A new image holds the prebaked filesystem; an old one only grows.       *)
GrowImage(d, target) == IF target > image[d] THEN target ELSE image[d]

InstallOrGrow(d, target) ==
  /\ image' = [image EXCEPT ![d] = GrowImage(d, target)]
  /\ IF image[d] = 0
     THEN fs' = [fs EXCEPT ![d] = [blocks |-> BakedBlocks, journal |-> "clean", mounted |-> "no",
                                   trimmed |-> FALSE]]
     ELSE UNCHANGED fs

HostInstalls(d) ==
  /\ vm = "off" /\ rootBoots < MaxBoots
  /\ \E s \in ImageSizes : s # image[d] /\ GrowImage(d, s) # image[d] /\ InstallOrGrow(d, s)
  /\ UNCHANGED <<rootMode, vm, bootMode, growing, attempts, busy, places, failedBoot, warned, baked, rootBoots>>

(* A boot-lifetime volume is made anew for every boot.                     *)
PrepareVolumes ==
  /\ \E s \in ImageSizes : image' = [image EXCEPT !["upper"] = s]
  /\ fs' = [fs EXCEPT !["upper"] = [blocks |-> BakedBlocks, journal |-> "clean", mounted |-> "no",
                                    trimmed |-> FALSE]]

(* rootfs_access: setup's VM always writes the root.                       *)
RootfsMount == IF bootMode = "create" THEN "writable" ELSE rootMode

(* setup discards the stamp before its VM runs; a run boot needs it.       *)
StartVm(mode) ==
  /\ vm = "off" /\ rootBoots < MaxBoots /\ image["root"] # 0 /\ image["volume"] # 0
  /\ mode = "run" => baked
  /\ baked' = (baked /\ mode = "run")
  /\ vm' = "early" /\ bootMode' = mode /\ rootBoots' = rootBoots + 1
  /\ PrepareVolumes
  /\ failedBoot' = FALSE /\ warned' = {} /\ busy' = FALSE /\ growing' = <<>> /\ attempts' = 0
  /\ UNCHANGED <<rootMode, places>>

-----------------------------------------------------------------------------
(* enter_root                                                              *)

LOCAL Goes(step) == vm' = step /\ UNCHANGED failedBoot
LOCAL Fails == vm' = "report" /\ failedBoot' = TRUE

EarlyMounts ==
  /\ vm = "early" /\ (Goes("plan") \/ Fails)
  /\ UNCHANGED <<rootMode, image, fs, bootMode, growing, attempts, busy, places, warned, baked, rootBoots>>

(* The plan, then the host's seed and clock.                               *)
ReadBootPlan ==
  /\ vm = "plan"
  /\ (Goes("grow") \/ Fails)
  /\ growing' = <<"volume">> \o (CASE RootfsMount = "writable" -> <<"root">>
                                   [] RootfsMount = "overlay" -> <<"upper">>
                                   [] OTHER -> <<>>)
  /\ UNCHANGED <<rootMode, image, fs, bootMode, attempts, busy, places, warned, baked, rootBoots>>

(* resize2fs's default size: the device rounded down to a page.            *)
DeviceBlocks(d) ==
  LET whole == image[d] \div BlockUnits
      perPage == PageUnits \div BlockUnits IN
  IF PageUnits > BlockUnits THEN whole - (whole % perPage) ELSE whole

(* A count that merely fits.                                               *)
SuperblockSpansDevice(d) == fs[d].blocks = DeviceBlocks(d)

(* grow_filesystem: a full filesystem is left alone; another is mounted    *)
(* first, which replays its journal.                                       *)
GrowMount ==
  /\ vm = "grow" /\ growing # <<>>
  /\ LET d == Head(growing) IN
       \/ /\ SuperblockSpansDevice(d) /\ growing' = Tail(growing) /\ UNCHANGED <<vm, fs, warned>>
       \/ /\ ~SuperblockSpansDevice(d)
          /\ \/ /\ fs' = [fs EXCEPT ![d].mounted = "rw", ![d].journal = "dirty"] /\ vm' = "unmount"
                /\ UNCHANGED <<growing, warned>>
             \/ /\ growing' = Tail(growing) /\ warned' = warned \cup {d} /\ UNCHANGED <<vm, fs>>
  /\ UNCHANGED <<rootMode, image, bootMode, attempts, busy, places, failedBoot, baked, rootBoots>>

(* The filesystem is resized although it would not unmount.                *)
(* A filesystem that will not unmount is detached and keeps its size.      *)
GrowUnmount ==
  /\ vm = "unmount"
  /\ LET d == Head(growing) IN
       \/ /\ fs' = [fs EXCEPT ![d].mounted = "no", ![d].journal = "clean"] /\ vm' = "resize"
          /\ UNCHANGED <<growing, warned>>
       \/ /\ growing' = Tail(growing) /\ vm' = "grow" /\ warned' = warned \cup {d} /\ UNCHANGED fs
  /\ UNCHANGED <<rootMode, image, bootMode, attempts, busy, places, failedBoot, baked, rootBoots>>

(* resize2fs (external) may trim a last group it cannot use.               *)
GrowResize ==
  /\ vm = "resize" /\ vm' = "grow" /\ growing' = Tail(growing)
  /\ LET d == Head(growing) IN
       \/ \E trim \in BOOLEAN :
            /\ fs' = [fs EXCEPT ![d].blocks = DeviceBlocks(d) - (IF trim THEN 1 ELSE 0), ![d].trimmed = trim]
            /\ UNCHANGED warned
       \/ warned' = warned \cup {d} /\ UNCHANGED fs
  /\ UNCHANGED <<rootMode, image, bootMode, attempts, busy, places, failedBoot, baked, rootBoots>>

(* A journal that needs a replay does not mount read-only.                 *)
LOCAL MountsReadOnly(d) == fs[d].journal = "clean" \/ fs[d].mounted = "rw"
LOCAL Rw(f, d) == [f EXCEPT ![d].mounted = "rw", ![d].journal = "dirty"]
LOCAL Ro(f, d) == [f EXCEPT ![d].mounted = IF @ = "rw" THEN "rw" ELSE "ro"]

MountGuestRoot ==
  /\ vm = "grow" /\ growing = <<>>
  /\ \/ /\ CASE RootfsMount = "writable" -> fs' = Rw(fs, "root")
             [] RootfsMount = "readonly" -> MountsReadOnly("root") /\ fs' = Ro(fs, "root")
             [] OTHER -> MountsReadOnly("root") /\ fs' = Rw(Ro(fs, "root"), "upper")
        /\ Goes("pivot")
     \/ Fails /\ UNCHANGED fs
  /\ UNCHANGED <<rootMode, image, bootMode, growing, attempts, busy, places, warned, baked, rootBoots>>

(* The binds, the pivot, the tmpfs mounts and the per-boot files.          *)
PivotRoot ==
  /\ vm = "pivot" /\ (Goes("volumes") \/ Fails)
  /\ UNCHANGED <<rootMode, image, fs, bootMode, growing, attempts, busy, places, warned, baked, rootBoots>>

(* A mount point that is not there is made, if the root takes writes.      *)
MountVolumes ==
  /\ vm = "volumes"
  /\ \/ /\ places \/ RootfsMount # "readonly"
        /\ fs' = Rw(fs, "volume") /\ Goes("running")
     \/ vm' = "close" /\ failedBoot' = TRUE /\ UNCHANGED fs
  /\ UNCHANGED <<rootMode, image, bootMode, growing, attempts, busy, places, warned, baked, rootBoots>>

-----------------------------------------------------------------------------
(* The boot's work and its end                                             *)

(* What runs as root in a writable root may move the links and the mount   *)
(* points, and may leave processes behind.                                 *)
RootGuestWrites ==
  /\ vm = "running" /\ RootfsMount = "writable"
  /\ places' \in {places, FALSE} /\ busy' = TRUE
  /\ UNCHANGED <<rootMode, image, fs, vm, bootMode, growing, attempts, failedBoot, warned, baked, rootBoots>>

(* The hooks are over: setup writes its persistent state.                  *)
WritePersistentState ==
  /\ vm = "running" /\ bootMode = "create"
  /\ vm' = "close"
  /\ \/ places' = TRUE /\ UNCHANGED failedBoot
     \/ failedBoot' = TRUE /\ UNCHANGED places
  /\ UNCHANGED <<rootMode, image, fs, bootMode, growing, attempts, busy, warned, baked, rootBoots>>

RunEnds ==
  /\ vm = "running" /\ bootMode = "run"
  /\ vm' = "close" /\ failedBoot' \in BOOLEAN
  /\ UNCHANGED <<rootMode, image, fs, bootMode, growing, attempts, busy, places, warned, baked, rootBoots>>

(* leave_filesystems_clean: leftovers are killed after a setup; volumes    *)
(* go read-only if they can.                                               *)
LeaveVolumesClean ==
  /\ vm = "close" /\ vm' = "remount"
  /\ attempts' = IF bootMode = "create" THEN RemountAttempts ELSE 1
  /\ \/ fs' = [fs EXCEPT !["volume"].mounted = IF @ = "rw" THEN "ro" ELSE @,
                         !["volume"].journal = IF fs["volume"].mounted = "rw" THEN "clean" ELSE @]
     \/ UNCHANGED fs
  /\ UNCHANGED <<rootMode, image, bootMode, growing, busy, places, failedBoot, warned, baked, rootBoots>>

(* Whoever was killed lets go of its files after a while.                  *)
WritersGo ==
  /\ busy /\ vm \in {"running", "close", "remount"} /\ busy' = FALSE
  /\ UNCHANGED <<rootMode, image, fs, vm, bootMode, growing, attempts, places, failedBoot, warned, baked,
                 rootBoots>>

LOCAL CleanRoot == fs' = [fs EXCEPT !["root"].mounted = IF @ = "rw" THEN "ro" ELSE @,
                                    !["root"].journal = IF fs["root"].mounted = "rw" THEN "clean" ELSE @]

(* Setup takes a busy root for a clean one.                                *)
RemountRoot ==
  /\ vm = "remount"
  /\ \/ ~busy /\ CleanRoot /\ vm' = "report" /\ UNCHANGED <<attempts, failedBoot>>
     \/ busy /\ attempts > 1 /\ attempts' = attempts - 1 /\ UNCHANGED <<vm, fs, failedBoot>>
     \/ /\ busy => attempts <= 1
        /\ vm' = "report" /\ failedBoot' = (failedBoot \/ bootMode = "create") /\ UNCHANGED <<fs, attempts>>
  /\ UNCHANGED <<rootMode, image, bootMode, growing, busy, places, warned, baked, rootBoots>>

LOCAL PowersOff == fs' = [d \in Disks |-> [fs[d] EXCEPT !.mounted = "no"]]

(* The disks are synced and the exit reported; setup's host writes the     *)
(* stamp after a success.                                                  *)
RootReportExit ==
  /\ vm = "report" /\ vm' = "off" /\ PowersOff
  /\ baked' = (baked \/ (bootMode = "create" /\ ~failedBoot))
  /\ UNCHANGED <<rootMode, image, bootMode, growing, attempts, busy, places, failedBoot, warned, rootBoots>>

VmKilled ==
  /\ vm # "off" /\ vm' = "off" /\ PowersOff
  /\ UNCHANGED <<rootMode, image, bootMode, growing, attempts, busy, places, failedBoot, warned, baked,
                 rootBoots>>

-----------------------------------------------------------------------------

BootDiskNext ==
  \/ \E d \in {"root", "volume"} : HostInstalls(d)
  \/ \E m \in {"create", "run"} : StartVm(m)
  \/ EarlyMounts \/ ReadBootPlan \/ GrowMount \/ GrowUnmount \/ GrowResize \/ MountGuestRoot \/ PivotRoot
  \/ MountVolumes \/ RootGuestWrites \/ WritePersistentState \/ RunEnds \/ LeaveVolumesClean \/ WritersGo
  \/ RemountRoot \/ RootReportExit \/ VmKilled

BootDiskSpec == BootDiskInit /\ [][BootDiskNext]_bootDiskVars

-----------------------------------------------------------------------------

(* A box whose stamp is there and whose root no run boot writes can boot:  *)
(* its root mounts read-only without a journal replay and holds the mount  *)
(* points and links a run boot only finds, whichever boots were killed     *)
(* before (leave_filesystems_clean, write_persistent_state, run_setup_vm). *)
BakedBoxBoots ==
  baked /\ rootMode # "writable" /\ vm = "off" => fs["root"].journal = "clean" /\ places

(* resize2fs runs on a filesystem that is unmounted and has no journal to  *)
(* replay, and a boot whose growth gave no warning has its filesystems as  *)
(* large as their images (grow_filesystem, superblock_spans_device).       *)
GrowthIsSafe ==
  /\ vm = "resize" => /\ fs[Head(growing)].mounted = "no"
                      /\ fs[Head(growing)].journal = "clean"
  /\ vm = "running" => \A d \in Disks \ warned :
       fs[d].mounted = "rw" /\ ~fs[d].trimmed => fs[d].blocks = DeviceBlocks(d)
  /\ \A d \in Disks : fs[d].blocks * BlockUnits <= image[d]

------------------------------------------------------------------------------
(***************************************************************************)
(* The guest's side of published ports (terra-agent network.rs): carriers  *)
(* accepted from the host are relayed to the service on a port the plan    *)
(* publishes, within the slots of their protocol; a UDP carrier keeps one  *)
(* socket per host peer, renews it with each datagram, and forwards what   *)
(* the service answers on it.  `part` says which of the two an execution   *)
(* is about; in "relay" one UDP carrier has been admitted.                 *)
(***************************************************************************)

CONSTANTS Carriers, PublishedTcp, PublishedUdp, NamedPorts,
          MaxTcpClients, MaxUdpClients, MaxCarriers,
          HostPeers,
          MaxPublicationPeers,  \* MAX_UDP_PUBLICATION_PEERS
          PublicationTtl,       \* UDP_PEER_TTL
          MaxHostDatagrams, MaxPublicationClock

VARIABLES publishPart, publishCarrier, tcpSlots, udpSlots, carrierSlots, publicationsDown,
          peers,        \* VecDeque<UdpPublicationPeer>
          nextReply,
          nextSocket,   \* sockets opened so far
          spokenFor,    \* per socket: whose datagrams the service saw on it
          publishAnswers,      \* sockets on which the service has answered
          toHost,       \* the last reply forwarded: [peer, socket]
          publishNow, hostDatagrams

publishVars == <<publishPart, publishCarrier, tcpSlots, udpSlots, carrierSlots, publicationsDown,
                 peers, nextReply, nextSocket, spokenFor, publishAnswers, toHost, publishNow, hostDatagrams>>
LOCAL carrierVars == <<publishCarrier, tcpSlots, udpSlots, carrierSlots, publicationsDown>>
LOCAL relayVars == <<peers, nextReply, nextSocket, spokenFor, publishAnswers, toHost, publishNow, hostDatagrams>>
LOCAL NoReply == [peer |-> 0, socket |-> 0, live |-> TRUE]
LOCAL NotSeen == [at |-> "none", kind |-> "none", port |-> 0]

-----------------------------------------------------------------------------

PublishInit ==
  /\ publishPart \in {"carriers", "relay"}
  /\ publishCarrier = [c \in Carriers |-> NotSeen]
  /\ tcpSlots = MaxTcpClients /\ udpSlots = MaxUdpClients /\ carrierSlots = MaxCarriers
  /\ publicationsDown = FALSE
  /\ peers = <<>> /\ nextReply = 0 /\ nextSocket = 1 /\ spokenFor = <<>> /\ publishAnswers = {}
  /\ toHost = NoReply /\ publishNow = 0 /\ hostDatagrams = 0

-----------------------------------------------------------------------------
(* Carriers                                                                *)

(* serve_publications: a slot first, then the next carrier.                *)
PublishAcceptCarrier(c) ==
  /\ publishCarrier[c].at = "none" /\ carrierSlots > 0 /\ ~publicationsDown
  /\ publishCarrier' = [publishCarrier EXCEPT ![c].at = "header"] /\ carrierSlots' = carrierSlots - 1
  /\ UNCHANGED <<tcpSlots, udpSlots, publicationsDown, publishPart>> /\ UNCHANGED relayVars

(* PortGrant::admit without the look at the published ports.               *)
AdmitAnyPort(ports, slots, port) == slots > 0

(* PortGrant::admit                                                        *)
Admit(ports, slots, port) == port \in ports /\ slots > 0

(* relay_publication: the header names protocol and port.                  *)
ReadPublicationHeader(c, kind, port) ==
  /\ publishCarrier[c].at = "header" /\ ~publicationsDown
  /\ IF kind = "tcp"
     THEN Admit(PublishedTcp, tcpSlots, port) /\ tcpSlots' = tcpSlots - 1 /\ UNCHANGED udpSlots
     ELSE Admit(PublishedUdp, udpSlots, port) /\ udpSlots' = udpSlots - 1 /\ UNCHANGED tcpSlots
  /\ publishCarrier' = [publishCarrier EXCEPT ![c] = [at |-> IF kind = "tcp" THEN "connecting" ELSE "relaying",
                                                      kind |-> kind, port |-> port]]
  /\ UNCHANGED <<carrierSlots, publicationsDown, publishPart>> /\ UNCHANGED relayVars

(* connect_published_service, within the deadline the header began.        *)
ConnectPublishedService(c) ==
  /\ publishCarrier[c].at = "connecting" /\ ~publicationsDown
  /\ publishCarrier' = [publishCarrier EXCEPT ![c].at = "relaying"]
  /\ UNCHANGED <<tcpSlots, udpSlots, carrierSlots, publicationsDown, publishPart>> /\ UNCHANGED relayVars

(* A carrier ends keeping the slot of its protocol.                        *)
CarrierEndsHolding(c) ==
  /\ publishCarrier[c].at \in {"header", "connecting", "relaying"}
  /\ publishCarrier' = [publishCarrier EXCEPT ![c] = NotSeen] /\ carrierSlots' = carrierSlots + 1
  /\ UNCHANGED <<tcpSlots, udpSlots, publicationsDown, publishPart>> /\ UNCHANGED relayVars

(* A refusal, a timeout, the relay's end or the shutdown drops both        *)
(* permits (copy_publication_bytes, spawn_admitted).                       *)
PublishCarrierEnds(c) ==
  /\ publishCarrier[c].at \in {"header", "connecting", "relaying"}
  /\ publishCarrier' = [publishCarrier EXCEPT ![c] = NotSeen] /\ carrierSlots' = carrierSlots + 1
  /\ tcpSlots' = tcpSlots + (IF publishCarrier[c].kind = "tcp" THEN 1 ELSE 0)
  /\ udpSlots' = udpSlots + (IF publishCarrier[c].kind = "udp" THEN 1 ELSE 0)
  /\ UNCHANGED <<publicationsDown, publishPart>> /\ UNCHANGED relayVars

ShutDownPublications ==
  /\ ~publicationsDown /\ publicationsDown' = TRUE
  /\ UNCHANGED <<publishCarrier, tcpSlots, udpSlots, carrierSlots, publishPart>> /\ UNCHANGED relayVars

-----------------------------------------------------------------------------
(* The UDP relay                                                           *)

(* The loop begins by dropping the peers whose time is over.               *)
Live(ps) == SelectSeq(ps, LAMBDA e : e.expires > publishNow)

LOCAL Position(ps, p) == CHOOSE i \in DOMAIN ps : ps[i].peer = p
LOCAL Known(ps, p) == \E i \in DOMAIN ps : ps[i].peer = p

(* A peer that is known keeps its place; a new one at capacity takes the   *)
(* socket of the oldest.                                                   *)
(* forward_host_datagram: a known peer's socket, or one of its own, for    *)
(* which the oldest peer makes room at capacity.                           *)
WithPeer(ps, p) ==
  IF Known(ps, p) THEN [others |-> RemoveAt(ps, Position(ps, p)), socket |-> ps[Position(ps, p)].socket, opened |-> 0]
  ELSE [others |-> IF Len(ps) = MaxPublicationPeers THEN Tail(ps) ELSE ps,
        socket |-> nextSocket, opened |-> 1]

(* forward_host_frames and send_publication_datagrams; a socket whose send *)
(* fails is dropped with its peer.                                         *)
ForwardHostDatagram(p, sent) ==
  /\ hostDatagrams < MaxHostDatagrams /\ hostDatagrams' = hostDatagrams + 1
  /\ LET w == WithPeer(Live(peers), p) IN
       /\ nextSocket' = nextSocket + w.opened
       /\ peers' = (IF sent THEN Append(w.others, [peer |-> p, socket |-> w.socket, expires |-> publishNow + PublicationTtl])
                    ELSE w.others)
       /\ spokenFor' = (IF w.opened = 1 THEN Append(spokenFor, IF sent THEN {p} ELSE {})
                        ELSE [spokenFor EXCEPT ![w.socket] = IF sent THEN @ \cup {p} ELSE @])
  /\ toHost' = NoReply
  /\ UNCHANGED <<nextReply, publishAnswers, publishNow, publishPart>> /\ UNCHANGED carrierVars

(* The service answers on a socket it was spoken to.                       *)
ServiceAnswers(s) ==
  /\ s \in DOMAIN spokenFor /\ spokenFor[s] # {} /\ s \notin publishAnswers
  /\ publishAnswers' = publishAnswers \cup {s} /\ toHost' = NoReply
  /\ UNCHANGED <<peers, nextReply, nextSocket, spokenFor, publishNow, hostDatagrams, publishPart>> /\ UNCHANGED carrierVars

(* wait_udp_publication_reply always asks the first socket first.          *)
(* wait_udp_publication_reply: the first ready socket at or after          *)
(* next_reply, around the table.                                           *)
FirstReady(ps) ==
  LET ready == {i \in DOMAIN ps : ps[i].socket \in publishAnswers}
      turn(i) == ((i - 1) + Len(ps) - (nextReply % Len(ps))) % Len(ps) IN
  IF ready = {} THEN 0 ELSE CHOOSE i \in ready : \A j \in ready : turn(i) <= turn(j)

(* forward_peer_replies: what is queued on the socket goes to its peer;    *)
(* nothing once the entry has expired; a failed socket drops its peer.     *)
ForwardPeerReplies ==
  LET live == Live(peers) i == FirstReady(Live(peers)) IN
  /\ i # 0
  /\ nextReply' = i % Len(live)
  /\ publishAnswers' = publishAnswers \ {live[i].socket}
  /\ \/ /\ toHost' = [peer |-> live[i].peer, socket |-> live[i].socket, live |-> live[i].expires > publishNow]
        /\ peers' = live
     \/ toHost' = NoReply /\ peers' = RemoveAt(live, i)
  /\ UNCHANGED <<nextSocket, spokenFor, publishNow, hostDatagrams, publishPart>> /\ UNCHANGED carrierVars

PublicationTick ==
  /\ publishNow < MaxPublicationClock /\ publishNow' = publishNow + 1 /\ toHost' = NoReply
  /\ UNCHANGED <<peers, nextReply, nextSocket, spokenFor, publishAnswers, hostDatagrams, publishPart>> /\ UNCHANGED carrierVars

PublishNext ==
  \/ publishPart = "carriers" /\
              \/ \E c \in Carriers :
                   \/ PublishAcceptCarrier(c) \/ ConnectPublishedService(c) \/ PublishCarrierEnds(c)
                   \/ \E k \in {"tcp", "udp"}, p \in NamedPorts : ReadPublicationHeader(c, k, p)
              \/ ShutDownPublications
  \/ publishPart = "relay" /\
              \/ \E p \in HostPeers, sent \in BOOLEAN : ForwardHostDatagram(p, sent)
              \/ \E s \in 1..MaxHostDatagrams : ServiceAnswers(s)
              \/ ForwardPeerReplies \/ PublicationTick

PublishSpec == PublishInit /\ [][PublishNext]_publishVars

-----------------------------------------------------------------------------

(* A carrier is relayed only to a port the plan publishes and every slot   *)
(* is either free or held by a carrier; and a reply the relay forwards     *)
(* goes to the one peer whose datagrams the service saw on that socket,    *)
(* while its grant lasts (admit, relay_publication, forward_host_datagram, *)
(* forward_peer_replies).                                                  *)
PublicationsAreOwn ==
  /\ \A c \in Carriers : publishCarrier[c].kind = "tcp" => publishCarrier[c].port \in PublishedTcp
  /\ \A c \in Carriers : publishCarrier[c].kind = "udp" => publishCarrier[c].port \in PublishedUdp
  /\ tcpSlots + Cardinality({c \in Carriers : publishCarrier[c].kind = "tcp"}) = MaxTcpClients
  /\ udpSlots + Cardinality({c \in Carriers : publishCarrier[c].kind = "udp"}) = MaxUdpClients
  /\ carrierSlots + Cardinality({c \in Carriers : publishCarrier[c].at # "none"}) = MaxCarriers
  /\ Len(peers) <= MaxPublicationPeers
  /\ toHost # NoReply => spokenFor[toHost.socket] = {toHost.peer} /\ toHost.live

(* Once the host stops sending, an answer waiting on a peer's socket is    *)
(* forwarded or its peer dropped, however busy the other peers' sockets    *)
(* are: the relay asks them in turn (wait_udp_publication_reply).          *)
AnswerIsTaken(s) ==
  publishPart = "relay" /\ hostDatagrams = MaxHostDatagrams =>
     s \notin publishAnswers \/ \A i \in DOMAIN Live(peers) : Live(peers)[i].socket # s
==============================================================================
