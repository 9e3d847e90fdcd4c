----------------------------- MODULE BoxProofs -----------------------------
(***************************************************************************)
(* The run lock keeps a box to one VM, for any number of commands.         *)
(***************************************************************************)
EXTENDS BoxCommands, FiniteSetTheorems, TLAPS

Returns == {"begin", "began", "stop_saw", "await_saw", "reap_saw"}
CommandPc == Returns \cup {"open", "try", "locked", "launch", "mark_setup", "wait", "done", "mark",
                            "drop", "stop", "ask", "await", "locate", "pidfd", "compare",
                            "signal", "reap", "remove", "unlink", "unlinked"}
ProcessState == {"none", "claim", "up", "killed", "gone"}
LaunchRecord == [ino : Nat, sup : ProcessState, told : 0 .. 3, vm : ProcessState,
                 setup : BOOLEAN, asked : BOOLEAN]
ClientRecord == [plan : {"start", "setup", "stop", "rm", "force"}, pc : CommandPc, fd : Nat,
                 locked : BOOLEAN, probe : Nat, saw : {"free", "setting_up", "running"},
                 target : 0 .. MaxLaunches, role : {"vm", "sup"},
                 bound : {"none", "box", "stranger"}, mine : 0 .. MaxLaunches,
                 late : BOOLEAN, back : Returns]

ClientsOK == client \in [Clients -> ClientRecord]
LaunchesOK == launch \in [Launches -> LaunchRecord]
FilesOK ==
  /\ stateDir \in BOOLEAN /\ unlocked \in BOOLEAN
  /\ inodes \in 0 .. MaxInodes /\ path \in 0 .. inodes
  /\ line \in [1 .. MaxInodes -> [vm : 0 .. MaxLaunches, setup : BOOLEAN]]
  /\ supPid \in 0 .. MaxLaunches /\ vmPid \in 0 .. MaxLaunches /\ socket \in 0 .. MaxLaunches
LockTypeOK == FilesOK /\ LaunchesOK /\ ClientsOK

Live(k) == Lives(launch[k].sup) \/ Lives(launch[k].vm)
BeforeLaunch == {"locked", "mark_setup", "launch"}
Holding == BeforeLaunch \cup {"wait", "remove", "unlink", "unlinked"}

(* No process has a file that was not made yet; a command that locks a     *)
(* file is between lock_run and its end.                                   *)
FilesInv ==
  /\ \A c \in Clients :
       /\ client[c].fd <= inodes
       /\ client[c].pc = "try" => client[c].fd # 0
       /\ client[c].locked => client[c].fd # 0 /\ client[c].pc \in Holding
       /\ client[c].pc \in BeforeLaunch => client[c].locked
  /\ \A k \in Launches : launch[k].ino <= inodes /\ (Live(k) => launch[k].ino # 0)

(* A file has one owner: a command that has not handed it on, or the       *)
(* processes of one launch.                                                *)
OwnerInv ==
  /\ \A c, d \in Clients :
       client[c].locked /\ client[d].locked /\ client[c].fd = client[d].fd => c = d
  /\ \A c \in Clients, k \in Launches :
       client[c].locked /\ client[c].pc # "wait" /\ Live(k) => launch[k].ino # client[c].fd
  /\ \A j, k \in Launches : Live(j) /\ Live(k) /\ launch[j].ino = launch[k].ino => j = k

(* The VM that is up has the file the path names.                          *)
NamedInv == ~unlocked => \A k \in Launches : launch[k].vm = "up" => launch[k].ino = path

LockIInv == LockTypeOK /\ FilesInv /\ OwnerInv /\ NamedInv

(* What most steps have in common: no file is made, locked or taken away,  *)
(* and the processes of a launch can only end.                             *)
Quiet ==
  /\ UNCHANGED <<path, inodes, unlocked>>
  /\ \A d \in Clients :
       /\ client'[d].fd = client[d].fd
       /\ client'[d].pc = "try" => client[d].pc = "try"
       /\ client'[d].locked => /\ client[d].locked /\ client'[d].pc \in Holding
                               /\ client[d].pc = "wait" => client'[d].pc = "wait"
       /\ client'[d].pc \in BeforeLaunch => client'[d].locked
  /\ \A k \in Launches : /\ launch'[k].ino = launch[k].ino
                         /\ Live(k)' => Live(k)
                         /\ launch'[k].vm = "up" => launch[k].vm = "up"

(* A step that only lets processes end and locks go keeps who owns which   *)
(* lock file.                                                              *)
LEMMA QuietKeeps ==
  ASSUME FilesInv, OwnerInv, NamedInv, Quiet
  PROVE  FilesInv' /\ OwnerInv' /\ NamedInv'
<1>. USE DEF Quiet
<1>1. FilesInv'
  BY DEF FilesInv, Live
<1>2. OwnerInv'
  BY DEF OwnerInv, Live
<1>3. NamedInv'
  BY DEF NamedInv, Live
<1>. QED BY <1>1, <1>2, <1>3

(* The bounds on launches and lock files are numbers.                      *)
LEMMA BoundsAreNumbers == MaxLaunches \in Nat /\ MaxInodes \in Nat
BY LockAssumption, FS_CardinalityType DEF MaxInodes

(* A command's step puts it at pc, with its descriptor as it was.          *)
Moved(c, pc, locked) ==
  /\ ClientsOK'
  /\ client'[c].pc = pc /\ client'[c].locked = locked /\ client'[c].fd = client[c].fd
  /\ \A d \in Clients : d # c => client'[d] = client[d]

(* A command that keeps its descriptor only moves on,                      *)
LEMMA PutMoves ==
  ASSUME ClientsOK, NEW c \in Clients, NEW r \in ClientRecord, r.fd = client[c].fd,
         client' = [client EXCEPT ![c] = r]
  PROVE  Moved(c, r.pc, r.locked)
BY DEF ClientsOK, Moved

(* one that goes on keeps its lock too,                                    *)
LEMMA GotoMoves ==
  ASSUME ClientsOK, NEW c \in Clients, NEW x \in CommandPc, LockGoto(c, x)
  PROVE  Moved(c, x, client[c].locked)
<1>. DEFINE r == [client[c] EXCEPT !.pc = x]
<1>1. r \in ClientRecord /\ r.fd = client[c].fd /\ r.pc = x /\ r.locked = client[c].locked
  BY DEF ClientsOK, ClientRecord
<1>2. client' = [client EXCEPT ![c] = r]
  BY DEF ClientsOK, LockGoto
<1>. HIDE DEF r
<1>. QED BY <1>1, <1>2, PutMoves, Zenon

(* and one that ends gives it back.                                        *)
LEMMA FinishMoves ==
  ASSUME ClientsOK, NEW c \in Clients, LockFinish(c)
  PROVE  Moved(c, "done", FALSE)
<1>. DEFINE r == [client[c] EXCEPT !.pc = "done", !.locked = FALSE]
<1>1. "done" \in CommandPc
  BY DEF CommandPc
<1>2. r \in ClientRecord /\ r.fd = client[c].fd /\ r.pc = "done" /\ r.locked = FALSE
  <2>. client[c] \in ClientRecord
    BY DEF ClientsOK
  <2>. QED BY <1>1, Zenon DEF ClientRecord
<1>3. client' = [client EXCEPT ![c] = r]
  BY Zenon DEF ClientsOK, LockFinish
<1>. HIDE DEF r
<1>. QED BY <1>2, <1>3, PutMoves, Zenon

(* Steps of a command that holds no lock and comes to none.                *)
Elsewhere == CommandPc \ (BeforeLaunch \cup {"try"})
Idles(c) == ~client[c].locked /\ \E x \in Elsewhere : Moved(c, x, FALSE)

(* A command outside the part that holds the lock has none.                *)
LEMMA Unlocked ==
  ASSUME ClientsOK, FilesInv, NEW c \in Clients, client[c].pc \notin Holding
  PROVE  client[c] \in ClientRecord /\ client[c].locked = FALSE
BY DEF ClientsOK, ClientRecord, FilesInv

(* A command without a lock that gets none idles,                          *)
LEMMA PutIdles ==
  ASSUME ClientsOK, NEW c \in Clients, client[c].locked = FALSE,
         NEW r \in ClientRecord, r.fd = client[c].fd, r.locked = FALSE, r.pc \in Elsewhere,
         client' = [client EXCEPT ![c] = r]
  PROVE  Idles(c)
BY PutMoves, Zenon DEF Idles

(* likewise one that goes on or ends.                                      *)
LEMMA GotoIdles ==
  ASSUME ClientsOK, NEW c \in Clients, client[c].locked = FALSE,
         NEW x \in Elsewhere, LockGoto(c, x) \/ LockFinish(c)
  PROVE  Idles(c)
<1>1. x \in CommandPc /\ "done" \in Elsewhere
  BY DEF Elsewhere, CommandPc, BeforeLaunch
<1>. QED BY <1>1, GotoMoves, FinishMoves, Zenon DEF Idles

(* A look at the state of a box (probe) takes no lock for keeps,           *)
LEMMA ProbeIdles ==
  ASSUME LockTypeOK, FilesInv, NEW c \in Clients, Probe(c)
  PROVE  Idles(c)
<1>. DEFINE back == Probes[client[c].pc]
            r == [client[c] EXCEPT !.saw = "free", !.pc = back]
            s == [client[c] EXCEPT !.pc = "mark", !.back = back]
            t == [client[c] EXCEPT !.pc = "drop", !.back = back, !.probe = path]
<1>1. client[c] \in ClientRecord /\ client[c].locked = FALSE /\ path \in Nat
  <2>1. client[c].pc \notin Holding
    BY DEF Probe, Probes, Holding, BeforeLaunch
  <2>2. path \in Nat /\ ClientsOK
    BY BoundsAreNumbers DEF LockTypeOK, FilesOK
  <2>. QED BY <2>1, <2>2, Unlocked, Zenon
<1>2. back \in Returns
  BY DEF Probe, Probes, Returns
<1>3. Returns \cup {"mark", "drop"} \subseteq Elsewhere /\ Elsewhere \subseteq CommandPc
  BY DEF Returns, Elsewhere, CommandPc, BeforeLaunch
<1>. HIDE DEF back
<1>4. r \in ClientRecord /\ r.fd = client[c].fd /\ r.pc = back /\ r.locked = FALSE
  BY <1>1, <1>2, <1>3, Zenon DEF ClientRecord
<1>5. s \in ClientRecord /\ s.fd = client[c].fd /\ s.pc = "mark" /\ s.locked = FALSE
  BY <1>1, <1>2, <1>3, Zenon DEF ClientRecord
<1>6. t \in ClientRecord /\ t.fd = client[c].fd /\ t.pc = "drop" /\ t.locked = FALSE
  BY <1>1, <1>2, <1>3, Zenon DEF ClientRecord
<1>7. \E u \in {r, s, t} : client' = [client EXCEPT ![c] = u]
  BY Zenon DEF Probe, back
<1>. HIDE DEF r, s, t
<1>. QED BY <1>1, <1>2, <1>3, <1>4, <1>5, <1>6, <1>7, PutIdles, Zenon DEF LockTypeOK

(* nor does the end of such a look,                                        *)
LEMMA ReturnIdles ==
  ASSUME LockTypeOK, FilesInv, NEW c \in Clients, ProbeDrop(c) \/ ProbeMark(c)
  PROVE  Idles(c)
<1>. DEFINE saw == IF path # 0 /\ line[path].setup THEN "setting_up" ELSE "running"
            r == [client[c] EXCEPT !.pc = client[c].back, !.saw = "free", !.probe = 0]
            s == [client[c] EXCEPT !.pc = client[c].back, !.saw = saw]
<1>1. client[c] \in ClientRecord /\ client[c].locked = FALSE
  BY Unlocked, Zenon DEF LockTypeOK, ProbeDrop, ProbeMark, LockAt, Holding, BeforeLaunch
<1>2. client[c].back \in Elsewhere /\ Elsewhere \subseteq CommandPc
  BY <1>1 DEF ClientRecord, Returns, Elsewhere, CommandPc, BeforeLaunch
<1>3. saw \in {"free", "setting_up", "running"}
  OBVIOUS
<1>. HIDE DEF saw
<1>4. r \in ClientRecord /\ r.fd = client[c].fd /\ r.pc = client[c].back /\ r.locked = FALSE
  BY <1>1, <1>2, Zenon DEF ClientRecord
<1>5. s \in ClientRecord /\ s.fd = client[c].fd /\ s.pc = client[c].back /\ s.locked = FALSE
  BY <1>1, <1>2, <1>3, Zenon DEF ClientRecord
<1>6. \E u \in {r, s} : client' = [client EXCEPT ![c] = u]
  BY Zenon DEF ProbeDrop, ProbeMark, saw
<1>. HIDE DEF r, s
<1>. QED BY <1>1, <1>2, <1>4, <1>5, <1>6, PutIdles, Zenon DEF LockTypeOK

(* nor the steps of start, rm and stop before and after they need it,      *)
LEMMA PlanIdles ==
  ASSUME LockTypeOK, FilesInv, NEW c \in Clients,
         \/ StartPlan(c) \/ BeginRm(c) \/ BeginStop(c) \/ RequestStop(c)
         \/ CompareStartTime(c) \/ Signal(c) \/ AwaitKilled(c)
  PROVE  Idles(c)
<1>1. client[c] \in ClientRecord /\ client[c].locked = FALSE
  BY Unlocked, Zenon DEF LockTypeOK, StartPlan, BeginRm, BeginStop, RequestStop, CompareStartTime,
                  Signal, AwaitKilled, LockAt, Holding, BeforeLaunch
<1>2. {"open", "stop", "locate", "ask", "signal", "reap", "remove", "done"} \subseteq Elsewhere
  BY DEF Elsewhere, CommandPc, BeforeLaunch
<1>3. client[c].saw \in {"free", "setting_up", "running"}
  BY <1>1 DEF ClientRecord
<1>4. \E x \in {"open", "stop", "locate", "ask", "signal", "reap", "remove", "done"} :
        LockGoto(c, x) \/ LockFinish(c)
  BY <1>3, Zenon DEF StartPlan, BeginRm, BeginStop, RequestStop, CompareStartTime, Signal, AwaitKilled,
              Stopped
<1>. QED BY <1>1, <1>2, <1>4, GotoIdles, Zenon DEF LockTypeOK

(* nor the wait of stop for a box to end.                                  *)
LEMMA StopIdles ==
  ASSUME LockTypeOK, FilesInv, NEW c \in Clients,
         Ask(c) \/ AwaitStopped(c) \/ LocateTarget(c) \/ OpenPidfd(c)
  PROVE  Idles(c)
<1>. DEFINE a == [client[c] EXCEPT !.pc = "await", !.late = TRUE]
            l == [client[c] EXCEPT !.pc = "locate", !.late = TRUE]
            t == [client[c] EXCEPT !.pc = "pidfd", !.target = Target.launch, !.role = Target.role]
            b == [client[c] EXCEPT !.pc = "compare", !.bound = "box"]
            s == [client[c] EXCEPT !.pc = "compare", !.bound = "stranger"]
            P == {"await", "locate", "pidfd", "compare", "open", "stop", "done"}
<1>1. client[c] \in ClientRecord /\ client[c].locked = FALSE
  BY Unlocked, Zenon DEF LockTypeOK, Ask, AwaitStopped, LocateTarget, OpenPidfd, LockAt, Holding,
                  BeforeLaunch
<1>2. P \subseteq Elsewhere /\ Elsewhere \subseteq CommandPc
  BY DEF Elsewhere, CommandPc, BeforeLaunch
<1>3. Target.launch \in 0 .. MaxLaunches /\ Target.role \in {"vm", "sup"}
  BY BoundsAreNumbers DEF Target, LockTypeOK, FilesOK
<1>4. a \in ClientRecord /\ a.fd = client[c].fd /\ a.pc = "await" /\ a.locked = FALSE
  BY <1>1, <1>2, Zenon DEF ClientRecord
<1>5. l \in ClientRecord /\ l.fd = client[c].fd /\ l.pc = "locate" /\ l.locked = FALSE
  BY <1>1, <1>2, Zenon DEF ClientRecord
<1>6. t \in ClientRecord /\ t.fd = client[c].fd /\ t.pc = "pidfd" /\ t.locked = FALSE
  BY <1>1, <1>2, <1>3, Zenon DEF ClientRecord
<1>7. b \in ClientRecord /\ b.fd = client[c].fd /\ b.pc = "compare" /\ b.locked = FALSE
  BY <1>1, <1>2, Zenon DEF ClientRecord
<1>8. s \in ClientRecord /\ s.fd = client[c].fd /\ s.pc = "compare" /\ s.locked = FALSE
  BY <1>1, <1>2, Zenon DEF ClientRecord
<1>9. \/ \E u \in {a, l, t, b, s} : client' = [client EXCEPT ![c] = u]
      \/ \E x \in P : LockGoto(c, x) \/ LockFinish(c)
  BY Zenon DEF Ask, AwaitStopped, LocateTarget, OpenPidfd, Stopped
<1>10. CASE \E u \in {a, l, t, b, s} : client' = [client EXCEPT ![c] = u]
  <2>. HIDE DEF a, l, t, b, s
  <2>. QED BY <1>1, <1>2, <1>4, <1>5, <1>6, <1>7, <1>8, <1>10, PutIdles, Zenon DEF LockTypeOK
<1>11. CASE \E x \in P : LockGoto(c, x) \/ LockFinish(c)
  <2>. HIDE DEF P
  <2>. QED BY <1>1, <1>2, <1>11, GotoIdles, Zenon DEF LockTypeOK
<1>. QED BY <1>9, <1>10, <1>11

(* The processes of a launch only end.                                     *)
LaunchesEnd ==
  \A k \in Launches : /\ launch'[k].ino = launch[k].ino
                      /\ Live(k)' => Live(k)
                      /\ launch'[k].vm = "up" => launch[k].vm = "up"

(* A command that idles while processes at most end is quiet.              *)
LEMMA IdlesAreQuiet ==
  ASSUME FilesInv, ClientsOK, NEW c \in Clients, Idles(c), LaunchesEnd,
         UNCHANGED <<path, inodes, unlocked>>
  PROVE  Quiet
<1>1. /\ client'[c].fd = client[c].fd /\ client'[c].locked = FALSE
      /\ client'[c].pc \notin BeforeLaunch \cup {"try"}
      /\ \A d \in Clients : d # c => client'[d] = client[d]
  BY DEF Idles, Moved, Elsewhere
<1>. QED BY <1>1 DEF Quiet, LaunchesEnd, FilesInv

(* A command that holds the lock goes on holding it or ends,               *)
LEMMA HolderMoves ==
  ASSUME LockTypeOK, FilesInv, NEW c \in Clients,
         \/ ClearStale(c) \/ MarkSettingUp(c) \/ SpawnSupervisor(c) \/ EndLaunch(c)
         \/ ClientDies(c) \/ RemoveBox(c) \/ UnlinkLock(c) \/ EndRm(c)
  PROVE  \/ Moved(c, "done", FALSE)
         \/ /\ client[c].pc \in Holding \ {"wait"}
            /\ \E x \in Holding : /\ x \in BeforeLaunch => client[c].pc \in BeforeLaunch
                                  /\ Moved(c, x, client[c].locked)
<1>. DEFINE d == [client[c] EXCEPT !.pc = "done", !.locked = FALSE, !.probe = 0]
            w(k) == [client[c] EXCEPT !.pc = "wait", !.mine = k]
<1>1. client[c] \in ClientRecord
  BY DEF LockTypeOK, ClientsOK
<1>2. Holding \cup {"done"} \subseteq CommandPc
  BY DEF Holding, BeforeLaunch, CommandPc
<1>3. CASE ClientDies(c)
  <2>1. d \in ClientRecord /\ d.fd = client[c].fd /\ d.pc = "done" /\ d.locked = FALSE
    BY <1>1, <1>2, Zenon DEF ClientRecord
  <2>2. client' = [client EXCEPT ![c] = d]
    BY <1>3, Zenon DEF ClientDies
  <2>. HIDE DEF d
  <2>. QED BY <2>1, <2>2, PutMoves, Zenon DEF LockTypeOK
<1>4. CASE SpawnSupervisor(c)
  <2>0. PICK k \in Launches : client' = [client EXCEPT ![c].pc = "wait", ![c].mine = k]
    BY <1>4, Zenon DEF SpawnSupervisor
  <2>1. client' = [client EXCEPT ![c] = w(k)]
    BY <2>0, Zenon
  <2>2. k \in 0 .. MaxLaunches /\ "wait" \in CommandPc
    BY <1>2, BoundsAreNumbers DEF Launches, Holding
  <2>3. /\ w(k) \in ClientRecord /\ w(k).fd = client[c].fd /\ w(k).pc = "wait"
        /\ w(k).locked = client[c].locked
    BY <1>1, <2>2, Zenon DEF ClientRecord
  <2>. HIDE DEF w
  <2>4. Moved(c, "wait", client[c].locked)
    BY <2>1, <2>3, PutMoves, Zenon DEF LockTypeOK
  <2>. QED BY <1>4, <2>4, Zenon DEF SpawnSupervisor, LockAt, Holding, BeforeLaunch
<1>5. CASE ClearStale(c) \/ MarkSettingUp(c) \/ RemoveBox(c) \/ UnlinkLock(c)
  <2>1. \/ LockFinish(c)
        \/ /\ client[c].pc \in Holding \ {"wait"}
           /\ \E x \in Holding : /\ x \in BeforeLaunch => client[c].pc \in BeforeLaunch
                                 /\ LockGoto(c, x)
    BY <1>5 DEF ClearStale, MarkSettingUp, RemoveBox, UnlinkLock, LockAt, Holding, BeforeLaunch
  <2>. QED BY <1>2, <2>1, GotoMoves, FinishMoves, Zenon DEF LockTypeOK
<1>6. CASE EndLaunch(c) \/ EndRm(c)
  BY <1>6, FinishMoves, Zenon DEF EndLaunch, EndRm, LockTypeOK
<1>. QED BY <1>3, <1>4, <1>5, <1>6, Zenon

(* and is quiet unless it spawns or removes the file.                      *)
LEMMA HoldersAreQuiet ==
  ASSUME LockTypeOK, FilesInv, LaunchesEnd, UNCHANGED <<path, inodes, unlocked>>,
         NEW c \in Clients,
         \/ ClearStale(c) \/ MarkSettingUp(c) \/ EndLaunch(c) \/ ClientDies(c)
         \/ RemoveBox(c) \/ EndRm(c)
  PROVE  Quiet
<1>1. /\ client'[c].fd = client[c].fd
      /\ \A d \in Clients : d # c => client'[d] = client[d]
      /\ \/ client'[c].pc = "done" /\ ~client'[c].locked
         \/ /\ client'[c].locked = client[c].locked
            /\ client[c].pc # "wait" /\ client'[c].pc \in Holding
            /\ client'[c].pc \in BeforeLaunch => client[c].pc \in BeforeLaunch
  BY HolderMoves, Zenon DEF Moved
<1>2. "try" \notin Holding /\ "done" \notin BeforeLaunch
  BY DEF Holding, BeforeLaunch
<1>. QED BY <1>1, <1>2 DEF Quiet, LaunchesEnd, FilesInv

(* A launch of which nothing comes to life only ends,                      *)
LEMMA PutLaunch ==
  ASSUME LaunchesOK, NEW k \in Launches, NEW r \in LaunchRecord,
         r.ino = launch[k].ino, r.vm = "up" => launch[k].vm = "up",
         Lives(r.sup) \/ Lives(r.vm) => Lives(launch[k].sup) \/ Lives(launch[k].vm),
         launch' = [launch EXCEPT ![k] = r]
  PROVE  LaunchesOK' /\ LaunchesEnd
BY DEF LaunchesOK, LaunchesEnd, Live

(* as in the steps of its processes after the VM has its lock,             *)
LEMMA ProcessesEnd ==
  ASSUME LaunchesOK, NEW k \in Launches,
         SupervisorClaims(k) \/ SupervisorRuns(k) \/ VmExits(k) \/ SupervisorExits(k) \/ Dies(k)
  PROVE  LaunchesOK' /\ LaunchesEnd
<1>1. /\ launch[k] \in LaunchRecord
      /\ launch[k].sup \in ProcessState /\ launch[k].vm \in ProcessState
  BY DEF LaunchesOK, LaunchRecord
<1>2. CASE SupervisorClaims(k)
  <2>. DEFINE r == [launch[k] EXCEPT !.sup = IF Claimed(k) THEN "up" ELSE "gone"]
  <2>1. r \in LaunchRecord /\ r.ino = launch[k].ino /\ r.vm = launch[k].vm
    BY <1>1 DEF LaunchRecord, ProcessState
  <2>2. launch' = [launch EXCEPT ![k] = r] /\ Lives(launch[k].sup)
    BY <1>2 DEF SupervisorClaims, Lives
  <2>. HIDE DEF r
  <2>. QED BY <2>1, <2>2, PutLaunch, Zenon
<1>3. CASE SupervisorRuns(k)
  <2>. DEFINE vm == IF launch[k].told = 1 THEN "claim" ELSE launch[k].vm
              told == launch[k].told + 1
              r == [launch[k] EXCEPT !.told = told, !.vm = vm]
  <2>0. told \in 0 .. 3 /\ vm \in ProcessState /\ (vm = "up" => launch[k].vm = "up")
    <3>1. launch[k].told \in 0 .. 3 /\ launch[k].told < 3
      BY <1>1, <1>3 DEF LaunchRecord, SupervisorRuns
    <3>. QED BY <1>1, <3>1 DEF ProcessState
  <2>1. launch' = [launch EXCEPT ![k] = r] /\ Lives(launch[k].sup)
    BY <1>3, Zenon DEF SupervisorRuns, Lives
  <2>. HIDE DEF vm, told
  <2>2. r \in LaunchRecord /\ r.ino = launch[k].ino /\ r.vm = vm /\ r.sup = launch[k].sup
    BY <1>1, <2>0, Zenon DEF LaunchRecord
  <2>. HIDE DEF r
  <2>. QED BY <2>0, <2>1, <2>2, PutLaunch, Zenon
<1>4. CASE VmExits(k)
  <2>. DEFINE r == [launch[k] EXCEPT !.vm = "gone"]
  <2>1. r \in LaunchRecord /\ r.ino = launch[k].ino /\ r.vm = "gone" /\ r.sup = launch[k].sup
    BY <1>1 DEF LaunchRecord, ProcessState
  <2>2. launch' = [launch EXCEPT ![k] = r] /\ ~Lives("gone")
    BY <1>4 DEF VmExits, Lives
  <2>. HIDE DEF r
  <2>. QED BY <2>1, <2>2, PutLaunch, Zenon
<1>5. CASE SupervisorExits(k)
  <2>. DEFINE r == [launch[k] EXCEPT !.sup = "gone"]
  <2>1. r \in LaunchRecord /\ r.ino = launch[k].ino /\ r.vm = launch[k].vm /\ r.sup = "gone"
    BY <1>1 DEF LaunchRecord, ProcessState
  <2>2. launch' = [launch EXCEPT ![k] = r] /\ ~Lives("gone")
    BY <1>5 DEF SupervisorExits, Lives
  <2>. HIDE DEF r
  <2>. QED BY <2>1, <2>2, PutLaunch, Zenon
<1>6. CASE Dies(k)
  <2>. DEFINE vm == IF Lives(launch[k].vm) THEN "killed" ELSE launch[k].vm
              r == [launch[k] EXCEPT !.sup = "gone", !.vm = vm]
              s == [launch[k] EXCEPT !.vm = "gone"]
  <2>0. /\ vm \in ProcessState /\ (vm = "up" => launch[k].vm = "up")
        /\ Lives(vm) => Lives(launch[k].vm)
    BY <1>1 DEF ProcessState
  <2>. HIDE DEF vm
  <2>1. r \in LaunchRecord /\ r.ino = launch[k].ino /\ r.vm = vm /\ r.sup = "gone"
    BY <1>1, <2>0, Zenon DEF LaunchRecord, ProcessState
  <2>2. s \in LaunchRecord /\ s.ino = launch[k].ino /\ s.vm = "gone" /\ s.sup = launch[k].sup
    BY <1>1 DEF LaunchRecord, ProcessState
  <2>3. ~Lives("gone") /\ \E u \in {r, s} : launch' = [launch EXCEPT ![k] = u]
    BY <1>6, Zenon DEF Dies, Lives, vm
  <2>. HIDE DEF r, s
  <2>. QED BY <2>0, <2>1, <2>2, <2>3, PutLaunch, Zenon
<1>. QED BY <1>2, <1>3, <1>4, <1>5, <1>6, Zenon

(* and in those of the commands.                                           *)
LEMMA CommandsEnd ==
  ASSUME LockTypeOK, NEW c \in Clients, Ask(c) \/ Signal(c) \/ ClientDies(c) \/ LockRest
  PROVE  LaunchesOK' /\ LaunchesEnd
<1>1. CASE UNCHANGED launch
  BY <1>1 DEF LockTypeOK, LaunchesOK, LaunchesEnd, Live
<1>2. CASE Ask(c) /\ launch' # launch
  <2>. DEFINE r == [launch[socket] EXCEPT !.asked = TRUE]
  <2>1. /\ launch' = [launch EXCEPT ![socket] = r]
        /\ socket \in Launches
    BY <1>2, BoundsAreNumbers DEF Ask, LockTypeOK, FilesOK, Launches
  <2>2. launch[socket] \in LaunchRecord
    BY <2>1 DEF LockTypeOK, LaunchesOK
  <2>3. /\ r \in LaunchRecord /\ r.ino = launch[socket].ino /\ r.vm = launch[socket].vm
        /\ r.sup = launch[socket].sup
    BY <2>2, Zenon DEF LaunchRecord
  <2>. HIDE DEF r
  <2>. QED BY <2>1, <2>3, PutLaunch, Zenon DEF LockTypeOK
<1>3. CASE Signal(c) /\ launch' # launch
  <2>. DEFINE t == client[c].target
              r == [launch[t] EXCEPT !.sup = "killed"]
              s == [launch[t] EXCEPT !.vm = "killed"]
  <2>1. /\ client[c].role \in {"vm", "sup"} /\ TargetLives(c)
        /\ launch' = [launch EXCEPT ![t][client[c].role] = "killed"]
    BY <1>3 DEF Signal, LockTypeOK, ClientsOK, ClientRecord
  <2>2. /\ \E u \in {r, s} : launch' = [launch EXCEPT ![t] = u]
        /\ Lives(launch[t].sup) \/ Lives(launch[t].vm)
    BY <2>1, Zenon DEF TargetLives
  <2>3. CASE t \in Launches
    <3>1. launch[t] \in LaunchRecord
      BY <2>3 DEF LockTypeOK, LaunchesOK
    <3>2. r \in LaunchRecord /\ r.ino = launch[t].ino /\ r.vm = launch[t].vm
      BY <3>1 DEF LaunchRecord, ProcessState
    <3>3. s \in LaunchRecord /\ s.ino = launch[t].ino /\ s.vm = "killed"
      BY <3>1 DEF LaunchRecord, ProcessState
    <3>. HIDE DEF r, s, t
    <3>. QED BY <2>2, <2>3, <3>2, <3>3, PutLaunch, Zenon DEF LockTypeOK
  <2>4. CASE t \notin Launches
    BY <1>3, <2>2, <2>4 DEF LockTypeOK, LaunchesOK
  <2>. QED BY <2>3, <2>4
<1>4. CASE ClientDies(c)
  <2>. DEFINE r(k) == [launch[k] EXCEPT !.sup = "killed"]
  <2>1. \A k \in Launches : /\ r(k) \in LaunchRecord /\ r(k).ino = launch[k].ino
                            /\ r(k).vm = launch[k].vm
    BY DEF LockTypeOK, LaunchesOK, LaunchRecord, ProcessState
  <2>. HIDE DEF r
  <2>2. /\ DOMAIN launch' = Launches /\ launch' = [k \in Launches |-> launch'[k]]
        /\ \A k \in Launches : \/ launch'[k] = launch[k]
                               \/ launch'[k] = r(k) /\ Lives(launch[k].sup)
    BY <1>4 DEF ClientDies, r
  <2>3. \A k \in Launches : launch[k] \in LaunchRecord
    BY DEF LockTypeOK, LaunchesOK
  <2>4. LaunchesOK'
    BY <2>1, <2>2, <2>3 DEF LaunchesOK
  <2>5. LaunchesEnd
    BY <2>1, <2>2, Zenon DEF LaunchesEnd, Live
  <2>. QED BY <2>4, <2>5
<1>. QED BY <1>1, <1>2, <1>3, <1>4, Zenon DEF LockRest

(* Lock files are made by opening and named by run.pid, nothing else.      *)
LEMMA FilesKeep ==
  ASSUME LockTypeOK, FilesInv, LockNext
  PROVE  FilesOK'
<1>. USE DEF LockTypeOK, FilesOK, LockRest
<1>1. ASSUME UNCHANGED lockFiles, unlocked' = unlocked
      PROVE  FilesOK'
  BY <1>1 DEF lockFiles
<1>. DEFINE Line == [vm : 0 .. MaxLaunches, setup : BOOLEAN]
<1>2. MaxLaunches \in Nat /\ MaxInodes \in Nat /\ Launches \subseteq 0 .. MaxLaunches
  BY BoundsAreNumbers DEF Launches
<1>3. ASSUME NEW i, NEW l \in Line
      PROVE  [line EXCEPT ![i] = l] \in [1 .. MaxInodes -> Line]
  BY Zenon
<1>4. ASSUME NEW i, NEW b \in BOOLEAN
      PROVE  [line EXCEPT ![i].setup = b] \in [1 .. MaxInodes -> Line]
  BY Zenon
<1>5. ASSUME NEW c \in Clients, ClearStale(c) \/ MarkSettingUp(c) \/ EndLaunch(c)
      PROVE  FilesOK'
  <2>1. Blank \in Line
    BY <1>2 DEF Blank
  <2>2. line' \in [1 .. MaxInodes -> Line]
    <3>1. /\ [line EXCEPT ![client[c].fd] = Blank] \in [1 .. MaxInodes -> Line]
          /\ [line EXCEPT ![client[c].fd].setup = TRUE] \in [1 .. MaxInodes -> Line]
          /\ [line EXCEPT ![client[c].fd].setup = FALSE] \in [1 .. MaxInodes -> Line]
          /\ line \in [1 .. MaxInodes -> Line]
      BY <1>3, <1>4, <2>1, Zenon
    <3>2. \/ line' = [line EXCEPT ![client[c].fd] = Blank]
          \/ line' = [line EXCEPT ![client[c].fd].setup = TRUE]
          \/ line' = [line EXCEPT ![client[c].fd].setup = FALSE]
          \/ line' = line
      BY <1>5 DEF ClearStale, MarkSettingUp, EndLaunch
    <3>. HIDE DEF Line, FilesOK, LockTypeOK
    <3>. QED BY <3>1, <3>2
  <2>. HIDE DEF Line
  <2>. QED BY <1>2, <1>5, <2>2 DEF ClearStale, MarkSettingUp, EndLaunch, Line
<1>6. ASSUME NEW c \in Clients, RemoveBox(c) \/ EndRm(c) \/ UnlinkLock(c)
      PROVE  FilesOK'
  <2>1. /\ supPid' \in 0 .. MaxLaunches /\ vmPid' \in 0 .. MaxLaunches
        /\ socket' \in 0 .. MaxLaunches /\ path' \in 0 .. inodes /\ UNCHANGED <<inodes, line>>
    BY <1>2, <1>6 DEF RemoveBox, EndRm, UnlinkLock
  <2>2. stateDir' \in BOOLEAN
    BY <1>6, Zenon DEF RemoveBox, EndRm, UnlinkLock
  <2>3. unlocked' \in BOOLEAN
    BY <1>6, Zenon DEF RemoveBox, EndRm, UnlinkLock
  <2>. QED BY <2>1, <2>2, <2>3, Zenon
<1>7. ASSUME NEW c \in Clients, OpenLock(c)
      PROVE  FilesOK'
  <2>1. stateDir' \in BOOLEAN /\ UNCHANGED <<line, supPid, vmPid, socket, unlocked>>
    BY <1>7 DEF OpenLock
  <2>2. inodes' \in 0 .. MaxInodes /\ path' \in 0 .. inodes'
    BY <1>2, <1>7 DEF OpenLock
  <2>. QED BY <2>1, <2>2
<1>8. ASSUME NEW k \in Launches, SupervisorRuns(k)
      PROVE  FilesOK'
  <2>1. [vm |-> k, setup |-> launch[k].setup] \in Line
    BY <1>2 DEF LaunchesOK, LaunchRecord
  <2>2. line' \in [1 .. MaxInodes -> Line]
    BY <1>3, <1>8, <2>1, Zenon DEF SupervisorRuns
  <2>. HIDE DEF Line
  <2>3. /\ supPid' \in 0 .. MaxLaunches /\ vmPid' \in 0 .. MaxLaunches
        /\ socket' \in 0 .. MaxLaunches /\ UNCHANGED <<stateDir, path, inodes, unlocked>>
    BY <1>2, <1>8 DEF SupervisorRuns
  <2>. QED BY <2>2, <2>3 DEF Line
<1>9. CASE \E c \in Clients :
             \/ Probe(c) \/ ProbeDrop(c) \/ ProbeMark(c) \/ TryLock(c) \/ StartPlan(c)
             \/ SpawnSupervisor(c) \/ ClientDies(c) \/ BeginRm(c) \/ BeginStop(c)
             \/ RequestStop(c) \/ Ask(c) \/ AwaitStopped(c) \/ LocateTarget(c) \/ OpenPidfd(c)
             \/ CompareStartTime(c) \/ Signal(c) \/ AwaitKilled(c)
  BY <1>1, <1>9, Zenon DEF Probe, ProbeDrop, ProbeMark, TryLock, StartPlan, SpawnSupervisor, ClientDies,
       BeginRm, BeginStop, RequestStop, Ask, AwaitStopped, LocateTarget, OpenPidfd,
       CompareStartTime, Signal, AwaitKilled
<1>10. CASE \E k \in Launches : \/ SupervisorClaims(k) \/ VmClaims(k) \/ VmExits(k)
                                \/ SupervisorExits(k) \/ Dies(k)
  BY <1>1, <1>10 DEF SupervisorClaims, VmClaims, VmExits, SupervisorExits, Dies
<1>. QED BY <1>5, <1>6, <1>7, <1>8, <1>9, <1>10, Zenon DEF LockNext

(* A command that opens the lock file (lock_run) owns nothing by that.     *)
LEMMA OpenLockKeeps ==
  ASSUME LockIInv, NEW c \in Clients, OpenLock(c)
  PROVE  ClientsOK' /\ FilesInv' /\ OwnerInv' /\ NamedInv'
<1>. DEFINE r == [client[c] EXCEPT !.pc = "try", !.fd = path']
<1>. USE DEF LockIInv
<1>1. /\ inodes \in Nat /\ inodes' \in Nat /\ inodes <= inodes' /\ path' \in 1 .. inodes'
      /\ path # 0 => path' = path /\ inodes' = inodes
      /\ UNCHANGED <<launch, unlocked>>
  BY BoundsAreNumbers DEF OpenLock, LockTypeOK, FilesOK, LockRest
<1>2. client[c] \in ClientRecord /\ client[c].locked = FALSE
  BY Unlocked, Zenon DEF LockTypeOK, OpenLock, LockAt, Holding, BeforeLaunch
<1>3. r \in ClientRecord /\ r.fd = path' /\ r.pc = "try" /\ r.locked = FALSE
  <2>1. "try" \in CommandPc /\ path' \in Nat
    BY <1>1 DEF CommandPc
  <2>. QED BY <1>1, <1>2, <2>1, Zenon DEF ClientRecord
<1>4. client' = [client EXCEPT ![c] = r]
  BY Zenon DEF OpenLock
<1>. HIDE DEF r
<1>5. /\ ClientsOK' /\ client'[c] = r
      /\ \A d \in Clients : d # c => client'[d] = client[d]
  BY <1>3, <1>4 DEF LockTypeOK, ClientsOK
<1>6. "try" \notin Holding \cup BeforeLaunch
  BY DEF Holding, BeforeLaunch
<1>7. \A d \in Clients : client[d].fd \in Nat
  BY DEF LockTypeOK, ClientsOK, ClientRecord
<1>8. \A k \in Launches : launch[k].ino \in Nat
  BY Zenon DEF LockTypeOK, LaunchesOK, LaunchRecord
<1>9. FilesInv'
  <2>1. ASSUME NEW d \in Clients
        PROVE  /\ client'[d].fd <= inodes'
               /\ client'[d].pc = "try" => client'[d].fd # 0
               /\ client'[d].locked => client'[d].fd # 0 /\ client'[d].pc \in Holding
               /\ client'[d].pc \in BeforeLaunch => client'[d].locked
    <3>1. CASE d = c
      BY <1>1, <1>3, <1>5, <1>6, <3>1
    <3>2. CASE d # c
      BY <1>1, <1>5, <1>7, <3>2 DEF FilesInv
    <3>. QED BY <3>1, <3>2
  <2>2. \A k \in Launches : launch'[k].ino <= inodes' /\ (Live(k)' => launch'[k].ino # 0)
    BY <1>1, <1>8 DEF FilesInv, Live
  <2>. QED BY <2>1, <2>2, Zenon DEF FilesInv
<1>10. OwnerInv'
  BY <1>1, <1>3, <1>5, Zenon DEF OwnerInv, Live
<1>11. NamedInv'
  <2>1. ASSUME NEW k \in Launches, launch[k].vm = "up", ~unlocked
        PROVE  path # 0
    BY <2>1 DEF NamedInv, FilesInv, Live, Lives
  <2>. QED BY <1>1, <2>1 DEF NamedInv
<1>. QED BY <1>5, <1>9, <1>10, <1>11

(* A command that gets the lock finds no other owner of the file.          *)
LEMMA TryLockKeeps ==
  ASSUME LockIInv, NEW c \in Clients, TryLock(c)
  PROVE  ClientsOK' /\ FilesInv' /\ OwnerInv' /\ NamedInv'
<1>. DEFINE r == [client[c] EXCEPT !.pc = "locked", !.locked = TRUE]
<1>. USE DEF LockIInv
<1>1. client[c] \in ClientRecord /\ client[c].locked = FALSE
  BY Unlocked, Zenon DEF LockTypeOK, TryLock, LockAt, Holding, BeforeLaunch
<1>2. UNCHANGED <<launch, unlocked, path, inodes>> /\ client[c].fd # 0
  BY DEF TryLock, LockRest, lockFiles, LockAt, FilesInv
<1>3. CASE LockGoto(c, "open") \/ LockFinish(c)
  <2>1. "open" \in Elsewhere
    BY DEF Elsewhere, CommandPc, BeforeLaunch
  <2>2. Idles(c)
    BY <1>1, <1>3, <2>1, GotoIdles, Zenon DEF LockTypeOK
  <2>3. LaunchesEnd
    BY <1>2, Zenon DEF LaunchesEnd, Live
  <2>. QED BY <1>2, <2>2, <2>3, IdlesAreQuiet, QuietKeeps, Zenon DEF LockTypeOK, Idles, Moved
<1>4. CASE /\ ~ExclusivelyHeld(client[c].fd)
           /\ client' = [client EXCEPT ![c].pc = "locked", ![c].locked = TRUE]
  <2>1. r \in ClientRecord /\ r.fd = client[c].fd /\ r.pc = "locked" /\ r.locked = TRUE
    <3>1. "locked" \in CommandPc
      BY DEF CommandPc
    <3>. QED BY <1>1, <3>1, Zenon DEF ClientRecord
  <2>2. client' = [client EXCEPT ![c] = r]
    BY <1>4, Zenon
  <2>. HIDE DEF r
  <2>3. /\ ClientsOK' /\ client'[c] = r
        /\ \A d \in Clients : d # c => client'[d] = client[d]
    BY <2>1, <2>2 DEF LockTypeOK, ClientsOK
  <2>4. /\ \A d \in Clients : client[d].locked => client[d].fd # client[c].fd
        /\ \A k \in Launches : Live(k) => launch[k].ino # client[c].fd
    BY <1>4 DEF ExclusivelyHeld, Live
  <2>5. "locked" \in Holding
    BY DEF Holding, BeforeLaunch
  <2>6. FilesInv'
    BY <1>2, <2>1, <2>3, <2>5, Zenon DEF FilesInv, Live
  <2>7. OwnerInv'
    BY <1>2, <2>1, <2>3, <2>4 DEF OwnerInv, Live
  <2>8. NamedInv'
    BY <1>2, Zenon DEF NamedInv
  <2>. QED BY <2>3, <2>6, <2>7, <2>8
<1>. QED BY <1>3, <1>4 DEF TryLock

(* A supervisor that is spawned inherits the lock file of its command.     *)
LEMMA SpawnSupervisorKeeps ==
  ASSUME LockIInv, NEW c \in Clients, SpawnSupervisor(c)
  PROVE  LaunchesOK' /\ ClientsOK' /\ FilesInv' /\ OwnerInv' /\ NamedInv'
<1>. USE DEF LockIInv
<1>1. PICK k \in Launches :
        /\ launch[k] = NoLaunch
        /\ launch' = [launch EXCEPT ![k].ino = client[c].fd, ![k].sup = "claim",
                                    ![k].setup = client[c].plan = "setup"]
        /\ client' = [client EXCEPT ![c].pc = "wait", ![c].mine = k]
  BY Zenon DEF SpawnSupervisor
<1>. DEFINE r == [NoLaunch EXCEPT !.ino = client[c].fd, !.sup = "claim",
                                  !.setup = client[c].plan = "setup"]
            w == [client[c] EXCEPT !.pc = "wait", !.mine = k]
<1>2. /\ client[c] \in ClientRecord /\ client[c].locked /\ client[c].pc = "launch"
      /\ client[c].fd \in Nat /\ client[c].fd # 0 /\ client[c].fd <= inodes
      /\ UNCHANGED <<path, inodes, unlocked>>
  BY DEF LockTypeOK, ClientsOK, ClientRecord, FilesInv, SpawnSupervisor, LockAt, BeforeLaunch,
         lockFiles
<1>3. /\ r \in LaunchRecord /\ r.ino = client[c].fd /\ r.vm = "none"
      /\ Lives(r.sup)
  <2>. DEFINE s == client[c].plan = "setup"
  <2>1. s \in BOOLEAN
    BY Zenon
  <2>. HIDE DEF s
  <2>2. r = [NoLaunch EXCEPT !.ino = client[c].fd, !.sup = "claim", !.setup = s]
    BY DEF s
  <2>. HIDE DEF r
  <2>3. NoLaunch \in LaunchRecord /\ NoLaunch.vm = "none" /\ "claim" \in ProcessState
    BY DEF NoLaunch, LaunchRecord, ProcessState
  <2>4. r \in LaunchRecord /\ r.ino = client[c].fd /\ r.vm = "none" /\ r.sup = "claim"
    BY <1>2, <2>1, <2>2, <2>3, Zenon DEF LaunchRecord
  <2>. QED BY <2>4 DEF Lives
<1>4. /\ w \in ClientRecord /\ w.pc = "wait" /\ w.locked = client[c].locked
      /\ w.fd = client[c].fd
  <2>1. k \in 0 .. MaxLaunches /\ "wait" \in CommandPc
    BY BoundsAreNumbers DEF Launches, CommandPc
  <2>. QED BY <1>2, <2>1, Zenon DEF ClientRecord
<1>5. launch' = [launch EXCEPT ![k] = r]
  BY <1>1, Zenon DEF LockTypeOK, LaunchesOK
<1>6. client' = [client EXCEPT ![c] = w]
  BY <1>1, Zenon
<1>. HIDE DEF r, w
<1>7. /\ LaunchesOK' /\ launch'[k] = r
      /\ \A j \in Launches : j # k => launch'[j] = launch[j]
  BY <1>3, <1>5 DEF LockTypeOK, LaunchesOK
<1>8. /\ ClientsOK' /\ client'[c] = w
      /\ \A d \in Clients : d # c => client'[d] = client[d]
  BY <1>4, <1>6 DEF LockTypeOK, ClientsOK
<1>9. "wait" \in Holding /\ "wait" \notin BeforeLaunch
  BY Zenon DEF Holding, BeforeLaunch
<1>10. FilesInv'
  <2>1. \A d \in Clients :
          /\ client'[d].fd <= inodes'
          /\ client'[d].pc = "try" => client'[d].fd # 0
          /\ client'[d].locked => client'[d].fd # 0 /\ client'[d].pc \in Holding
          /\ client'[d].pc \in BeforeLaunch => client'[d].locked
    BY <1>2, <1>4, <1>8, <1>9, Zenon DEF FilesInv
  <2>2. \A j \in Launches : launch'[j].ino <= inodes' /\ (Live(j)' => launch'[j].ino # 0)
    BY <1>2, <1>3, <1>7, Zenon DEF FilesInv, Live
  <2>. QED BY <2>1, <2>2, Zenon DEF FilesInv
<1>11. OwnerInv'
  <2>1. \A j \in Launches : Live(j) => launch[j].ino # client[c].fd
    BY <1>2 DEF OwnerInv
  <2>2. \A d \in Clients : d # c /\ client[d].locked => client[d].fd # client[c].fd
    BY <1>2, Zenon DEF OwnerInv
  <2>3. \A d, e \in Clients :
          client'[d].locked /\ client'[e].locked /\ client'[d].fd = client'[e].fd => d = e
    <3>1. \A d \in Clients : client'[d].locked = client[d].locked /\ client'[d].fd = client[d].fd
      BY <1>4, <1>8, Zenon
    <3>2. \A d, e \in Clients :
            client[d].locked /\ client[e].locked /\ client[d].fd = client[e].fd => d = e
      BY Zenon DEF OwnerInv
    <3>. QED BY <3>1, <3>2, Zenon
  <2>4. \A d \in Clients, j \in Launches :
          client'[d].locked /\ client'[d].pc # "wait" /\ Live(j)'
            => launch'[j].ino # client'[d].fd
    <3>. SUFFICES ASSUME NEW d \in Clients, NEW j \in Launches, client'[d].locked,
                         client'[d].pc # "wait", Live(j)'
                  PROVE  launch'[j].ino # client'[d].fd
      BY Zenon
    <3>1. d # c /\ client'[d] = client[d]
      BY <1>4, <1>8, Zenon
    <3>2. CASE j = k
      BY <1>3, <1>7, <2>2, <3>1, <3>2, Zenon
    <3>3. CASE j # k
      <4>1. launch'[j] = launch[j] /\ Live(j)
        BY <1>7, <3>3, Zenon DEF Live
      <4>. QED BY <3>1, <4>1, Zenon DEF OwnerInv
    <3>. QED BY <3>2, <3>3, Zenon
  <2>5. \A i, j \in Launches : Live(i)' /\ Live(j)' /\ launch'[i].ino = launch'[j].ino => i = j
    <3>1. \A j \in Launches : j # k /\ Live(j)' => Live(j) /\ launch'[j].ino = launch[j].ino
      BY <1>7, Zenon DEF Live
    <3>2. \A j \in Launches : j # k /\ Live(j)' => launch'[j].ino # launch'[k].ino
      BY <1>3, <1>7, <2>1, <3>1, Zenon
    <3>3. \A i, j \in Launches : Live(i) /\ Live(j) /\ launch[i].ino = launch[j].ino => i = j
      BY Zenon DEF OwnerInv
    <3>. SUFFICES ASSUME NEW i \in Launches, NEW j \in Launches, Live(i)', Live(j)',
                         launch'[i].ino = launch'[j].ino
                  PROVE  i = j
      BY Zenon
    <3>4. CASE i # k /\ j # k
      BY <3>1, <3>3, <3>4, Zenon
    <3>5. CASE i = k \/ j = k
      BY <3>2, <3>5, Zenon
    <3>. QED BY <3>4, <3>5, Zenon
  <2>. QED BY <2>3, <2>4, <2>5, Zenon DEF OwnerInv
<1>12. NamedInv'
  BY <1>2, <1>3, <1>7 DEF NamedInv
<1>. QED BY <1>7, <1>8, <1>10, <1>11, <1>12, Zenon

(* A VM comes up only with the inherited lock of the file in its place.    *)
LEMMA VmClaimsKeeps ==
  ASSUME LockIInv, NEW k \in Launches, VmClaims(k)
  PROVE  LaunchesOK' /\ ClientsOK' /\ FilesInv' /\ OwnerInv' /\ NamedInv'
<1>. USE DEF LockIInv
<1>. DEFINE r == [launch[k] EXCEPT !.vm = IF Claimed(k) THEN "up" ELSE "gone"]
<1>1. launch[k] \in LaunchRecord /\ launch[k].vm = "claim" /\ Lives(launch[k].vm)
  BY DEF LockTypeOK, LaunchesOK, VmClaims, Lives
<1>2. /\ r \in LaunchRecord /\ r.ino = launch[k].ino /\ r.sup = launch[k].sup
      /\ r.vm = "up" => launch[k].ino = path
  BY <1>1 DEF LaunchRecord, ProcessState, Claimed
<1>3. launch' = [launch EXCEPT ![k] = r] /\ UNCHANGED <<client, path, inodes, unlocked>>
  BY DEF VmClaims, lockFiles
<1>. HIDE DEF r
<1>4. /\ LaunchesOK' /\ launch'[k] = r
      /\ \A j \in Launches : j # k => launch'[j] = launch[j]
  BY <1>2, <1>3, Zenon DEF LockTypeOK, LaunchesOK
<1>5. \A j \in Launches : launch'[j].ino = launch[j].ino /\ (Live(j)' => Live(j))
  BY <1>1, <1>2, <1>4 DEF Live
<1>6. ClientsOK'
  BY <1>3, Zenon DEF LockTypeOK, ClientsOK
<1>7. FilesInv'
  BY <1>3, <1>5, Zenon DEF FilesInv
<1>8. OwnerInv'
  BY <1>3, <1>5 DEF OwnerInv
<1>9. NamedInv'
  BY <1>2, <1>3, <1>4, Zenon DEF NamedInv
<1>. QED BY <1>4, <1>6, <1>7, <1>8, <1>9, Zenon

(* rm takes the lock file away under the lock, or is recorded as having    *)
(* none.                                                                   *)
LEMMA UnlinkLockKeeps ==
  ASSUME LockIInv, NEW c \in Clients, UnlinkLock(c)
  PROVE  ClientsOK' /\ FilesInv' /\ OwnerInv' /\ NamedInv'
<1>. USE DEF LockIInv
<1>1. /\ client'[c].fd = client[c].fd
      /\ \A d \in Clients : d # c => client'[d] = client[d]
      /\ \/ client'[c].pc = "done" /\ ~client'[c].locked
         \/ /\ client'[c].locked = client[c].locked
            /\ client[c].pc # "wait" /\ client'[c].pc \in Holding
            /\ client'[c].pc \in BeforeLaunch => client[c].pc \in BeforeLaunch
      /\ ClientsOK'
  BY HolderMoves, Zenon DEF Moved
<1>2. "try" \notin Holding /\ "done" \notin BeforeLaunch
  BY DEF Holding, BeforeLaunch
<1>3. path' = 0 /\ UNCHANGED <<inodes, launch>> /\ client[c].pc = "unlink"
  BY Zenon DEF UnlinkLock, LockAt
<1>4. FilesInv'
  BY <1>1, <1>2, <1>3, Zenon DEF FilesInv, Live
<1>5. OwnerInv'
  BY <1>1, <1>3 DEF OwnerInv, Live
<1>6. NamedInv'
  <2>1. SUFFICES ASSUME ~unlocked', NEW k \in Launches, launch'[k].vm = "up"
                 PROVE  FALSE
    BY DEF NamedInv
  <2>2. ~unlocked /\ (path # 0 => client[c].locked /\ client[c].fd = path)
    BY <2>1, Zenon DEF UnlinkLock, HoldsNamedFile
  <2>3. Live(k) /\ launch[k].ino = path
    BY <1>3, <2>1, <2>2 DEF NamedInv, Live, Lives
  <2>4. path # 0
    BY <2>3, Zenon DEF FilesInv
  <2>. QED BY <1>3, <2>2, <2>3, <2>4 DEF OwnerInv
<1>. QED BY <1>1, <1>4, <1>5, <1>6

(* Every step of a command or a process keeps the invariant.               *)
LEMMA LockStepKeeps ==
  ASSUME LockIInv, [LockNext]_lockVars
  PROVE  LockIInv'
<1>. USE DEF LockIInv
<1>1. CASE UNCHANGED lockVars
  BY <1>1 DEF lockVars, LockTypeOK, FilesOK, LaunchesOK, ClientsOK, FilesInv, OwnerInv,
              NamedInv, Live
<1>2. ASSUME LockNext, LaunchesOK', ClientsOK', FilesInv', OwnerInv', NamedInv'
      PROVE  LockIInv'
  BY <1>2, FilesKeep DEF LockTypeOK
<1>3. ASSUME NEW c \in Clients, OpenLock(c) \/ TryLock(c) \/ UnlinkLock(c)
      PROVE  LockIInv'
  <2>1. LaunchesOK' /\ LockNext
    BY <1>3, Zenon DEF LockNext, OpenLock, TryLock, UnlinkLock, LockRest, LockTypeOK, LaunchesOK
  <2>. QED BY <1>2, <1>3, <2>1, OpenLockKeeps, TryLockKeeps, UnlinkLockKeeps, Zenon
<1>4. ASSUME NEW c \in Clients, SpawnSupervisor(c)
      PROVE  LockIInv'
  BY <1>2, <1>4, SpawnSupervisorKeeps, Zenon DEF LockNext
<1>5. ASSUME NEW k \in Launches, VmClaims(k)
      PROVE  LockIInv'
  BY <1>2, <1>5, VmClaimsKeeps, Zenon DEF LockNext
<1>6. ASSUME NEW k \in Launches,
             SupervisorClaims(k) \/ SupervisorRuns(k) \/ VmExits(k) \/ SupervisorExits(k) \/ Dies(k)
      PROVE  LockIInv'
  <2>1. LaunchesOK' /\ LaunchesEnd /\ LockNext
    BY <1>6, ProcessesEnd, Zenon DEF LockTypeOK, LockNext
  <2>2. UNCHANGED <<path, inodes, unlocked, client>>
    BY <1>6 DEF SupervisorClaims, SupervisorRuns, VmExits, SupervisorExits, Dies, lockFiles
  <2>3. Quiet /\ ClientsOK'
    BY <2>1, <2>2, Zenon DEF Quiet, LaunchesEnd, FilesInv, LockTypeOK, ClientsOK
  <2>. QED BY <1>2, <2>1, <2>3, QuietKeeps, Zenon
<1>7. ASSUME NEW c \in Clients,
             \/ ClearStale(c) \/ MarkSettingUp(c) \/ EndLaunch(c) \/ ClientDies(c)
             \/ RemoveBox(c) \/ EndRm(c)
      PROVE  LockIInv'
  <2>1. UNCHANGED <<path, inodes, unlocked>> /\ (ClientDies(c) \/ LockRest) /\ LockNext
    BY <1>7, Zenon DEF ClearStale, MarkSettingUp, EndLaunch, ClientDies, RemoveBox, EndRm, LockRest,
                lockFiles, LockNext
  <2>2. LaunchesOK' /\ LaunchesEnd
    BY <2>1, CommandsEnd
  <2>3. ClientsOK'
    BY <1>7, HolderMoves, Zenon DEF Moved
  <2>. QED BY <1>2, <1>7, <2>1, <2>2, <2>3, HoldersAreQuiet, QuietKeeps, Zenon
<1>8. ASSUME NEW c \in Clients,
             \/ Probe(c) \/ ProbeDrop(c) \/ ProbeMark(c) \/ StartPlan(c) \/ BeginRm(c)
             \/ BeginStop(c) \/ RequestStop(c) \/ Ask(c) \/ AwaitStopped(c) \/ LocateTarget(c)
             \/ OpenPidfd(c) \/ CompareStartTime(c) \/ Signal(c) \/ AwaitKilled(c)
      PROVE  LockIInv'
  <2>1. UNCHANGED <<path, inodes, unlocked>> /\ (Ask(c) \/ Signal(c) \/ LockRest) /\ LockNext
    BY <1>8, Zenon DEF Probe, ProbeDrop, ProbeMark, StartPlan, BeginRm, BeginStop, RequestStop, Ask,
                AwaitStopped, LocateTarget, OpenPidfd, CompareStartTime, Signal, AwaitKilled,
                LockRest, lockFiles, LockNext
  <2>2. LaunchesOK' /\ LaunchesEnd
    BY <2>1, CommandsEnd, Zenon
  <2>3. Idles(c)
    BY <1>8, ProbeIdles, ReturnIdles, PlanIdles, StopIdles, Zenon
  <2>4. ClientsOK'
    BY <2>3 DEF Idles, Moved
  <2>. QED BY <1>2, <2>1, <2>2, <2>3, <2>4, IdlesAreQuiet, QuietKeeps, Zenon DEF LockTypeOK
<1>. QED BY <1>1, <1>3, <1>4, <1>5, <1>6, <1>7, <1>8, Zenon DEF LockNext

(* A box starts without lock files and processes.                          *)
LEMMA LockStarts == LockInit => LockIInv
<1>. SUFFICES ASSUME LockInit PROVE LockIInv
  OBVIOUS
<1>1. PICK plan \in Plans :
        client = [c \in Clients |->
                   [plan |-> plan[c], pc |-> "begin", fd |-> 0, locked |-> FALSE,
                    probe |-> 0, saw |-> "free", target |-> 0, role |-> "vm",
                    bound |-> "none", mine |-> 0, late |-> FALSE, back |-> "begin"]]
  BY Zenon DEF LockInit
<1>2. \A c \in Clients : plan[c] \in {"start", "setup", "stop", "rm", "force"}
  BY LockAssumption
<1>3. "begin" \in CommandPc /\ "begin" \in Returns /\ 0 \in 0 .. MaxLaunches
  BY BoundsAreNumbers DEF CommandPc, Returns
<1>4. ClientsOK
  BY <1>1, <1>2, <1>3, Zenon DEF ClientsOK, ClientRecord
<1>5. NoLaunch \in LaunchRecord
  BY DEF NoLaunch, LaunchRecord, ProcessState
<1>6. LaunchesOK
  BY <1>5, Zenon DEF LockInit, LaunchesOK
<1>7. FilesOK
  <2>1. stateDir \in BOOLEAN /\ unlocked \in BOOLEAN
    BY Zenon DEF LockInit
  <2>2. Blank \in [vm : 0 .. MaxLaunches, setup : BOOLEAN]
    BY BoundsAreNumbers DEF Blank
  <2>3. line \in [1 .. MaxInodes -> [vm : 0 .. MaxLaunches, setup : BOOLEAN]]
    BY <2>2, Zenon DEF LockInit
  <2>. QED BY <2>1, <2>3, BoundsAreNumbers DEF LockInit, FilesOK
<1>8. /\ inodes = 0
      /\ \A c \in Clients : client[c].fd = 0 /\ client[c].locked = FALSE /\ client[c].pc = "begin"
      /\ \A k \in Launches : launch[k].ino = 0 /\ launch[k].sup = "none" /\ launch[k].vm = "none"
  BY <1>1, Zenon DEF LockInit, NoLaunch
<1>9. FilesInv /\ OwnerInv /\ NamedInv
  BY <1>8 DEF FilesInv, OwnerInv, NamedInv, Live, Lives, BeforeLaunch
<1>. QED BY <1>4, <1>6, <1>7, <1>9, Zenon DEF LockIInv, LockTypeOK

(* Every command and every process stays in its states, whatever the       *)
(* commands, their number and the order of their steps (lock.rs, start.rs, *)
(* stop.rs, rm.rs, supervisor.rs).                                         *)
THEOREM LockTypeCorrect == LockSpec => []LockTypeOK
<1>1. LockIInv => LockTypeOK
  BY Zenon DEF LockIInv
<1>. QED BY <1>1, LockStarts, LockStepKeeps, PTL DEF LockSpec

(* lock_run, pass_lock and claim_inherited_lock: as long as no rm took a   *)
(* lock file away without holding its lock, at most one VM of a box is up, *)
(* for any number of commands and launches.                                *)
THEOREM BoxHasOneVm == LockSpec => []OneVmPerBox
<1>1. LockIInv => OneVmPerBox
  <2>. SUFFICES ASSUME LockIInv, ~unlocked
                PROVE  Cardinality({k \in Launches : launch[k].vm = "up"}) <= 1
    BY Zenon DEF OneVmPerBox
  <2>. DEFINE Up == {k \in Launches : launch[k].vm = "up"}
  <2>1. \A j, k \in Up : j = k
    BY DEF LockIInv, NamedInv, OwnerInv, Live, Lives
  <2>2. CASE Up = {}
    BY <2>2, FS_EmptySet
  <2>3. CASE Up # {}
    <3>1. PICK k : Up = {k}
      BY <2>1, <2>3
    <3>. QED BY <3>1, FS_Singleton
  <2>. QED BY <2>2, <2>3
<1>. QED BY <1>1, LockStarts, LockStepKeeps, PTL DEF LockSpec

=============================================================================
