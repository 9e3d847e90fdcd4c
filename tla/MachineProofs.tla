--------------------------- MODULE MachineProofs ---------------------------
(***************************************************************************)
(* Proofs about a running machine, in two parts: the vCPU threads that run *)
(* it on the host, for every number of vCPUs, and the init process inside  *)
(* it, for every number of children and every order in which they end.     *)
(***************************************************************************)
EXTENDS VcpuGroup, GuestInit, TLAPS

-----------------------------------------------------------------------------
IsSetUp(v) == thread[v] \notin {"none", "new", "setup"}

(* While the owner creates vCPUs the threads before the one in hand are    *)
(* set up, the ones after it do not exist, and none has been started.      *)
CreationInv ==
  /\ owner \in {"creating", "awaiting_ready"} =>
       \A v \in Vcpu : /\ starts[v] # "sent"
                       /\ v >= spawned => thread[v] = "none"
                       /\ v < spawned - 1 => IsSetUp(v)
  /\ owner = "creating" => \A v \in Vcpu : v < spawned => IsSetUp(v)
  /\ owner = "awaiting_ready" => spawned > 0
  /\ owner \in {"prepared", "starting"} => \A v \in Vcpu : IsSetUp(v)

(* A thread outside {"none", "ended"} is always in the owner's list.       *)
JoinInv ==
  /\ spawned = 0 => AllOver
  /\ owner \in {"joined", "gone"} => spawned = 0
  /\ owner = "aborted" => AllOver

PublicationInv ==
  \A v \in Vcpu :
    published[v] => thread[v] \notin {"none", "new", "unpublished", "ended"}

IInv == TypeOK /\ CreationInv /\ JoinInv /\ PublicationInv /\ ParkedBeforeBoot

(* What every step of vCPU thread v has in common: it starts in a live     *)
(* thread, never takes it back to before its set-up, and keeps the         *)
(* publication inside the thread's life.                                   *)
ThreadMoves(v) ==
  /\ \E at \in ThreadState :
       /\ thread' = [thread EXCEPT ![v] = at]
       /\ ~Over(v)
       /\ at \notin {"none", "new"} /\ (IsSetUp(v) => at # "setup")
       /\ published'[v] => at \notin {"unpublished", "ended"}
  /\ \A u \in Vcpu : u # v => published'[u] = published[u]
  /\ published' \in [Vcpu -> BOOLEAN]
  /\ UNCHANGED <<hard_stop, owner, spawned, starts>>
  /\ is_requested' \in BOOLEAN
  /\ kicks' \in [Requester -> 0 .. VcpuCount]

(* What the assumption about the number of vCPUs says of its members.      *)
LEMMA VcpuFacts ==
  /\ VcpuCount \in Nat /\ VcpuCount > 0
  /\ BSP \in Vcpu /\ Owner \in Requester
  /\ \A v \in Vcpu : v \in Nat /\ v < VcpuCount /\ v \in Requester
BY GroupAssumption DEF Vcpu, BSP, Owner, Requester

(* Stop::request walks over the vCPUs only, and a kick moves nothing but a *)
(* thread in the guest.                                                    *)
LEMMA KickMoves ==
  ASSUME TypeOK, NEW r \in Requester, KickNext(r)
  PROVE  /\ kicks' \in [Requester -> 0 .. VcpuCount]
         /\ UNCHANGED <<hard_stop, owner, spawned, starts, is_requested, published>>
         /\ \/ UNCHANGED thread
            \/ \E v \in Vcpu : thread[v] = "guest"
                               /\ thread' = [thread EXCEPT ![v] = "interrupted"]
<1>1. kicks[r] \in 0 .. VcpuCount /\ kicks[r] < VcpuCount /\ kicks[r] \in Vcpu
  BY VcpuFacts DEF KickNext, Kick, Kicking, TypeOK, Vcpu
<1>2. kicks' = [kicks EXCEPT ![r] = kicks[r] + 1]
  BY DEF KickNext, Kick
<1>3. kicks[r] + 1 \in 0 .. VcpuCount
  BY <1>1, VcpuFacts
<1>4. kicks' \in [Requester -> 0 .. VcpuCount]
  BY <1>2, <1>3 DEF TypeOK
<1>5. \/ UNCHANGED thread
      \/ thread[kicks[r]] = "guest"
         /\ thread' = [thread EXCEPT ![kicks[r]] = "interrupted"]
  BY DEF KickNext, Kick, MoveTo
<1> QED  BY <1>1, <1>4, <1>5 DEF KickNext

(* A stop request (StopSignal::request) sets the flag and starts its kicks *)
(* at the first vCPU.                                                      *)
LEMMA BeginRequestTyped ==
  ASSUME TypeOK, NEW r \in Requester, BeginRequest(r)
  PROVE  is_requested' \in BOOLEAN /\ kicks' \in [Requester -> 0 .. VcpuCount]
BY VcpuFacts DEF BeginRequest, TypeOK

-----------------------------------------------------------------------------
(* What a vCPU's thread does by itself moves that thread only,             *)
LEMMA ThreadStepMoves ==
  ASSUME IInv, NEW v \in Vcpu, ThreadStep(v) \/ GuestExit(v), ~KickNext(v)
  PROVE  ThreadMoves(v)
<1> USE DEF IInv, TypeOK, PublicationInv, ThreadMoves, MoveTo, ThreadState, Over,
            IsSetUp
<1>0. v \in Requester
  BY VcpuFacts
<1>1. CASE Publish(v)         BY <1>1 DEF Publish
<1>2. CASE PublishFailed(v)   BY <1>2 DEF PublishFailed
<1>3. CASE SetUp(v)           BY <1>3 DEF SetUp
<1>4. CASE ReportIgnored(v)   BY <1>4 DEF ReportIgnored
<1>5. CASE ReceiveStart(v)    BY <1>5 DEF ReceiveStart
<1>6. CASE Check(v)           BY <1>6, Zenon DEF Check
<1>7. CASE Enter(v)           BY <1>7 DEF Enter
<1>8. CASE GuestExit(v)       BY <1>8 DEF GuestExit
<1>9. CASE Interrupted(v)     BY <1>9 DEF Interrupted
<1>10. CASE Exchange(v)       BY <1>10 DEF Exchange
<1>11. CASE ShutdownRequest(v)
  <2>1. is_requested' \in BOOLEAN /\ kicks' \in [Requester -> 0 .. VcpuCount]
    BY <1>0, <1>11, BeginRequestTyped DEF ShutdownRequest
  <2> QED  BY <1>11, <2>1 DEF ShutdownRequest
<1>12. CASE ShutdownDone(v)   BY <1>12 DEF ShutdownDone
<1>13. CASE Unpublish(v)      BY <1>13 DEF Unpublish
<1>14. CASE End(v)            BY <1>14 DEF End
<1> QED
  BY <1>1, <1>2, <1>3, <1>4, <1>5, <1>6, <1>7, <1>8, <1>9, <1>10, <1>11, <1>12,
     <1>13, <1>14, Zenon DEF ThreadStep

(* A thread that moves as above keeps the invariant.                       *)
LEMMA ThreadMovesKeeps ==
  ASSUME IInv, NEW v \in Vcpu, ThreadMoves(v)
  PROVE  IInv'
<1>1. PICK at \in ThreadState :
        /\ thread' = [thread EXCEPT ![v] = at]
        /\ ~Over(v)
        /\ at \notin {"none", "new"} /\ (IsSetUp(v) => at # "setup")
        /\ published'[v] => at \notin {"unpublished", "ended"}
  BY Zenon DEF ThreadMoves
<1>2. UNCHANGED <<hard_stop, owner, spawned, starts>>
  BY DEF ThreadMoves
<1>3. /\ thread \in [Vcpu -> ThreadState] /\ thread' \in [Vcpu -> ThreadState]
      /\ thread'[v] = at /\ \A u \in Vcpu : u # v => thread'[u] = thread[u]
  BY <1>1 DEF IInv, TypeOK
<1>4. TypeOK'
  BY <1>2, <1>3 DEF ThreadMoves, IInv, TypeOK
<1>5. \A u \in Vcpu : IsSetUp(u) => IsSetUp(u)'
  BY <1>1, <1>3 DEF IsSetUp
<1>6. thread[v] # "none"
  BY <1>1 DEF Over
<1>7. CreationInv'
  BY <1>2, <1>3, <1>5, <1>6 DEF IInv, CreationInv
<1>8. ~AllOver
  BY <1>1 DEF AllOver
<1>9. JoinInv'
  BY <1>2, <1>8 DEF IInv, JoinInv
<1>10. PublicationInv'
  BY <1>1, <1>3 DEF ThreadMoves, IInv, PublicationInv
<1>11. ParkedBeforeBoot'
  BY <1>2, <1>5 DEF IInv, ParkedBeforeBoot, IsSetUp
<1> QED  BY <1>4, <1>7, <1>9, <1>10, <1>11 DEF IInv

(* Nothing but a thread's place and the kick counters change with a kick.  *)
LEMMA KickKeeps ==
  ASSUME IInv, NEW r \in Requester, KickNext(r)
  PROVE  IInv'
<1>1. /\ kicks' \in [Requester -> 0 .. VcpuCount]
      /\ UNCHANGED <<hard_stop, owner, spawned, starts, is_requested, published>>
      /\ \/ UNCHANGED thread
         \/ \E v \in Vcpu : thread[v] = "guest"
                            /\ thread' = [thread EXCEPT ![v] = "interrupted"]
  BY KickMoves DEF IInv
<1>2. CASE UNCHANGED thread
  BY <1>1, <1>2 DEF IInv, TypeOK, CreationInv, JoinInv, PublicationInv,
     ParkedBeforeBoot, AllOver, Over, IsSetUp
<1>3. CASE \E v \in Vcpu : thread[v] = "guest"
                           /\ thread' = [thread EXCEPT ![v] = "interrupted"]
  <2>1. PICK v \in Vcpu : thread[v] = "guest"
                          /\ thread' = [thread EXCEPT ![v] = "interrupted"]
    BY <1>3, Zenon
  <2>2. ThreadMoves(v)
    BY <1>1, <2>1 DEF IInv, TypeOK, ThreadMoves, ThreadState, Over, IsSetUp
  <2> QED  BY <2>2, ThreadMovesKeeps
<1> QED  BY <1>1, <1>2, <1>3

-----------------------------------------------------------------------------
(* The owner's steps that leave the threads alone and create nothing: they *)
(* change the owner's place, the starts and the kick counters.             *)
OwnerMoves ==
  /\ UNCHANGED <<hard_stop, spawned, thread, published>>
  /\ owner' \in OwnerState \ {"creating", "awaiting_ready", "prepared", "joined", "aborted"}
  /\ owner' = "starting" => owner \in {"prepared", "starting"}
  /\ owner' = "gone" => spawned = 0
  /\ starts' \in [Vcpu -> {"none", "open", "sent", "dropped"}]
  /\ (\E v \in Vcpu : starts'[v] = "sent")
       => (\E v \in Vcpu : starts[v] = "sent") \/ (\A v \in Vcpu : IsSetUp(v))
  /\ is_requested' \in BOOLEAN
  /\ kicks' \in [Requester -> 0 .. VcpuCount]

(* and steps of the owner that spawn nothing keep the invariant.           *)
LEMMA OwnerMovesKeeps ==
  ASSUME IInv, OwnerMoves
  PROVE  IInv'
<1>1. TypeOK'
  BY DEF IInv, TypeOK, OwnerMoves
<1>2. CreationInv'
  BY DEF IInv, CreationInv, OwnerMoves, IsSetUp
<1>3. JoinInv'
  BY DEF IInv, JoinInv, OwnerMoves, AllOver, Over
<1>4. PublicationInv'
  BY DEF IInv, PublicationInv, OwnerMoves
<1>5. ParkedBeforeBoot'
  BY DEF IInv, ParkedBeforeBoot, OwnerMoves, IsSetUp
<1> QED  BY <1>1, <1>2, <1>3, <1>4, <1>5 DEF IInv

(* Start senders that are dropped do not start anything.                   *)
LEMMA DropStartsTyped ==
  ASSUME TypeOK, DropStarts
  PROVE  /\ starts' \in [Vcpu -> {"none", "open", "sent", "dropped"}]
         /\ \A v \in Vcpu : starts'[v] = "sent" => starts[v] = "sent"
BY DEF TypeOK, DropStarts

(* A stop request, a join and its repetitions.                             *)
LEMMA StopMoves ==
  ASSUME IInv, RequestStop \/ Join \/ JoinKicksAgain
  PROVE  OwnerMoves
<1>0. Owner \in Requester
  BY VcpuFacts
<1>1. CASE RequestStop \/ Join
  <2>1. DropStarts /\ BeginRequest(Owner) /\ UNCHANGED <<hard_stop, spawned, thread, published>>
    BY <1>1 DEF RequestStop, Join
  <2>2. owner' \in {"stopping", "joining", "drop_joining"}
    BY <1>1 DEF RequestStop, Join
  <2> QED
    BY <1>0, <2>1, <2>2, DropStartsTyped, BeginRequestTyped DEF IInv, OwnerMoves, OwnerState
<1>2. CASE JoinKicksAgain
  <2>1. /\ BeginRequest(Owner) /\ Joining
        /\ UNCHANGED <<hard_stop, owner, spawned, starts, thread, published>>
    BY <1>2 DEF JoinKicksAgain
  <2> QED
    BY <1>0, <2>1, BeginRequestTyped DEF IInv, TypeOK, OwnerMoves, OwnerState, Joining
<1> QED  BY <1>1, <1>2

(* start() finds every vCPU set up and parked.                             *)
LEMMA StartMoves ==
  ASSUME IInv, NEW v \in Vcpu, Start(v)
  PROVE  OwnerMoves
<1>1. \A u \in Vcpu : IsSetUp(u)
  BY DEF Start, IInv, CreationInv
<1> QED
  BY <1>1 DEF Start, IInv, TypeOK, OwnerMoves, OwnerState

(* The group is given up, dropped or left behind.                          *)
LEMMA GiveUpMoves ==
  ASSUME IInv, \/ SpawnRefused \/ SpawnTimedOut \/ Drop \/ DropEmpty
               \/ JoinTimedOut /\ ~hard_stop
  PROVE  OwnerMoves
<1>1. UNCHANGED <<hard_stop, spawned, starts, is_requested, kicks, thread, published>>
  BY DEF SpawnRefused, SpawnTimedOut, Drop, DropEmpty, JoinTimedOut
<1>2. owner' \in {"dropping", "gone", "timed_out", "abandoned"} /\ (owner' = "gone" => spawned = 0)
  BY DEF SpawnRefused, SpawnTimedOut, Drop, DropEmpty, JoinTimedOut
<1> QED
  BY <1>1, <1>2 DEF IInv, TypeOK, OwnerMoves, OwnerState

-----------------------------------------------------------------------------
(* Creation: a thread is begun only where none exists.                     *)
LEMMA SpawnKeeps ==
  ASSUME IInv, Spawn
  PROVE  IInv'
<1>1. /\ owner = "creating" /\ spawned < VcpuCount /\ spawned \in Nat /\ spawned \in Vcpu
      /\ spawned + 1 \in 0 .. VcpuCount
  BY VcpuFacts DEF Spawn, IInv, TypeOK, Vcpu
<1>2. /\ thread' = [thread EXCEPT ![spawned] = "new"]
      /\ starts' = [starts EXCEPT ![spawned] = "open"]
      /\ spawned' = spawned + 1 /\ owner' = "awaiting_ready"
      /\ UNCHANGED <<hard_stop, is_requested, kicks, published>>
  BY DEF Spawn, MoveTo
<1>3. \A v \in Vcpu : v \in Int /\ (v >= spawned => thread[v] = "none") /\ starts[v] # "sent"
                      /\ (v < spawned => IsSetUp(v))
  BY <1>1, VcpuFacts DEF IInv, CreationInv
<1>4. TypeOK'
  BY <1>1, <1>2 DEF IInv, TypeOK, OwnerState, ThreadState
<1>5. \A v \in Vcpu : /\ starts'[v] # "sent"
                      /\ v >= spawned + 1 => thread'[v] = "none"
                      /\ v < spawned => thread'[v] = thread[v]
  BY <1>1, <1>2, <1>3 DEF IInv, TypeOK
<1>6. CreationInv'
  BY <1>1, <1>2, <1>3, <1>5 DEF CreationInv, IsSetUp
<1>7. JoinInv'
  BY <1>1, <1>2 DEF JoinInv
<1>8. PublicationInv'
  BY <1>1, <1>2, <1>3 DEF IInv, TypeOK, PublicationInv
<1>9. ParkedBeforeBoot'
  BY <1>5 DEF ParkedBeforeBoot
<1> QED  BY <1>4, <1>6, <1>7, <1>8, <1>9 DEF IInv

(* A thread that reported ready lets the owner spawn the next one.         *)
LEMMA SpawnReadyKeeps ==
  ASSUME IInv, SpawnReady
  PROVE  IInv'
<1>1. spawned - 1 \in Vcpu /\ spawned \in Nat /\ spawned \in 0 .. VcpuCount /\ owner = "awaiting_ready"
  BY VcpuFacts DEF SpawnReady, IInv, TypeOK, CreationInv, Vcpu
<1>2. /\ thread' = [thread EXCEPT ![spawned - 1] = "waiting"] /\ thread[spawned - 1] = "ready"
      /\ owner' = IF spawned = VcpuCount THEN "prepared" ELSE "creating"
      /\ UNCHANGED <<hard_stop, spawned, starts, is_requested, kicks, published>>
  BY DEF SpawnReady, MoveTo
<1>3. \A v \in Vcpu : v \in Int /\ v < VcpuCount /\ starts[v] # "sent"
                      /\ (v >= spawned => thread[v] = "none") /\ (v < spawned - 1 => IsSetUp(v))
  BY <1>1, VcpuFacts DEF IInv, CreationInv
<1>4. TypeOK'
  BY <1>1, <1>2 DEF IInv, TypeOK, OwnerState, ThreadState
<1>5. \A v \in Vcpu : /\ v >= spawned => thread'[v] = "none"
                      /\ v < spawned => IsSetUp(v)'
  BY <1>1, <1>2, <1>3 DEF IInv, TypeOK, IsSetUp
<1>6. CreationInv'
  BY <1>1, <1>2, <1>3, <1>5, VcpuFacts DEF CreationInv
<1>7. JoinInv'
  BY <1>1, <1>2, VcpuFacts DEF JoinInv, Vcpu
<1>8. PublicationInv'
  BY <1>1, <1>2 DEF IInv, TypeOK, PublicationInv
<1>9. ParkedBeforeBoot'
  BY <1>2, <1>3 DEF ParkedBeforeBoot
<1> QED  BY <1>4, <1>6, <1>7, <1>8, <1>9 DEF IInv

(* A thread that failed to get ready ends the creation of the group.       *)
LEMMA SpawnFailedKeeps ==
  ASSUME IInv, SpawnFailed
  PROVE  IInv'
<1>1. /\ spawned - 1 \in Vcpu /\ spawned \in Nat /\ spawned - 1 \in 0 .. VcpuCount
      /\ owner = "awaiting_ready" /\ thread[spawned - 1] = "ended"
  BY VcpuFacts DEF SpawnFailed, IInv, TypeOK, CreationInv, Vcpu
<1>2. /\ owner' = "dropping" /\ spawned' = spawned - 1
      /\ starts' = [starts EXCEPT ![spawned - 1] = "dropped"]
      /\ UNCHANGED <<hard_stop, is_requested, kicks, thread, published>>
  BY DEF SpawnFailed
<1>3. \A v \in Vcpu : v \in Nat /\ starts[v] # "sent" /\ (v >= spawned => thread[v] = "none")
  BY <1>1, VcpuFacts DEF IInv, CreationInv
<1>4. TypeOK'
  BY <1>1, <1>2 DEF IInv, TypeOK, OwnerState
<1>5. \A v \in Vcpu : starts'[v] # "sent"
  BY <1>1, <1>2, <1>3 DEF IInv, TypeOK
<1>6. CreationInv' /\ ParkedBeforeBoot' /\ PublicationInv'
  BY <1>2, <1>5 DEF CreationInv, ParkedBeforeBoot, IInv, PublicationInv
<1>7. spawned - 1 = 0 => \A v \in Vcpu : v = spawned - 1 \/ v >= spawned
  BY <1>1, <1>3
<1>8. JoinInv'
  BY <1>1, <1>2, <1>3, <1>7 DEF JoinInv, AllOver, Over
<1> QED  BY <1>4, <1>6, <1>8 DEF IInv

(* A join that returns, and one that ends the process.                     *)
LEMMA JoinEndKeeps ==
  ASSUME IInv, JoinFinished \/ (JoinTimedOut /\ hard_stop)
  PROVE  IInv'
<1>1. CASE JoinFinished
  <2>1. /\ AllOver /\ owner' \in {"joined", "gone"} /\ spawned' = 0
        /\ UNCHANGED <<hard_stop, starts, is_requested, kicks, thread, published>>
    BY <1>1 DEF JoinFinished
  <2>2. TypeOK'
    BY <2>1, VcpuFacts DEF IInv, TypeOK, OwnerState
  <2>3. JoinInv' /\ CreationInv' /\ PublicationInv' /\ ParkedBeforeBoot'
    BY <2>1 DEF IInv, JoinInv, AllOver, Over, CreationInv, PublicationInv, ParkedBeforeBoot
  <2> QED  BY <2>2, <2>3 DEF IInv
<1>2. CASE JoinTimedOut /\ hard_stop
  <2>1. /\ owner' = "aborted" /\ thread' = [v \in Vcpu |-> "ended"]
        /\ published' = [v \in Vcpu |-> FALSE] /\ kicks' = [r \in Requester |-> VcpuCount]
        /\ UNCHANGED <<hard_stop, spawned, starts, is_requested>>
    BY <1>2 DEF JoinTimedOut
  <2>2. TypeOK'
    BY <2>1, VcpuFacts DEF IInv, TypeOK, OwnerState, ThreadState
  <2>3. JoinInv' /\ CreationInv' /\ PublicationInv' /\ ParkedBeforeBoot'
    BY <2>1 DEF IInv, JoinInv, AllOver, Over, CreationInv, PublicationInv, ParkedBeforeBoot
  <2> QED  BY <2>2, <2>3 DEF IInv
<1> QED  BY <1>1, <1>2

-----------------------------------------------------------------------------
(* A group starts without threads.                                         *)
LEMMA InitIInv == Init => IInv
<1> SUFFICES ASSUME Init PROVE IInv
  OBVIOUS
<1>1. TypeOK
  <2>1. hard_stop \in BOOLEAN /\ is_requested \in BOOLEAN
    BY Zenon DEF Init
  <2>2. spawned \in 0 .. VcpuCount /\ kicks \in [Requester -> 0 .. VcpuCount]
    BY VcpuFacts DEF Init
  <2>3. /\ owner \in OwnerState /\ thread \in [Vcpu -> ThreadState]
        /\ starts \in [Vcpu -> {"none", "open", "sent", "dropped"}]
        /\ published \in [Vcpu -> BOOLEAN]
    BY DEF Init, OwnerState, ThreadState
  <2> QED  BY <2>1, <2>2, <2>3 DEF TypeOK
<1>2. CreationInv
  BY VcpuFacts DEF Init, CreationInv
<1>3. JoinInv /\ PublicationInv /\ ParkedBeforeBoot
  BY DEF Init, JoinInv, AllOver, Over, PublicationInv, ParkedBeforeBoot
<1> QED  BY <1>1, <1>2, <1>3 DEF IInv

(* Every step of a thread or of the owner keeps the invariant.             *)
LEMMA NextIInv ==
  ASSUME IInv, [Next]_vars
  PROVE  IInv'
<1>1. CASE UNCHANGED vars \/ Finished
  <2>1. UNCHANGED vars
    BY <1>1 DEF Finished
  <2> QED
    BY <2>1 DEF vars, IInv, TypeOK, CreationInv, JoinInv, PublicationInv,
       ParkedBeforeBoot, AllOver, Over, IsSetUp
<1>2. CASE OwnerStep
  <2>1. CASE KickNext(Owner)
    BY <2>1, KickKeeps, VcpuFacts
  <2>2. CASE DropEmpty \/ JoinKicksAgain \/ Join \/ (\E v \in Vcpu : Start(v))
    BY <2>2, GiveUpMoves, StopMoves, StartMoves, OwnerMovesKeeps
  <2> QED
    BY <1>2, <2>1, <2>2, SpawnKeeps, SpawnReadyKeeps, SpawnFailedKeeps, JoinEndKeeps
    DEF OwnerStep
<1>3. CASE OwnerChoice
  <2>1. CASE JoinTimedOut
    BY <2>1, JoinEndKeeps, GiveUpMoves, OwnerMovesKeeps
  <2>2. CASE SpawnRefused \/ SpawnTimedOut \/ Drop \/ RequestStop \/ Join
             \/ (\E v \in Vcpu : Start(v))
    BY <2>2, GiveUpMoves, StopMoves, StartMoves, OwnerMovesKeeps
  <2> QED  BY <1>3, <2>1, <2>2 DEF OwnerChoice
<1>4. CASE \E v \in Vcpu : ThreadStep(v) \/ GuestExit(v)
  <2>1. PICK v \in Vcpu : ThreadStep(v) \/ GuestExit(v)
    BY <1>4
  <2>2. CASE KickNext(v)
    BY <2>2, KickKeeps, VcpuFacts
  <2>3. CASE ~KickNext(v)
    BY <2>1, <2>3, ThreadStepMoves, ThreadMovesKeeps
  <2> QED  BY <2>2, <2>3
<1> QED  BY <1>1, <1>2, <1>3, <1>4 DEF Next

(* The invariant holds in every state of a vCPU group.                     *)
LEMMA VcpuGroupInv == Spec => []IInv
BY InitIInv, NextIInv, PTL DEF Spec

(* The vCPU group keeps its types: in particular the counter of a stop     *)
(* request never passes the last vCPU.                                     *)
THEOREM VcpuGroupTypeOK == Spec => []TypeOK
<1>1. IInv => TypeOK
  BY DEF IInv
<1> QED  BY <1>1, VcpuGroupInv, PTL

(* PthreadPublication: a kick never signals a thread that has ended,       *)
(* however the request, the guard's drop and the thread's end interleave.  *)
THEOREM VcpuKicksLiveThreads == Spec => []KickedThreadsAreAlive
<1>1. IInv => KickedThreadsAreAlive
  BY DEF IInv, PublicationInv, KickedThreadsAreAlive
<1> QED  BY <1>1, VcpuGroupInv, PTL

(* Vcpus::spawn and start: no vCPU is let go before every AP is parked.    *)
THEOREM VcpuParkedBeforeBoot == Spec => []ParkedBeforeBoot
<1>1. IInv => ParkedBeforeBoot
  BY DEF IInv
<1> QED  BY <1>1, VcpuGroupInv, PTL

(* Vcpus::join and drop: when they return with nothing left behind, no     *)
(* vCPU thread exists any more, whatever failed during creation.           *)
THEOREM VcpuJoinedMeansEnded == Spec => []JoinedMeansEnded
<1>1. IInv => JoinedMeansEnded
  BY DEF IInv, JoinInv, JoinedMeansEnded
<1> QED  BY <1>1, VcpuGroupInv, PTL
-----------------------------------------------------------------------------
(* A process has its pid until it is collected.                            *)
Lives(p) == gproc[p].state \in {"run", "zombie"}
ProcRecords == [pid : Pids \cup {NoChild}, state : {"none", "run", "zombie", "gone"}]
WaiterRecords == [pc : {"none", "wait", "failed", "done"}, got : OwnedChildren \cup {NoChild}]

(* Types.                                                                  *)
ReapTypes ==
  /\ gproc \in [ReapProcs -> ProcRecords]
  /\ waiter \in [OwnedChildren -> WaiterRecords]
  /\ slot \in [OwnedChildren -> ReapProcs \cup {NoChild}]

\* Two processes alive have two pids.
PidsInv == \A p, q \in ReapProcs : Lives(p) /\ Lives(q) /\ gproc[p].pid = gproc[q].pid => p = q

(* An entry of OWNED is of a child whose owner waits, and nobody else      *)
(* alive has the pid it lists.                                             *)
EntryInv(e) ==
  /\ e.child \in OwnedChildren
  /\ waiter[e.child].pc = "wait"
  /\ gproc[e.child].pid = e.pid
  /\ \A p \in ReapProcs : Lives(p) /\ gproc[p].pid = e.pid => p = e.child

(* A status is left only in the slot of its own child.                     *)
OwnersInv ==
  /\ \A c \in OwnedChildren : /\ slot[c] \in {NoChild, c}
                              /\ waiter[c].pc = "none" => gproc[c].state = "none"
                              /\ waiter[c].pc = "done" => waiter[c].got = c
  /\ gsignal.reached \subseteq {gsignal.by}

(* The inductive invariant.                                                *)
ReapInv == ReapTypes /\ PidsInv /\ (\A e \in ownedSet : EntryInv(e)) /\ OwnersInv

(* Nothing runs yet.                                                       *)
LEMMA ReapStarts == ReapInit => ReapInv
<1> SUFFICES ASSUME ReapInit PROVE ReapInv
  OBVIOUS
<1>1. ReapTypes
  BY DEF ReapInit, ReapTypes, ProcRecords, WaiterRecords
<1>2. PidsInv
  BY DEF ReapInit, PidsInv, Lives
<1>3. OwnersInv
  BY DEF ReapInit, OwnersInv, ReapProcs
<1> QED
  BY <1>1, <1>2, <1>3 DEF ReapInit, ReapInv

(* spawn_owned: an older entry with the child's pid is dropped.            *)
LEMMA ChildSpawnKeeps ==
  ASSUME ReapInv, NEW c \in OwnedChildren, SpawnOwned(c)
  PROVE  ReapInv'
<1>0. c \in ReapProcs /\ waiter[c] \in WaiterRecords /\ waiter[c].pc = "none" /\ UNCHANGED <<slot, gsignal>>
  BY DEF ReapInv, ReapTypes, ReapProcs, SpawnOwned
<1>1. CASE waiter' = [waiter EXCEPT ![c].pc = "failed"] /\ UNCHANGED <<gproc, ownedSet>>
  <2> DEFINE w == [waiter[c] EXCEPT !.pc = "failed"]
  <2>1. w \in WaiterRecords /\ w.pc = "failed"
    BY <1>0 DEF WaiterRecords
  <2>2. waiter' = [waiter EXCEPT ![c] = w]
    BY <1>1
  <2> HIDE DEF w
  <2>3. waiter' \in [OwnedChildren -> WaiterRecords] /\ \A d \in OwnedChildren : waiter'[d] = IF d = c THEN w ELSE waiter[d]
    BY <2>1, <2>2 DEF ReapInv, ReapTypes
  <2>4. ReapTypes'
    BY <1>0, <1>1, <2>3 DEF ReapInv, ReapTypes
  <2>5. PidsInv'
    BY <1>1 DEF ReapInv, PidsInv, Lives
  <2>6. \A e \in ownedSet' : EntryInv(e)'
    BY <1>0, <1>1, <2>3 DEF ReapInv, EntryInv, Lives
  <2>7. OwnersInv'
    BY <1>0, <1>1, <2>1, <2>3 DEF ReapInv, OwnersInv
  <2> QED
    BY <2>4, <2>5, <2>6, <2>7 DEF ReapInv
<1>2. CASE ~(waiter' = [waiter EXCEPT ![c].pc = "failed"] /\ UNCHANGED <<gproc, ownedSet>>)
  <2>1. PICK pid \in Pids \ UsedPids :
             /\ gproc' = [gproc EXCEPT ![c] = [pid |-> pid, state |-> "run"]]
             /\ ownedSet' = RegisterOwned(c, pid)
             /\ waiter' = [waiter EXCEPT ![c].pc = "wait"]
    BY <1>2 DEF SpawnOwned
  <2> DEFINE w == [waiter[c] EXCEPT !.pc = "wait"]
             g == [pid |-> pid, state |-> "run"]
             n == [pid |-> pid, child |-> c]
  <2>2. w \in WaiterRecords /\ w.pc = "wait" /\ g \in ProcRecords /\ g.pid = pid /\ g.state = "run"
    BY <1>0 DEF WaiterRecords, ProcRecords
  <2>3. waiter' = [waiter EXCEPT ![c] = w] /\ gproc' = [gproc EXCEPT ![c] = g]
    BY <2>1
  <2>4. ownedSet' = {e \in ownedSet : e.pid # pid} \cup {n} /\ n.pid = pid /\ n.child = c
    BY <2>1 DEF RegisterOwned
  <2> HIDE DEF w, g, n
  <2>5. waiter' \in [OwnedChildren -> WaiterRecords] /\ \A d \in OwnedChildren : waiter'[d] = IF d = c THEN w ELSE waiter[d]
    BY <2>2, <2>3 DEF ReapInv, ReapTypes
  <2>6. gproc' \in [ReapProcs -> ProcRecords] /\ \A p \in ReapProcs : gproc'[p] = IF p = c THEN g ELSE gproc[p]
    BY <1>0, <2>2, <2>3 DEF ReapInv, ReapTypes
  <2>7. \A p \in ReapProcs : Lives(p) => gproc[p].pid # pid
    BY <2>1 DEF UsedPids, Lives
  <2>8. \A p \in ReapProcs : Lives(p)' /\ gproc'[p].pid = pid => p = c
    BY <2>6, <2>7 DEF Lives
  <2>9. PidsInv'
    BY <2>2, <2>6, <2>8 DEF ReapInv, PidsInv, Lives
  <2>10. ASSUME NEW e \in ownedSet'
         PROVE  EntryInv(e)'
    <3>1. CASE e = n
      BY <1>0, <2>2, <2>4, <2>5, <2>6, <2>8, <3>1, Zenon DEF EntryInv
    <3>2. CASE e # n
      <4>1. e \in ownedSet /\ e.pid # pid /\ EntryInv(e)
        BY <2>4, <3>2 DEF ReapInv
      <4>2. e.child # c /\ e.child \in ReapProcs
        BY <1>0, <4>1, Zenon DEF EntryInv, ReapProcs
      <4> QED
        BY <2>2, <2>5, <2>6, <4>1, <4>2 DEF EntryInv, Lives
    <3> QED
      BY <3>1, <3>2, Zenon
  <2>11. OwnersInv'
    BY <1>0, <2>2, <2>5, <2>6 DEF ReapInv, OwnersInv, ReapProcs
  <2>12. ReapTypes'
    BY <1>0, <2>5, <2>6, Zenon DEF ReapInv, ReapTypes
  <2> QED
    BY <2>9, <2>10, <2>11, <2>12 DEF ReapInv
<1> QED
  BY <1>1, <1>2

(* An orphan comes with a pid that no entry lists.                         *)
LEMMA OrphanKeeps ==
  ASSUME ReapInv, NEW p \in Orphans, OrphanAppears(p)
  PROVE  ReapInv'
<1>1. PICK pid \in Pids \ (UsedPids \cup {e.pid : e \in ownedSet}) :
        gproc' = [gproc EXCEPT ![p] = [pid |-> pid, state |-> "run"]]
  BY Zenon DEF OrphanAppears
<1> DEFINE g == [pid |-> pid, state |-> "run"]
<1>2. g \in ProcRecords /\ g.pid = pid /\ gproc' = [gproc EXCEPT ![p] = g]
  BY <1>1, Zenon DEF ProcRecords
<1> HIDE DEF g
<1>3. p \in ReapProcs /\ p \notin OwnedChildren /\ UNCHANGED <<ownedSet, slot, waiter, gsignal>>
  BY ReapAssumption DEF OrphanAppears, ReapProcs
<1>4. gproc' \in [ReapProcs -> ProcRecords] /\ \A q \in ReapProcs : gproc'[q] = IF q = p THEN g ELSE gproc[q]
  BY <1>2, <1>3 DEF ReapInv, ReapTypes
<1>5. ReapTypes'
  BY <1>3, <1>4 DEF ReapInv, ReapTypes
<1>6. \A q \in ReapProcs : Lives(q) => gproc[q].pid # pid
  BY <1>1 DEF UsedPids, Lives
<1>7. PidsInv'
  BY <1>2, <1>4, <1>6, Zenon DEF ReapInv, PidsInv, Lives
<1>8. ASSUME NEW e \in ownedSet'
      PROVE  EntryInv(e)'
  <2>1. e \in ownedSet /\ EntryInv(e) /\ e.pid # pid
    BY <1>1, <1>3 DEF ReapInv
  <2>2. e.child # p /\ e.child \in ReapProcs
    BY <1>3, <2>1 DEF EntryInv, ReapProcs
  <2> QED
    BY <1>2, <1>3, <1>4, <2>1, <2>2 DEF EntryInv, Lives
<1>9. OwnersInv'
  BY <1>3, <1>4, Zenon DEF ReapInv, OwnersInv, ReapProcs
<1> QED
  BY <1>5, <1>7, <1>8, <1>9, Zenon DEF ReapInv

\* A process that exits, or is collected, keeps its pid.
LEMMA StateKeeps ==
  ASSUME ReapInv, NEW p \in ReapProcs, Lives(p), NEW x \in {"zombie", "gone"},
         gproc' = [gproc EXCEPT ![p].state = x]
  PROVE  /\ gproc' \in [ReapProcs -> ProcRecords]
         /\ \A q \in ReapProcs : /\ gproc'[q].pid = gproc[q].pid /\ (Lives(q)' => Lives(q))
                                 /\ gproc[q].state = "none" => gproc'[q].state = "none"
<1> DEFINE g == [gproc[p] EXCEPT !.state = x]
<1>1. gproc[p] \in ProcRecords
  BY DEF ReapInv, ReapTypes
<1>2. g \in ProcRecords /\ g.pid = gproc[p].pid /\ gproc' = [gproc EXCEPT ![p] = g]
  BY <1>1 DEF ProcRecords
<1> HIDE DEF g
<1>3. gproc' \in [ReapProcs -> ProcRecords] /\ \A q \in ReapProcs : gproc'[q] = IF q = p THEN g ELSE gproc[q]
  BY <1>2, Zenon DEF ReapInv, ReapTypes
<1>4. g.state \in {"zombie", "gone"} /\ (gproc[p].state # "none")
  BY <1>1 DEF g, Lives, ProcRecords
<1> QED
  BY <1>2, <1>3, <1>4, Zenon DEF Lives

(* and fewer live ones share pids no more than before.                     *)
LEMMA FewerLive ==
  ASSUME ReapInv,
         \A q \in ReapProcs : /\ gproc'[q].pid = gproc[q].pid /\ (Lives(q)' => Lives(q))
                              /\ gproc[q].state = "none" => gproc'[q].state = "none"
  PROVE  /\ PidsInv'
         /\ \A e \in ownedSet : waiter'[e.child].pc = "wait" => EntryInv(e)'
<1>1. \A e \in ownedSet : EntryInv(e) /\ e.child \in ReapProcs
  BY DEF ReapInv, EntryInv, ReapProcs
<1>2. PidsInv'
  BY DEF ReapInv, PidsInv
<1>3. ASSUME NEW e \in ownedSet, waiter'[e.child].pc = "wait" PROVE EntryInv(e)'
  BY <1>1, <1>3 DEF EntryInv
<1> QED
  BY <1>2, <1>3

(* A process exits,                                                        *)
LEMMA ExitKeeps ==
  ASSUME ReapInv, NEW p \in ReapProcs, ProcessExits(p)
  PROVE  ReapInv'
<1>1. /\ Lives(p) /\ gproc' = [gproc EXCEPT ![p].state = "zombie"]
      /\ UNCHANGED <<ownedSet, slot, waiter, gsignal>>
  BY DEF ProcessExits, Lives
<1>2. /\ gproc' \in [ReapProcs -> ProcRecords]
      /\ \A q \in ReapProcs : /\ gproc'[q].pid = gproc[q].pid /\ (Lives(q)' => Lives(q))
                              /\ gproc[q].state = "none" => gproc'[q].state = "none"
  BY <1>1, StateKeeps, Zenon
<1>3. PidsInv' /\ \A e \in ownedSet' : EntryInv(e)'
  <2>1. \A e \in ownedSet : waiter'[e.child].pc = "wait"
    BY <1>1 DEF ReapInv, EntryInv
  <2> QED
    BY <1>1, <1>2, <2>1, FewerLive
<1>4. ReapTypes' /\ OwnersInv'
  BY <1>1, <1>2 DEF ReapInv, ReapTypes, OwnersInv, ReapProcs
<1> QED
  BY <1>3, <1>4 DEF ReapInv

(* the reaper collects it and leaves its status to an owner, if it has     *)
(* one,                                                                    *)
LEMMA ReapKeeps ==
  ASSUME ReapInv, ReapOneOrphan
  PROVE  ReapInv'
<1>0. UNCHANGED <<ownedSet, waiter, gsignal>>
  BY DEF ReapOneOrphan
<1>1. CASE UNCHANGED <<gproc, slot>>
  BY <1>0, <1>1, Zenon DEF ReapInv, ReapTypes, PidsInv, EntryInv, OwnersInv, Lives
<1>2. CASE ~UNCHANGED <<gproc, slot>>
  <2>1. PICK p \in ReapProcs : gproc[p].state = "zombie" /\ DeliverStatus(p)
    BY <1>2 DEF ReapOneOrphan
  <2>2. Lives(p) /\ gproc' = [gproc EXCEPT ![p].state = "gone"]
    BY <2>1 DEF Lives, DeliverStatus
  <2>3. /\ gproc' \in [ReapProcs -> ProcRecords]
        /\ \A q \in ReapProcs : /\ gproc'[q].pid = gproc[q].pid /\ (Lives(q)' => Lives(q))
                                /\ gproc[q].state = "none" => gproc'[q].state = "none"
    BY <2>2, StateKeeps, Zenon
  <2>4. PidsInv' /\ \A e \in ownedSet' : EntryInv(e)'
    <3>1. \A e \in ownedSet : waiter'[e.child].pc = "wait"
      BY <1>0 DEF ReapInv, EntryInv
    <3> QED
      BY <1>0, <2>3, <3>1, FewerLive
  <2>5. slot' = slot \/ \E c \in OwnedChildren : slot' = [slot EXCEPT ![c] = c]
    <3>1. CASE slot' # slot
      <4>1. PICK e \in ownedSet : e.pid = gproc[p].pid /\ slot' = [slot EXCEPT ![e.child] = p]
        BY <2>1, <3>1 DEF DeliverStatus
      <4>2. p = e.child /\ e.child \in OwnedChildren
        BY <2>2, <4>1 DEF ReapInv, EntryInv
      <4> QED
        BY <4>1, <4>2, Zenon
    <3> QED
      BY <3>1
  <2>6. slot' \in [OwnedChildren -> ReapProcs \cup {NoChild}] /\ \A c \in OwnedChildren : slot'[c] \in {NoChild, c}
    BY <2>5 DEF ReapInv, ReapTypes, OwnersInv, ReapProcs
  <2>7. ReapTypes' /\ OwnersInv'
    BY <1>0, <2>3, <2>6, Zenon DEF ReapInv, ReapTypes, OwnersInv, ReapProcs
  <2> QED
    BY <2>4, <2>7 DEF ReapInv
<1> QED
  BY <1>1, <1>2

(* and the owner takes it, or collects its own child.                      *)
LEMMA CollectKeeps ==
  ASSUME ReapInv, NEW c \in OwnedChildren, CollectStatus(c)
  PROVE  ReapInv'
<1> DEFINE w == [pc |-> "done", got |-> c]
<1>0. /\ c \in ReapProcs /\ ownedSet' = {e \in ownedSet : e.child # c} /\ gsignal' = gsignal
      /\ waiter[c].pc = "wait" /\ slot[c] \in {NoChild, c}
  BY DEF CollectStatus, ReapProcs, ReapInv, OwnersInv
<1>1. waiter' = [waiter EXCEPT ![c] = w] /\ slot' \in {slot, [slot EXCEPT ![c] = NoChild]}
  BY <1>0 DEF CollectStatus
<1>2. w \in WaiterRecords /\ w.pc = "done" /\ w.got = c
  BY DEF WaiterRecords
<1> HIDE DEF w
<1>3. waiter' \in [OwnedChildren -> WaiterRecords] /\ \A d \in OwnedChildren : waiter'[d] = IF d = c THEN w ELSE waiter[d]
  BY <1>1, <1>2 DEF ReapInv, ReapTypes
<1>4. slot' \in [OwnedChildren -> ReapProcs \cup {NoChild}] /\ \A d \in OwnedChildren : slot'[d] \in {NoChild, d}
  BY <1>1 DEF ReapInv, ReapTypes, OwnersInv
<1>5. /\ gproc' \in [ReapProcs -> ProcRecords]
      /\ \A q \in ReapProcs : /\ gproc'[q].pid = gproc[q].pid /\ (Lives(q)' => Lives(q))
                              /\ gproc[q].state = "none" => gproc'[q].state = "none"
  <2>1. CASE gproc' = gproc
    BY <2>1 DEF ReapInv, ReapTypes, Lives
  <2>2. CASE gproc' # gproc
    <3>1. Lives(c) /\ gproc' = [gproc EXCEPT ![c].state = "gone"]
      BY <2>2 DEF CollectStatus, Lives
    <3> QED
      BY <1>0, <3>1, StateKeeps, Zenon
  <2> QED
    BY <2>1, <2>2
<1>6. PidsInv' /\ \A e \in ownedSet' : EntryInv(e)'
  <2>1. \A e \in ownedSet' : e \in ownedSet /\ waiter'[e.child].pc = "wait"
    BY <1>0, <1>3, Zenon DEF ReapInv, EntryInv
  <2> QED
    BY <1>5, <2>1, FewerLive, Zenon
<1>7. OwnersInv'
  BY <1>0, <1>2, <1>3, <1>4, <1>5, Zenon DEF ReapInv, OwnersInv, ReapProcs
<1>8. ReapTypes'
  BY <1>3, <1>4, <1>5, Zenon DEF ReapTypes
<1> QED
  BY <1>6, <1>7, <1>8 DEF ReapInv

(* A group is signalled under the lock that keeps its leader's pid.        *)
LEMMA SignalKeeps ==
  ASSUME ReapInv, NEW c \in OwnedChildren, SignalGroup(c)
  PROVE  ReapInv'
<1>1. UNCHANGED <<gproc, ownedSet, slot, waiter>>
  BY Zenon DEF SignalGroup
<1>2. gsignal'.by = c /\ gsignal'.reached = IF slot[c] = NoChild /\ IsListed(c) THEN WithPid(gproc[c].pid) ELSE {}
  BY Zenon DEF SignalGroup
<1>3. IsListed(c) => WithPid(gproc[c].pid) \subseteq {c}
  BY DEF IsListed, WithPid, ReapInv, EntryInv, Lives
<1>4. OwnersInv'
  BY <1>1, <1>2, <1>3, Zenon DEF ReapInv, OwnersInv
<1> QED
  BY <1>1, <1>4, Zenon DEF ReapInv, ReapTypes, PidsInv, EntryInv, Lives

(* The invariant holds in every state.                                     *)
LEMMA ReapInvariant == ReapSpec => []ReapInv
<1>1. ReapInit => ReapInv
  BY ReapStarts
<1>2. ReapInv /\ [ReapNext]_reapVars => ReapInv'
  <2> SUFFICES ASSUME ReapInv, [ReapNext]_reapVars PROVE ReapInv'
    OBVIOUS
  <2>1. CASE ReaperWakes \/ UNCHANGED reapVars
    <3>1. UNCHANGED <<gproc, ownedSet, slot, waiter, gsignal>>
      BY <2>1, Zenon DEF ReaperWakes, reapVars
    <3> QED
      BY <3>1, Zenon DEF ReapInv, ReapTypes, PidsInv, EntryInv, OwnersInv, Lives
  <2> QED
    BY <2>1, ChildSpawnKeeps, CollectKeeps, SignalKeeps, OrphanKeeps, ExitKeeps, ReapKeeps DEF ReapNext
<1> QED
  BY <1>1, <1>2, PTL DEF ReapSpec

(* For any number of children, orphans and pids: whichever of the orphan   *)
(* reaper and the owner collects a child, and though pids are used again,  *)
(* the owner gets its own child's status (wait_owned, collect_status,      *)
(* reap_one_orphan), and signal_group reaches nobody but the group it was  *)
(* meant for. Assumed is that an orphan never gets the pid of a child      *)
(* whose owner has still to take its status.                               *)
THEOREM OwnersGetTheirStatus == ReapSpec => []ChildrenAreTheirOwners
<1>1. ReapInv => ChildrenAreTheirOwners
  BY DEF ReapInv, OwnersInv, ChildrenAreTheirOwners
<1> QED
  BY <1>1, ReapInvariant, PTL

=============================================================================
