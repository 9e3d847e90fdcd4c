------------------------------ MODULE Sandbox ------------------------------
EXTENDS Integers, Sequences, FiniteSets

(***************************************************************************)
(* The generator of the roles' syscall allowlists (terra-sandbox           *)
(* linux/generator): a static scan of a program for the numbers its        *)
(* syscall instructions can be reached with, which fails where it cannot   *)
(* be sure; and the machine that runs the program.                         *)
(*                                                                         *)
(* A program is a sequence of functions, a function a sequence of          *)
(* instructions [op, dst, src, val]. Instruction i of function f is at     *)
(* address 4 * f + i - 1; numbers below 4 are no address. "32 bits" are    *)
(* two. Jump tables, the musl special case and the search for syscall      *)
(* bytes within other code are left out. The machine's registers never     *)
(* hold an address that no instruction names, as compiled code's do not.   *)
(***************************************************************************)

CONSTANTS Programs,
          SyscallNumber,   \* RegisterFile: the register of a syscall's number,
          ReturnValue,     \* of a function's result,
          Arguments,       \* of a call's arguments,
          Clobbered,       \* those a call may change
          MaxDepth,        \* calls the machine nests
          MaxNesting       \* evaluations the scan nests; it recurses for ever in
                           \* a loop that computes from its own result

VARIABLES program, scan, pc, regs, stack
scanVars == <<program, scan, pc, regs, stack>>

Regs == {"n", "a", "b", "s"}
Start(f) == 4 * f
AddressOf(f, i) == 4 * f + i - 1
FunctionOf(address) == address \div 4
Low(v) == v % 4

-----------------------------------------------------------------------------
(* Instructions, as the decoder translates them *)

Moves == {"mov", "lea", "copy", "copy32", "add32", "load", "store"}

\* Flow: where an instruction leads.
FlowOf(insn) == IF insn.op \in Moves THEN "next" ELSE insn.op

\* Effect::destination.
Destination(insn) == IF insn.op \in Moves \ {"store"} THEN insn.dst ELSE "none"

Writes(insn, r) == Destination(insn) = r \/ (insn.op = "syscall" /\ r = ReturnValue)

Reads(insn) ==
    CASE insn.op \in {"copy", "copy32", "store", "callr", "jmpr"} -> {insn.src}
      [] insn.op = "add32" -> {insn.dst}
      [] OTHER -> {}

IsFullCopy(insn) == insn.op = "copy"

\* Transforms, applied to a value a caller supplies.
Apply(transform, v) == IF transform.kind = "mask" THEN Low(v) ELSE Low(v + transform.val)

LOCAL Mask == [kind |-> "mask", val |-> 0]
LOCAL Add(v) == [kind |-> "add", val |-> v]
RECURSIVE ApplyAll(_, _)
ApplyAll(ts, v) == IF ts = <<>> THEN v ELSE ApplyAll(Tail(ts), Apply(Head(ts), v))

Constant(v) == [kind |-> "constant", val |-> v, reg |-> "none", ts |-> <<>>]
CodeEntry(r) == [kind |-> "entry", val |-> 0, reg |-> r, ts |-> <<>>]
Unknown == [kind |-> "unknown", val |-> 0, reg |-> "none", ts |-> <<>>]

-----------------------------------------------------------------------------
(* A function's flow *)

Insns(p, f) == p.functions[f]
LOCAL Indexes(p, f) == 1..Len(Insns(p, f))

\* function_exits: whether it can leave other than by a tail call, and those.
FunctionExits(p, f) ==
    [can_return |-> \E i \in Indexes(p, f) : FlowOf(Insns(p, f)[i]) \in {"ret", "jmpr"},
     tails |-> {Insns(p, f)[i].val : i \in {j \in Indexes(p, f) : FlowOf(Insns(p, f)[j]) = "tail"}}]

\* find_no_return: less and less, until all tail calls stay within.
RECURSIVE ShrinkNoReturn(_, _)
ShrinkNoReturn(p, set) ==
    LET returning == {f \in set : FunctionExits(p, f).tails \ set # {}} IN
    IF returning = {} THEN set ELSE ShrinkNoReturn(p, set \ returning)

FindNoReturn(p) == ShrinkNoReturn(p, {f \in DOMAIN p.functions : ~FunctionExits(p, f).can_return})

\* direct_edges.
DirectEdges(p, f) ==
    LET code == Insns(p, f)
        falls(i) == CASE FlowOf(code[i]) = "call" -> code[i].val \notin p.no_return
                      [] FlowOf(code[i]) \in {"next", "syscall", "callr", "jcc"} -> TRUE
                      [] OTHER -> FALSE IN
    {<<i, i + 1>> : i \in {j \in Indexes(p, f) : falls(j) /\ j < Len(code)}}
        \cup {<<i, code[i].val>> : i \in {j \in Indexes(p, f) : FlowOf(code[j]) \in {"jmp", "jcc"}}}

\* record_materialization: the instructions that put an address in a register.
Materializations(p, address) ==
    {<<g, i>> \in {<<f, j>> \in (DOMAIN p.functions) \X (1..4) : j \in Indexes(p, f)} :
        Insns(p, g)[i].op = "lea" /\ Insns(p, g)[i].val = address}

\* FunctionFlow::new: an indirect jump may stay inside when code has an
\* address of the inside; then some edges are unknown.
IsIncomplete(p, f) ==
    /\ \E i \in Indexes(p, f) : FlowOf(Insns(p, f)[i]) = "jmpr"
    /\ \E i \in Indexes(p, f) \ {1} : Materializations(p, AddressOf(f, i)) # {}

Preds(p, f, i) == {e[1] : e \in {d \in p.edges[f] : d[2] = i}}
Succs(p, f, i) == {e[2] : e \in {d \in p.edges[f] : d[1] = i}}

\* A mutant: a call leaves the registers as they are.
KeepsOver(p, f, i, r) == FALSE

\* call_clobbers, at a call.
Clobbers(p, f, i, r) == FlowOf(Insns(p, f)[i]) \in {"call", "callr"} /\ r \in Clobbered

\* values_before: the places whose value, or whose entry value, it can be.
RECURSIVE Reaching(_, _, _)
Reaching(p, f, set) ==
    LET back == UNION {
          {<<j, IF Writes(Insns(p, f)[j], s[2]) THEN Insns(p, f)[j].src ELSE s[2]>> :
              j \in {k \in Preds(p, f, s[1]) :
                       /\ ~Clobbers(p, f, k, s[2])
                       /\ Writes(Insns(p, f)[k], s[2]) => IsFullCopy(Insns(p, f)[k])}} : s \in set} IN
    IF back \subseteq set THEN set ELSE Reaching(p, f, set \cup back)

Extend(value, transform) ==
    CASE value.kind = "constant" -> Constant(Apply(transform, value.val))
      [] value.kind = "entry" -> [value EXCEPT !.ts = Append(@, transform)]
      [] OTHER -> value

RECURSIVE ValuesBefore(_, _, _, _, _)
ValuesBefore(p, f, i, r, nesting) ==
    LET evaluate(j) ==
            LET insn == Insns(p, f)[j] IN
            CASE insn.op \in {"mov", "lea"} -> {Constant(insn.val)}
              [] insn.op = "copy32" -> {Extend(v, Mask) : v \in ValuesBefore(p, f, j, insn.src, nesting + 1)}
              [] insn.op = "add32" -> {Extend(v, Add(insn.val)) : v \in ValuesBefore(p, f, j, insn.dst, nesting + 1)}
              [] OTHER -> {Unknown}
        from(j, reg) ==
            CASE Clobbers(p, f, j, reg) -> {Unknown}
              [] ~Writes(Insns(p, f)[j], reg) \/ IsFullCopy(Insns(p, f)[j]) -> {}
              [] Destination(Insns(p, f)[j]) = reg -> evaluate(j)
              [] OTHER -> {Unknown}
        at(s) == IF Preds(p, f, s[1]) = {} THEN IF s[1] = 1 THEN {CodeEntry(s[2])} ELSE {Unknown}
                 ELSE UNION {from(j, s[2]) : j \in Preds(p, f, s[1])} IN
    IF IsIncomplete(p, f) \/ nesting > MaxNesting THEN {Unknown}
    ELSE UNION {at(s) : s \in Reaching(p, f, {<<i, r>>})}

-----------------------------------------------------------------------------
(* Pointers to functions *)

\* pointer_uses: the states <<instruction, registers holding the pointer>>.
LOCAL HoldsAfter(p, f, i, holding) ==
    LET insn == Insns(p, f)[i]
        kept == {r \in holding : ~Writes(insn, r) /\ ~Clobbers(p, f, i, r)} IN
    IF IsFullCopy(insn) /\ insn.src \in holding THEN kept \cup {insn.dst} ELSE kept

RECURSIVE PointerStates(_, _, _)
PointerStates(p, f, set) ==
    LET next == UNION {{<<j, HoldsAfter(p, f, s[1], s[2])>> : j \in Succs(p, f, s[1])} : s \in set}
        more == {s \in next : s[2] # {}} IN
    IF more \subseteq set THEN set ELSE PointerStates(p, f, set \cup more)

LOCAL TargetOf(insn, holding) == IF insn.op \in {"callr", "jmpr"} THEN {insn.src} \cap holding ELSE {}

\* Storing, returning, or passing it to an unknown callee is an escape.
Escapes(insn, holding) ==
    LET target == TargetOf(insn, holding)
        copied == IF IsFullCopy(insn) THEN {insn.src} ELSE {}
        passed == (holding \cap Arguments) \ target IN
    \/ (Reads(insn) \cap holding) \ (target \cup copied) # {}
    \/ FlowOf(insn) \in {"callr", "syscall"} /\ passed # {}
    \/ FlowOf(insn) = "ret" /\ ReturnValue \in holding

PointerUses(p, f, starts) ==
    LET states == PointerStates(p, f, {s \in starts : s[2] # {}}) IN
    [escapes |-> IsIncomplete(p, f) \/ \E s \in states : Escapes(Insns(p, f)[s[1]], s[2]),
     calls |-> {<<f, s[1]>> : s \in {t \in states : TargetOf(Insns(p, f)[t[1]], t[2]) # {}}},
     passes |-> {<<Insns(p, f)[s[1]].val, s[2] \cap Arguments>> :
                   s \in {t \in states : /\ FlowOf(Insns(p, f)[t[1]]) \in {"call", "tail"}
                                         /\ t[2] \cap Arguments # {}}}]

\* follow_pointer_uses, into the functions it is passed to. (The code keeps
\* what it found for a function; the same, as long as functions that pass the
\* pointer on to each other are not entered in different ways.)
RECURSIVE FollowPointerUses(_, _, _)
FollowPointerUses(p, uses, busy) ==
    LET within == {FollowPointerUses(p, PointerUses(p, pass[1], {<<1, pass[2]>>}), busy \cup {pass}) :
                     pass \in uses.passes \ busy} IN
    [escapes |-> uses.escapes \/ \E w \in within : w.escapes,
     sites |-> uses.calls \cup UNION {w.sites : w \in within}]

\* callers_of.
CallersOf(p, f) ==
    LET direct == {<<g, i>> \in {<<h, j>> \in (DOMAIN p.functions) \X (1..4) : j \in Indexes(p, h)} :
                     FlowOf(Insns(p, g)[i]) \in {"call", "tail"} /\ Insns(p, g)[i].val = f}
        loads == {FollowPointerUses(p, PointerUses(p, m[1],
                      {<<j, {Insns(p, m[1])[m[2]].dst}>> : j \in Succs(p, m[1], m[2])}), {}) :
                    m \in Materializations(p, Start(f))} IN
    [problem |-> f \in p.data \/ \E u \in loads : u.escapes,
     sites |-> direct \cup UNION {u.sites : u \in loads}]

-----------------------------------------------------------------------------
(* The scan *)

\* resolve and resolve_from_callers; "busy" are the resolutions in progress.
RECURSIVE CodeResolve(_, _, _, _, _)
CodeResolve(p, f, i, r, busy) ==
  LET callers == CallersOf(p, f)
      received(reg) ==
          IF <<f, reg>> \in busy THEN {Unknown}
          ELSE (IF callers.problem \/ callers.sites = {} THEN {Unknown} ELSE {})
                 \cup UNION {CodeResolve(p, s[1], s[2], reg, busy \cup {<<f, reg>>}) : s \in callers.sites} IN
  UNION {IF v.kind # "entry" THEN {v}
         ELSE IF v.reg \notin Arguments THEN {Unknown}
         ELSE {IF w.kind = "constant" THEN Constant(ApplyAll(v.ts, w.val)) ELSE w : w \in received(v.reg)} :
           v \in ValuesBefore(p, f, i, r, 0)}

\* discover: what all queries share.
Discover(p) ==
    LET known == [functions |-> p.functions, data |-> p.data, no_return |-> FindNoReturn(p)] IN
    [functions |-> p.functions, data |-> p.data, no_return |-> known.no_return,
     edges |-> [f \in DOMAIN p.functions |-> DirectEdges(known, f)]]

\* scan_image: [ok, syscalls].
ScanImage(raw) ==
    LET p == Discover(raw)
        sites == {<<f, i>> \in (DOMAIN p.functions) \X (1..4) :
                    i \in Indexes(p, f) /\ FlowOf(Insns(p, f)[i]) = "syscall"}
        numbers == UNION {CodeResolve(p, s[1], s[2], SyscallNumber, {}) : s \in sites} IN
    IF \A v \in numbers : v.kind = "constant" THEN [ok |-> TRUE, syscalls |-> {v.val : v \in numbers}]
    ELSE [ok |-> FALSE, syscalls |-> {}]

-----------------------------------------------------------------------------
(* The machine, running a program whose scan succeeded *)

ScanInit ==
    /\ program \in Programs
    /\ scan = ScanImage(program)
    /\ pc = [f |-> 1, i |-> 1] /\ stack = <<>>
    /\ regs \in {[r \in Regs |-> v] : v \in {0, 3}}

LOCAL Insn == Insns(program, pc.f)[pc.i]
LOCAL Running == scan.ok /\ pc.f # 0
LOCAL Fall == pc' = [pc EXCEPT !.i = @ + 1]
LOCAL Halt == pc' = [f |-> 0, i |-> 0]

\* A load may give any number.
RunMove ==
    /\ Running /\ Insn.op \in Moves /\ Fall
    /\ \E loaded \in 0..3 :
         /\ Insn.op # "load" => loaded = 0
         /\ regs' = CASE Insn.op \in {"mov", "lea"} -> [regs EXCEPT ![Insn.dst] = Insn.val]
                      [] Insn.op = "copy" -> [regs EXCEPT ![Insn.dst] = regs[Insn.src]]
                      [] Insn.op = "copy32" -> [regs EXCEPT ![Insn.dst] = Low(regs[Insn.src])]
                      [] Insn.op = "add32" -> [regs EXCEPT ![Insn.dst] = Low(@ + Insn.val)]
                      [] Insn.op = "load" -> [regs EXCEPT ![Insn.dst] = loaded]
                      [] OTHER -> regs
    /\ UNCHANGED <<program, scan, stack>>

RunSyscall ==
    /\ Running /\ Insn.op = "syscall" /\ Fall
    /\ \E result \in 0..3 : regs' = [regs EXCEPT ![ReturnValue] = result]
    /\ UNCHANGED <<program, scan, stack>>

RunJump ==
    /\ Running /\ Insn.op \in {"jmp", "jcc"}
    /\ (Insn.op = "jcc" /\ Fall) \/ pc' = [pc EXCEPT !.i = Insn.val]
    /\ UNCHANGED <<program, scan, regs, stack>>

RunCall ==
    /\ Running /\ Insn.op \in {"call", "callr", "tail", "jmpr"}
    /\ LET address == IF Insn.op \in {"callr", "jmpr"} THEN regs[Insn.src] ELSE Start(Insn.val)
           inside == [f |-> FunctionOf(address), i |-> (address % 4) + 1]
           returns == Insn.op \in {"call", "callr"} IN
       IF \/ inside.f \notin DOMAIN program.functions \/ (returns /\ Len(stack) = MaxDepth)
          \/ (inside.i # 1 /\ ~(Insn.op = "jmpr" /\ inside.f = pc.f))
          \/ inside.i > Len(Insns(program, inside.f))
       THEN Halt /\ UNCHANGED stack
       ELSE /\ pc' = inside
            /\ stack' = IF returns THEN Append(stack, [pc EXCEPT !.i = @ + 1]) ELSE stack
    /\ UNCHANGED <<program, scan, regs>>

RunReturn ==
    /\ Running /\ Insn.op \in {"ret", "stop"}
    /\ IF Insn.op = "stop" \/ stack = <<>> THEN Halt /\ UNCHANGED stack
       ELSE pc' = stack[Len(stack)] /\ stack' = SubSeq(stack, 1, Len(stack) - 1)
    /\ UNCHANGED <<program, scan, regs>>

ScanNext == RunMove \/ RunSyscall \/ RunJump \/ RunCall \/ RunReturn
ScanSpec == ScanInit /\ [][ScanNext]_scanVars

-----------------------------------------------------------------------------
(* Properties *)

LOCAL Found == (scan.ok /\ pc.f # 0 /\ Insn.op = "syscall") => regs[SyscallNumber] \in scan.syscalls

\* No function of the program is jumped to at its first instruction from
\* within.
LOCAL EntriesAreNoLoops ==
    \A f \in DOMAIN program.functions : \A i \in DOMAIN Insns(program, f) :
        Insns(program, f)[i].op \in {"jmp", "jcc"} => Insns(program, f)[i].val # 1

\* When the scan of a program succeeds, every syscall the program makes has a
\* number the scan found, over all its paths, calls, tail calls and function
\* pointers; for programs whose functions' entries are not loop heads.
ScanIsComplete == EntriesAreNoLoops => Found

------------------------------------------------------------------------------
(***************************************************************************)
(* The Windows worker launcher (terra-sandbox windows.rs, windows/acl.rs,  *)
(* windows/api.rs). A wrapper process per worker writes access entries for *)
(* the worker's profile into the lists (DACLs) of the granted files,       *)
(* starts the worker suspended in a job, resumes it, waits for it or for   *)
(* the parent, and takes the entries back out. Wrappers of several boxes   *)
(* work on the same files; a lock orders their updates, each of which      *)
(* reads a list and writes it back.                                        *)
(*                                                                         *)
(* A list is [protected, own, inherited, profiles]: whether inheritance is *)
(* cut off, entries of its own, entries marked inherited, and the entries  *)
(* of sandbox profiles (external: setting the protection turns inherited   *)
(* entries into its own).                                                  *)
(***************************************************************************)

CONSTANTS Wrappers,     \* one per worker launched
          NewFile       \* a file that workers may create in the directory

VARIABLES writable,  \* the wrappers whose grant is writable (chosen at the start)
          dacl,      \* of every file that exists
          lock,      \* the AclLock
          aclPc,        \* of each wrapper
          todo,      \* the files its walk has left
          aclCopy,      \* the list it has read, and not yet written
          aclRecorded,  \* Grants::objects: what to restore, by file
          aclWorker,    \* "none", "suspended", "running", "gone"
          parent     \* whether the wrapper's parent lives

sandVars == <<writable, dacl, lock, aclPc, todo, aclCopy, aclRecorded, aclWorker, parent>>

LOCAL Free == "free"
LOCAL NoCopy == [file |-> "none"]
LOCAL NoRecord == [restores |-> FALSE, inherited |-> {}]
AclFiles == {"dir", "file"}
LOCAL Original == [protected |-> FALSE, own |-> {}, inherited |-> {"users"}, profiles |-> {}]
LOCAL Order(files) == IF NewFile \in files THEN <<"dir", "file", NewFile>> ELSE <<"dir", "file">>
LOCAL Reverse(s) == [i \in DOMAIN s |-> s[Len(s) + 1 - i]]
LOCAL IsReadOnly(w) == w \notin writable
LOCAL Set(f, x, v) == [f EXCEPT ![x] = v]

SandInit ==
    /\ writable \in SUBSET Wrappers
    /\ dacl = [f \in AclFiles |-> Original]
    /\ lock = Free
    /\ aclPc = [w \in Wrappers |-> "start"] /\ todo = [w \in Wrappers |-> <<>>]
    /\ aclCopy = [w \in Wrappers |-> NoCopy] /\ aclRecorded = [w \in Wrappers |-> <<>>]
    /\ aclWorker = [w \in Wrappers |-> "none"] /\ parent = [w \in Wrappers |-> TRUE]

LOCAL Go(w, to) == aclPc' = Set(aclPc, w, to)

-----------------------------------------------------------------------------
(* Updates of a list *)

\* write_acl: the protection asked for, which converts inherited entries.
WriteAcl(list, protected) ==
    IF protected /\ ~list.protected
    THEN [list EXCEPT !.protected = TRUE, !.own = @ \cup list.inherited, !.inherited = {}]
    ELSE [list EXCEPT !.protected = protected]

\* remove_profile_aces_from_acl.
RemoveProfileAces(list, w) == [list EXCEPT !.profiles = {e \in @ : e.profile # w}]

\* Grants::add, of one file: the list it writes, and what it records.
GrantedList(list, w) ==
    LET entries == {[profile |-> w, kind |-> "allow"]}
                     \cup (IF IsReadOnly(w) THEN {[profile |-> w, kind |-> "deny"]} ELSE {})
        cleaned == RemoveProfileAces(list, w) IN
    WriteAcl([cleaned EXCEPT !.profiles = @ \cup entries], IsReadOnly(w) \/ list.protected)

GrantRecord(list, w) ==
    [restores |-> IsReadOnly(w) /\ ~list.protected,
     inherited |-> IF IsReadOnly(w) /\ ~list.protected THEN list.inherited ELSE {}]

\* restore_converted_inherited_aces.
RestoreInherited(list, inherited) ==
    [list EXCEPT !.own = @ \ inherited, !.inherited = @ \cup (list.own \cap inherited)]

\* remove_profile_aces, with what was recorded.
RemovedList(list, w, record) ==
    LET cleaned == RemoveProfileAces(list, w) IN
    IF record.restores THEN [RestoreInherited(cleaned, record.inherited) EXCEPT !.protected = FALSE] ELSE cleaned

-----------------------------------------------------------------------------
(* Launching *)

\* run_worker, to the job and the profile.
BeginLaunch(w) ==
    /\ aclPc[w] = "start"
    /\ Go(w, IF parent[w] THEN "lockAdd" ELSE "done")
    /\ UNCHANGED <<dacl, lock, todo, aclCopy, aclRecorded, aclWorker, parent>>

\* A mutant: the lock is waited for, and not for long.
TakeAnyway(w) == TRUE

\* AclLock::acquire; an abandoned lock is taken.
LockIsFree(w) == lock = Free

AcquireForAdd(w) ==
    /\ aclPc[w] = "lockAdd" /\ LockIsFree(w)
    /\ lock' = w /\ Go(w, "add") /\ todo' = Set(todo, w, Order(DOMAIN dacl))
    /\ UNCHANGED <<dacl, aclCopy, aclRecorded, aclWorker, parent>>

\* read_acl of the next file of the walk.
ReadList(w) ==
    /\ aclPc[w] \in {"add", "clear", "walk"} /\ todo[w] # <<>> /\ aclCopy[w] = NoCopy
    /\ aclCopy' = Set(aclCopy, w, [file |-> Head(todo[w]), list |-> dacl[Head(todo[w])]])
    /\ UNCHANGED <<dacl, lock, aclPc, todo, aclRecorded, aclWorker, parent>>

AddGrant(w) ==
    /\ aclPc[w] = "add" /\ aclCopy[w] # NoCopy
    /\ dacl' = [dacl EXCEPT ![aclCopy[w].file] = GrantedList(aclCopy[w].list, w)]
    /\ aclRecorded' = Set(aclRecorded, w, Append(aclRecorded[w], [file |-> aclCopy[w].file, record |-> GrantRecord(aclCopy[w].list, w)]))
    /\ todo' = Set(todo, w, Tail(todo[w])) /\ aclCopy' = Set(aclCopy, w, NoCopy)
    /\ UNCHANGED <<lock, aclPc, aclWorker, parent>>

\* Opening or writing a file fails: the error drops the grants, which clears.
AddFails(w) ==
    /\ aclPc[w] = "add" /\ todo[w] # <<>>
    /\ lock' = Free /\ Go(w, "lockClear")
    /\ aclCopy' = Set(aclCopy, w, NoCopy) /\ todo' = Set(todo, w, <<>>)
    /\ UNCHANGED <<dacl, aclRecorded, aclWorker, parent>>

\* The end of add, and spawn_worker: suspended, and in the job from the start.
SpawnWorker(w) ==
    /\ aclPc[w] = "add" /\ todo[w] = <<>>
    /\ lock' = Free
    /\ \/ aclWorker' = Set(aclWorker, w, "suspended") /\ Go(w, "resume")
       \/ Go(w, "lockClear") /\ UNCHANGED aclWorker
    /\ UNCHANGED <<dacl, todo, aclCopy, aclRecorded, parent>>

\* Unless the parent is gone, the worker runs, and the parent is told its pid.
AclResumeWorker(w) ==
  /\ aclPc[w] = "resume" /\ parent[w]
  /\ aclWorker' = Set(aclWorker, w, "running") /\ Go(w, "wait")
  /\ UNCHANGED <<dacl, lock, todo, aclCopy, aclRecorded, parent>>

\* An error, of a parent that is gone or of a call: Worker::drop terminates
\* the worker and waits for it before the grants go.
DropWorker(w) ==
    /\ aclPc[w] \in {"resume", "wait"}
    /\ aclWorker' = Set(aclWorker, w, "gone") /\ Go(w, "lockClear")
    /\ UNCHANGED <<dacl, lock, todo, aclCopy, aclRecorded, parent>>

\* WaitForMultipleObjects: the worker has exited; or the parent has, and
\* closing the job ends the worker.
WaitForWorker(w) ==
    /\ aclPc[w] = "wait" /\ (aclWorker[w] = "gone" \/ ~parent[w])
    /\ aclWorker' = Set(aclWorker, w, "gone") /\ Go(w, "lockClear")
    /\ UNCHANGED <<dacl, lock, todo, aclCopy, aclRecorded, parent>>

-----------------------------------------------------------------------------
(* Clearing *)

AcquireForClear(w) ==
    /\ aclPc[w] = "lockClear" /\ LockIsFree(w)
    /\ lock' = w /\ Go(w, "clear")
    /\ todo' = Set(todo, w, Reverse([i \in DOMAIN aclRecorded[w] |-> aclRecorded[w][i].file]))
    /\ UNCHANGED <<dacl, aclCopy, aclRecorded, aclWorker, parent>>

LOCAL RecordOf(w, file) ==
    IF \E i \in DOMAIN aclRecorded[w] : aclRecorded[w][i].file = file
    THEN aclRecorded[w][CHOOSE i \in DOMAIN aclRecorded[w] : aclRecorded[w][i].file = file].record
    ELSE NoRecord

\* The first pass, over the granted files.
RemoveGrant(w) ==
    /\ aclPc[w] = "clear" /\ aclCopy[w] # NoCopy
    /\ dacl' = [dacl EXCEPT ![aclCopy[w].file] = RemovedList(aclCopy[w].list, w, RecordOf(w, aclCopy[w].file))]
    /\ todo' = Set(todo, w, Tail(todo[w])) /\ aclCopy' = Set(aclCopy, w, NoCopy)
    /\ UNCHANGED <<lock, aclPc, aclRecorded, aclWorker, parent>>

\* The second pass, over what the roots hold now.
StartWalk(w) ==
    /\ aclPc[w] = "clear" /\ todo[w] = <<>>
    /\ Go(w, "walk") /\ todo' = Set(todo, w, Order(DOMAIN dacl))
    /\ UNCHANGED <<dacl, lock, aclCopy, aclRecorded, aclWorker, parent>>

RemoveFromPath(w) ==
    /\ aclPc[w] = "walk" /\ aclCopy[w] # NoCopy
    /\ dacl' = [dacl EXCEPT ![aclCopy[w].file] = RemovedList(aclCopy[w].list, w, NoRecord)]
    /\ todo' = Set(todo, w, Tail(todo[w])) /\ aclCopy' = Set(aclCopy, w, NoCopy)
    /\ UNCHANGED <<lock, aclPc, aclRecorded, aclWorker, parent>>

FinishClear(w) ==
    /\ aclPc[w] = "walk" /\ todo[w] = <<>>
    /\ lock' = Free /\ Go(w, "done") /\ aclRecorded' = Set(aclRecorded, w, <<>>)
    /\ UNCHANGED <<dacl, todo, aclCopy, aclWorker, parent>>

-----------------------------------------------------------------------------
(* The surroundings *)

WorkerExits(w) ==
    /\ aclWorker[w] = "running"
    /\ aclWorker' = Set(aclWorker, w, "gone")
    /\ UNCHANGED <<dacl, lock, aclPc, todo, aclCopy, aclRecorded, parent>>

\* A new file inherits the profiles' entries of its directory.
WorkerCreates(w) ==
    /\ aclWorker[w] = "running" /\ w \in writable /\ NewFile \notin DOMAIN dacl
    /\ dacl' = [f \in DOMAIN dacl \cup {NewFile} |->
                  IF f = NewFile THEN [Original EXCEPT !.profiles = dacl["dir"].profiles] ELSE dacl[f]]
    /\ UNCHANGED <<lock, aclPc, todo, aclCopy, aclRecorded, aclWorker, parent>>

ParentEnds(w) ==
    /\ parent[w]
    /\ parent' = Set(parent, w, FALSE)
    /\ UNCHANGED <<dacl, lock, aclPc, todo, aclCopy, aclRecorded, aclWorker>>

\* The wrapper is killed: its job and its lock go with it.
WrapperIsKilled(w) ==
    /\ aclPc[w] \notin {"done", "killed"}
    /\ Go(w, "killed")
    /\ aclWorker' = Set(aclWorker, w, IF aclWorker[w] = "none" THEN "none" ELSE "gone")
    /\ lock' = IF lock = w THEN Free ELSE lock
    /\ aclCopy' = Set(aclCopy, w, NoCopy) /\ todo' = Set(todo, w, <<>>)
    /\ UNCHANGED <<dacl, aclRecorded, parent>>

SandNext ==
    /\ UNCHANGED writable
    /\ \E w \in Wrappers :
        \/ BeginLaunch(w) \/ AcquireForAdd(w) \/ ReadList(w) \/ AddGrant(w) \/ AddFails(w)
        \/ SpawnWorker(w) \/ AclResumeWorker(w) \/ DropWorker(w) \/ WaitForWorker(w)
        \/ AcquireForClear(w) \/ RemoveGrant(w) \/ StartWalk(w) \/ RemoveFromPath(w) \/ FinishClear(w)
        \/ WorkerExits(w) \/ WorkerCreates(w) \/ ParentEnds(w) \/ WrapperIsKilled(w)

SandSpec == SandInit /\ [][SandNext]_sandVars

-----------------------------------------------------------------------------
(* Properties *)

LOCAL ProfileEntries(w, file) == {e.kind : e \in {d \in dacl[file].profiles : d.profile = w}}

\* A worker that runs has the grants of its launch on every file of it,
\* whatever other wrappers write to the same lists and whichever of them is
\* killed; and a read-only one has its denials. (On errors, too, the worker
\* stops before the grants go.)
WorkerHasItsGrants ==
    \A w \in Wrappers : aclWorker[w] = "running" =>
        \A f \in AclFiles : ProfileEntries(w, f) = IF IsReadOnly(w) THEN {"allow", "deny"} ELSE {"allow"}

\* When a wrapper is done, no file carries an entry of its profile; and when
\* all are done and none was killed, every list is as it was.
AclsAreRestored ==
    /\ \A w \in Wrappers : aclPc[w] = "done" => \A f \in DOMAIN dacl : ProfileEntries(w, f) = {}
    /\ (\A w \in Wrappers : aclPc[w] = "done") => \A f \in DOMAIN dacl : dacl[f] = Original

------------------------------------------------------------------------------
(***************************************************************************)
(* The sockets the Windows launcher opens for the confined network broker  *)
(* (terra-sandbox windows/sockets.rs): broker threads send numbered        *)
(* requests over one channel, the launcher's thread answers UDP binds      *)
(* itself and gives each connect a thread of its own, up to a limit, and   *)
(* the broker's reply thread hands each answer to whoever waits for it.    *)
(* The launcher may end at any time. (Assumed: a duplicated socket can be  *)
(* taken over; the reply thread would end otherwise, and the launcher not  *)
(* notice.)                                                                *)
(***************************************************************************)

CONSTANTS SocketRequests,      \* each made once, by a thread of its own
          UdpRequests,         \* those that bind; the others connect
          MaxPendingConnects

VARIABLES request,     \* of each: "new", "inserted", "sent", "refused"
          pending,     \* LauncherSockets::pending
          launchRequests,    \* written, and not read
          replies,     \* written, and not read
          serving,     \* the launcher's thread
          connects,    \* its connect threads
          connecting,  \* pending_connects
          launchReader,      \* the broker's reply thread: "reads", "drained"
          launchAnswers      \* the calls of each request's reply, in order

socketVars == <<request, pending, launchRequests, replies, serving, connects, connecting, launchReader, launchAnswers>>

SocketsInit ==
    /\ request = [r \in SocketRequests |-> "new"]
    /\ pending = {} /\ launchRequests = <<>> /\ replies = <<>>
    /\ serving = TRUE /\ connects = {} /\ connecting = 0
    /\ launchReader = "reads" /\ launchAnswers = [r \in SocketRequests |-> <<>>]

\* The launcher holds the channel while its thread, or a connect, does.
ChannelIsOpen == serving \/ connects # {}

LOCAL Answer(rs, how) == launchAnswers' = [r \in SocketRequests |-> IF r \in rs THEN Append(launchAnswers[r], how) ELSE launchAnswers[r]]

-----------------------------------------------------------------------------
(* The broker *)

\* request, the first half: the reply is kept under a fresh id.
InsertRequest(r) ==
    /\ request[r] = "new"
    /\ request' = [request EXCEPT ![r] = "inserted"] /\ pending' = pending \cup {r}
    /\ UNCHANGED <<launchRequests, replies, serving, connects, connecting, launchReader, launchAnswers>>

WriteRequest(r) ==
    /\ request[r] = "inserted" /\ ChannelIsOpen
    /\ request' = [request EXCEPT ![r] = "sent"] /\ launchRequests' = Append(launchRequests, r)
    /\ UNCHANGED <<pending, replies, serving, connects, connecting, launchReader, launchAnswers>>

\* The write fails: whoever takes the kept reply answers it.
RefuseRequest(r) ==
    /\ request[r] = "inserted" /\ ~ChannelIsOpen
    /\ request' = [request EXCEPT ![r] = "refused"] /\ pending' = pending \ {r}
    /\ Answer({r} \cap pending, "error")
    /\ UNCHANGED <<launchRequests, replies, serving, connects, connecting, launchReader>>

LaunchReadReply ==
  /\ launchReader = "reads" /\ replies # <<>> /\ Head(replies).id \in pending
  /\ pending' = pending \ {Head(replies).id} /\ replies' = Tail(replies)
  /\ Answer({Head(replies).id}, Head(replies).status)
  /\ UNCHANGED <<request, launchRequests, serving, connects, connecting, launchReader>>

\* The end of the channel: all that is kept is answered.
DrainPending ==
    /\ launchReader = "reads" /\ replies = <<>> /\ ~ChannelIsOpen
    /\ launchReader' = "drained" /\ pending' = {} /\ Answer(pending, "error")
    /\ UNCHANGED <<request, launchRequests, replies, serving, connects, connecting>>

-----------------------------------------------------------------------------
(* The launcher *)

LOCAL Send(id, status) == replies' = Append(replies, [id |-> id, status |-> status])

\* serve: a bind is opened and answered in place.
BindUdp ==
    /\ serving /\ launchRequests # <<>> /\ Head(launchRequests) \in UdpRequests
    /\ \E status \in {"socket", "error"} : Send(Head(launchRequests), status)
    /\ launchRequests' = Tail(launchRequests)
    /\ UNCHANGED <<request, pending, serving, connects, connecting, launchReader, launchAnswers>>

RefuseConnect ==
    /\ serving /\ launchRequests # <<>> /\ Head(launchRequests) \notin UdpRequests /\ connecting >= MaxPendingConnects
    /\ Send(Head(launchRequests), "busy") /\ launchRequests' = Tail(launchRequests)
    /\ UNCHANGED <<request, pending, serving, connects, connecting, launchReader, launchAnswers>>

\* A thread per connect; without one, the serving thread ends.
SpawnConnect ==
    /\ serving /\ launchRequests # <<>> /\ Head(launchRequests) \notin UdpRequests /\ connecting < MaxPendingConnects
    /\ launchRequests' = Tail(launchRequests) /\ connecting' = connecting + 1
    /\ \/ connects' = connects \cup {Head(launchRequests)} /\ UNCHANGED serving
       \/ serving' = FALSE /\ UNCHANGED connects
    /\ UNCHANGED <<request, pending, replies, launchReader, launchAnswers>>

FinishConnect(r) ==
    /\ r \in connects
    /\ connects' = connects \ {r} /\ connecting' = connecting - 1
    /\ \E status \in {"socket", "error"} : Send(r, status)
    /\ UNCHANGED <<request, pending, launchRequests, serving, launchReader, launchAnswers>>

\* The launcher's process ends.
LauncherEnds ==
    /\ ChannelIsOpen
    /\ serving' = FALSE /\ connects' = {}
    /\ UNCHANGED <<request, pending, launchRequests, replies, connecting, launchReader, launchAnswers>>

SocketsProgress ==
    \/ \E r \in SocketRequests : WriteRequest(r) \/ RefuseRequest(r) \/ FinishConnect(r)
    \/ LaunchReadReply \/ DrainPending \/ BindUdp \/ RefuseConnect \/ SpawnConnect

SocketsNext ==
    \/ \E r \in SocketRequests : InsertRequest(r) \/ WriteRequest(r) \/ RefuseRequest(r) \/ FinishConnect(r)
    \/ LaunchReadReply \/ DrainPending \/ BindUdp \/ RefuseConnect \/ SpawnConnect \/ LauncherEnds

SocketsSpec == SocketsInit /\ [][SocketsNext]_socketVars

-----------------------------------------------------------------------------
(* Properties *)

\* No request is answered twice, whether the launcher's reply, the end of the
\* channel or its own failed write gets to it; and a connect is called
\* excessive only while the limit of threads is really in use.
AnsweredOnce ==
    /\ \A r \in SocketRequests : Len(launchAnswers[r]) <= 1
    /\ serving => connecting = Cardinality(connects)

\* Every request made is answered, also when the launcher ends before, while or
\* after it is written.
SocketsAreAnswered == \A r \in SocketRequests : request[r] # "new" => launchAnswers[r] # <<>>
==============================================================================
