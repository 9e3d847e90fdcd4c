----------------------------- MODULE BoxRecipe -----------------------------
EXTENDS Integers, Sequences, FiniteSets, TLC
LOCAL INSTANCE SequencesExt

(***************************************************************************)
(* How a box comes by the recipe it runs: a command resolves a BOX         *)
(* argument, the recipe is loaded, checked and approved, setup pins it and *)
(* its host paths, and a boot loads the pin (crates/terra/src/recipe/      *)
(* {resolve,load,validate}.rs, policy/mount.rs, approval.rs, state/pin.rs, *)
(* cmd/{setup,start}.rs).  Commands of two terminals interleave; the       *)
(* manifest and the targets of host paths change under them.               *)
(***************************************************************************)

CONSTANTS
  PinScripts,      \* sets of commands to run, as sequences of records
                   \* [verb, arg, trust, tty, dry, rebuild]
  RecipeTexts,     \* recipe number -> what the recipe says
  HostTargets,     \* where the recipes' host path may resolve to
  TerraPaths,      \* paths no mount may overlap
  BinaryPath,      \* the terra binary: no writable mount may overlap it
  SensitivePaths,  \* paths a mount of which is worth a warning
  MaxVcpus, MinMemory, MaxStorageDevices,
  MaxEdits         \* bound on changes of the manifest and of host paths

VARIABLES
  script,     \* the commands of this behaviour
  manifest,   \* the recipe terra.yaml names, 0 for none
  target,     \* what the host path of the recipes resolves to now
  pinned,     \* recipe.yaml, 0 when there is none
  pinnedPath, \* pinned-paths.yaml, <<>> when there is none
  stamped,    \* the recipe the stamp is of
  boxDir,     \* is there a state directory to lock?
  holder,     \* the command that holds the run lock, 0 for none
  call,       \* [command -> its progress]
  booted,     \* the recipes booted, each with the recipe its root was set up for
  edits

pinVars == <<script, manifest, target, pinned, pinnedPath, stamped, boxDir, holder, call, booted, edits>>

PinCommands == DOMAIN script
Text(r) == RecipeTexts[r]

Progress(pc) == [pc |-> pc, source |-> "none", recipe |-> 0, path |-> <<>>, newPin |-> FALSE]

PinInit ==
  /\ script \in PinScripts /\ manifest = 1 /\ target \in HostTargets
  /\ pinned = 0 /\ pinnedPath = <<>> /\ stamped = 0 /\ boxDir = FALSE /\ holder = 0
  /\ call = [c \in PinCommands |-> Progress("begin")]
  /\ booted = {} /\ edits = 0

-----------------------------------------------------------------------------
(* validate.rs: what a recipe must satisfy, whoever wrote it.               *)

ValidWorkdir(t) == t.workdir # "relative"
ValidHw(t) == /\ t.rootfs > 0 /\ t.cpus > 0 /\ t.cpus <= MaxVcpus
              /\ t.memory >= MinMemory
ValidSudo(t) == t.sudo \subseteq {"bare"}

\* A volume has one target: a guest path, or the overlay of a read-only root,
\* of which there is one and which lasts one boot.
ValidVolumes(t) ==
  /\ \A i, j \in DOMAIN t.volumes : t.volumes[i].name = t.volumes[j].name => i = j
  /\ \A i \in DOMAIN t.volumes :
       LET v == t.volumes[i]
       IN  /\ v.size > 0
           /\ (v.guest = "none") = v.overlay
           /\ v.overlay => t.readonly /\ v.lifetime = "boot"
  /\ Cardinality({i \in DOMAIN t.volumes : t.volumes[i].overlay}) <= 1

ValidStorage(t) == Len(t.mounts) + Len(t.volumes) <= MaxStorageDevices

\* parse_port_mappings: no two mappings of one host port and transport.
ValidPorts(ports) ==
  \A i, j \in DOMAIN ports :
    ports[i].host = ports[j].host /\ ports[i].transport = ports[j].transport => i = j
ValidNetwork(t) ==
  IF t.network.enabled THEN ValidPorts(t.network.ports)
  ELSE t.network.allow = {} /\ t.network.ports = <<>>

GuestPaths(t) ==
  [i \in DOMAIN t.mounts |-> t.mounts[i].guest] \o
  SelectSeq([i \in DOMAIN t.volumes |-> t.volumes[i].guest], LAMBDA g : g # "none")
ValidGuestPaths(t) == IsInjective(GuestPaths(t)) /\ "root" \notin ToSet(GuestPaths(t))

Valid(t) ==
  /\ ValidWorkdir(t) /\ ValidHw(t) /\ ValidSudo(t) /\ ValidVolumes(t)
  /\ ValidStorage(t) /\ ValidNetwork(t) /\ t.envNames = "plain" /\ ValidGuestPaths(t)

\* resolve_mounts: canonical host paths, none of which overlaps terra's own.
Overlaps(a, b) == IsPrefix(a, b) \/ IsPrefix(b, a)
Resolved(m) == IF m.host = "shared" THEN target ELSE <<"srv", m.host>>
MountsAllowed(t) ==
  \A i \in DOMAIN t.mounts :
    LET host == Resolved(t.mounts[i])
    IN  /\ \A p \in TerraPaths : ~Overlaps(host, p)
        /\ t.mounts[i].readonly \/ ~Overlaps(host, BinaryPath)

\* PinnedPaths::from_recipe, with a mark that tells it from an absent file.
PathsOf(t) == <<"paths">> \o [i \in DOMAIN t.mounts |-> Resolved(t.mounts[i])]

SensitiveMounts(t) ==
  {i \in DOMAIN t.mounts : \E p \in SensitivePaths : Overlaps(Resolved(t.mounts[i]), p)}

-----------------------------------------------------------------------------
(* resolve.rs.                                                              *)

LOCAL Verb(c) == script[c].verb
LOCAL Move(c, pc) ==
  call' = [call EXCEPT ![c] = IF pc = "done" THEN Progress(pc) ELSE [@ EXCEPT !.pc = pc]]
LOCAL At(c, pc) == call[c].pc = pc

\* choose_named_source, for a boot, a show and a setup.
NamedSource(c) ==
  CASE Verb(c) = "boot" -> IF pinned = 0 THEN "missing" ELSE "pinned"
    [] Verb(c) = "show" /\ pinned # 0 -> "pinned"
    [] OTHER -> IF manifest # 0 THEN "manifest"
                ELSE IF pinned # 0 THEN "pinned" ELSE "missing"

\* resolve_recipe: only setup and show take a recipe path.
SourceOf(c) ==
  IF script[c].arg # 0
  THEN IF Verb(c) = "boot" THEN "missing" ELSE "file"
  ELSE NamedSource(c)

\* A fault for the run: a boot reads its pin before it has the lock.
ResolveReadsThePin(c) ==
  /\ At(c, "begin")
  /\ LET source == SourceOf(c)
     IN  call' = [call EXCEPT ![c].source = IF Verb(c) = "boot" THEN "file" ELSE source,
           ![c].pc = CASE source = "missing" -> "done"
                       [] Verb(c) = "show" -> "load"
                       [] OTHER -> "lock",
           ![c].recipe = CASE source = "file" -> script[c].arg
                           [] source = "manifest" -> manifest
                           [] OTHER -> pinned]
  /\ UNCHANGED <<script, manifest, target, pinned, pinnedPath, stamped, boxDir, holder, booted, edits>>

\* The text of a file or of the manifest's entry is read here; a pin's is not.
Resolve(c) ==
  /\ At(c, "begin")
  /\ LET source == SourceOf(c)
     IN  call' = [call EXCEPT ![c].source = source,
           ![c].pc = CASE source = "missing" -> "done"
                       [] Verb(c) = "show" -> "load"
                       [] OTHER -> "lock",
           ![c].recipe = CASE source = "file" -> script[c].arg
                           [] source = "manifest" -> manifest
                           [] OTHER -> 0]
  /\ UNCHANGED <<script, manifest, target, pinned, pinnedPath, stamped, boxDir, holder, booted, edits>>

\* A start also requires a box set up for its pin; a setup locks a box that has
\* state, and approves without the lock where there is none yet.
Lock(c) ==
  /\ At(c, "lock")
  /\ CASE Verb(c) = "setup" /\ ~boxDir -> Move(c, "load") /\ UNCHANGED holder
       [] holder # 0 -> Move(c, "done") /\ UNCHANGED holder
       [] Verb(c) = "boot" /\ (stamped = 0 \/ stamped # pinned) ->
            Move(c, "done") /\ UNCHANGED holder
       [] OTHER -> Move(c, "load") /\ holder' = c
  /\ UNCHANGED <<script, manifest, target, pinned, pinnedPath, stamped, boxDir, booted, edits>>

LOCAL Release(c) == holder' = IF holder = c THEN 0 ELSE holder

\* load_recipe, and for a boot verify_pinned_paths; load_recipe's refusals end
\* the command.
LoadRecipe(c) ==
  /\ At(c, "load")
  /\ LET r == IF call[c].source = "pinned" THEN pinned ELSE call[c].recipe
         ok == /\ r # 0 /\ Valid(Text(r)) /\ MountsAllowed(Text(r))
               /\ Verb(c) = "boot" => PathsOf(Text(r)) = pinnedPath
     IN  IF ok
         THEN /\ call' = [call EXCEPT ![c].recipe = r, ![c].path = PathsOf(Text(r)),
                    ![c].pc = CASE Verb(c) = "boot" -> "boot"
                                [] Verb(c) = "show" -> "done"
                                [] OTHER -> "approve"]
              /\ UNCHANGED holder
         ELSE Move(c, "done") /\ Release(c)
  /\ UNCHANGED <<script, manifest, target, pinned, pinnedPath, stamped, boxDir, booted, edits>>

-----------------------------------------------------------------------------
(* approval.rs.                                                             *)

\* find_recipe_authorship: could a guest of the current pin have written it?
GuestWritable(c) ==
  call[c].source \in {"file", "manifest"} /\ pinned # 0
    /\ \E i \in DOMAIN Text(pinned).mounts :
         ~Text(pinned).mounts[i].readonly /\ Text(pinned).mounts[i].host = "project"

ChangedTargets(c) == pinnedPath # <<>> /\ pinnedPath # call[c].path
IsNewPin(c) == call[c].source # "pinned" /\ call[c].recipe # pinned

Suspect(c) ==
  \/ ChangedTargets(c)
  \/ IsNewPin(c) /\ GuestWritable(c)
  \/ \E i \in SensitiveMounts(Text(call[c].recipe)) :
       ~Text(call[c].recipe).mounts[i].readonly

\* decide_pinning.
PinAction(c) ==
  LET s == Suspect(c)
      p == script[c]
  IN  CASE p.dry /\ (~s \/ p.tty)       -> "report_only"
        [] ~p.dry /\ ~s                 -> "without_asking"
        [] ~p.dry /\ s /\ p.trust       -> "warn_and_pin"
        [] ~p.dry /\ s /\ ~p.trust /\ p.tty -> "ask"
        [] OTHER                        -> "refuse_unasked"

\* request_recipe_approval: nothing new is nothing to ask about.
NeedsApproval(c) == IsNewPin(c) \/ ChangedTargets(c)

Approve(c) ==
  /\ At(c, "approve")
  /\ \/ /\ ~NeedsApproval(c)
           \/ PinAction(c) \in {"without_asking", "warn_and_pin", "report_only", "ask"}
        /\ call' = [call EXCEPT ![c].pc = IF script[c].dry THEN "end" ELSE "prepare",
                                ![c].newPin = IsNewPin(c)]
        /\ UNCHANGED holder
     \/ /\ NeedsApproval(c) /\ PinAction(c) \in {"refuse_unasked", "ask"}
        /\ Move(c, "done") /\ Release(c)
  /\ UNCHANGED <<script, manifest, target, pinned, pinnedPath, stamped, boxDir, booted, edits>>

\* prepare_box: the lock a first setup has not taken yet, the state directory,
\* and the stamp gone with a root that is laid down anew.
PrepareBox(c) ==
  /\ At(c, "prepare")
  /\ IF holder \in {0, c}
     THEN /\ holder' = c /\ boxDir' = TRUE /\ Move(c, "pin")
          /\ stamped' = IF script[c].rebuild THEN 0 ELSE stamped
     ELSE Move(c, "done") /\ UNCHANGED <<holder, boxDir, stamped>>
  /\ UNCHANGED <<script, manifest, target, pinned, pinnedPath, booted, edits>>

\* The recipe, the paths, the setup VM unless the box is set up, the stamp.
PinText(c) ==
  /\ At(c, "pin")
  /\ pinned' = IF call[c].newPin THEN call[c].recipe ELSE pinned
  /\ Move(c, "pin_paths")
  /\ UNCHANGED <<script, manifest, target, pinnedPath, stamped, boxDir, holder, booted, edits>>

PinPath(c) ==
  /\ At(c, "pin_paths")
  /\ pinnedPath' = call[c].path
  /\ Move(c, "vm")
  /\ UNCHANGED <<script, manifest, target, pinned, stamped, boxDir, holder, booted, edits>>

SetUp(c) ==
  /\ At(c, "vm")
  /\ stamped' = pinned
  /\ Move(c, "end")
  /\ UNCHANGED <<script, manifest, target, pinned, pinnedPath, boxDir, holder, booted, edits>>

\* The VM mounts what its specification, made of the loaded recipe, names.
Boot(c) ==
  /\ At(c, "boot")
  /\ booted' = booted \cup {[recipe |-> call[c].recipe, path |-> call[c].path,
                             root |-> stamped, pinned |-> pinnedPath]}
  /\ Move(c, "end")
  /\ UNCHANGED <<script, manifest, target, pinned, pinnedPath, stamped, boxDir, holder, edits>>

\* A command ends, or dies, and the lock with it.
EndCommand(c) ==
  /\ call[c].pc \notin {"begin", "done"}
  /\ Move(c, "done") /\ Release(c)
  /\ UNCHANGED <<script, manifest, target, pinned, pinnedPath, stamped, boxDir, booted, edits>>

-----------------------------------------------------------------------------
EditManifest ==
  /\ edits < MaxEdits /\ edits' = edits + 1
  /\ manifest' \in ({0} \cup DOMAIN RecipeTexts) \ {manifest}
  /\ UNCHANGED <<script, target, pinned, pinnedPath, stamped, boxDir, holder, call, booted>>

MoveTarget ==
  /\ edits < MaxEdits /\ edits' = edits + 1
  /\ target' \in HostTargets \ {target}
  /\ UNCHANGED <<script, manifest, pinned, pinnedPath, stamped, boxDir, holder, call, booted>>

PinNext ==
  \/ \E c \in PinCommands :
       \/ Resolve(c) \/ Lock(c) \/ LoadRecipe(c) \/ Approve(c) \/ PrepareBox(c)
       \/ PinText(c) \/ PinPath(c) \/ SetUp(c) \/ Boot(c) \/ EndCommand(c)
  \/ EditManifest \/ MoveTarget

PinSpec == PinInit /\ [][PinNext]_pinVars

\* start.rs:109-110: a boot runs the recipe its root was set up for, with the
\* host paths approved for it, whatever setups run beside it and wherever
\* those die.
BootRunsItsSetup ==
  \A b \in booted : b.recipe = b.root /\ b.path = b.pinned

------------------------------------------------------------------------------
(***************************************************************************)
(* Reading a recipe (crates/terra/src/recipe.rs).  A text is parsed        *)
(* strictly to be run (parse_recipe) and leniently to find who could have  *)
(* written it (list_declared_writable_shares): another version of terra    *)
(* may have pinned it.  Its env_file is resolved (resolve_env_file),       *)
(* compared with the path approved (verify_pinned_paths), and opened one   *)
(* component at a time with no link followed (open_regular_env_file),      *)
(* while others change the directories on the way; its lines then go over  *)
(* the recipe's own (merge_env_file).                                      *)
(*                                                                         *)
(* A mount entry of the text is what YAML made of it; a path is a sequence *)
(* of components.  The directories of the host are objects, so that one    *)
(* moved away is still the directory it was.                               *)
(***************************************************************************)

CONSTANTS MountTexts,     \* mount entries: [mapping, merge, readonly, host, guest]
          MaxMounts,      \* bound: entries of a text
          EnvTexts,       \* the lines of env files: [kind, key, value]
          RecipeEnv,      \* env: of the recipe, key -> value
          EnvKeys, MaxEnvLines,
          MaxSwaps        \* bound: changes of the host's directories

VARIABLES part,           \* "text" or "env" (rigid)
          mounts,         \* the text's entries
          strict, lenient,   \* what each reader made of it
          entry,          \* <<directory, name>> -> object
          approved,       \* the env file's path as pinned (rigid)
          opening,        \* [at, path, dir, file]
          lines, env,     \* the env file's text, and the merged variables
          swaps

recipeVars == <<part, mounts, strict, lenient, entry, approved, opening, lines, env, swaps>>

Unread == [read |-> FALSE, ok |-> FALSE, shares |-> {}, guests |-> <<>>]

(***************************************************************************)
(* Mounts.                                                                 *)
(***************************************************************************)

\* normalize_guest_path of an absolute path with no backslash.
NormalizeGuestPath(path) ==
    FoldLeft(LAMBDA done, c : CASE c \in {"", "."} -> done
                                [] c = ".." -> SubSeq(done, 1, Len(done) - 1)
                                [] OTHER -> Append(done, c), <<>>, path)

\* resolve_recipe_path: `~name` is refused, anything else has its place.
HostResolves(host) == host # "~other"

\* serde's Mount: a mapping with a host and a guest path, readonly a Boolean if there, and
\* no other key; then the checks of parse_recipe.
Accepted(m) ==
    /\ m.mapping /\ ~m.merge
    /\ m.readonly \in {"absent", "true", "false"}
    /\ m.host \notin {"absent", "notPath"} /\ HostResolves(m.host)
    /\ m.guest.rooted /\ ~m.guest.backslash

ParseRecipe(ms) ==
    LET guests == [i \in DOMAIN ms |-> NormalizeGuestPath(ms[i].guest.parts)]
        ok == /\ \A i \in DOMAIN ms : Accepted(ms[i])
              /\ \A i, j \in DOMAIN ms : i # j => guests[i] # guests[j]
    IN [read |-> TRUE, ok |-> ok,
        shares |-> IF ok THEN {ms[i].host : i \in {i \in DOMAIN ms : ms[i].readonly # "true"}} ELSE {},
        guests |-> IF ok THEN guests ELSE <<>>]

\* as_bool().unwrap_or(false): only a real `true` makes an entry read-only.
IsReadonly(m) == m.readonly = "true"

\* Merge keys are refused whole; an entry that is no mapping or has no host is passed over.
DeclaredWritableShares(ms) ==
    LET ok == ~\E i \in DOMAIN ms : ms[i].mapping /\ ms[i].merge
        declared == {i \in DOMAIN ms : ms[i].mapping /\ ~IsReadonly(ms[i]) /\ ms[i].host \notin {"absent", "notPath"}}
    IN [read |-> TRUE, ok |-> ok, shares |-> IF ok THEN {ms[i].host : i \in declared} ELSE {}, guests |-> <<>>]

ReadText ==
    /\ part = "text" /\ ~strict.read
    /\ strict' = ParseRecipe(mounts) /\ lenient' = DeclaredWritableShares(mounts)
    /\ UNCHANGED <<part, mounts, entry, approved, opening, lines, env, swaps>>

(***************************************************************************)
(* The env file.  "share" and "moved" are directories of the project,      *)
(* "out" is one elsewhere on the host; each holds a name "e".              *)
(***************************************************************************)
Directories == {"root", "share", "moved", "out"}
RegularFiles == {"own", "other", "far"}
EntryOf(dir, name) == IF <<dir, name>> \in DOMAIN entry THEN entry[<<dir, name>>] ELSE "none"
FirstEntries ==
    (<<"root", "d">> :> "share") @@ (<<"root", "o">> :> "out") @@ (<<"out", "e">> :> "far")
    @@ (<<"share", "e">> :> "own") @@ (<<"moved", "e">> :> "other")

RecipeInit ==
    /\ part \in {"text", "env"}
    /\ mounts \in IF part = "text" THEN UNION {[1..n -> MountTexts] : n \in 0..MaxMounts} ELSE {<<>>}
    /\ lines \in IF part = "env" THEN UNION {[1..n -> EnvTexts] : n \in 0..MaxEnvLines} ELSE {<<>>}
    /\ strict = Unread /\ lenient = Unread
    /\ entry = FirstEntries /\ approved = <<"d", "e">>
    /\ opening = [at |-> IF part = "env" THEN "resolve" ELSE "none", path |-> <<>>, dir |-> "root", file |-> "none"]
    /\ env = RecipeEnv /\ swaps = 0

\* Anyone who may write the project: a directory or a link where `d` is, a file, a link, a
\* pipe or nothing where `e` is.
SwapEntry ==
    /\ part = "env" /\ swaps < MaxSwaps /\ swaps' = swaps + 1
    /\ \/ \E what \in {"share", "moved", "linkToOut", "none"} : entry' = [entry EXCEPT ![<<"root", "d">>] = what]
       \/ \E dir \in {"share", "moved"}, what \in {"own", "other", "linkToFar", "pipe", "none"} :
             entry' = [entry EXCEPT ![<<dir, "e">>] = what]
    /\ UNCHANGED <<part, mounts, strict, lenient, approved, opening, lines, env>>

\* canonicalize: every link is followed, and the path is that of where it ends.
Canonical ==
    LET d == EntryOf("root", "d")
        top == IF d = "linkToOut" THEN <<"o">> ELSE <<"d">>
        file == IF d = "linkToOut" THEN "far" ELSE IF d \in Directories THEN EntryOf(d, "e") ELSE "none"
    IN CASE file = "none" -> <<>>
         [] file = "linkToFar" -> <<"o", "e">>
         [] OTHER -> Append(top, "e")

\* resolve_env_file, then verify_pinned_paths.
ResolveEnvFile ==
    /\ opening.at = "resolve"
    /\ opening' = [opening EXCEPT !.path = Canonical,
                                  !.at = IF Canonical = <<>> THEN "refused" ELSE "verify"]
    /\ UNCHANGED <<part, mounts, strict, lenient, entry, approved, lines, env, swaps>>

VerifyPinnedPaths ==
    /\ opening.at = "verify"
    /\ opening' = [opening EXCEPT !.at = IF opening.path = approved THEN "walk" ELSE "refused"]
    /\ UNCHANGED <<part, mounts, strict, lenient, entry, approved, lines, env, swaps>>

\* openat with O_NOFOLLOW: a link is an error.
OpenAt(object) == IF object \in {"linkToOut", "linkToFar"} THEN "none" ELSE object

\* open_regular_env_file, one component: a directory, and last a regular file.
WalkComponent ==
    /\ opening.at = "walk"
    /\ LET object == OpenAt(EntryOf(opening.dir, Head(opening.path)))
           last == Len(opening.path) = 1
       IN opening' =
            CASE ~last /\ object \in Directories -> [opening EXCEPT !.dir = object, !.path = Tail(@)]
              [] last /\ object \in RegularFiles -> [opening EXCEPT !.file = object, !.at = "read"]
              [] OTHER -> [opening EXCEPT !.at = "refused"]
    /\ UNCHANGED <<part, mounts, strict, lenient, entry, approved, lines, env, swaps>>

\* One line over what is there: blank lines and comments say nothing.
MergeLine(vars, line) == IF line.kind = "pair" THEN [vars EXCEPT ![line.key] = line.value] ELSE vars

\* merge_env_file: the lines in order; one that is no pair refuses the file.
MergeLines(vars) == FoldLeft(MergeLine, vars, lines)

MergeEnvFile ==
    /\ opening.at = "read"
    /\ IF \E i \in DOMAIN lines : lines[i].kind = "bad"
       THEN opening' = [opening EXCEPT !.at = "refused"] /\ UNCHANGED env
       ELSE opening' = [opening EXCEPT !.at = "merged"] /\ env' = MergeLines(env)
    /\ UNCHANGED <<part, mounts, strict, lenient, entry, approved, lines, swaps>>

RecipeNext == ReadText \/ SwapEntry \/ ResolveEnvFile \/ VerifyPinnedPaths \/ WalkComponent \/ MergeEnvFile
RecipeSpec == RecipeInit /\ [][RecipeNext]_recipeVars

(***************************************************************************)
(* Properties.                                                             *)
(***************************************************************************)
\* Where a path leads from the root, read from its end: a name counts unless a later ".."
\* takes it back, and above the root is the root.
LOCAL Leads(path) ==
    LET back == FoldRight(LAMBDA c, acc :
                    CASE c \in {"", "."} -> acc
                      [] c = ".." -> [acc EXCEPT !.skip = @ + 1]
                      [] OTHER -> IF acc.skip > 0 THEN [acc EXCEPT !.skip = @ - 1]
                                  ELSE [acc EXCEPT !.parts = <<c>> \o @],
                  path, [skip |-> 0, parts |-> <<>>])
    IN back.parts

\* The lenient reader leaves out no writable share of a recipe the strict one accepts,
\* unless it refuses the text; and two mounts of an accepted recipe lead to two places of
\* the guest, however they are written (list_declared_writable_shares, normalize_guest_path).
SharesAreDeclared ==
    strict.read /\ strict.ok =>
        /\ lenient.ok /\ strict.shares \subseteq lenient.shares
        /\ \A i, j \in DOMAIN mounts : i # j => Leads(mounts[i].guest.parts) # Leads(mounts[j].guest.parts)

\* Whatever is put on the way meanwhile, the env file that is read is a regular file of the
\* project, reached by no link after its path was compared with the approved one; and a
\* variable has the file's last value, or else the recipe's (open_regular_env_file,
\* merge_env_file).
EnvFileIsTheApprovedOne ==
    /\ opening.file # "none" => opening.file \in {"own", "other"}
    /\ opening.at = "merged" => \A k \in EnvKeys :
          LET set == {i \in DOMAIN lines : lines[i].kind = "pair" /\ lines[i].key = k}
          IN env[k] = IF set = {} THEN RecipeEnv[k] ELSE lines[CHOOSE i \in set : \A j \in set : j <= i].value
==============================================================================
