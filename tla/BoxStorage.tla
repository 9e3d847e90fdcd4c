---------------------------- MODULE BoxStorage ----------------------------
EXTENDS Integers, Sequences, FiniteSets, TLC
LOCAL INSTANCE FiniteSetsExt
LOCAL INSTANCE SequencesExt

(***************************************************************************)
(* The files of one box and the commands that change them under its run    *)
(* lock: terra storage import, export and prune, setup, rm and a boot's    *)
(* checks (crates/terra/src/cmd/{storage,setup,rm}.rs, state/import.rs,    *)
(* state/setup_state.rs, state/pin.rs).  Every file operation is a step,   *)
(* the process may die between any two of them, and an operation may fail. *)
(* The lock makes the commands sequential; BoxCommands models it.          *)
(***************************************************************************)

CONSTANTS
  Recipes,         \* the recipes a box may be pinned to, as numbers > 0
  VolumeRecipes,   \* those that name the volume
  MaxCommands,     \* bound on the commands run
  MaxFaults        \* bound on crashes and failed operations

VARIABLES
  disk,      \* the state directory: the box files, stamp, journal, staging
  cmd,       \* the command that holds the lock
  trash,     \* what rm has moved aside, oldest first
  commands,  \* commands started so far
  faults     \* faults left

storageVars == <<disk, cmd, trash, commands, faults>>

BoxFiles == {"rootfs", "volume", "recipe", "paths"}

\* A file: the command that made it, the recipe it is of (for the root: the
\* recipe whose setup VM last finished on it), and whether a bake finished.
NoFile == [by |-> 0, for |-> 0, baked |-> FALSE]
Content(n, r, b) == [by |-> n, for |-> r, baked |-> b]

NoJournal == [open |-> FALSE, entries |-> <<>>, committed |-> FALSE]
NoStaging == [stage |-> [f \in BoxFiles |-> NoFile],
              orig  |-> [f \in BoxFiles |-> NoFile]]
Absent == [rootfs |-> NoFile, volume |-> NoFile, recipe |-> NoFile,
           paths |-> NoFile, stamp |-> 0, journal |-> NoJournal,
           staging |-> NoStaging]

NoCommand == [op |-> "none", step |-> "idle", recipe |-> 0, all |-> FALSE,
              carried |-> <<>>, i |-> 0, then |-> "run", todo |-> {}]

\* A box whose setup has finished, as an earlier command left it.
SetUpBox(r) ==
  [Absent EXCEPT !.rootfs = Content(0, r, TRUE), !.recipe = Content(0, r, TRUE),
                 !.paths = Content(0, r, TRUE), !.stamp = r,
                 !.volume = IF r \in VolumeRecipes THEN Content(0, r, TRUE) ELSE NoFile]

StorageInit ==
  /\ disk \in {Absent} \cup {SetUpBox(r) : r \in VolumeRecipes}
  /\ cmd = NoCommand
  /\ trash = <<>>
  /\ commands = 0
  /\ faults = MaxFaults

-----------------------------------------------------------------------------
(* The setup state of a box, from the files alone.                          *)

SetupState(d) ==
  CASE d.rootfs = NoFile        -> "missing"
    [] d.stamp = 0              -> "unbaked"
    [] d.stamp = d.recipe.for   -> "set_up"
    [] OTHER                    -> "stale"

IsSetUp(d) == SetupState(d) = "set_up"

\* What recover_import makes of a state directory.
Recovered(d) ==
  LET j == d.journal
      entry(f) == {k \in DOMAIN j.entries : j.entries[k].file = f}
      undone(f) ==
        IF ~j.open \/ j.committed \/ entry(f) = {} THEN d[f]
        ELSE LET e == j.entries[CHOOSE k \in entry(f) : TRUE]
             IN  IF e.existed /\ d.staging.orig[f] # NoFile
                 THEN d.staging.orig[f]
                 ELSE IF ~e.existed /\ d.staging.stage[f] = NoFile
                      THEN NoFile
                      ELSE d[f]
  IN  [files |-> [f \in BoxFiles |-> undone(f)],
       stamp |-> IF j.open /\ j.committed /\ entry("recipe") # {}
                 THEN d.recipe.for ELSE d.stamp]

-----------------------------------------------------------------------------
LOCAL Goto(s) == cmd' = [cmd EXCEPT !.step = s]
LOCAL Done == cmd' = NoCommand
LOCAL At(op, s) == cmd.op = op /\ cmd.step = s
LOCAL Quiet == UNCHANGED <<trash, commands, faults>>
LOCAL Fault == faults > 0 /\ faults' = faults - 1 /\ UNCHANGED <<trash, commands>>

\* lock_if_present, lock_and_repair, lock_finished: the lock, then the repair.
LockAndRepair(op, r, all, carried) ==
  /\ cmd.op = "none" /\ commands < MaxCommands
  /\ cmd' = [NoCommand EXCEPT !.op = op, !.step = "recover", !.recipe = r,
                              !.all = all, !.carried = carried]
  /\ commands' = commands + 1
  /\ UNCHANGED <<disk, trash, faults>>

\* An import carries the root, maybe the volume, its recipe, and the pinned
\* paths when they differ from the box's.
StartImport ==
  \E r \in Recipes, volume, paths \in BOOLEAN :
    /\ volume => r \in VolumeRecipes
    /\ LockAndRepair("import", r, FALSE,
         <<"rootfs">> \o (IF volume THEN <<"volume">> ELSE <<>>)
           \o <<"recipe">> \o (IF paths THEN <<"paths">> ELSE <<>>))
StartSetup == \E r \in Recipes, rebuild \in BOOLEAN : LockAndRepair("setup", r, rebuild, <<>>)
StartExport == disk.recipe # NoFile /\ LockAndRepair("export", 0, FALSE, <<>>)
StartPrune == disk.recipe # NoFile /\ LockAndRepair("prune", 0, FALSE, <<>>)
StartBoot == disk.recipe # NoFile /\ LockAndRepair("boot", 0, FALSE, <<>>)

\* The process is killed, or the host goes down: the lock goes with it.
Crash ==
  /\ cmd.op # "none" /\ Done
  /\ faults > 0 /\ faults' = faults - 1
  /\ trash' = <<>>
  /\ UNCHANGED <<disk, commands>>

-----------------------------------------------------------------------------
(* recover_import, as part of every lock but rm's and at an import's end.   *)

Entry == disk.journal.entries[cmd.i + 1]

RecoverNothing ==
  /\ cmd.step = "recover" /\ ~disk.journal.open
  /\ Goto(cmd.then) /\ UNCHANGED disk /\ Quiet

RecoverStamp ==
  /\ cmd.step = "recover" /\ disk.journal.open /\ disk.journal.committed
  /\ cmd.i < Len(disk.journal.entries)
  /\ disk' = [disk EXCEPT !.stamp = Recovered(disk).stamp]
  /\ cmd' = [cmd EXCEPT !.i = Len(disk.journal.entries)]
  /\ Quiet

RecoverEntry ==
  /\ cmd.step = "recover" /\ disk.journal.open /\ ~disk.journal.committed
  /\ cmd.i < Len(disk.journal.entries)
  /\ LET f == Entry.file
         orig == disk.staging.orig[f]
     IN  IF Entry.existed /\ orig # NoFile
         THEN IF disk[f] # NoFile
              THEN disk' = [disk EXCEPT ![f] = NoFile] /\ UNCHANGED cmd
              ELSE /\ disk' = [disk EXCEPT ![f] = orig, !.staging.orig[f] = NoFile]
                   /\ cmd' = [cmd EXCEPT !.i = @ + 1]
         ELSE /\ disk' = IF ~Entry.existed /\ disk.staging.stage[f] = NoFile
                         THEN [disk EXCEPT ![f] = NoFile] ELSE disk
              /\ cmd' = [cmd EXCEPT !.i = @ + 1]
  /\ Quiet

\* remove_dir_all takes the files one at a time, then the journal goes.
RecoverStaging ==
  /\ cmd.step = "recover" /\ disk.journal.open
  /\ cmd.i = Len(disk.journal.entries)
  /\ \E part \in {"stage", "orig"}, f \in BoxFiles :
       /\ disk.staging[part][f] # NoFile
       /\ disk' = [disk EXCEPT !.staging[part][f] = NoFile]
  /\ UNCHANGED cmd /\ Quiet

RecoverJournal ==
  /\ cmd.step = "recover" /\ disk.journal.open
  /\ cmd.i = Len(disk.journal.entries)
  /\ disk.staging = NoStaging
  /\ disk' = [disk EXCEPT !.journal = NoJournal]
  /\ IF cmd.then = "finish" THEN Done ELSE cmd' = [cmd EXCEPT !.step = cmd.then, !.i = 0]
  /\ Quiet

RecoverFails ==
  /\ cmd.step = "recover" /\ disk.journal.open
  /\ IF cmd.then = "cleanup" THEN Goto("cleanup") ELSE Done
  /\ Fault /\ UNCHANGED disk

-----------------------------------------------------------------------------
(* terra storage import, once the box is repaired.                          *)

Carries(k) == cmd.carried[k]
Swapping == At("import", "swap") /\ cmd.i < Len(cmd.carried)

BeginImport ==
  /\ At("import", "run")
  /\ disk' = [disk EXCEPT !.staging = NoStaging,
                          !.journal = [NoJournal EXCEPT !.open = TRUE]]
  /\ cmd' = [cmd EXCEPT !.step = "stage", !.i = 0]
  /\ Quiet

\* stage_images and write_pin: one file of the artifact at a time.
StageFile ==
  /\ At("import", "stage") /\ cmd.i < Len(cmd.carried)
  /\ disk' = [disk EXCEPT !.staging.stage[Carries(cmd.i + 1)] =
                 Content(commands, cmd.recipe, TRUE)]
  /\ cmd' = [cmd EXCEPT !.i = @ + 1]
  /\ Quiet

\* A truncated artifact, an image over its limit, a full disk.
StageFails ==
  /\ At("import", "stage")
  /\ cmd' = [cmd EXCEPT !.step = "recover", !.i = 0, !.then = "finish"]
  /\ Fault /\ UNCHANGED disk

\* staged_write replaces a file at once, but may still report an error after
\* the rename, when the directory's sync fails.
JournalEntries ==
  [open |-> TRUE, committed |-> FALSE,
   entries |-> [k \in DOMAIN cmd.carried |->
                  [file |-> Carries(k), existed |-> disk[Carries(k)] # NoFile]]]

WriteEntries ==
  /\ At("import", "stage") /\ cmd.i = Len(cmd.carried)
  /\ \/ /\ disk' = [disk EXCEPT !.journal = JournalEntries]
        /\ cmd' = [cmd EXCEPT !.step = "swap", !.i = 0]
        /\ Quiet
     \/ /\ disk' \in {disk, [disk EXCEPT !.journal = JournalEntries]}
        /\ Goto("cleanup") /\ Fault

BackUpNothing ==
  /\ Swapping
  /\ disk' = [disk EXCEPT ![Carries(cmd.i + 1)] = NoFile]
  /\ Goto("install") /\ Quiet

BackUp ==
  /\ Swapping
  /\ LET f == Carries(cmd.i + 1)
     IN  disk' = IF disk[f] = NoFile THEN disk
                 ELSE [disk EXCEPT ![f] = NoFile, !.staging.orig[f] = disk[f]]
  /\ Goto("install") /\ Quiet

Install ==
  /\ At("import", "install")
  /\ LET f == Carries(cmd.i + 1)
     IN  disk' = [disk EXCEPT ![f] = disk.staging.stage[f],
                              !.staging.stage[f] = NoFile]
  /\ cmd' = [cmd EXCEPT !.step = "swap", !.i = @ + 1]
  /\ Quiet

\* A failed rename: what was pushed onto `committed` is rolled back, a file
\* backed up but not installed included.
SwapFails ==
  /\ \/ Swapping /\ cmd' = [cmd EXCEPT !.step = "rollback"]
     \/ At("import", "install") /\ cmd' = [cmd EXCEPT !.step = "rollback", !.i = @ + 1]
  /\ Fault /\ UNCHANGED disk

RollBack ==
  /\ At("import", "rollback") /\ cmd.i > 0
  /\ LET f == Carries(cmd.i)
         backedUp == disk.staging.orig[f] # NoFile
     IN  IF disk[f] # NoFile
         THEN /\ disk' = [disk EXCEPT ![f] = NoFile]
              /\ IF backedUp THEN UNCHANGED cmd ELSE cmd' = [cmd EXCEPT !.i = @ - 1]
         ELSE /\ disk' = IF backedUp
                         THEN [disk EXCEPT ![f] = disk.staging.orig[f],
                                           !.staging.orig[f] = NoFile]
                         ELSE disk
              /\ cmd' = [cmd EXCEPT !.i = @ - 1]
  /\ Quiet

RollBackFails ==
  /\ At("import", "rollback") /\ cmd.i > 0
  /\ Goto("cleanup") /\ Fault /\ UNCHANGED disk

\* The journal goes last; failing to remove it is ignored.
RolledBack ==
  /\ At("import", "rollback") /\ cmd.i = 0
  /\ \/ disk' = [disk EXCEPT !.journal = NoJournal] /\ Quiet
     \/ disk' = disk /\ Fault
  /\ Goto("cleanup")

CommitImport ==
  /\ At("import", "swap") /\ cmd.i = Len(cmd.carried)
  /\ \/ /\ disk' = [disk EXCEPT !.journal.committed = TRUE]
        /\ cmd' = [cmd EXCEPT !.step = "recover", !.i = 0, !.then = "cleanup"]
        /\ Quiet
     \/ /\ disk' \in {disk, [disk EXCEPT !.journal.committed = TRUE]}
        /\ Goto("cleanup") /\ Fault

\* Whatever came of it, import removes the staged files, and the staging
\* directory when that left it empty.
CleanUp ==
  /\ At("import", "cleanup")
  /\ IF \E f \in BoxFiles : disk.staging.stage[f] # NoFile
     THEN /\ \E f \in BoxFiles :
               /\ disk.staging.stage[f] # NoFile
               /\ disk' = [disk EXCEPT !.staging.stage[f] = NoFile]
          /\ UNCHANGED cmd
     ELSE disk' = disk /\ Done
  /\ Quiet

-----------------------------------------------------------------------------
(* terra setup.                                                             *)

PlanRoot ==
  /\ At("setup", "run")
  /\ Goto(IF cmd.all \/ SetupState(disk) \in {"missing", "unbaked"}
          THEN "unstamp" ELSE "pin")
  /\ UNCHANGED disk /\ Quiet

KeepStamp == At("setup", "unstamp") /\ Goto("unroot") /\ UNCHANGED disk /\ Quiet

\* discard_root: the stamp first.
DiscardStamp ==
  /\ At("setup", "unstamp")
  /\ disk' = [disk EXCEPT !.stamp = 0]
  /\ Goto("unroot") /\ Quiet

DiscardRoot ==
  /\ At("setup", "unroot")
  /\ disk' = [disk EXCEPT !.rootfs = NoFile]
  /\ Goto("pin") /\ Quiet

\* write_pin: the recipe, then the paths its approval resolved.
PinFile(f, from, to) ==
  /\ At("setup", from)
  /\ disk' = IF disk[f].for = cmd.recipe THEN disk
             ELSE [disk EXCEPT ![f] = Content(commands, cmd.recipe, TRUE)]
  /\ Goto(to) /\ Quiet

PinRecipe == PinFile("recipe", "pin", "pin_paths")
PinPaths == PinFile("paths", "pin_paths", "root")

InstallRoot ==
  /\ At("setup", "root")
  /\ disk' = IF disk.rootfs # NoFile THEN disk
             ELSE [disk EXCEPT !.rootfs = Content(commands, 0, FALSE)]
  /\ Goto("volumes") /\ Quiet

\* install_or_grow_images and sweep_or_keep_unused_volumes.
InstallVolumes ==
  /\ At("setup", "volumes")
  /\ disk' = CASE cmd.recipe \in VolumeRecipes /\ disk.volume = NoFile ->
                   [disk EXCEPT !.volume = Content(commands, cmd.recipe, TRUE)]
              [] cmd.recipe \notin VolumeRecipes /\ cmd.all ->
                   [disk EXCEPT !.volume = NoFile]
              [] OTHER -> disk
  /\ IF IsSetUp(disk) THEN Done ELSE Goto("vm")
  /\ Quiet

\* run_setup_vm.
SetupVm ==
  /\ At("setup", "vm")
  /\ \/ /\ disk' = [disk EXCEPT !.rootfs = [@ EXCEPT !.for = cmd.recipe, !.baked = TRUE]]
        /\ Goto("stamp") /\ Quiet
     \/ disk' = disk /\ Done /\ Fault

StampSetup ==
  /\ At("setup", "stamp")
  /\ disk' = [disk EXCEPT !.stamp = disk.recipe.for]
  /\ Done /\ Quiet

\* Any of setup's file operations may fail; it then stops where it is.
SetupFails ==
  /\ cmd.op = "setup"
  /\ cmd.step \in {"unstamp", "unroot", "pin", "pin_paths", "root", "volumes", "stamp"}
  /\ Done /\ Fault /\ UNCHANGED disk

-----------------------------------------------------------------------------
(* rm, prune, export and a boot.                                            *)

\* rm takes the lock and repairs nothing.  Without --purge (`all`) it keeps a
\* recipe it finds, and the paths pinned with it.
StartRm ==
  \E purge \in BOOLEAN :
    LET kept == IF ~purge /\ disk.recipe # NoFile THEN {"recipe", "paths"} ELSE {}
    IN  /\ cmd.op = "none" /\ commands < MaxCommands /\ disk # Absent
        /\ cmd' = [NoCommand EXCEPT !.op = "rm", !.step = "move", !.all = purge,
                     !.todo = {x \in DOMAIN disk : disk[x] # Absent[x]} \ kept]
        /\ commands' = commands + 1
        /\ UNCHANGED <<disk, trash, faults>>

\* stage_removal, in the order the directory lists its entries.
RmMove ==
  /\ At("rm", "move")
  /\ \E x \in cmd.todo :
       /\ trash' = Append(trash, [entry |-> x, was |-> disk[x]])
       /\ disk' = [disk EXCEPT ![x] = Absent[x]]
       /\ cmd' = [cmd EXCEPT !.todo = @ \ {x}]
  /\ UNCHANGED <<commands, faults>>

RmMoveFails ==
  /\ At("rm", "move") /\ cmd.todo # {}
  /\ Goto("undo") /\ Fault /\ UNCHANGED disk

RmUndo ==
  /\ At("rm", "undo")
  /\ IF trash = <<>>
     THEN Done /\ UNCHANGED <<disk, trash>>
     ELSE LET last == trash[Len(trash)]
          IN  /\ disk' = [disk EXCEPT ![last.entry] = last.was]
              /\ trash' = SubSeq(trash, 1, Len(trash) - 1)
              /\ UNCHANGED cmd
  /\ UNCHANGED <<commands, faults>>

RmDone ==
  /\ At("rm", "move") /\ cmd.todo = {}
  /\ Done /\ trash' = <<>>
  /\ UNCHANGED <<disk, commands, faults>>

Prune ==
  /\ At("prune", "run")
  /\ disk' = IF disk.recipe.for \in VolumeRecipes THEN disk
             ELSE [disk EXCEPT !.volume = NoFile]
  /\ Done /\ Quiet

\* export and a boot refuse a box that is not set up; a boot also refuses
\* when the paths its recipe resolves to are not the pinned ones.
CheckReady ==
  /\ cmd.op \in {"export", "boot"} /\ cmd.step = "run"
  /\ IF IsSetUp(disk) /\ (cmd.op = "boot" => disk.paths.for = disk.recipe.for)
     THEN Goto("ready") ELSE Done
  /\ UNCHANGED disk /\ Quiet

UseBox ==
  /\ cmd.step = "ready" /\ Done
  /\ UNCHANGED disk /\ Quiet

-----------------------------------------------------------------------------
StorageNext ==
  \/ StartImport \/ StartSetup \/ StartExport \/ StartPrune \/ StartBoot \/ StartRm
  \/ Crash
  \/ RecoverNothing \/ RecoverStamp \/ RecoverEntry \/ RecoverStaging
  \/ RecoverJournal \/ RecoverFails
  \/ BeginImport \/ StageFile \/ StageFails \/ WriteEntries \/ BackUp \/ Install
  \/ SwapFails \/ RollBack \/ RollBackFails \/ RolledBack \/ CommitImport \/ CleanUp
  \/ PlanRoot \/ DiscardStamp \/ DiscardRoot \/ PinRecipe \/ PinPaths \/ InstallRoot
  \/ InstallVolumes \/ SetupVm \/ StampSetup \/ SetupFails
  \/ RmMove \/ RmMoveFails \/ RmUndo \/ RmDone
  \/ Prune \/ CheckReady \/ UseBox

StorageSpec == StorageInit /\ [][StorageNext]_storageVars

-----------------------------------------------------------------------------
(* The box as BoxContents sees it.                                          *)

ImportOpen ==
  /\ cmd.op = "import"
  /\ disk.journal.open /\ ~disk.journal.committed
  /\ cmd.then = "run" /\ cmd.step \in {"swap", "install"}

Contents == INSTANCE BoxContents WITH
  Contents <- [by : 0 .. MaxCommands, for : Recipes \cup {0}, baked : BOOLEAN],
  Stamps <- Recipes \cup {0},
  content <- Recovered(disk).files,
  mark <- Recovered(disk).stamp,
  mode <- IF ImportOpen THEN "import"
          ELSE IF cmd.op \in {"setup", "rm", "prune"} /\ cmd.step # "recover" THEN "edit"
          ELSE "rest",
  carried <- IF ImportOpen
             THEN [f \in {cmd.carried[k] : k \in DOMAIN cmd.carried} |->
                     Content(commands, cmd.recipe, TRUE)]
             ELSE <<>>

\* commit_import and recover_import: an import replaces the files it carries
\* and the stamp in one step or leaves the box as it was, through failures of
\* any operation and deaths between any two, of the recovery too.
ImportIsAtomic == Contents!ContentsSpec

\* discard_root, write_setup_stamp and an import's recovery: a stamped box
\* holds no root image whose bake has not finished.
StampMeansBaked == disk.stamp # 0 => disk.rootfs = NoFile \/ disk.rootfs.baked

------------------------------------------------------------------------------
(***************************************************************************)
(* `terra <box> storage export` and `import`                               *)
(* (crates/terra/src/cmd/storage.rs): a box's recipe and images go into    *)
(* one stream, a header and the bytes of each, and come back as sparse     *)
(* files.  How the imported files then take the place of the box's own is  *)
(* module BoxStorage's.                                                    *)
(*                                                                         *)
(* The stream is a sequence of bytes and headers; a header is two tokens,  *)
(* so that a stream may end inside one.  An artifact can be cut short      *)
(* anywhere before it is imported: gzip reports the end then as it does at *)
(* a real end. The recipe of the box is the one the artifact carries.      *)
(***************************************************************************)

CONSTANTS Images,        \* sets of images a box may hold: name -> bytes, "root" among them
          NamedVolumes,  \* volumes of the recipe -> its limit in bytes, with "root"
          BootVolumes,   \* of them, those with lifetime `boot`
          RecipeLength, MaxRecipeLength,
          ReadLimit,     \* bytes a read of the decompressed stream returns at most
          MaxResizes     \* bound: images that change length during an export

VARIABLES images,        \* the images on disk when the export began, and are
          exporting,     \* [at, todo, len, copied]
          artifact,      \* the stream
          exported,      \* ghost: name -> the bytes of an image when its copy began
          published,     \* the export's file has its name
          cut,           \* ghost: the artifact was cut short
          importing,     \* [at, name, len, total]
          rest,          \* what of the stream is still to be read
          out,           \* [data, pos, length] of the image being written
          staged,        \* name -> bytes of the images staged
          resizes

artifactVars == <<images, exporting, artifact, exported, published, cut, importing, rest, out, staged, resizes>>

NoOut == [data |-> <<>>, pos |-> 0, length |-> 0]
Header(name, len) == <<[token |-> "head", name |-> name, len |-> len], [token |-> "tail", name |-> name, len |-> len]>>
Byte(b) == [token |-> "byte", name |-> "", len |-> b]
Magic == [token |-> "magic", name |-> "", len |-> 0]

ArtifactInit ==
    /\ images \in Images
    /\ exporting = [at |-> "begin", todo |-> <<>>, len |-> 0, copied |-> 0]
    /\ artifact = <<>> /\ exported = <<>> /\ published = FALSE /\ cut = FALSE
    /\ importing = [at |-> "none", name |-> "", len |-> 0, total |-> 0]
    /\ rest = <<>> /\ out = NoOut /\ staged = <<>> /\ resizes = 0

(***************************************************************************)
(* Export.                                                                 *)
(***************************************************************************)
\* list_exportable_images: of the images there are, the root and the volumes that last.
Exportable == {n \in DOMAIN images : n = "root" \/ (n \in DOMAIN NamedVolumes /\ n \notin BootVolumes)}

\* export and write_artifact up to the first image: the magic and the recipe.
BeginExport ==
    /\ exporting.at = "begin"
    /\ artifact' = <<Magic>> \o Header("recipe", RecipeLength) \o [i \in 1..RecipeLength |-> Byte(1)]
    /\ exporting' = [exporting EXCEPT !.at = "next", !.todo = SetToSeq(Exportable)]
    /\ UNCHANGED <<images, exported, published, cut, importing, rest, out, staged, resizes>>

ExportHeader ==
    /\ exporting.at = "next" /\ exporting.todo # <<>>
    /\ LET name == Head(exporting.todo)
       IN /\ artifact' = artifact \o Header(name, Len(images[name]))
          /\ exporting' = [exporting EXCEPT !.at = "copy", !.len = Len(images[name]), !.copied = 0]
          /\ exported' = (name :> images[name]) @@ exported
    /\ UNCHANGED <<images, published, cut, importing, rest, out, staged, resizes>>

\* io::copy, to the end of the file as it is by then.
CopyImage ==
    /\ exporting.at = "copy"
    /\ LET bytes == images[Head(exporting.todo)]
       IN IF exporting.copied < Len(bytes)
          THEN /\ artifact' = Append(artifact, Byte(bytes[exporting.copied + 1]))
               /\ exporting' = [exporting EXCEPT !.copied = @ + 1]
          ELSE /\ exporting' = IF exporting.copied = exporting.len
                               THEN [exporting EXCEPT !.at = "next", !.todo = Tail(@)]
                               ELSE [exporting EXCEPT !.at = "failed"]
               /\ UNCHANGED artifact
    /\ UNCHANGED <<images, exported, published, cut, importing, rest, out, staged, resizes>>

\* Something else cuts an image short, or adds to it, while it is copied.
ResizeImage ==
    /\ exporting.at = "copy" /\ resizes < MaxResizes /\ resizes' = resizes + 1
    /\ LET name == Head(exporting.todo)
       IN images' \in {[images EXCEPT ![name] = Append(@, 1)]}
                      \cup (IF images[name] = <<>> THEN {} ELSE {[images EXCEPT ![name] = SubSeq(@, 1, Len(@) - 1)]})
    /\ UNCHANGED <<exporting, artifact, exported, published, cut, importing, rest, out, staged>>

\* staged_write: the file gets its name when it is whole.
FinishExport ==
    /\ exporting.at = "next" /\ exporting.todo = <<>>
    /\ exporting' = [exporting EXCEPT !.at = "done"] /\ published' = TRUE
    /\ UNCHANGED <<images, artifact, exported, cut, importing, rest, out, staged, resizes>>

\* The copy that is imported ends early.
CutArtifact ==
    /\ published /\ importing.at = "none" /\ ~cut
    /\ cut' = TRUE
    /\ \E n \in 0..(Len(artifact) - 1) : artifact' = SubSeq(artifact, 1, n)
    /\ UNCHANGED <<images, exporting, exported, published, importing, rest, out, staged, resizes>>

(***************************************************************************)
(* Import.                                                                 *)
(***************************************************************************)
LOCAL Fail == importing' = [importing EXCEPT !.at = "refused"] /\ UNCHANGED <<rest, out, staged>>
LOCAL exportSide == <<images, exporting, artifact, exported, published, cut, resizes>>

\* read_entry_header: none at the end; "broken" where the stream ends within it.
NextHeader(stream) ==
    IF stream = <<>> THEN "end"
    ELSE IF stream[1].token # "head" \/ Len(stream) < 2 THEN "broken" ELSE "header"

\* read_artifact_recipe: the magic, then a recipe of a bounded length, whole.
ReadArtifactRecipe ==
    /\ published /\ importing.at = "none"
    /\ LET body == Tail(artifact)
           ok == /\ artifact # <<>> /\ artifact[1] = Magic
                 /\ NextHeader(body) = "header" /\ body[1].name = "recipe" /\ body[1].len <= MaxRecipeLength
                 /\ Len(body) >= 2 + body[1].len
       IN IF artifact # <<>> /\ ok
          THEN /\ importing' = [importing EXCEPT !.at = "entry"]
               /\ rest' = SubSeq(body, 3 + body[1].len, Len(body))
               /\ UNCHANGED <<out, staged>>
          ELSE Fail
    /\ UNCHANGED exportSide

ImportLimit == MapThenSumSet(LAMBDA n : NamedVolumes[n], DOMAIN NamedVolumes)

\* stage_images: an image a box can hold, not twice, that the recipe names, within its limit
\* and within the limit of all.
ImportEntry ==
    /\ importing.at = "entry"
    /\ CASE NextHeader(rest) = "broken" -> Fail
         [] NextHeader(rest) = "end" ->
              IF "root" \in DOMAIN staged
              THEN importing' = [importing EXCEPT !.at = "commit"] /\ UNCHANGED <<rest, out, staged>>
              ELSE Fail
         [] OTHER ->
              LET h == rest[1]
                  ok == /\ h.name \notin DOMAIN staged /\ h.name \in DOMAIN NamedVolumes
                        /\ h.len <= NamedVolumes[h.name] /\ importing.total + h.len <= ImportLimit
              IN IF ok
                 THEN /\ importing' = [at |-> "write", name |-> h.name, len |-> h.len, total |-> importing.total + h.len]
                      /\ rest' = SubSeq(rest, 3, Len(rest)) /\ out' = NoOut
                      /\ UNCHANGED staged
                 ELSE Fail
    /\ UNCHANGED exportSide

\* Bytes written at the file's position, holes before it reading as zeros.
LOCAL WriteAt(file, bytes) ==
    LET holes == [i \in 1..(file.pos - Len(file.data)) |-> 0]
    IN [data |-> file.data \o holes \o bytes, pos |-> file.pos + Len(bytes), length |-> file.pos + Len(bytes)]

\* write_sparse_chunk: a chunk of zeros becomes a hole.
WriteSparseChunk(file, bytes) ==
    IF \A i \in DOMAIN bytes : bytes[i] = 0 THEN [file EXCEPT !.pos = @ + Len(bytes)] ELSE WriteAt(file, bytes)

\* write_sparse, one read: at most what is left of the entry, and any part of it.
WriteChunk ==
    /\ importing.at = "write"
    /\ LET left == Min({importing.len - out.pos, Len(rest), ReadLimit})
       IN /\ left > 0
          /\ \E n \in 1..left :
                /\ out' = WriteSparseChunk(out, [i \in 1..n |-> rest[i].len])
                /\ rest' = SubSeq(rest, n + 1, Len(rest))
    /\ UNCHANGED <<importing, staged, exportSide>>

\* set_len: a trailing hole is only a hole once the file is long enough to have one.
SizedTo(file, len) == SubSeq(file.data \o [i \in 1..len |-> 0], 1, len)

\* The end of the entry or of the stream: what was read must be all of it.
EndImage ==
    /\ importing.at = "write" /\ (out.pos = importing.len \/ rest = <<>>)
    /\ IF out.pos = importing.len
       THEN /\ staged' = (importing.name :> SizedTo(out, importing.len)) @@ staged
            /\ importing' = [importing EXCEPT !.at = "entry"] /\ out' = NoOut
            /\ UNCHANGED rest
       ELSE Fail
    /\ UNCHANGED exportSide

ArtifactNext ==
    \/ BeginExport \/ ExportHeader \/ CopyImage \/ ResizeImage \/ FinishExport \/ CutArtifact
    \/ ReadArtifactRecipe \/ ImportEntry \/ WriteChunk \/ EndImage
ArtifactSpec == ArtifactInit /\ [][ArtifactNext]_artifactVars

(***************************************************************************)
(* Properties.                                                             *)
(***************************************************************************)
\* An image that is staged is byte for byte the one that was exported, whatever the sizes of
\* the reads, wherever zeros are, and wherever the artifact was cut; a whole artifact brings
\* back the root and every volume that lasts and no other; and no image being written
\* passes its limit (write_artifact, stage_images, write_sparse).
ImagesAreRestored ==
    /\ \A n \in DOMAIN staged : staged[n] = exported[n]
    /\ importing.at = "commit" /\ ~cut => DOMAIN staged = Exportable
    /\ importing.at = "write" => out.pos <= NamedVolumes[importing.name]
==============================================================================
