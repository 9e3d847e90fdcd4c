------------------------------- MODULE MCHost -------------------------------
(***************************************************************************)
(* What the terra commands do to one host's boxes, for TLC: the run lock,  *)
(* the stop channel, the boxes' names, their recipes, and their storage.   *)
(* The machines share no state; a behaviour is one machine's, named by     *)
(* scenario.                                                               *)
(***************************************************************************)
EXTENDS BoxCommands, BoxRecipe, BoxStorage

VARIABLE scenario   \* the machine that runs (rigid)

allVars == <<scenario, lockVars, stopVars, namesVars, pinVars, recipeVars, storageVars,
              artifactVars>>

-----------------------------------------------------------------------------
MCClients == {1,2,3}
MCPlan == <<"rm", "start", "start">>
MCPlans == {MCPlan, <<"stop", "start", "setup">>, <<"force", "setup", "stop">>}

MCArgs == {<<"A">>, <<"_", "b">>}
MCManifests == {{<<"a">>, <<"A">>}, {<<"c", "_">>}}
MCSetUp == {{<<"a">>, <<"c", "_">>}}
MCOld == {<<"A">>, <<".", "t">>}
MCReserved == {<<"b", "b">>}
MCDevices == {<<"b">>}
MCExt == <<"y">>

Base == [workdir |-> "absolute", rootfs |-> 1, cpus |-> 1, memory |-> 2, sudo |-> {"bare"},
  readonly |-> FALSE, volumes |-> <<>>, mounts |-> <<>>, envNames |-> "plain",
  network |-> [enabled |-> TRUE, allow |-> {"net"}, ports |-> <<>>]]
Mnt(h, g, ro) == [host |-> h, guest |-> g, readonly |-> ro]
MCTexts == <<
  [Base EXCEPT !.mounts = <<Mnt("shared", "work", FALSE), Mnt("project", "src", FALSE)>>],
  [Base EXCEPT !.mounts = <<Mnt("shared", "work", TRUE), Mnt("project", "src", TRUE)>>, !.readonly = TRUE,
     !.volumes = <<[name |-> "v", size |-> 1, guest |-> "none", overlay |-> TRUE, lifetime |-> "boot"]>>],
  [Base EXCEPT !.mounts = <<Mnt("shared", "work", TRUE), Mnt("project", "work", TRUE)>>] >>
Cmd(v, a, tr, tty, dry, rb) == [verb |-> v, arg |-> a, trust |-> tr, tty |-> tty, dry |-> dry, rebuild |-> rb]
S0 == Cmd("setup", 0, FALSE, TRUE, FALSE, FALSE)
S2 == Cmd("setup", 2, TRUE, FALSE, FALSE, TRUE)
Dry == Cmd("setup", 0, FALSE, FALSE, TRUE, FALSE)
Bt == Cmd("boot", 0, FALSE, FALSE, FALSE, FALSE)
Sh == Cmd("show", 0, FALSE, FALSE, FALSE, FALSE)
MCScripts == {<<S0, S2, Bt>>, <<S0, Dry, Sh>>}
MCTargets == {<<"data">>, <<"home", "keys">>}
MCTerra == {<<"home", "terra">>}
MCBin == <<"usr", "terra">>
MCSens == {<<"home", "keys">>}

G(ps) == [rooted |-> TRUE, backslash |-> FALSE, parts |-> ps]
MCGuests == {G(<<"a">>), G(<<"a", "", "b", "..">>), G(<<"..", "b">>), [rooted |-> FALSE, backslash |-> FALSE, parts |-> <<"a">>]}
MCMounts == {m \in [mapping : BOOLEAN, merge : BOOLEAN, readonly : {"absent", "true", "false", "notBool"}, host : {"x", "y", "~other", "absent"}, guest : MCGuests] :
              m.mapping \/ (~m.merge /\ m.readonly = "absent" /\ m.host = "absent" /\ m.guest = G(<<"a">>))}
MCLines == {[kind |-> "blank", key |-> "K", value |-> "1"], [kind |-> "bad", key |-> "K", value |-> "1"]} \cup
           [kind : {"pair"}, key : {"K", "L"}, value : {"1", "2"}]
MCEnv == [k \in {"K", "L"} |-> IF k = "K" THEN "0" ELSE "unset"]

Root == {<<1, 0>>, <<0, 1, 0, 0>>, <<0, 0, 0>>}
MCImages == {("root" :> r) @@ ("v" :> v) @@ ("b" :> <<1>>) @@ ("old" :> <<1>>) : r \in Root, v \in {<<>>, <<0>>, <<1, 0, 1>>}}
MCNamed == ("root" :> 4) @@ ("v" :> 3) @@ ("b" :> 1)

-----------------------------------------------------------------------------
\* A machine that does not run has no state to speak of.
NamesOff == system = 0 /\ real = 0 /\ slugDir = 0 /\ nameCmd = 0 /\ begun = 0 /\ relinks = 0
            /\ sweptUnder = 0
PinOff == script = 0 /\ manifest = 0 /\ target = 0 /\ pinned = 0 /\ pinnedPath = 0
          /\ stamped = 0 /\ boxDir = 0 /\ holder = 0 /\ call = 0 /\ booted = 0 /\ edits = 0
TextOff == part = 0 /\ mounts = 0 /\ strict = 0 /\ lenient = 0 /\ entry = 0 /\ approved = 0
           /\ opening = 0 /\ lines = 0 /\ env = 0 /\ swaps = 0
ArtifactOff == images = 0 /\ exporting = 0 /\ artifact = 0 /\ exported = 0 /\ published = 0
               /\ cut = 0 /\ importing = 0 /\ rest = 0 /\ out = 0 /\ staged = 0
               /\ resizes = 0

MCInit ==
  /\ scenario \in {"lock", "stop", "names", "pin", "text", "storage", "artifact"}
  /\ LockInit /\ (scenario = "lock" \/ (stateDir /\ client = [c \in Clients |-> [client[c] EXCEPT !.plan = MCPlan[c]]]))
  /\ StopInit
  /\ IF scenario = "names" THEN NamesInit ELSE NamesOff
  /\ IF scenario = "pin" THEN PinInit ELSE PinOff
  /\ IF scenario = "text" THEN RecipeInit ELSE TextOff
  /\ StorageInit /\ (scenario = "storage" \/ disk = Absent)
  /\ IF scenario = "artifact" THEN ArtifactInit ELSE ArtifactOff

MCNext ==
  \/ /\ scenario = "lock" /\ LockNext
     /\ UNCHANGED <<scenario, stopVars, namesVars, pinVars, recipeVars, storageVars, artifactVars>>
  \/ /\ scenario = "stop" /\ StopNext
     /\ UNCHANGED <<scenario, lockVars, namesVars, pinVars, recipeVars, storageVars, artifactVars>>
  \/ /\ scenario = "names" /\ NamesNext
     /\ UNCHANGED <<scenario, lockVars, stopVars, pinVars, recipeVars, storageVars, artifactVars>>
  \/ /\ scenario = "pin" /\ PinNext
     /\ UNCHANGED <<scenario, lockVars, stopVars, namesVars, recipeVars, storageVars, artifactVars>>
  \/ /\ scenario = "text" /\ RecipeNext
     /\ UNCHANGED <<scenario, lockVars, stopVars, namesVars, pinVars, storageVars, artifactVars>>
  \/ /\ scenario = "storage" /\ StorageNext
     /\ UNCHANGED <<scenario, lockVars, stopVars, namesVars, pinVars, recipeVars, artifactVars>>
  \/ /\ scenario = "artifact" /\ ArtifactNext
     /\ UNCHANGED <<scenario, lockVars, stopVars, namesVars, pinVars, recipeVars, storageVars>>

MCSpec == MCInit /\ [][MCNext]_allVars

-----------------------------------------------------------------------------
\* A box's name, its origin, its recipe and its images are what they were made to be:
\* every box has a name of its own (names.rs), a boot runs the recipe its root was set up
\* for (start.rs), the shares and the env file are those the recipe's text declares
\* (recipe.rs), an exported image comes back byte for byte (storage.rs), and a stop is sent
\* once and to the box's own process (stop.rs, StopIsSentOnce, OnlyTheBoxIsSignalled).
BoxesAreAsMade ==
  /\ scenario = "names" => BoxesAreListed /\ NamedBoxIsReached /\ BoxesHaveTheirOrigin
  /\ scenario = "pin" => BootRunsItsSetup
  /\ scenario = "text" => SharesAreDeclared /\ EnvFileIsTheApprovedOne
  /\ scenario = "artifact" => ImagesAreRestored
  /\ OnlyTheBoxIsSignalled /\ StopIsSentOnce
=============================================================================
