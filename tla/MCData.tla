------------------------------- MODULE MCData -------------------------------
(***************************************************************************)
(* What a box moves and keeps, for TLC: copies into guest memory and the   *)
(* rings, the shares of the host, the formats of frames, messages and      *)
(* images, file synchronisation, and the assembly of a box with its memory *)
(* limits. The machines share no state; a behaviour is one machine's,      *)
(* named by scenario.                                                      *)
(***************************************************************************)
EXTENDS GuestMemory, HostShares, WireFormats, FileSync, BoxAssembly, TLC

VARIABLE scenario   \* the machine that runs (rigid)

allVars == <<scenario, copyVars, ringVars, nodeVars, dirVars, descVars, shareVars, pathVars,
              frameVars, messageVars, imageVars, planVars, syncVars, scanSideVars,
              nameVars, linkVars, bootVars, asmVars, storeVars>>

-----------------------------------------------------------------------------
MCRegions == {[base |-> 0, size |-> 8], [base |-> 10, size |-> 4]}
MCRanges == {[addr |-> a, len |-> l] : a \in {0,2,7,10,15}, l \in {0,4,6}}

Descs == [next : {0, 1, 3, 4}, hasNext : {TRUE}, allowed : {TRUE}] \cup {[next |-> 0, hasNext |-> TRUE, allowed |-> FALSE], PlainDescriptor}
MCTables == [0..3 -> Descs]

Kind(f) == CASE f \in {"f1","f2"} -> "file" [] f = "d1" -> "dir" [] f = "d2" -> "dir" [] OTHER -> "link"
First == {[a |-> x, b |-> "nothing"] : x \in {"f1","d1"}}

MCListing(d) == IF d = 1 THEN <<"a","cc","d">> ELSE <<"e">>
MCLength(n) == IF n = "cc" THEN 9 ELSE 1

MCPlaces == {[p |-> [up |-> "root", name |-> "a"], q |-> [up |-> "root", name |-> "b"]]}

Run(p, stride, len, k) == [peer |-> p, stride |-> stride, bytes |-> [i \in 1..len |-> IF stride = 0 THEN k ELSE 10*k + (i - 1) \div stride]]
DatagramsKinds == {<<"a",2,4>>, <<"a",2,3>>, <<"b",1,2>>, <<"a",0,0>>, <<"b",3,3>>}
Downs == { LET rs == [i \in 1..Len(k) |-> Run(k[i][1], k[i][2], k[i][3], i)] IN [way |-> "down", reads |-> rs, all |-> rs] :
            k \in [1..3 -> DatagramsKinds] }
UKinds == {<<"a",1>>, <<"a",2>>, <<"a",0>>, <<"b",1>>}
Ups == { LET rs == [i \in 1..Len(k) |-> Run(k[i][1], k[i][2], k[i][2], i)] IN [way |-> "up", reads |-> rs, all |-> rs] :
            k \in [1..4 -> UKinds] }

D(m,t) == [kind |-> "dir", data |-> 0, mode |-> m, mtime |-> t]
F(d,m,t) == [kind |-> "file", data |-> d, mode |-> m, mtime |-> t]
L(d) == [kind |-> "link", data |-> d, mode |-> 0, mtime |-> 1]
Opt(p, es) == {<<>>} \cup {(p :> e) : e \in es}
Cat(xs, ys) == {(IF x = <<>> THEN (IF y = <<>> THEN <<>> ELSE y) ELSE IF y = <<>> THEN x ELSE x @@ y) : x \in xs, y \in ys}
PlanRoot(es) == {(<<>> :> e) : e \in es}
Size(d) == IF d = 3 THEN 2 ELSE 1
SubTrees(ds) == {<<>>} \cup Cat({(<<"d">> :> e) : e \in ds}, Cat(Opt(<<"d","f">>, {F(1,0,1),F(3,1,2)}), Opt(<<"d","e">>, {D(0,1)})))
 \cup {(<<"d">> :> F(1,0,1))}
Trees == Cat(PlanRoot({D(1,2)}), Cat(SubTrees({D(1,1)}), Opt(<<"g">>, {L(1),F(1,0,1)})))
Single == PlanRoot({F(1,0,1), F(2,0,2), L(1)})
MCSource == Trees \cup Single
MCTarget == Cat(PlanRoot({D(0,1)}), Cat(SubTrees({D(0,1)}), Opt(<<"g">>, {L(1),F(1,0,2)}))) \cup Single \cup {<<>>}

MCEndpoints == {[prefix |-> "box", rest |-> "absolute", trailing |-> t] : t \in BOOLEAN}
   \cup {[prefix |-> "plain", rest |-> "relative", trailing |-> t] : t \in BOOLEAN}
   \cup {[prefix |-> "box", rest |-> "slashes", trailing |-> TRUE], [prefix |-> "named", rest |-> "absolute", trailing |-> FALSE]}
MCSourcePaths == {<<"s">>, <<"s","x">>, <<"s","x","y">>}
MCDestPaths == {<<"d">>, <<"d","x">>, <<"d","s">>, <<"d","s","x">>}
LOCAL T(paths, f) == [p \in paths |-> IF p \in DOMAIN f THEN f[p] ELSE "none"]
MCSources == {T(MCSourcePaths, f) : f \in {
   [p \in {<<"s">>} |-> "file"], [p \in {<<"s">>} |-> "link"], [p \in MCSourcePaths |-> IF Len(p) = 3 THEN "file" ELSE "dir"]}}
MCDests == {T(MCDestPaths, f) : f \in {
   [p \in {} |-> "none"], [p \in {<<"d">>} |-> "file"],  
   [p \in {<<"d">>, <<"d","x">>, <<"d","s">>} |-> IF p = <<"d","x">> THEN "file" ELSE "dir"]}}
MCSourceBase == <<"s">>
MCDestBase == <<"d">>

MCOrder == << <<>>, <<"a">>, <<"a","c">> >>
MCSets == {{"a"}, {"a","A"}, {"c","C"}, {"c","x"}}
Fold(n) == CASE n = "A" -> "a" [] n = "C" -> "c" [] OTHER -> n

MCPaths == {<<"a">>, <<"A">>, <<"d","c">>}
LinksT(ps) == [rooted |-> FALSE, parts |-> ps]
MCTargets == {LinksT(<<"A">>), LinksT(<<"..","a">>), LinksT(<<"d", "..", "..">>), [rooted |-> TRUE, parts |-> <<"a">>]}
LinksFold(n) == IF n = "A" THEN "a" ELSE n

H(off, addr, file, mem) == [off |-> off, addr |-> addr, file |-> file, mem |-> mem, load |-> TRUE]
Elf(entry, headers) == [format |-> "elf64", prefix |-> 40, words |-> 60, entry |-> entry,
  headers |-> headers, mem |-> 0, fdt |-> 0]
Arm(text, words, mem, fdt) == [format |-> "arm64", prefix |-> 40, words |-> words, entry |-> text,
  headers |-> <<>>, mem |-> mem, fdt |-> fdt]
M == 131072
Addrs == {M, M + 20, M + 40, 2 * M - 8, M - 8}
Headers == {<<H(0, M, 20, 20)>>} \cup
  {<<H(0, a, 20, m), H(20, b, 30, 30)>> : a \in Addrs, b \in Addrs, m \in {20, 40}}
X86Machines ==
  {[arch |-> "x86", ram |-> r, vcpus |-> v, blocks |-> b, shares |-> s, line |-> 250,
    kernel |-> Elf(e, h)] :
    r \in {M, M + 512, 2 * M, X86MmioBase, X86MmioBase + 512}, v \in {1, 32}, b \in {2}, s \in {1}, e \in {M, M + 45},
    h \in Headers}
  \cup
  {[arch |-> "x86", ram |-> 2 * M, vcpus |-> 1, blocks |-> b, shares |-> s, line |-> l,
    kernel |-> Elf(M, <<H(0, M, 20, 20)>>)] :
    b \in 1..36, s \in {0, 1, 5, 34}, l \in {250, 700}}
ArmMachines ==
  {[arch |-> "arm", ram |-> r, vcpus |-> v, blocks |-> b, shares |-> 2, line |-> 250,
    kernel |-> Arm(t, 60, m, f)] :
    r \in {FdtAlignment - 512, FdtAlignment, 2 * FdtAlignment + 1024, 3 * FdtAlignment}, v \in {1, 32, 33}, b \in {1, 12, 13},
    t \in {0, 65536}, m \in {40, 60, 300000, FdtAlignment}, f \in {50, MaxWriteWords, MaxWriteWords + 1}}
MCMachines == X86Machines \cup ArmMachines

\* Boxes with few devices and with as many as fit, and one more.
DeviceCounts == {<<2, 0>>, <<3, 2>>, <<2, 12>>, <<2, 13>>, <<2, 33>>, <<2, 34>>}
MCBoxes == {[arch |-> a, ram |-> 2 * 131072, blocks |-> n[1], shares |-> n[2], vcpus |-> v, online |-> o, ports |-> p,
  files |-> f] : a \in {"x86", "arm"}, n \in DeviceCounts, v \in {1, 3}, o \in BOOLEAN, p \in BOOLEAN, f \in {150, 256, 1024}}

-----------------------------------------------------------------------------
\* A machine that does not run has no state to speak of.
CopiesOff == ram = 0 /\ copy = 0 /\ guestStored = 0
RingOff == avail = 0 /\ used = 0 /\ descriptors = 0 /\ driverSide = 0 /\ deviceSide = 0
           /\ postedChains = 0 /\ ringPosts = 0 /\ walkCase = 0
NodeOff == nodeEntry = 0 /\ nodes = 0 /\ req = 0 /\ openFiles = 0 /\ resized = 0
           /\ requests = 0 /\ hostChanges = 0
DirectoryOff == dirRead = 0 /\ cache = 0 /\ reserved = 0 /\ cacheUsed = 0 /\ dirReader = 0
                /\ vanished = 0
ShareOff == place = 0 /\ shareCall = 0 /\ brokerLock = 0 /\ brokerRequests = 0
            /\ brokerReplies = 0 /\ brokerAlive = 0 /\ shareBroker = 0 /\ changed = 0
            /\ callsMade = 0 /\ hostRenames = 0
DatagramsOff == pathScript = 0 /\ arrived = 0 /\ pathLeft = 0 /\ batch = 0 /\ wire = 0
                /\ decoder = 0 /\ minimum = 0 /\ pathOut = 0 /\ failed = 0
FramesOff == stream = 0 /\ sentFrames = 0 /\ gotFrames = 0 /\ decoding = 0 /\ altered = 0
MessagesOff == messages = 0 /\ channel = 0 /\ received = 0 /\ readResult = 0
               /\ messageEnded = 0
ImageOff == container = 0 /\ packedLength = 0 /\ packedSizes = 0 /\ broken = 0
            /\ damaged = 0 /\ parsed = 0 /\ cachedIndex = 0 /\ cachedBytes = 0
            /\ reading = 0 /\ reads = 0
PlanOff == options = 0 /\ planSource = 0 /\ target0 = 0 /\ planTarget = 0 /\ syncing = 0
           /\ planWork = 0 /\ stats = 0
FileOff == direction = 0 /\ original = 0 /\ fileCopy = 0 /\ hostEnd = 0 /\ fileAgentEnd = 0
           /\ fileWire = 0 /\ halt = 0 /\ misread = 0
ScanOff == scanAsked = 0 /\ trees = 0 /\ at = 0 /\ scanUpload = 0 /\ seen = 0
           /\ scanSession = 0 /\ root = 0 /\ walk = 0 /\ manifests = 0 /\ steady = 0
           /\ treeChanges = 0
NamesOff == existing = 0 /\ setting = 0 /\ inherit = 0 /\ sought = 0 /\ missingAbove = 0
            /\ probes = 0 /\ making = 0 /\ inserted = 0 /\ probeAt = 0 /\ mtime = 0
            /\ cleaned = 0 /\ probeFaults = 0
LinksOff == guestTree = 0 /\ hostTree = 0 /\ verdict = 0
BootOff == bootInput = 0 /\ bootStage = 0 /\ bootPlan = 0 /\ planPart = 0 /\ partCopied = 0
           /\ guestRam = 0
AssemblyOff == box = 0 /\ stage = 0 /\ asmTodo = 0 /\ registered = 0 /\ channels = 0
               /\ registry = 0 /\ workers = 0 /\ controller = 0 /\ agent = 0 /\ grants = 0
               /\ teardown = 0 /\ machine = 0 /\ limited = 0

MCInit ==
  /\ scenario \in {"copies", "ring", "node", "directory", "descriptors", "share", "datagrams", "frames", "messages", "image", "plan", "file", "scan", "names", "links", "boot", "assembly", "store"}
  /\ IF scenario = "copies" THEN CopyInit ELSE CopiesOff
  /\ IF scenario = "ring" THEN RingInit ELSE RingOff
  /\ IF scenario = "node" THEN NodeInit ELSE NodeOff
  /\ IF scenario = "directory" THEN DirInit ELSE DirectoryOff
  /\ DescInit
  /\ IF scenario = "share" THEN ShareInit ELSE ShareOff
  /\ IF scenario = "datagrams" THEN PathInit ELSE DatagramsOff
  /\ IF scenario = "frames" THEN FrameInit ELSE FramesOff
  /\ IF scenario = "messages" THEN MessageInit ELSE MessagesOff
  /\ IF scenario = "image" THEN ImageInit ELSE ImageOff
  /\ IF scenario = "plan" THEN PlanInit ELSE PlanOff
  /\ IF scenario = "file" THEN FileSyncInit ELSE FileOff
  /\ IF scenario = "scan" THEN ScanSideInit ELSE ScanOff
  /\ IF scenario = "names" THEN ProbesInit ELSE NamesOff
  /\ IF scenario = "links" THEN LinksInit ELSE LinksOff
  /\ IF scenario = "boot" THEN BootInit ELSE BootOff
  /\ IF scenario = "assembly" THEN AsmInit ELSE AssemblyOff
  /\ StoreInit

MCNext ==
  \/ /\ scenario = "copies" /\ CopyNext
     /\ UNCHANGED <<scenario, ringVars, nodeVars, dirVars, descVars, shareVars, pathVars, frameVars, messageVars, imageVars, planVars, syncVars, scanSideVars, nameVars, linkVars, bootVars, asmVars, storeVars>>
  \/ /\ scenario = "ring" /\ RingNext
     /\ UNCHANGED <<scenario, copyVars, nodeVars, dirVars, descVars, shareVars, pathVars, frameVars, messageVars, imageVars, planVars, syncVars, scanSideVars, nameVars, linkVars, bootVars, asmVars, storeVars>>
  \/ /\ scenario = "node" /\ NodeNext
     /\ UNCHANGED <<scenario, copyVars, ringVars, dirVars, descVars, shareVars, pathVars, frameVars, messageVars, imageVars, planVars, syncVars, scanSideVars, nameVars, linkVars, bootVars, asmVars, storeVars>>
  \/ /\ scenario = "directory" /\ DirNext
     /\ UNCHANGED <<scenario, copyVars, ringVars, nodeVars, descVars, shareVars, pathVars, frameVars, messageVars, imageVars, planVars, syncVars, scanSideVars, nameVars, linkVars, bootVars, asmVars, storeVars>>
  \/ /\ scenario = "descriptors" /\ DescNext
     /\ UNCHANGED <<scenario, copyVars, ringVars, nodeVars, dirVars, shareVars, pathVars, frameVars, messageVars, imageVars, planVars, syncVars, scanSideVars, nameVars, linkVars, bootVars, asmVars, storeVars>>
  \/ /\ scenario = "share" /\ ShareNext
     /\ UNCHANGED <<scenario, copyVars, ringVars, nodeVars, dirVars, descVars, pathVars, frameVars, messageVars, imageVars, planVars, syncVars, scanSideVars, nameVars, linkVars, bootVars, asmVars, storeVars>>
  \/ /\ scenario = "datagrams" /\ PathNext
     /\ UNCHANGED <<scenario, copyVars, ringVars, nodeVars, dirVars, descVars, shareVars, frameVars, messageVars, imageVars, planVars, syncVars, scanSideVars, nameVars, linkVars, bootVars, asmVars, storeVars>>
  \/ /\ scenario = "frames" /\ FrameNext
     /\ UNCHANGED <<scenario, copyVars, ringVars, nodeVars, dirVars, descVars, shareVars, pathVars, messageVars, imageVars, planVars, syncVars, scanSideVars, nameVars, linkVars, bootVars, asmVars, storeVars>>
  \/ /\ scenario = "messages" /\ MessageNext
     /\ UNCHANGED <<scenario, copyVars, ringVars, nodeVars, dirVars, descVars, shareVars, pathVars, frameVars, imageVars, planVars, syncVars, scanSideVars, nameVars, linkVars, bootVars, asmVars, storeVars>>
  \/ /\ scenario = "image" /\ ImageNext
     /\ UNCHANGED <<scenario, copyVars, ringVars, nodeVars, dirVars, descVars, shareVars, pathVars, frameVars, messageVars, planVars, syncVars, scanSideVars, nameVars, linkVars, bootVars, asmVars, storeVars>>
  \/ /\ scenario = "plan" /\ PlanNext
     /\ UNCHANGED <<scenario, copyVars, ringVars, nodeVars, dirVars, descVars, shareVars, pathVars, frameVars, messageVars, imageVars, syncVars, scanSideVars, nameVars, linkVars, bootVars, asmVars, storeVars>>
  \/ /\ scenario = "file" /\ FileSyncNext
     /\ UNCHANGED <<scenario, copyVars, ringVars, nodeVars, dirVars, descVars, shareVars, pathVars, frameVars, messageVars, imageVars, planVars, scanSideVars, nameVars, linkVars, bootVars, asmVars, storeVars>>
  \/ /\ scenario = "scan" /\ ScanSideNext
     /\ UNCHANGED <<scenario, copyVars, ringVars, nodeVars, dirVars, descVars, shareVars, pathVars, frameVars, messageVars, imageVars, planVars, syncVars, nameVars, linkVars, bootVars, asmVars, storeVars>>
  \/ /\ scenario = "names" /\ ProbesNext
     /\ UNCHANGED <<scenario, copyVars, ringVars, nodeVars, dirVars, descVars, shareVars, pathVars, frameVars, messageVars, imageVars, planVars, syncVars, scanSideVars, linkVars, bootVars, asmVars, storeVars>>
  \/ /\ scenario = "links" /\ LinksNext
     /\ UNCHANGED <<scenario, copyVars, ringVars, nodeVars, dirVars, descVars, shareVars, pathVars, frameVars, messageVars, imageVars, planVars, syncVars, scanSideVars, nameVars, bootVars, asmVars, storeVars>>
  \/ /\ scenario = "boot" /\ BootNext
     /\ UNCHANGED <<scenario, copyVars, ringVars, nodeVars, dirVars, descVars, shareVars, pathVars, frameVars, messageVars, imageVars, planVars, syncVars, scanSideVars, nameVars, linkVars, asmVars, storeVars>>
  \/ /\ scenario = "assembly" /\ AsmNext
     /\ UNCHANGED <<scenario, copyVars, ringVars, nodeVars, dirVars, descVars, shareVars, pathVars, frameVars, messageVars, imageVars, planVars, syncVars, scanSideVars, nameVars, linkVars, bootVars, storeVars>>
  \/ /\ scenario = "store" /\ StoreNext
     /\ UNCHANGED <<scenario, copyVars, ringVars, nodeVars, dirVars, descVars, shareVars, pathVars, frameVars, messageVars, imageVars, planVars, syncVars, scanSideVars, nameVars, linkVars, bootVars, asmVars>>

MCSpec == MCInit /\ [][MCNext]_allVars

-----------------------------------------------------------------------------
\* Bytes go where they should: copies are exact, rings deliver each chain once, datagrams,
\* frames and messages arrive as they were sent, and an image reads as it was packed.
BytesArrive ==
  /\ scenario = "copies" => CopiesAreExact
  /\ scenario = "ring" => RingDeliversOnce /\ WalksAreChains
  /\ scenario = "datagrams" => DatagramsArriveAsSent
  /\ scenario = "frames" => FramesAreCanonical
  /\ scenario = "messages" => MessagesArriveWhole
  /\ scenario = "image" => ReadsAreExact

\* A share's nodes, listings and changes are about the files the guest asked for, whatever
\* the host does to the tree meanwhile.  A synchronisation plans from the trees, leaves
\* the target as the source was, copies a file whole or not at all, and neither its probes
\* nor its links leave the target.
FilesHold ==
  /\ scenario = "node" => NodesKeepTheirFile
  /\ scenario = "directory" => ListingsAreWhole
  /\ scenario = "share" => ChangesStayInPlace
  /\ scenario = "plan" => SyncArrives /\ PlanCanRun
  /\ scenario = "file" => CopyIsWhole
  /\ scenario = "scan" => PlansRestOnTheTrees
  /\ scenario = "names" => NamesAreComparedAsPlaced /\ ProbesLeaveNoTrace
  /\ scenario = "links" => LinksStayInside

\* A box boots with the memory and the devices that were laid out for it, what was
\* granted before a failure is torn down, and a store's memory is charged to its box.
BoxesAreAssembled ==
  /\ scenario = "boot" => BootMemoryIsAsPlanned /\ DevicesAreApart
  /\ scenario = "assembly" => AssembledAsLaidOut /\ GrantsAreTornDown
  /\ scenario = "store" => MemoryIsCharged
=============================================================================
