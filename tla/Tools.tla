------------------------------- MODULE Tools -------------------------------
(***************************************************************************)
(* What is run beside the campaign, in one model: the export for analytics *)
(* with its mirror, the inventory of packages, source pins, benchmarks,    *)
(* the check of the caches, prefixes, and landing and release.  A          *)
(* behaviour is one of one tool, while the others are off.                 *)
(***************************************************************************)
EXTENDS Analytics, Inventory, SourcePin, Bench, CacheCheck, Prefix, Landing, TLC

VARIABLE tool

\* A pair of attributes that differ in a clue for assembly, and a kernel.
MCNames == <<"wrapped", "wrapped-asm", "linux", "asm">>
MCTraits ==
  "wrapped" :> {"sourceless", "c-clue"} @@
  "wrapped-asm" :> {"sourceless", "c-clue", "assembly"} @@
  "linux" :> {"kernel", "shared"} @@ "asm" :> {"assembly", "mixed-input"}
MCSourceNames == <<"clang", "runtime">>

\* A disk image of the swa cache that needs a program, or that a program needs.
MCAttrOrders == {<<"image", "app">>, <<"app", "image">>}
MCRootsOf == "image" :> {"img"} @@ "app" :> {"bin"}
MCRefChoices ==
  { "img" :> {"bin"} @@ "bin" :> {"lib"} @@ "lib" :> {"lib"},
    "img" :> {"img", "lib"} @@ "bin" :> {"img", "lib"} @@ "lib" :> {} }
MCPublishable ==
  {<<"swa", "img">>, <<"filc", "img">>, <<"filc", "bin">>, <<"nixos", "lib">>}

MCMerge == <<"m1", "m2">>
MCSeparate == <<"o">>
MCDirectoryNames == "o" :> "prefix/s/o"
MCAlias == {"alias"}
Leaves ==
  { [kind |-> "file", data |-> "text", mode |-> "r"],
    [kind |-> "file", data |-> "text", mode |-> "x"],
    [kind |-> "file", data |-> "m1", mode |-> "r"],
    [kind |-> "file", data |-> "alias", mode |-> "r"],
    [kind |-> "file", data |-> "gone", mode |-> "r"],
    [kind |-> "link", data |-> "m1"], [kind |-> "link", data |-> "m2"],
    [kind |-> "link", data |-> "o"] }
NoEntry == [kind |-> "none"]
Tree(x, y) == [at \in {"x", "x/y"} |-> IF at = "x" THEN x ELSE y]
MCMergedTrees ==
  {Tree(x, NoEntry) : x \in Leaves \cup {NoEntry}}
    \cup {Tree([kind |-> "dir"], y) : y \in Leaves \cup {NoEntry}}
MCSeparateTrees == {Tree(x, NoEntry) : x \in {y \in Leaves : y.kind = "file"}}

\* The harnesses are alike: the second one is given what the other may be too.
MCGiven == "h1" :> {"run", "check", "profile", "service"} @@ "h2" :> {"run", "service"}
\* One lander with a tested commit and one who rebases; the check has two steps.
MCModes == "l1" :> "exact" @@ "l2" :> "rebase"
MCShardSteps == <<<<{"s1", "s2"}>>, <<{"s1"}, {"s2"}>>>>
MCJobChoices ==
  { [n |-> 2, roots |-> {"rocq"}], [n |-> 2, roots |-> {"rocq-full"}],
    [n |-> 0, roots |-> {"rocq"}] }

\* Another writer has the prefix: no service does anything.
AnalyticsOff ==
  /\ history = <<[FirstSource EXCEPT !.live = FALSE]>> /\ spool = {} /\ lock = Nothing
  /\ db = [index |-> [k \in Key |-> Absent], changes |-> <<>>, events_seq |-> 0,
           log_cursor |-> 0, revision |-> 0, generation |-> NoGeneration,
           remote_seen |-> FALSE, pending |-> NoPending]
  /\ remote = [objects |-> {}, latest |-> Foreign, manifests |->
                 WithManifest(<<>>, Foreign,
                   [generation |-> Foreign, parent |-> NoGeneration, files |-> {}, at |-> 0])]
  /\ proc = [p \in Process |-> Off]
  /\ share = [objects |-> {}, manifests |-> <<>>, latest |-> NoGeneration]
  /\ mirror = Resting /\ crashes = MaxCrashes
InventoryOff ==
  /\ pin = 1 /\ runFile = NoDirectory /\ lines = <<>> /\ tail = <<>> /\ pc = "off"
  /\ left = <<>> /\ batches = <<>> /\ buffer = <<>>
  /\ manifest = NoManifest /\ alone = {} /\ runs = MaxRuns

CheckOff ==
  /\ attrs = <<>> /\ refs = <<>> /\ content = {} /\ began = {} /\ learnt = <<>> /\ absent = {}
  /\ wave = NoLevel("outputs") /\ verdicts = <<>> /\ exit = "off"
PrefixOff ==
  /\ trees = [p \in PrefixPaths |-> Tree(NoEntry, NoEntry)]
  /\ copying = <<>> /\ out = <<>> /\ inodes = <<>> /\ sharing = <<>>
  /\ conflicts = {} /\ rewriting = <<>> /\ unknown = {}
LandingOff ==
  /\ main = <<>> /\ ship = [l \in Lander |-> [pc |-> "done", head |-> <<>>, sha |-> <<>>]]
  /\ landed = {} /\ cachedAt = {} /\ goodAt = {} /\ fleet = NoFleet /\ receipts = {}
  /\ reports = 0 /\ fleets = MaxFleets /\ tagged = {}

ToolsInit ==
  /\ tool \in {"analytics", "inventory", "pin", "bench", "check", "prefix", "landing"}
  /\ IF tool = "analytics" THEN Init ELSE AnalyticsOff
  /\ IF tool = "inventory" THEN InventoryInit ELSE InventoryOff
  /\ IF tool = "check" THEN CheckInit ELSE CheckOff
  /\ IF tool = "prefix" THEN PrefixInit ELSE PrefixOff
  /\ IF tool = "landing" THEN LandingInit ELSE LandingOff
  /\ PinInit /\ BenchInit

\* All tools but t stand still.
Only(t) ==
  /\ tool = t /\ UNCHANGED tool
  /\ IF t = "analytics" THEN TRUE ELSE UNCHANGED vars
  /\ IF t = "inventory" THEN TRUE ELSE UNCHANGED inventoryVars
  /\ IF t = "pin" THEN TRUE ELSE UNCHANGED pinVars
  /\ IF t = "bench" THEN TRUE ELSE UNCHANGED benchVars
  /\ IF t = "check" THEN TRUE ELSE UNCHANGED checkVars
  /\ IF t = "prefix" THEN TRUE ELSE UNCHANGED prefixVars
  /\ IF t = "landing" THEN TRUE ELSE UNCHANGED landingVars

ToolsNext ==
  \/ Only("analytics") /\ Next
  \/ Only("inventory") /\ InventoryNext
  \/ Only("pin") /\ PinNext
  \/ Only("bench") /\ BenchNext
  \/ Only("check") /\ CheckNext
  \/ Only("prefix") /\ PrefixNext
  \/ Only("landing") /\ LandingNext

toolsVars ==
  <<tool, vars, inventoryVars, pinVars, benchVars, checkVars, prefixVars, landingVars>>

\* The fair actions of the export are not enabled while it is off.
ToolsSpec == ToolsInit /\ [][ToolsNext]_toolsVars /\ Fairness

\* Scripts that are killed, fail or overlap leave files that are whole or known
\* not to be: the inventory, the pin of the sources and the assembled prefix.
FilesUsable ==
  /\ FileReadable /\ CompleteMeansAll /\ ErrorsIsolated /\ AssemblyNeutral
  /\ AcceptedIsExact /\ PinUsable /\ WorktreesRemoved
  /\ PrefixExact /\ LossesReported

\* What a script concludes was found out about the very thing it concludes it
\* of: the measured server, the cached closure, the tested and landed commit.
VerdictsEarned ==
  /\ MeasuredIsOwn /\ OneMeasurement /\ PassedIsClean /\ ServersStopped
  /\ CachedIsComplete /\ MissingIsReal
  /\ ReceiptIsSound /\ LandedIsCached /\ LandedIsTested /\ ReleaseIsProven
=============================================================================
