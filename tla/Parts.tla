------------------------------- MODULE Parts -------------------------------
(***************************************************************************)
(* The parts of the experiment that share no state with the campaign or    *)
(* with each other, checked in one model: a behaviour is one of one part,  *)
(* while the others are off, in a state without a step.                    *)
(*                                                                         *)
(* The search gets every graph over six edges, a cycle among them, every   *)
(* target set and every set of valid paths, for a root with two outputs, a *)
(* library with two outputs of which the branches need different ones, a   *)
(* source whose path is not recorded, and a derivation without outputs.    *)
(* The lanes have the deployed limits (four jobs of seven cores on thirty  *)
(* CPUs), with a client of an older policy draining.                       *)
(***************************************************************************)
EXTENDS NeededSearch, Lanes, RankingCache, Forest, History, Timeline,
        SchemaUpgrade, LivePage, BuildEvidence, ControlSocket, TLC

VARIABLE part

MCDrv == {"root", "lib", "src", "ghost"}
MCOutName == {"out", "dev"}
MCPath == {"root-out", "lib-out", "lib-dev"}
MCOutputs ==
  ("root" :> ("out" :> "root-out")) @@
  ("lib" :> ("out" :> "lib-out" @@ "dev" :> "lib-dev")) @@
  ("src" :> ("out" :> "NoPath")) @@
  ("ghost" :> <<>>)
MCEdgeChoices ==
  { <<"root", "lib", {"out"}>>, <<"root", "lib", {"dev"}>>,
    <<"root", "ghost", {}>>, <<"ghost", "lib", {"dev"}>>,
    <<"lib", "src", {"out"}>>, <<"lib", "root", {"out"}>> }

MCLegacyLimits ==
  { [remote |-> FALSE, jobs |-> 4, cores |-> 6],
    [remote |-> FALSE, jobs |-> 4, cores |-> 5],
    [remote |-> FALSE, jobs |-> 1, cores |-> 30] }

MCParentChoices == {<<1, 2>>, <<2, 3>>, <<2, 4>>, <<3, 4>>, <<3, 5>>, <<4, 5>>}
MCRootChoices == {{4, 5}}
MCScopeChoices == {Node, Node \ {3}}

MCSchemaTables == <<"campaigns", "derivations", "classifications">>
MCStep == <<"dep", "root">>

MCOpChoices == {"c1" :> "retry" @@ "c2" :> other : other \in {"cancel", "import"}}

NeededOff == edges = {} /\ targets = {} /\ available = {} /\ todo = {} /\ needed = {}
LanesOff ==
  /\ policy = [ahead |-> 0, lanes |-> 1, rolling |-> FALSE]
  /\ active = {} /\ limits = [a \in Attempt |-> NoLimits] /\ slots = 0
RankingOff ==
  /\ version = 1 /\ cache = [from |-> 1, to |-> 1] /\ fresh = FALSE
  /\ refreshing = FALSE /\ lock = FALSE /\ failed = 0
  /\ reader = [r \in Reader |-> [Rest EXCEPT !.pc = "off"]]
  /\ walker = [w \in Walker |-> NoWalk]
ForestOff ==
  /\ above = {} /\ roots = {} /\ scope = {} /\ live = <<>> /\ turn = 1 /\ search = <<>>
  /\ seen = {} /\ asked = {} /\ placed = <<>> /\ detached = {}
TimelineOff == life = [e \in Entry |-> [created |-> 0, finished |-> 0]] /\ window = 0
SchemaOff ==
  /\ userVersion = 6 /\ tables = TableSet /\ columns = LaterColumns /\ held = "nobody"
  /\ opener = [o \in Opener |-> [pc |-> "done", version |-> 0]]
PageOff ==
  /\ campaign = [revision |-> MaxRevision, done |-> TRUE, since |-> 1, again |-> FALSE]
  /\ region = [r \in Region |-> [pc |-> "stopped", shown |-> MaxRevision, read |-> NoSnap]]
  /\ events = [pc |-> "off", previous |-> 0, read |-> NoSnap] /\ lost = 0

EvidenceOff ==
  /\ before = {} /\ realized = {} /\ builder = [d \in Steps |-> Idle] /\ records = <<>>
  /\ cut = FALSE /\ activities = [d \in Steps |-> NoRow] /\ taken = 0
  /\ reason = "off" /\ verdict = [d \in Steps |-> "open"]

ControlOff ==
  /\ op = [c \in Client |-> "retry"] /\ owner = "controller" /\ socket = "none" /\ waitingIn = <<>>
  /\ server = NotServing /\ client = [c \in Client |-> "left"]
  /\ applied = [c \in Client |-> 0] /\ kills = MaxKills

PartsInit ==
  /\ part \in {"needed", "lanes", "ranking", "forest", "history", "timeline",
               "schema", "page", "evidence", "control"}
  /\ IF part = "needed" THEN Init ELSE NeededOff
  /\ IF part = "lanes" THEN LanesInit ELSE LanesOff
  /\ IF part = "ranking" THEN RankingInit ELSE RankingOff
  /\ IF part = "forest" THEN ForestInit ELSE ForestOff
  /\ IF part = "timeline" THEN TimelineInit ELSE TimelineOff
  /\ IF part = "schema" THEN SchemaInit ELSE SchemaOff
  /\ IF part = "page" THEN PageInit ELSE PageOff
  /\ IF part = "evidence" THEN EvidenceInit ELSE EvidenceOff
  /\ IF part = "control" THEN ControlInit ELSE ControlOff
  /\ HistoryInit

\* All parts but p stand still.
Only(p) ==
  /\ part = p /\ UNCHANGED part
  /\ IF p = "needed" THEN TRUE ELSE UNCHANGED vars
  /\ IF p = "lanes" THEN TRUE ELSE UNCHANGED lanesVars
  /\ IF p = "ranking" THEN TRUE ELSE UNCHANGED rankingVars
  /\ IF p = "forest" THEN TRUE ELSE UNCHANGED forestVars
  /\ IF p = "history" THEN TRUE ELSE UNCHANGED historyVars
  /\ IF p = "schema" THEN TRUE ELSE UNCHANGED schemaVars
  /\ IF p = "page" THEN TRUE ELSE UNCHANGED pageVars
  /\ IF p = "evidence" THEN TRUE ELSE UNCHANGED evidenceVars
  /\ IF p = "control" THEN TRUE ELSE UNCHANGED controlVars
  /\ UNCHANGED timelineVars

PartsNext ==
  \/ Only("needed") /\ Next
  \/ Only("lanes") /\ LanesNext
  \/ Only("ranking") /\ RankingNext
  \/ Only("forest") /\ ForestNext
  \/ Only("history") /\ HistoryNext
  \/ Only("schema") /\ SchemaNext
  \/ Only("page") /\ PageNext
  \/ Only("evidence") /\ EvidenceNext
  \/ Only("control") /\ ControlNext

partsVars ==
  <<part, vars, lanesVars, rankingVars, forestVars, historyVars, timelineVars,
    schemaVars, pageVars, evidenceVars, controlVars>>

\* The fair actions of a part that is off are not enabled.
PartsSpec ==
  PartsInit /\ [][PartsNext]_partsVars /\ WF_vars(Next) /\ RankingFairness
    /\ PageFairness /\ ControlFairness

\* The pictures of the dashboard are complete and true: the forest of activities
\* under its budget of queries, the walk over the history while it grows, and the
\* buckets of the timeline.
PicturesTrue == ForestIsTrue /\ ActivitiesVisible /\ WalkExact /\ TimelineComplete

\* Everything comes to its end: the search, the readers of the ranking, the page
\* and everyone who waits for the controller.
PartsProgress == Terminates /\ RankingCatchesUp /\ PageCatchesUp /\ WaitersServed
=============================================================================
