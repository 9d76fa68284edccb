---------------------------- MODULE PartsProofs ----------------------------
(***************************************************************************)
(* The parts that share no state with the campaign: an open page of the    *)
(* dashboard (LivePage), the ranking that requests share (RankingCache),   *)
(* the upgrade of the database (SchemaUpgrade), the dependency search      *)
(* (NeededSearch), what is concluded from a build's log (BuildEvidence)    *)
(* and the commands of operators (ControlSocket), each for any number of   *)
(* regions, threads, processes, derivations and clients, revisions,        *)
(* failures and kills, and any limit of a log.                             *)
(***************************************************************************)
EXTENDS NeededSearch, LivePage, RankingCache, SchemaUpgrade, BuildEvidence,
        ControlSocket, FiniteSetTheorems, TLAPS

-----------------------------------------------------------------------------
\* The page.  What an answer or an announcement carries was read earlier: while
\* nobody has taken the campaign up again, an end that was read is still the end,
\* and the revision read with it includes the transaction that ended it.

SnapType == [revision : Nat, done : BOOLEAN]

PageTypeOK ==
  /\ campaign \in [revision : Nat, done : BOOLEAN, since : Nat, again : BOOLEAN]
  /\ region \in [Region -> [pc : {"shown", "asked", "read", "stopped"},
                            shown : Nat, read : SnapType]]
  /\ events \in [pc : {"connect", "begin", "announce", "complete"},
                 previous : Nat, read : SnapType]

\* s was taken at the end or before it.
TrueEnd(s) == s.done => campaign.done /\ s.revision >= campaign.since

PageInv ==
  /\ PageTypeOK
  /\ campaign.since <= campaign.revision
  /\ ~campaign.again =>
       /\ \A r \in Region : region[r].pc = "read" => TrueEnd(region[r].read)
       /\ events.pc = "announce" => TrueEnd(events.read)
  /\ EndIsShown

\* A page that is served satisfies it: its regions stop at once when the
\* campaign is over.
LEMMA PageInitInv == PageInit => PageInv
BY DEF PageInit, PageInv, PageTypeOK, SnapType, NoSnap, TrueEnd, EndIsShown,
       StoppedIsFinal, CompleteAnnounced

\* Every step of the controller, the stream, the regions and the faults keeps it.
LEMMA PageStep == PageInv /\ [PageNext]_pageVars => PageInv'
<1> SUFFICES ASSUME PageInv, [PageNext]_pageVars PROVE PageInv'
  OBVIOUS
<1> USE DEF PageInv, PageTypeOK, SnapType, TrueEnd, EndIsShown, StoppedIsFinal,
            CompleteAnnounced
<1>1. ASSUME NEW done \in BOOLEAN, Advance(done) PROVE PageInv'
  BY <1>1 DEF Advance
<1>2. CASE Connect
  BY <1>2 DEF Connect
<1>3. CASE Sample
  BY <1>3 DEF Sample, Snap
<1>4. CASE Announce
  BY <1>4, ZenonT(30) DEF Announce, Triggered, Waiting
<1>5. ASSUME NEW r \in Region, RefreshRegion(r) PROVE PageInv'
  <2>1. CASE Timer(r)
    BY <2>1 DEF Timer, Triggered, Waiting
  <2>2. CASE BeginRead(r)
    BY <2>2, ZenonT(30) DEF BeginRead, Snap
  <2>3. CASE Respond(r)
    BY <2>3 DEF Respond, NoSnap
  <2> QED BY <1>5, <2>1, <2>2, <2>3 DEF RefreshRegion
<1>6. ASSUME NEW r \in Region, LoseRequest(r) PROVE PageInv'
  BY <1>6, ZenonT(30) DEF LoseRequest, NoSnap
<1>7. CASE LoseStream
  BY <1>7 DEF LoseStream
<1>8. CASE UNCHANGED pageVars
  BY <1>8 DEF pageVars
<1> QED BY <1>1, <1>2, <1>3, <1>4, <1>5, <1>6, <1>7, <1>8 DEF PageNext

\* Neither a region nor the stream stops before the end of the campaign was
\* shown, for any number of regions, revisions and lost requests.
THEOREM PageShowsEnd == PageSpec => []EndIsShown
<1>1. PageInv => EndIsShown
  BY DEF PageInv
<1> QED BY <1>1, PageInitInv, PageStep, PTL DEF PageSpec

-----------------------------------------------------------------------------
\* The ranking.  The right to refresh is one token: the mark in _refreshing is
\* there exactly while one reader is about to start a thread or one thread has
\* not ended yet.  The first walk of all holds the lock, and no thread can be
\* under way then, since threads are started only for a ranking that expired.

RankingTypeOK ==
  /\ version \in Nat \ {0}
  /\ cache \in [from : Nat, to : Nat]
  /\ fresh \in BOOLEAN /\ refreshing \in BOOLEAN /\ lock \in BOOLEAN
  /\ reader \in [Reader -> [pc : {"idle", "missed", "expired", "start", "walking"}, seen : Nat]]
  /\ walker \in [Walker -> [pc : {"none", "edges", "failures", "end"}, from : Nat]]

\* A walk of a request holds the lock, and there is no ranking yet.
FirstWalkAlone ==
  \A r \in Reader : reader[r].pc = "walking" =>
    /\ lock /\ cache = Missing
    /\ \A q \in Reader : reader[q].pc = "walking" => q = r

\* Whoever refreshes, or is about to, holds the mark alone.
OneRefresh ==
  /\ \A r \in Reader : reader[r].pc = "start" =>
       /\ refreshing
       /\ \A q \in Reader : reader[q].pc = "start" => q = r
       /\ \A w \in Walker : walker[w].pc = "none"
  /\ \A w \in Walker : walker[w].pc # "none" =>
       /\ refreshing
       /\ \A v \in Walker : walker[v].pc # "none" => v = w

\* Only a ranking that is there expires.
ExpiredIsThere ==
  /\ \A r \in Reader : reader[r].pc \in {"expired", "start"} => cache # Missing
  /\ \A w \in Walker : walker[w].pc # "none" => cache # Missing

\* What went into the ranking is never newer than the database, nor newer than
\* what the walk under way has read.
VersionsOrdered ==
  /\ cache.from <= cache.to /\ cache.to <= version
  /\ cache # Missing => cache.from > 0
  /\ \A r \in Reader :
       /\ reader[r].seen <= version
       /\ reader[r].pc # "idle" => reader[r].seen > 0
  /\ \A w \in Walker : walker[w].pc = "failures" =>
       cache.from <= walker[w].from /\ walker[w].from <= version

RankingInv ==
  RankingTypeOK /\ FirstWalkAlone /\ OneRefresh /\ ExpiredIsThere /\ VersionsOrdered

\* Nothing is cached and nobody walks when the process starts.
LEMMA RankingInitInv == RankingInit => RankingInv
<1> SUFFICES ASSUME RankingInit PROVE RankingInv
  OBVIOUS
<1> USE DEF RankingInit, Missing, Rest, NoWalk
<1>1. RankingTypeOK
  <2>1. fresh \in BOOLEAN /\ refreshing \in BOOLEAN /\ lock \in BOOLEAN
    BY Zenon
  <2>2. version \in Nat \ {0} /\ cache \in [from : Nat, to : Nat]
    OBVIOUS
  <2> QED BY <2>1, <2>2 DEF RankingTypeOK
<1>2. FirstWalkAlone /\ OneRefresh /\ ExpiredIsThere
  BY DEF FirstWalkAlone, OneRefresh, ExpiredIsThere
<1>3. VersionsOrdered
  BY DEF VersionsOrdered
<1> QED BY <1>1, <1>2, <1>3 DEF RankingInv

\* Every step of a request, a background thread and the controller keeps it.
LEMMA RankingStep == RankingInv /\ [RankingNext]_rankingVars => RankingInv'
<1> SUFFICES ASSUME RankingInv, [RankingNext]_rankingVars PROVE RankingInv'
  OBVIOUS
<1> USE DEF RankingInv, RankingTypeOK, FirstWalkAlone, OneRefresh,
            ExpiredIsThere, VersionsOrdered, Missing, Goto
<1>1. ASSUME NEW r \in Reader, Look(r) PROVE RankingInv'
  BY <1>1 DEF Look
<1>2. ASSUME NEW r \in Reader, Miss(r) PROVE RankingInv'
  <2>1. CASE cache = Missing
    BY <1>2, <2>1 DEF Miss
  <2>2. CASE cache # Missing
    <3>1. UNCHANGED <<version, cache, fresh, refreshing, lock, walker, failed>>
      BY <1>2, <2>2 DEF Miss
    <3>2. /\ reader[r].pc = "missed"
          /\ reader' = [reader EXCEPT ![r].pc = IF fresh THEN "idle" ELSE "expired"]
      BY <1>2, <2>2 DEF Miss
    <3> QED BY <2>2, <3>1, <3>2
  <2> QED BY <2>1, <2>2
<1>3. ASSUME NEW r \in Reader, FirstWalk(r) PROVE RankingInv'
  <2>1. /\ cache' = [from |-> reader[r].seen, to |-> reader[r].seen]
        /\ lock' = FALSE /\ fresh' = TRUE
        /\ reader[r].pc = "walking" /\ reader' = [reader EXCEPT ![r].pc = "idle"]
        /\ UNCHANGED <<version, refreshing, walker, failed>>
    BY <1>3 DEF FirstWalk
  <2>2. /\ reader[r].seen \in Nat /\ reader[r].seen > 0 /\ reader[r].seen <= version
        /\ cache' # Missing /\ cache = Missing
    BY <2>1
  <2>3. \A w \in Walker : walker[w].pc = "none"
    BY <2>2
  <2>4. RankingTypeOK'
    <3>1. fresh' \in BOOLEAN /\ refreshing' \in BOOLEAN /\ lock' \in BOOLEAN
      BY <2>1, Zenon
    <3> QED BY <2>1, <2>2, <3>1
  <2>5. FirstWalkAlone' /\ OneRefresh'
    BY <2>1, <2>3
  <2>6. ExpiredIsThere' /\ VersionsOrdered'
    BY <2>1, <2>2, <2>3
  <2> QED BY <2>4, <2>5, <2>6
<1>4. ASSUME NEW r \in Reader, Claim(r) PROVE RankingInv'
  BY <1>4 DEF Claim
<1>5. ASSUME NEW r \in Reader, StartWalk(r) PROVE RankingInv'
  BY <1>5 DEF StartWalk
<1>6. ASSUME NEW w \in Walker, ReadEdges(w) PROVE RankingInv'
  BY <1>6 DEF ReadEdges
<1>7. ASSUME NEW w \in Walker, ReadFailures(w) PROVE RankingInv'
  BY <1>7 DEF ReadFailures
<1>8. ASSUME NEW w \in Walker, EndWalk(w) PROVE RankingInv'
  BY <1>8, ZenonT(30) DEF EndWalk, NoWalk
<1>9. ASSUME NEW w \in Walker, FailWalk(w) PROVE RankingInv'
  BY <1>9 DEF FailWalk, NoWalk
<1>10. CASE Commit
  BY <1>10 DEF Commit
<1>11. CASE Expire
  BY <1>11 DEF Expire
<1>12. CASE UNCHANGED rankingVars
  BY <1>12 DEF rankingVars
<1> QED
  BY <1>1, <1>2, <1>3, <1>4, <1>5, <1>6, <1>7, <1>8, <1>9, <1>10, <1>11, <1>12
     DEF RankingNext, Request, Refresh

\* A set without two different members has at most one.
LEMMA AtMostOne ==
  ASSUME NEW S, \A x, y \in S : x = y
  PROVE  Cardinality(S) \in {0, 1} /\ (S = {} => Cardinality(S) = 0)
<1>1. CASE S = {}
  BY <1>1, FS_EmptySet
<1>2. ASSUME NEW x \in S PROVE Cardinality(S) \in {0, 1} /\ (S = {} => Cardinality(S) = 0)
  <2>1. S = {x}
    BY <1>2
  <2> QED BY <2>1, FS_Singleton
<1> QED BY <1>1, <1>2

\* At most one walk is under way, in a request or behind it.
LEMMA WalkShared == RankingInv => OneWalk
<1> SUFFICES ASSUME RankingInv PROVE OneWalk
  OBVIOUS
<1> USE DEF RankingInv, RankingTypeOK, FirstWalkAlone, OneRefresh, ExpiredIsThere
<1> DEFINE R == {r \in Reader : reader[r].pc = "walking"}
           W == {w \in Walker : walker[w].pc \in {"edges", "failures"}}
<1>1. (\A x, y \in R : x = y) /\ (\A x, y \in W : x = y)
  OBVIOUS
<1>2. R = {} \/ W = {}
  OBVIOUS
<1> HIDE DEF R, W
<1>3. /\ Cardinality(R) \in {0, 1} /\ (R = {} => Cardinality(R) = 0)
      /\ Cardinality(W) \in {0, 1} /\ (W = {} => Cardinality(W) = 0)
  BY <1>1, AtMostOne
<1>4. Cardinality(R) + Cardinality(W) <= 1
  BY <1>2, <1>3
<1> QED BY <1>4 DEF OneWalk, R, W

\* Walks are shared and a ranking is never replaced by an older one, whichever
\* thread of however many finishes last.
THEOREM RankingStaysSound == RankingSpec => RankingSound
<1>1. RankingInv /\ [RankingNext]_rankingVars =>
        [cache'.from >= cache.from /\ cache'.to >= cache.to]_rankingVars
  <2> SUFFICES ASSUME RankingInv, RankingNext
               PROVE  cache'.from >= cache.from /\ cache'.to >= cache.to
    OBVIOUS
  <2> USE DEF RankingInv, RankingTypeOK, FirstWalkAlone, VersionsOrdered, Missing
  <2>1. ASSUME NEW r \in Reader, FirstWalk(r)
        PROVE  cache'.from >= cache.from /\ cache'.to >= cache.to
    BY <2>1 DEF FirstWalk
  <2>2. ASSUME NEW w \in Walker, ReadFailures(w)
        PROVE  cache'.from >= cache.from /\ cache'.to >= cache.to
    BY <2>2 DEF ReadFailures
  <2>3. CASE UNCHANGED cache
    BY <2>3
  <2> QED
    BY <2>1, <2>2, <2>3 DEF RankingNext, Request, Refresh, Look, Miss, Claim,
       StartWalk, ReadEdges, EndWalk, FailWalk, Commit, Expire
<1> QED
  BY <1>1, RankingInitInv, RankingStep, WalkShared, PTL
     DEF RankingSpec, RankingSound, RankingNeverGoesBack

-----------------------------------------------------------------------------
\* The upgrade.  The version an opener goes by was read when it connected: it
\* holds the lock, so each of its own statements moves version and columns
\* together and nobody else moves them.

Busy == {"connect", "exclusion", "metadata", "script", "open"}

SchemaTypeOK ==
  /\ userVersion \in 0..7
  /\ tables \subseteq TableSet
  /\ columns \subseteq LaterColumns
  /\ opener \in [Opener -> [pc : Busy \cup {"off", "refused", "unsupported", "error"},
                            version : 0..7]]

\* Whoever is at work holds the lock, so there is one.
HolderWorks == \A o \in Opener : opener[o].pc \in Busy => held = o

\* What a database of each version has; one that was begun and left has the
\* later columns as soon as it has the table.
VersionHas ==
  /\ userVersion = 0 => columns = IF "derivations" \in tables THEN LaterColumns ELSE {}
  /\ userVersion \in 1..5 => TableSet \ {LastTable} \subseteq tables
  /\ userVersion = 1 => columns = {}
  /\ userVersion \in 2..4 => columns = {"exclusion"}
  /\ userVersion >= 5 => columns = LaterColumns
  /\ userVersion >= 6 => tables = TableSet

\* How far the opener has come from the version that it read.
Upgraded ==
  \A o \in Opener :
    /\ At(o, "exclusion") => userVersion = opener[o].version /\ userVersion <= 6
    /\ At(o, "metadata") =>
         /\ opener[o].version <= 6
         /\ userVersion = IF opener[o].version = 1 THEN 2 ELSE opener[o].version
    /\ At(o, "script") => userVersion \in {0, 5, 6}
    /\ At(o, "open") => userVersion = 6
    /\ ~At(o, "error")

SchemaInv == SchemaTypeOK /\ HolderWorks /\ VersionHas /\ Upgraded

\* The databases that releases left behind satisfy it.
LEMMA SchemaInitInv == SchemaInit => SchemaInv
<1> SUFFICES ASSUME SchemaInit PROVE SchemaInv
  OBVIOUS
<1> USE SchemaAssumption DEF SchemaInit
<1>1. SchemaTypeOK
  BY DEF SchemaTypeOK, LaterColumns, Busy
<1>2. HolderWorks /\ Upgraded
  BY DEF HolderWorks, Upgraded, At, Busy
<1>3. VersionHas
  BY DEF VersionHas, LaterColumns
<1> QED BY <1>1, <1>2, <1>3 DEF SchemaInv

\* Every statement of an opener, and its death between two, keeps it.
LEMMA SchemaStep == SchemaInv /\ [SchemaNext]_schemaVars => SchemaInv'
<1> SUFFICES ASSUME SchemaInv, [SchemaNext]_schemaVars PROVE SchemaInv'
  OBVIOUS
<1> USE SchemaAssumption DEF SchemaInv, At, To
<1>0. ASSUME NEW o \in Opener, opener[o].pc \in Busy
      PROVE  held = o /\ \A p \in Opener \ {o} : opener[p].pc \notin Busy
  BY <1>0 DEF HolderWorks
<1>1. ASSUME NEW o \in Opener, TakeLock(o) PROVE SchemaInv'
  <2>1. UNCHANGED <<userVersion, tables, columns>>
    BY <1>1 DEF TakeLock
  <2>2. CASE held = "nobody"
    <3>1. held' = o /\ opener' = [opener EXCEPT ![o].pc = "connect"]
      BY <1>1, <2>2 DEF TakeLock
    <3>2. \A p \in Opener : opener[p].pc \notin Busy
      BY <2>2 DEF HolderWorks
    <3>3. SchemaTypeOK' /\ VersionHas'
      BY <2>1, <3>1 DEF SchemaTypeOK, VersionHas, Busy
    <3>4. HolderWorks' /\ Upgraded'
      BY <3>1, <3>2 DEF SchemaTypeOK, HolderWorks, Upgraded, Busy
    <3> QED BY <3>3, <3>4
  <2>3. CASE held # "nobody"
    <3>1. held' = held /\ opener' = [opener EXCEPT ![o].pc = "refused"]
      BY <1>1, <2>3 DEF TakeLock
    <3>2. SchemaTypeOK' /\ VersionHas'
      BY <2>1, <3>1 DEF SchemaTypeOK, VersionHas
    <3>3. HolderWorks' /\ Upgraded'
      BY <2>1, <3>1 DEF SchemaTypeOK, HolderWorks, Upgraded, Busy
    <3> QED BY <3>2, <3>3
  <2> QED BY <2>2, <2>3
<1>2. ASSUME NEW o \in Opener, ReadVersion(o) PROVE SchemaInv'
  <2>1. UNCHANGED <<userVersion, tables, columns>> /\ opener[o].pc \in Busy
    BY <1>2 DEF ReadVersion, Busy
  <2>2. held = o /\ \A p \in Opener \ {o} : opener[p].pc \notin Busy
    BY <2>1, <1>0
  <2>3. CASE userVersion \in 0..6
    <3>1. /\ opener' = [opener EXCEPT ![o] = [pc |-> "exclusion", version |-> userVersion]]
          /\ held' = held
      BY <1>2, <2>3 DEF ReadVersion
    <3>2. SchemaTypeOK' /\ VersionHas'
      BY <2>1, <3>1, <2>3 DEF SchemaTypeOK, VersionHas, Busy
    <3>3. HolderWorks' /\ Upgraded'
      BY <2>1, <2>2, <2>3, <3>1 DEF SchemaTypeOK, HolderWorks, Upgraded, Busy
    <3> QED BY <3>2, <3>3
  <2>4. CASE userVersion \notin 0..6
    <3>1. opener' = [opener EXCEPT ![o].pc = "unsupported"]
      BY <1>2, <2>4 DEF ReadVersion
    <3>2. SchemaTypeOK' /\ VersionHas'
      BY <2>1, <3>1 DEF SchemaTypeOK, VersionHas
    <3>3. HolderWorks' /\ Upgraded'
      BY <2>1, <2>2, <3>1 DEF SchemaTypeOK, HolderWorks, Upgraded, Busy
    <3> QED BY <3>2, <3>3
  <2> QED BY <2>3, <2>4
<1>3. ASSUME NEW o \in Opener, AddExclusion(o) PROVE SchemaInv'
  <2>1. /\ opener[o].pc = "exclusion" /\ userVersion = opener[o].version
        /\ userVersion <= 6 /\ UNCHANGED tables
    BY <1>3 DEF AddExclusion, Alter, Upgraded
  <2>2. held = o /\ \A p \in Opener \ {o} : opener[p].pc \notin Busy
    BY <2>1, <1>0 DEF Busy
  <2>3. "exclusion" \notin columns \/ opener[o].version # 1
    BY <2>1 DEF VersionHas
  <2>4. held' = held /\ opener' = [opener EXCEPT ![o].pc = "metadata"]
    BY <1>3, <2>3 DEF AddExclusion, Alter
  <2>5. /\ userVersion' = IF opener[o].version = 1 THEN 2 ELSE userVersion
        /\ columns' = IF opener[o].version = 1 THEN columns \cup {"exclusion"} ELSE columns
    BY <1>3, <2>3 DEF AddExclusion, Alter
  <2>6. SchemaTypeOK'
    BY <2>1, <2>4, <2>5 DEF SchemaTypeOK, Busy, LaterColumns
  <2>7. VersionHas'
    BY <2>1, <2>5 DEF SchemaTypeOK, VersionHas
  <2>8. HolderWorks' /\ Upgraded'
    BY <2>1, <2>2, <2>4, <2>5 DEF SchemaTypeOK, HolderWorks, Upgraded, Busy
  <2> QED BY <2>6, <2>7, <2>8
<1>4. ASSUME NEW o \in Opener, AddMetadata(o) PROVE SchemaInv'
  <2>1. /\ opener[o].pc = "metadata" /\ UNCHANGED tables /\ opener[o].version <= 6
        /\ userVersion = IF opener[o].version = 1 THEN 2 ELSE opener[o].version
    BY <1>4 DEF AddMetadata, Alter, Upgraded
  <2>2. held = o /\ \A p \in Opener \ {o} : opener[p].pc \notin Busy
    BY <2>1, <1>0 DEF Busy
  <2>3. opener[o].version \in 1..4 => columns = {"exclusion"}
    BY <2>1 DEF VersionHas
  <2>4. held' = held /\ opener' = [opener EXCEPT ![o].pc = "script"]
    BY <1>4, <2>3 DEF AddMetadata, Alter
  <2>5. /\ userVersion' = IF opener[o].version \in 1..4 THEN 5 ELSE userVersion
        /\ columns' = IF opener[o].version \in 1..4 THEN columns \cup {"metadata"} ELSE columns
    BY <1>4, <2>3 DEF AddMetadata, Alter
  <2>6. SchemaTypeOK'
    BY <2>1, <2>4, <2>5 DEF SchemaTypeOK, Busy, LaterColumns
  <2>7. VersionHas'
    BY <2>1, <2>3, <2>5 DEF SchemaTypeOK, VersionHas, LaterColumns
  <2>8. HolderWorks' /\ Upgraded'
    BY <2>1, <2>2, <2>4, <2>5 DEF SchemaTypeOK, HolderWorks, Upgraded, Busy
  <2> QED BY <2>6, <2>7, <2>8
<1>5. ASSUME NEW o \in Opener, CreateTable(o) PROVE SchemaInv'
  <2>1. opener[o].pc = "script" /\ UNCHANGED <<userVersion, held, opener>>
    BY <1>5 DEF CreateTable
  <2>2. PICK t \in TableSet :
          /\ t \notin tables /\ tables' = tables \cup {t}
          /\ columns' = IF t = "derivations" THEN LaterColumns ELSE columns
    BY <1>5 DEF CreateTable, TableSet
  <2>3. userVersion \in {0, 5, 6}
    BY <2>1 DEF Upgraded
  <2>4. SchemaTypeOK'
    BY <2>1, <2>2 DEF SchemaTypeOK
  <2>5. VersionHas'
    <3>1. CASE userVersion = 0
      <4>1. columns = IF "derivations" \in tables THEN LaterColumns ELSE {}
        BY <3>1 DEF VersionHas
      <4>2. columns' = IF "derivations" \in tables' THEN LaterColumns ELSE {}
        <5>1. CASE t = "derivations"
          BY <5>1, <2>2
        <5>2. CASE t # "derivations"
          BY <5>2, <4>1, <2>2
        <5> QED BY <5>1, <5>2
      <4>3. userVersion' = 0
        BY <3>1, <2>1
      <4> HIDE DEF LaterColumns
      <4> QED BY <4>2, <4>3 DEF VersionHas
    <3>2. CASE userVersion \in {5, 6}
      <4>1. /\ columns = LaterColumns /\ TableSet \ {LastTable} \subseteq tables
            /\ userVersion = 6 => tables = TableSet
        BY <3>2 DEF VersionHas
      <4>2. columns' = LaterColumns /\ userVersion' = 5
        BY <4>1, <3>2, <2>1, <2>2
      <4> QED BY <4>1, <4>2, <2>2 DEF VersionHas
    <3> QED BY <2>3, <3>1, <3>2
  <2>6. HolderWorks' /\ Upgraded'
    BY <2>1 DEF HolderWorks, Upgraded
  <2> QED BY <2>4, <2>5, <2>6
<1>6. ASSUME NEW o \in Opener, SetVersion(o) PROVE SchemaInv'
  <2>1. /\ opener[o].pc = "script" /\ TableSet \subseteq tables /\ userVersion' = 6
        /\ opener' = [opener EXCEPT ![o].pc = "open"]
        /\ UNCHANGED <<tables, columns, held>>
    BY <1>6 DEF SetVersion
  <2>2. held = o /\ \A p \in Opener \ {o} : opener[p].pc \notin Busy
    BY <2>1, <1>0 DEF Busy
  <2>3. userVersion \in {0, 5, 6}
    BY <2>1 DEF Upgraded
  <2>4. SchemaTypeOK'
    BY <2>1 DEF SchemaTypeOK, Busy
  <2>5. VersionHas'
    <3>1. columns = LaterColumns
      BY <2>1, <2>3 DEF VersionHas
    <3>2. tables = TableSet
      BY <2>1 DEF SchemaTypeOK
    <3> QED BY <2>1, <3>1, <3>2 DEF VersionHas
  <2>6. HolderWorks' /\ Upgraded'
    BY <2>1, <2>2 DEF SchemaTypeOK, HolderWorks, Upgraded, Busy
  <2> QED BY <2>4, <2>5, <2>6
<1>7. ASSUME NEW o \in Opener, Leave(o) PROVE SchemaInv'
  BY <1>7 DEF Leave, SchemaTypeOK, HolderWorks, VersionHas, Upgraded, Busy
<1>8. CASE UNCHANGED schemaVars
  BY <1>8 DEF schemaVars, SchemaTypeOK, HolderWorks, VersionHas, Upgraded
<1> QED
  BY <1>1, <1>2, <1>3, <1>4, <1>5, <1>6, <1>7, <1>8 DEF SchemaNext

\* The version of a database never promises what is not there and no column is
\* added twice, for any number of processes, wherever each of them dies.
THEOREM UpgradeStaysSound == SchemaSpec => []UpgradeSound
<1>1. SchemaInv => UpgradeSound
  BY DEF SchemaInv, SchemaTypeOK, VersionHas, Upgraded, UpgradeSound,
         VersionIsTrue, UpgradeResumes, At, LaterColumns
<1> QED BY <1>1, SchemaInitInv, SchemaStep, PTL DEF SchemaSpec

-----------------------------------------------------------------------------
\* The dependency search.  BuildGraph.needed computes the least set of
\* derivations that have to be built, on every graph; and what it returns only
\* shrinks as outputs become valid, which is why ownership decided once stays
\* exclusive.

USE GraphAssumption, EdgeAssumption

\* Whatever was found, or will be, belongs to every closed set.
NothingExtra ==
  \A S \in SUBSET Drv :
    ClosedUnderNeed(edges, targets, available, S) =>
      /\ needed \subseteq S
      /\ \A i \in todo : ~Satisfied(i[1], i[2], available) => i[1] \in S

\* Whatever has to be built was found or is still pending.
NothingLost ==
  /\ \A t \in targets :
       \/ Satisfied(t, DOMAIN Outputs[t], available)
       \/ t \in needed
       \/ <<t, DOMAIN Outputs[t]>> \in todo
  /\ \A e \in edges : e[1] \in needed =>
       \/ Satisfied(e[2], e[3], available)
       \/ e[2] \in needed
       \/ <<e[2], e[3]>> \in todo

SearchInv == TypeOK /\ NothingExtra /\ NothingLost

\* The search starts from the targets alone.
LEMMA SearchInitInv == Init => SearchInv
<1> SUFFICES ASSUME Init PROVE SearchInv
  OBVIOUS
<1>1. TypeOK
  BY DEF Init, TypeOK, Item
<1>2. NothingExtra
  BY DEF Init, NothingExtra, ClosedUnderNeed
<1>3. NothingLost
  BY DEF Init, NothingLost
<1> QED BY <1>1, <1>2, <1>3 DEF SearchInv

\* One turn of the loop keeps the result sound and complete.
LEMMA SearchStepInv == SearchInv /\ [Next]_vars => SearchInv'
<1> SUFFICES ASSUME SearchInv, [Next]_vars PROVE SearchInv'
  OBVIOUS
<1>1. ASSUME NEW item \in todo, Visit(item) PROVE SearchInv'
  <2>1. /\ item[1] \in Drv /\ item[2] \subseteq OutName
        /\ UNCHANGED <<edges, targets, available>>
    BY <1>1 DEF SearchInv, TypeOK, Item, Visit, inputs
  <2>2. CASE Satisfied(item[1], item[2], available) \/ item[1] \in needed
    <3>1. todo' = todo \ {item} /\ needed' = needed
      BY <1>1, <2>2 DEF Visit
    <3>2. item = <<item[1], item[2]>>
      BY <1>1 DEF SearchInv, TypeOK, Item
    <3>3. TypeOK'
      BY <2>1, <3>1 DEF SearchInv, TypeOK
    <3>4. NothingExtra'
      BY <2>1, <3>1 DEF SearchInv, NothingExtra, ClosedUnderNeed
    <3>5. NothingLost'
      BY <2>1, <2>2, <3>1, <3>2 DEF SearchInv, NothingLost
    <3> QED BY <3>3, <3>4, <3>5 DEF SearchInv
  <2>3. CASE ~(Satisfied(item[1], item[2], available) \/ item[1] \in needed)
    <3>1. /\ todo' = (todo \ {item}) \cup Inputs(item[1])
          /\ needed' = needed \cup {item[1]}
      BY <1>1, <2>3 DEF Visit
    <3>2. item = <<item[1], item[2]>>
      BY <1>1 DEF SearchInv, TypeOK, Item
    <3>3. Inputs(item[1]) \subseteq Item
      BY DEF SearchInv, TypeOK, Inputs, Item, Edge
    <3>4. TypeOK'
      BY <2>1, <3>1, <3>3 DEF SearchInv, TypeOK
    <3>5. NothingExtra'
      <4> SUFFICES ASSUME NEW S \in SUBSET Drv,
                          ClosedUnderNeed(edges, targets, available, S)
                   PROVE  /\ needed' \subseteq S
                          /\ \A i \in todo' :
                               ~Satisfied(i[1], i[2], available) => i[1] \in S
        BY <2>1 DEF NothingExtra, ClosedUnderNeed
      <4>1. needed \subseteq S /\ item[1] \in S
        BY <1>1, <2>3 DEF SearchInv, NothingExtra
      <4>2. ASSUME NEW i \in Inputs(item[1]),
                   ~Satisfied(i[1], i[2], available)
            PROVE  i[1] \in S
        BY <4>1, <4>2 DEF Inputs, ClosedUnderNeed
      <4> QED BY <3>1, <4>1, <4>2 DEF SearchInv, NothingExtra
    <3>6. NothingLost'
      <4>1. \A e \in edges : e[1] = item[1] => <<e[2], e[3]>> \in todo'
        BY <3>1 DEF Inputs
      <4> QED BY <2>1, <3>1, <3>2, <4>1 DEF SearchInv, NothingLost
    <3> QED BY <3>4, <3>5, <3>6 DEF SearchInv
  <2> QED BY <2>2, <2>3
<1>2. CASE UNCHANGED vars
  BY <1>2 DEF vars, SearchInv, TypeOK, NothingExtra, NothingLost, ClosedUnderNeed
<1> QED BY <1>1, <1>2 DEF Next

\* Every state of the search satisfies the inductive invariant.
THEOREM SearchInvariance == Spec => []SearchInv
BY SearchInitInv, SearchStepInv, PTL DEF Spec

\* When the worklist is empty the search has computed the least closed set.
THEOREM SearchCorrect == Spec => []SearchIsExact
<1>1. SearchInv => SearchIsExact
  <2> SUFFICES ASSUME SearchInv, todo = {}
               PROVE  needed = Needed(edges, targets, available)
    BY DEF SearchIsExact
  <2>1. needed \in SUBSET Drv
    BY DEF SearchInv, TypeOK
  <2>2. ClosedUnderNeed(edges, targets, available, needed)
    BY DEF SearchInv, NothingLost, ClosedUnderNeed
  <2>3. Needed(edges, targets, available) \subseteq needed
    BY <2>1, <2>2 DEF Needed
  <2>4. needed \subseteq Needed(edges, targets, available)
    BY <2>1 DEF SearchInv, NothingExtra, Needed
  <2> QED BY <2>3, <2>4
<1> QED BY <1>1, SearchInvariance, PTL

\* Validity only releases reservations: with more valid paths, a build needs
\* no derivation it did not need before.
THEOREM NeededShrinks ==
  ASSUME NEW E, NEW T, NEW A, NEW B, A \subseteq B
  PROVE  Needed(E, T, B) \subseteq Needed(E, T, A)
<1>1. \A d, r : Satisfied(d, r, A) => Satisfied(d, r, B)
  BY DEF Satisfied
<1>2. \A S \in SUBSET Drv :
        ClosedUnderNeed(E, T, A, S) => ClosedUnderNeed(E, T, B, S)
  BY <1>1 DEF ClosedUnderNeed
<1> QED BY <1>2 DEF Needed

-----------------------------------------------------------------------------
\* Evidence of a build.  The rows follow the records that were observed, and the
\* records follow the builders: completely until the log is cut, truly always.

PhaseNames == {"none", "buildPhase", "checkPhase", "installPhase"}
LogLine ==
  [kind : {"start", "phase", "stop", "builder failed", "dependency failed"},
   drv : Steps, phase : PhaseNames]

EvidenceTypeOK ==
  /\ before \subseteq Steps /\ realized \subseteq Steps
  /\ builder \in [Steps -> [pc : {"none", "running", "built", "failed"}, phase : 0..3]]
  /\ records \in Seq(LogLine) /\ Len(records) <= LogRecords
  /\ cut \in BOOLEAN
  /\ activities \in [Steps -> [drv : Steps \cup {"none"}, phase : PhaseNames,
                               checks : SUBSET {"checkPhase"}, stopped : BOOLEAN]]
  /\ taken \in Nat /\ taken <= Len(records)
  /\ reason \in {"none", "completed", "build-error", "log-limit", "stopped"}
  /\ DOMAIN verdict = Steps

IsPhase(i, d) == records[i].kind = "phase" /\ records[i].drv = d
IsStart(i, d) == records[i].kind = "start" /\ records[i].drv = d

\* What is valid was so before or has been built since, by one builder each.
BuiltHere ==
  /\ realized = before \cup {d \in Steps : builder[d].pc = "built"}
  /\ \A d \in before : builder[d].pc = "none"

\* A record is written by the builder it is about, after its start.
RecordsTrue ==
  \A i \in 1..Len(records) :
    /\ records[i].kind = "start" => builder[records[i].drv].pc # "none"
    /\ records[i].kind = "phase" =>
         /\ records[i].phase # "none"
         /\ \E j \in 1..(i - 1) : IsStart(j, records[i].drv)
    /\ records[i].kind = "builder failed" => builder[records[i].drv].pc = "failed"

\* Until the log is cut, what builders do is on record, the last phase last.
RecordsComplete ==
  ~cut => \A d \in Steps :
    /\ builder[d].pc # "none" => \E i \in 1..Len(records) : IsStart(i, d)
    /\ builder[d].pc = "failed" =>
         \E i \in 1..Len(records) : records[i].kind = "builder failed" /\ records[i].drv = d
    /\ builder[d].phase = 0 => \A i \in 1..Len(records) : ~IsPhase(i, d)
    /\ builder[d].phase # 0 =>
         \E i \in 1..Len(records) :
           /\ IsPhase(i, d) /\ records[i].phase = BuildPhases[builder[d].phase]
           /\ \A j \in (i + 1)..Len(records) : ~IsPhase(j, d)

\* A row is what the observed records say.
RowsFollow ==
  \A d \in Steps :
    /\ activities[d] # NoRow <=> \E i \in 1..taken : IsStart(i, d)
    /\ activities[d].checks # {} <=>
         \E i \in 1..taken : IsPhase(i, d) /\ records[i].phase = "checkPhase"
    /\ (\A i \in 1..taken : ~IsPhase(i, d)) => activities[d].phase = "none"
    /\ \A i \in 1..taken :
         IsPhase(i, d) /\ (\A j \in (i + 1)..taken : ~IsPhase(j, d))
           => activities[d].phase = records[i].phase

Ended ==
  /\ reason \in {"completed", "build-error"} => ~cut
  /\ reason = "completed" => Steps \subseteq realized
  /\ reason = "none" => \A d \in Steps : verdict[d] = "none"

EvidenceInv ==
  /\ EvidenceTypeOK /\ BuiltHere /\ RecordsTrue /\ RecordsComplete /\ RowsFollow /\ Ended
  /\ VerdictsTrue

\* Nothing is logged or concluded at first.
LEMMA EvidenceInitInv == EvidenceInit => EvidenceInv
<1> SUFFICES ASSUME EvidenceInit PROVE EvidenceInv
  OBVIOUS
<1> USE EvidenceAssumption DEF EvidenceInit
<1>1. before \subseteq Steps
  BY DEF Steps
<1> <<>> \in Seq(LogLine) /\ Len(<<>>) = 0
  OBVIOUS
<1>2. EvidenceTypeOK
  <2>1. builder \in [Steps -> [pc : {"none", "running", "built", "failed"}, phase : 0..3]]
    BY DEF Idle
  <2>2. activities \in [Steps -> [drv : Steps \cup {"none"}, phase : PhaseNames,
                               checks : SUBSET {"checkPhase"}, stopped : BOOLEAN]]
    BY DEF NoRow, PhaseNames
  <2>3. records \in Seq(LogLine) /\ Len(records) = 0 /\ cut \in BOOLEAN
    OBVIOUS
  <2> QED BY <1>1, <2>1, <2>2, <2>3 DEF EvidenceTypeOK
<1>3. BuiltHere
  BY <1>1 DEF BuiltHere, Idle
<1>0. 1..Len(records) = {} /\ 1..taken = {}
  OBVIOUS
<1>4. RecordsTrue
  BY <1>0 DEF RecordsTrue
<1>5. RecordsComplete
  <2>1. \A d \in Steps : builder[d] = [pc |-> "none", phase |-> 0]
    BY DEF Idle
  <2>2. \A d \in Steps : builder[d].pc = "none" /\ builder[d].phase = 0
    BY ONLY <2>1
  <2>3. "none" # "failed"
    OBVIOUS
  <2> QED BY ONLY <1>0, <2>2, <2>3, Zenon DEF RecordsComplete
<1>6. RowsFollow
  <2>1. \A d \in Steps : activities[d] = NoRow /\ NoRow.checks = {} /\ NoRow.phase = "none"
    BY DEF NoRow
  <2> QED BY ONLY <1>0, <2>1 DEF RowsFollow
<1>7. Ended
  BY DEF Ended
<1>8. VerdictsTrue
  BY DEF VerdictsTrue, PassedIsBuilt, FailureIsOwn, ReportIsComplete
<1> QED BY <1>2, <1>3, <1>4, <1>5, <1>6, <1>7, <1>8 DEF EvidenceInv

\* What a write does to the log: it keeps what is there and adds a beginning of
\* what is new, all of it unless the log is cut.
LEMMA WriteAppends ==
  ASSUME records \in Seq(LogLine), Len(records) <= LogRecords, cut \in BOOLEAN,
         NEW new \in Seq(LogLine), Write(new)
  PROVE  /\ reason = "none" /\ ~cut /\ cut' \in BOOLEAN
         /\ records' \in Seq(LogLine) /\ Len(records') <= LogRecords
         /\ Len(records) <= Len(records')
         /\ Len(records) \in Nat /\ Len(records') \in Nat /\ Len(new) \in Nat
         /\ \A i \in 1..Len(records) : i \in 1..Len(records') /\ records'[i] = records[i]
         /\ \A i \in 1..Len(records') :
              \/ i \in 1..Len(records) /\ records'[i] = records[i] /\ records[i].drv \in Steps
              \/ \E k \in 1..Len(new) : i = Len(records) + k /\ records'[i] = new[k]
         /\ ~cut' => /\ Len(records') = Len(records) + Len(new)
                     /\ \A k \in 1..Len(new) : /\ Len(records) + k \in 1..Len(records')
                                               /\ records'[Len(records) + k] = new[k]
<1> DEFINE n == Smaller(Len(new), LogRecords - Len(records))
           add == SubSeq(new, 1, n)
<1>1. n \in Nat /\ n <= Len(new) /\ n <= LogRecords - Len(records)
  BY EvidenceAssumption DEF Smaller
<1>2. add \in Seq(LogLine) /\ Len(add) = n /\ \A i \in 1..n : add[i] = new[i]
  BY <1>1
<1>3. records' = records \o add /\ cut' = (Len(records) + Len(new) > LogRecords)
  BY DEF Write
<1>4. ASSUME ~cut' PROVE n = Len(new)
  <2>1. ~(Len(records) + Len(new) > LogRecords)
    BY <1>3, <1>4
  <2> QED BY <2>1, <1>1, EvidenceAssumption DEF Smaller
<1> HIDE DEF n, add
<1>5. Len(records') = Len(records) + n /\ records' \in Seq(LogLine)
  <2>1. records \o add \in Seq(LogLine) /\ Len(records \o add) = Len(records) + Len(add)
    BY <1>2
  <2> QED BY <1>2, <1>3, <2>1
<1>6. \A i \in 1..Len(records) : records'[i] = records[i]
  BY <1>1, <1>2, <1>3
<1>7. \A i \in (Len(records) + 1)..Len(records') : records'[i] = new[i - Len(records)]
  <2> TAKE i \in (Len(records) + 1)..Len(records')
  <2>1. records'[i] = add[i - Len(records)]
    BY <1>1, <1>2, <1>3, <1>5
  <2>2. i - Len(records) \in 1..n
    BY <1>1, <1>5
  <2> QED BY <2>1, <2>2, <1>2
<1>8. cut' \in BOOLEAN /\ reason = "none" /\ ~cut
  BY <1>3 DEF Write
<1>9. Len(records) \in Nat /\ Len(new) \in Nat /\ LogRecords \in Nat
  BY EvidenceAssumption
<1>10. Len(records') <= LogRecords /\ Len(records) <= Len(records')
       /\ Len(records') <= Len(records) + Len(new)
  BY <1>1, <1>5, <1>9
<1>11. ~cut' => Len(records') = Len(records) + Len(new)
  BY <1>4, <1>5
<1>12. Len(records') \in Nat
  BY <1>1, <1>5, <1>9
<1>13. \A i \in 1..Len(records) : i \in 1..Len(records') /\ records'[i] = records[i]
  BY <1>6, <1>9, <1>10, <1>12
<1>14. ASSUME NEW i \in 1..Len(records')
       PROVE  \/ i \in 1..Len(records) /\ records'[i] = records[i] /\ records[i].drv \in Steps
              \/ \E k \in 1..Len(new) : i = Len(records) + k /\ records'[i] = new[k]
  <2>1. CASE i \in 1..Len(records)
    <3>1. records[i] \in LogLine
      BY <2>1
    <3> QED BY <2>1, <3>1, <1>6 DEF LogLine
  <2>2. CASE i \notin 1..Len(records)
    <3>1. i \in (Len(records) + 1)..Len(records') /\ i - Len(records) \in 1..Len(new)
          /\ i = Len(records) + (i - Len(records))
      BY <2>2, <1>9, <1>10, <1>12
    <3> QED BY <3>1, <1>7
  <2> QED BY <2>1, <2>2
<1>15. ASSUME ~cut', NEW k \in 1..Len(new)
       PROVE  Len(records) + k \in 1..Len(records') /\ records'[Len(records) + k] = new[k]
  <2>1. Len(records) + k \in (Len(records) + 1)..Len(records') /\ (Len(records) + k) - Len(records) = k
    BY <1>9, <1>11, <1>15
  <2> QED BY <2>1, <1>7, <1>9
<1> QED BY <1>5, <1>8, <1>9, <1>10, <1>11, <1>12, <1>13, <1>14, <1>15

\* Rows do not change with what is written behind the observed records.
LEMMA RowsKept ==
  ASSUME EvidenceTypeOK, RowsFollow, Len(records) <= Len(records'), Len(records') \in Nat,
         \A i \in 1..Len(records) : records'[i] = records[i],
         UNCHANGED <<activities, taken>>
  PROVE  RowsFollow'
<1>1. \A i \in 1..taken : records'[i] = records[i]
  BY DEF EvidenceTypeOK
<1>2. taken \in Nat /\ taken' = taken /\ activities' = activities
  BY DEF EvidenceTypeOK
<1> SUFFICES ASSUME NEW d \in Steps
             PROVE  (/\ activities[d] # NoRow <=> \E i \in 1..taken : IsStart(i, d)
                     /\ activities[d].checks # {} <=>
                          \E i \in 1..taken : IsPhase(i, d) /\ records[i].phase = "checkPhase"
                     /\ (\A i \in 1..taken : ~IsPhase(i, d)) => activities[d].phase = "none"
                     /\ \A i \in 1..taken :
                          IsPhase(i, d) /\ (\A j \in (i + 1)..taken : ~IsPhase(j, d))
                            => activities[d].phase = records[i].phase)'
  BY DEF RowsFollow
<1>3. \A i \in 1..taken : (IsStart(i, d)' <=> IsStart(i, d)) /\ (IsPhase(i, d)' <=> IsPhase(i, d))
  BY <1>1 DEF IsStart, IsPhase
<1>4. \A i \in 1..taken : \A j \in (i + 1)..taken : j \in 1..taken
  BY <1>2
<1>5. /\ activities[d] # NoRow <=> \E i \in 1..taken : IsStart(i, d)
      /\ activities[d].checks # {} <=>
           \E i \in 1..taken : IsPhase(i, d) /\ records[i].phase = "checkPhase"
      /\ (\A i \in 1..taken : ~IsPhase(i, d)) => activities[d].phase = "none"
      /\ \A i \in 1..taken :
           IsPhase(i, d) /\ (\A j \in (i + 1)..taken : ~IsPhase(j, d))
             => activities[d].phase = records[i].phase
  BY DEF RowsFollow
<1>6. \A i \in 1..taken : (\A j \in (i + 1)..taken : ~IsPhase(j, d)')
                           <=> (\A j \in (i + 1)..taken : ~IsPhase(j, d))
  BY <1>3, <1>4
<1> QED BY <1>1, <1>2, <1>3, <1>5, <1>6

\* Before the settlement there is no verdict that could be false.
LEMMA Undecided ==
  ASSUME \A d \in Steps : verdict[d] = "none", UNCHANGED verdict
  PROVE  VerdictsTrue'
BY DEF VerdictsTrue, PassedIsBuilt, FailureIsOwn, ReportIsComplete

\* A builder's step keeps the invariant if what it writes is about itself: a start
\* when it begins, one phase or none, and its failure when it fails.
OwnStep(d, new) ==
  /\ UNCHANGED <<before, activities, taken, reason, verdict>>
  /\ realized' \subseteq Steps /\ BuiltHere'
  /\ builder' \in [Steps -> [pc : {"none", "running", "built", "failed"}, phase : 0..3]]
  /\ \A e \in Steps \ {d} : builder'[e] = builder[e]
  /\ builder[d].pc \in {"none", "running"} /\ builder'[d].pc # "none"
  /\ \A k \in 1..Len(new) :
       /\ new[k].kind = "phase" =>
            /\ new[k].drv = d /\ builder[d].pc = "running" /\ Len(new) = 1
            /\ builder'[d].phase # 0 /\ new[k].phase = BuildPhases[builder'[d].phase]
            /\ new[k].phase # "none"
       /\ new[k].kind = "start" => new[k].drv = d
       /\ new[k].kind = "builder failed" => new[k].drv = d /\ builder'[d].pc = "failed"
  /\ builder[d].pc = "none" => \E k \in 1..Len(new) : new[k].kind = "start" /\ new[k].drv = d
  /\ builder'[d].pc = "failed" =>
       \E k \in 1..Len(new) : new[k].kind = "builder failed" /\ new[k].drv = d
  /\ \/ builder'[d].phase = builder[d].phase /\ \A k \in 1..Len(new) : new[k].kind # "phase"
     \/ \E k \in 1..Len(new) : new[k].kind = "phase" /\ new[k].drv = d

\* A build writes lines of its own derivation.
LEMMA BuilderStep ==
  ASSUME EvidenceInv, NEW d \in Steps, NEW new \in Seq(LogLine), Write(new), OwnStep(d, new)
  PROVE  EvidenceInv'
<1>1. records \in Seq(LogLine) /\ Len(records) <= LogRecords /\ cut \in BOOLEAN
      /\ builder \in [Steps -> [pc : {"none", "running", "built", "failed"}, phase : 0..3]]
  BY DEF EvidenceInv, EvidenceTypeOK
<1>2. /\ reason = "none" /\ ~cut /\ cut' \in BOOLEAN
      /\ records' \in Seq(LogLine) /\ Len(records') <= LogRecords
      /\ Len(records) <= Len(records')
  BY <1>1, WriteAppends
<1>3. Len(records) \in Nat /\ Len(records') \in Nat /\ Len(new) \in Nat
  BY <1>1, WriteAppends
<1>4. \A i \in 1..Len(records') :
        \/ i \in 1..Len(records) /\ records'[i] = records[i] /\ records[i].drv \in Steps
        \/ \E k \in 1..Len(new) : i = Len(records) + k /\ records'[i] = new[k]
  BY <1>1, WriteAppends
<1>5. ~cut' => /\ Len(records') = Len(records) + Len(new)
               /\ \A k \in 1..Len(new) : /\ Len(records) + k \in 1..Len(records')
                                         /\ records'[Len(records) + k] = new[k]
  BY <1>1, WriteAppends
<1>6. \A i \in 1..Len(records) : i \in 1..Len(records') /\ records'[i] = records[i]
  BY <1>1, WriteAppends
<1>a. RecordsTrue /\ RecordsComplete /\ RowsFollow /\ Ended /\ VerdictsTrue /\ EvidenceTypeOK
  BY DEF EvidenceInv
<1> USE <1>a
<1>7. EvidenceTypeOK'
  <2>1. UNCHANGED <<before, activities, taken, reason, verdict>> /\ realized' \subseteq Steps
        /\ builder' \in [Steps -> [pc : {"none", "running", "built", "failed"}, phase : 0..3]]
    BY DEF OwnStep
  <2>2. taken \in Nat /\ taken <= Len(records')
    BY <1>2, <1>3 DEF EvidenceTypeOK
  <2> QED BY <2>1, <2>2, <1>2, <1>3 DEF EvidenceTypeOK
<1>8. RecordsTrue'
  <2> SUFFICES ASSUME NEW i \in 1..Len(records')
               PROVE  /\ records'[i].kind = "start" => builder'[records'[i].drv].pc # "none"
                      /\ records'[i].kind = "phase" =>
                           /\ records'[i].phase # "none"
                           /\ \E j \in 1..(i - 1) :
                                records'[j].kind = "start" /\ records'[j].drv = records'[i].drv
                      /\ records'[i].kind = "builder failed" => builder'[records'[i].drv].pc = "failed"
    BY DEF RecordsTrue, IsStart
  <2>1. CASE i \in 1..Len(records) /\ records'[i] = records[i] /\ records[i].drv \in Steps
    <3>1. records[i].kind = "start" => builder[records[i].drv].pc # "none"
      BY <2>1 DEF RecordsTrue
    <3>2. records[i].kind = "start" => builder'[records[i].drv].pc # "none"
      BY <2>1, <3>1 DEF OwnStep
    <3>3. records[i].kind = "builder failed" => builder[records[i].drv].pc = "failed"
      BY <2>1 DEF RecordsTrue
    <3>4. records[i].kind = "builder failed" => builder'[records[i].drv].pc = "failed"
      BY <2>1, <3>3 DEF OwnStep
    <3>5. ASSUME records[i].kind = "phase"
          PROVE  /\ records[i].phase # "none"
                 /\ \E j \in 1..(i - 1) : records'[j].kind = "start" /\ records'[j].drv = records[i].drv
      <4>1. PICK j \in 1..(i - 1) : records[j].kind = "start" /\ records[j].drv = records[i].drv
        BY <2>1, <3>5 DEF RecordsTrue, IsStart
      <4>2. records'[j] = records[j]
        BY <2>1, <1>3, <1>6
      <4>3. records[i].phase # "none"
        BY <2>1, <3>5 DEF RecordsTrue
      <4> QED BY <4>1, <4>2, <4>3
    <3> QED BY <2>1, <3>2, <3>4, <3>5
  <2>2. ASSUME NEW k \in 1..Len(new), i = Len(records) + k, records'[i] = new[k]
        PROVE  /\ records'[i].kind = "start" => builder'[records'[i].drv].pc # "none"
               /\ records'[i].kind = "phase" =>
                    /\ records'[i].phase # "none"
                    /\ \E j \in 1..(i - 1) :
                         records'[j].kind = "start" /\ records'[j].drv = records'[i].drv
               /\ records'[i].kind = "builder failed" => builder'[records'[i].drv].pc = "failed"
    <3>1. ASSUME new[k].kind = "phase"
          PROVE  \E j \in 1..(i - 1) : records'[j].kind = "start" /\ records'[j].drv = d
      <4>1. builder[d].pc = "running"
        BY <3>1 DEF OwnStep
      <4>2. PICK j \in 1..Len(records) : IsStart(j, d)
        BY <4>1, <1>2 DEF RecordsComplete
      <4>3. j \in 1..(i - 1) /\ records'[j] = records[j]
        BY <2>2, <1>3, <1>6
      <4> QED BY <4>2, <4>3 DEF IsStart
    <3>2. /\ new[k].kind = "start" => new[k].drv = d /\ builder'[d].pc # "none"
          /\ new[k].kind = "phase" => new[k].drv = d /\ new[k].phase # "none"
          /\ new[k].kind = "builder failed" => new[k].drv = d /\ builder'[d].pc = "failed"
      BY DEF OwnStep
    <3> QED BY <2>2, <3>1, <3>2
  <2> QED BY <1>4, <2>1, <2>2
<1>9. RecordsComplete'
  <2> SUFFICES ASSUME ~cut', NEW e \in Steps
               PROVE (/\ builder[e].pc # "none" => \E i \in 1..Len(records) : IsStart(i, e)
                      /\ builder[e].pc = "failed" =>
                           \E i \in 1..Len(records) : records[i].kind = "builder failed" /\ records[i].drv = e
                      /\ builder[e].phase = 0 => \A i \in 1..Len(records) : ~IsPhase(i, e)
                      /\ builder[e].phase # 0 =>
                           \E i \in 1..Len(records) :
                             /\ IsPhase(i, e) /\ records[i].phase = BuildPhases[builder[e].phase]
                             /\ \A j \in (i + 1)..Len(records) : ~IsPhase(j, e))'
    BY DEF RecordsComplete
  <2>1. ASSUME builder'[e].pc # "none" PROVE \E i \in 1..Len(records') : IsStart(i, e)'
    <3>1. CASE builder[e].pc = "none"
      <4>1. e = d
        BY <3>1, <2>1 DEF OwnStep
      <4>2. PICK k \in 1..Len(new) : new[k].kind = "start" /\ new[k].drv = d
        BY <3>1, <4>1 DEF OwnStep
      <4> QED BY <4>1, <4>2, <1>5 DEF IsStart
    <3>2. CASE builder[e].pc # "none"
      <4>1. PICK i \in 1..Len(records) : IsStart(i, e)
        BY <3>2, <1>2 DEF RecordsComplete
      <4> QED BY <4>1, <1>6 DEF IsStart
    <3> QED BY <3>1, <3>2
  <2>2. ASSUME builder'[e].pc = "failed"
        PROVE  \E i \in 1..Len(records') : records'[i].kind = "builder failed" /\ records'[i].drv = e
    <3>1. CASE e = d
      <4>1. PICK k \in 1..Len(new) : new[k].kind = "builder failed" /\ new[k].drv = d
        BY <3>1, <2>2 DEF OwnStep
      <4> QED BY <3>1, <4>1, <1>5
    <3>2. CASE e # d
      <4>1. builder[e].pc = "failed"
        BY <2>2, <3>2 DEF OwnStep
      <4>2. PICK i \in 1..Len(records) : records[i].kind = "builder failed" /\ records[i].drv = e
        BY <4>1, <1>2 DEF RecordsComplete
      <4> QED BY <4>2, <1>6
    <3> QED BY <3>1, <3>2
  <2>3. CASE \E k \in 1..Len(new) : new[k].kind = "phase" /\ new[k].drv = e
    <3>1. PICK k \in 1..Len(new) : new[k].kind = "phase" /\ new[k].drv = e
      BY <2>3
    <3>2. /\ e = d /\ Len(new) = 1 /\ builder'[d].phase # 0
          /\ new[k].phase = BuildPhases[builder'[d].phase]
      BY <3>1 DEF OwnStep
    <3>3. k = 1 /\ Len(records') = Len(records) + 1
      BY <3>2, <1>5
    <3>4. (Len(records) + 1 \in 1..Len(records')) /\ records'[Len(records) + 1] = new[1]
      BY <3>3, <1>5
    <3>5. \A j \in (Len(records) + 1 + 1)..Len(records') : FALSE
      BY <3>3, <1>3
    <3>6. \E i \in 1..Len(records') :
            /\ records'[i].kind = "phase" /\ records'[i].drv = e
            /\ records'[i].phase = BuildPhases[builder'[e].phase]
            /\ \A j \in (i + 1)..Len(records') : ~IsPhase(j, e)'
      BY <3>1, <3>2, <3>3, <3>4, <3>5
    <3> QED BY <2>1, <2>2, <3>2, <3>6 DEF IsPhase
  <2>4. CASE ~\E k \in 1..Len(new) : new[k].kind = "phase" /\ new[k].drv = e
    <3>1. builder'[e].phase = builder[e].phase
      BY <2>4 DEF OwnStep
    <3>2. ASSUME NEW i \in 1..Len(records'), IsPhase(i, e)' PROVE i \in 1..Len(records) /\ IsPhase(i, e)
      BY <1>4, <2>4, <3>2 DEF IsPhase
    <3>3. builder'[e].phase = 0 => \A i \in 1..Len(records') : ~IsPhase(i, e)'
      BY <3>1, <3>2, <1>2 DEF RecordsComplete
    <3>4. ASSUME builder'[e].phase # 0
          PROVE  \E i \in 1..Len(records') :
                   /\ IsPhase(i, e)' /\ records'[i].phase = BuildPhases[builder'[e].phase]
                   /\ \A j \in (i + 1)..Len(records') : ~IsPhase(j, e)'
      <4>1. PICK i \in 1..Len(records) :
               /\ IsPhase(i, e) /\ records[i].phase = BuildPhases[builder[e].phase]
               /\ \A j \in (i + 1)..Len(records) : ~IsPhase(j, e)
        BY <3>1, <3>4, <1>2 DEF RecordsComplete
      <4>2. i \in 1..Len(records') /\ records'[i] = records[i]
        BY <1>6
      <4>3. ASSUME NEW j \in (i + 1)..Len(records'), IsPhase(j, e)' PROVE FALSE
        <5>1. j \in 1..Len(records')
          BY <1>3
        <5>2. j \in 1..Len(records) /\ IsPhase(j, e)
          BY <5>1, <4>3, <3>2
        <5>3. j \in (i + 1)..Len(records)
          BY <5>2, <1>3
        <5> QED BY <4>1, <5>2, <5>3
      <4>4. IsPhase(i, e)'
        BY <4>1, <4>2 DEF IsPhase
      <4> QED BY <4>1, <4>2, <4>3, <4>4, <3>1
    <3> QED BY <2>1, <2>2, <3>3, <3>4
  <2> QED BY <2>3, <2>4
<1>10. RowsFollow'
  BY <1>2, <1>3, <1>6, RowsKept DEF OwnStep
<1>11. Ended' /\ VerdictsTrue'
  BY <1>2, Undecided DEF Ended, OwnStep
<1> QED BY <1>7, <1>8, <1>9, <1>10, <1>11 DEF EvidenceInv, OwnStep

\* Sequences: a pair, a function on a beginning of the numbers, a concatenation.
LEMMA PairIsSeq ==
  ASSUME NEW S, NEW a \in S, NEW b \in S
  PROVE  /\ <<a, b>> \in Seq(S) /\ Len(<<a, b>>) = 2
         /\ <<a, b>>[1] = a /\ <<a, b>>[2] = b
OBVIOUS

\* A function on 1..n is a sequence.
LEMMA FunctionIsSeq ==
  ASSUME NEW S, NEW n \in Nat, NEW f \in [1..n -> S]
  PROVE  f \in Seq(S) /\ Len(f) = n
OBVIOUS

\* The elements of a concatenation.
LEMMA ConcatIsSeq ==
  ASSUME NEW S, NEW p \in Seq(S), NEW q \in Seq(S)
  PROVE  /\ p \o q \in Seq(S) /\ Len(p \o q) = Len(p) + Len(q)
         /\ \A i \in 1..Len(p) : (p \o q)[i] = p[i]
         /\ \A i \in 1..(Len(p) + Len(q)) : i > Len(p) => (p \o q)[i] = q[i - Len(p)]
OBVIOUS

\* Nothing is said of the records while they and the builders stay.
LEMMA RecordsKept ==
  ASSUME RecordsTrue, RecordsComplete, UNCHANGED <<builder, records, cut>>
  PROVE  RecordsTrue' /\ RecordsComplete'
<1>1. RecordsTrue'
  BY DEF RecordsTrue, IsStart
<1>2. RecordsComplete'
  <2> DEFINE Recorded(b, rs, d) ==
        /\ b.pc # "none" => \E i \in 1..Len(rs) : rs[i].kind = "start" /\ rs[i].drv = d
        /\ b.pc = "failed" => \E i \in 1..Len(rs) : rs[i].kind = "builder failed" /\ rs[i].drv = d
        /\ b.phase = 0 => \A i \in 1..Len(rs) : ~(rs[i].kind = "phase" /\ rs[i].drv = d)
        /\ b.phase # 0 =>
             \E i \in 1..Len(rs) :
               /\ rs[i].kind = "phase" /\ rs[i].drv = d /\ rs[i].phase = BuildPhases[b.phase]
               /\ \A j \in (i + 1)..Len(rs) : ~(rs[j].kind = "phase" /\ rs[j].drv = d)
  <2>1. RecordsComplete => (~cut => \A d \in Steps : Recorded(builder[d], records, d))
    BY Zenon DEF RecordsComplete, IsStart, IsPhase
  <2>2. (~cut' => \A d \in Steps : Recorded(builder'[d], records', d)) => RecordsComplete'
    BY Zenon DEF RecordsComplete, IsStart, IsPhase
  <2> HIDE DEF Recorded
  <2> QED BY <2>1, <2>2
<1> QED BY <1>1, <1>2

\* Each of the builders' actions is such a step.
LEMMA BuildersStep ==
  ASSUME EvidenceInv,
         \/ \E i \in DOMAIN Step : StartBuilder(i)
         \/ \E d \in Steps, n \in DOMAIN BuildPhases : EnterPhase(d, n)
         \/ \E d \in Steps : Succeed(d)
         \/ \E i \in DOMAIN Step : Break(i)
  PROVE  EvidenceInv'
<1>1. BuiltHere /\ realized \subseteq Steps
      /\ builder \in [Steps -> [pc : {"none", "running", "built", "failed"}, phase : 0..3]]
  BY DEF EvidenceInv, EvidenceTypeOK
<1>2. \A i \in DOMAIN Step : Step[i] \in Steps
  BY DEF Steps
<1>3. ASSUME NEW i \in DOMAIN Step, StartBuilder(i) PROVE EvidenceInv'
  <2> DEFINE d == Step[i]
             new == <<Line("start", d, "none")>>
  <2>1. d \in Steps /\ new \in Seq(LogLine) /\ Len(new) = 1
        /\ new[1].kind = "start" /\ new[1].drv = d
    BY <1>2 DEF Line, LogLine, PhaseNames
  <2>2. /\ builder[d].pc = "none" /\ d \notin realized
        /\ builder' = [builder EXCEPT ![d].pc = "running"]
        /\ Write(new) /\ UNCHANGED <<before, realized, activities, taken, reason, verdict>>
    BY <1>3 DEF StartBuilder
  <2> HIDE DEF d, new
  <2>3. /\ builder' \in [Steps -> [pc : {"none", "running", "built", "failed"}, phase : 0..3]]
        /\ \A e \in Steps \ {d} : builder'[e] = builder[e]
        /\ builder'[d].pc = "running" /\ builder'[d].phase = builder[d].phase
    BY <2>1, <2>2, <1>1
  <2>4. BuiltHere'
    BY <2>1, <2>2, <2>3, <1>1 DEF BuiltHere
  <2>5. OwnStep(d, new)
    <3>1. 1 \in 1..Len(new) /\ \A k \in 1..Len(new) : k = 1
      BY <2>1
    <3> QED BY <3>1, <2>1, <2>2, <2>3, <2>4, <1>1 DEF OwnStep
  <2> QED BY <2>1, <2>2, <2>5, BuilderStep
<1>4. ASSUME NEW d \in Steps, NEW n \in DOMAIN BuildPhases, EnterPhase(d, n) PROVE EvidenceInv'
  <2> DEFINE new == <<Line("phase", d, BuildPhases[n])>>
  <2>0. n \in 1..3 /\ BuildPhases[n] \in PhaseNames \ {"none"}
    BY DEF BuildPhases, PhaseNames
  <2>1. new \in Seq(LogLine) /\ Len(new) = 1 /\ new[1].kind = "phase" /\ new[1].drv = d
        /\ new[1].phase = BuildPhases[n]
    BY <2>0 DEF Line, LogLine
  <2>2. /\ builder[d].pc = "running"
        /\ builder' = [builder EXCEPT ![d].phase = n]
        /\ Write(new) /\ UNCHANGED <<before, realized, activities, taken, reason, verdict>>
    BY <1>4 DEF EnterPhase
  <2> HIDE DEF new
  <2>3. /\ builder' \in [Steps -> [pc : {"none", "running", "built", "failed"}, phase : 0..3]]
        /\ \A e \in Steps \ {d} : builder'[e] = builder[e]
        /\ builder'[d].pc = "running" /\ builder'[d].phase = n
    BY <2>0, <2>2, <1>1
  <2>4. BuiltHere'
    <3>1. \A e \in Steps : builder'[e].pc = builder[e].pc
      BY <2>2, <2>3
    <3>2. before \subseteq Steps
      BY DEF EvidenceInv, EvidenceTypeOK
    <3> QED BY <3>1, <3>2, <2>2, <1>1 DEF BuiltHere
  <2>5. OwnStep(d, new)
    <3>1. 1 \in 1..Len(new) /\ \A k \in 1..Len(new) : k = 1
      BY <2>1
    <3>2. \A k \in 1..Len(new) :
            /\ new[k].kind = "phase" /\ new[k].drv = d /\ Len(new) = 1
            /\ builder'[d].phase # 0 /\ new[k].phase = BuildPhases[builder'[d].phase]
            /\ new[k].phase # "none"
      BY <3>1, <2>0, <2>1, <2>3
    <3>3. \E k \in 1..Len(new) : new[k].kind = "phase" /\ new[k].drv = d
      BY <3>1, <2>1
    <3>4. UNCHANGED <<before, activities, taken, reason, verdict>> /\ realized' \subseteq Steps
      BY <2>2, <1>1
    <3> QED BY <3>2, <3>3, <3>4, <2>2, <2>3, <2>4 DEF OwnStep
  <2> QED BY <2>1, <2>2, <2>5, BuilderStep
<1>5. ASSUME NEW d \in Steps, Succeed(d) PROVE EvidenceInv'
  <2> DEFINE new == <<Line("stop", d, "none")>>
  <2>1. new \in Seq(LogLine) /\ Len(new) = 1 /\ new[1].kind = "stop" /\ new[1].drv = d
    BY DEF Line, LogLine, PhaseNames
  <2>2. /\ builder[d].pc = "running" /\ realized' = realized \cup {d}
        /\ builder' = [builder EXCEPT ![d].pc = "built"]
        /\ Write(new) /\ UNCHANGED <<before, activities, taken, reason, verdict>>
    BY <1>5 DEF Succeed
  <2> HIDE DEF new
  <2>3. /\ builder' \in [Steps -> [pc : {"none", "running", "built", "failed"}, phase : 0..3]]
        /\ \A e \in Steps \ {d} : builder'[e] = builder[e]
        /\ builder'[d].pc = "built" /\ builder'[d].phase = builder[d].phase
    BY <2>2, <1>1
  <2>4. BuiltHere'
    <3>1. before \subseteq Steps /\ d \notin before
      BY <2>2, <1>1 DEF EvidenceInv, EvidenceTypeOK, BuiltHere
    <3> QED BY <3>1, <2>2, <2>3, <1>1 DEF BuiltHere
  <2>5. OwnStep(d, new)
    <3>1. 1 \in 1..Len(new) /\ \A k \in 1..Len(new) : k = 1
      BY <2>1
    <3> QED BY <3>1, <2>1, <2>2, <2>3, <2>4, <1>1 DEF OwnStep
  <2> QED BY <2>1, <2>2, <2>5, BuilderStep
<1>6. ASSUME NEW i \in DOMAIN Step, Break(i) PROVE EvidenceInv'
  <2> DEFINE d == Step[i]
             own == <<Line("stop", d, "none"), Line("builder failed", d, "none")>>
             n == Len(Step) - i
             others == [j \in 1..n |-> Line("dependency failed", Step[i + j], "none")]
             new == own \o others
  <2>0. i \in Nat /\ n \in Nat /\ \A j \in 1..n : Step[i + j] \in Steps
    <3>1. Len(Step) \in Nat /\ DOMAIN Step = 1..Len(Step)
      BY EvidenceAssumption
    <3>2. i \in Nat /\ n \in Nat /\ \A j \in 1..n : i + j \in DOMAIN Step
      BY <3>1
    <3> QED BY <3>2, <1>2
  <2>1. d \in Steps /\ own \in Seq(LogLine) /\ Len(own) = 2
        /\ own[1].kind = "stop" /\ own[2].kind = "builder failed" /\ own[2].drv = d
    <3>1. d \in Steps
      BY <1>2
    <3>2. \A kind \in {"stop", "builder failed"} : Line(kind, d, "none") \in LogLine
      BY <3>1 DEF Line, LogLine, PhaseNames
    <3>3. /\ Line("stop", d, "none").kind = "stop" /\ Line("builder failed", d, "none").drv = d
          /\ Line("builder failed", d, "none").kind = "builder failed"
      BY DEF Line
    <3> QED BY <3>1, <3>2, <3>3, PairIsSeq
  <2>2. /\ others \in Seq(LogLine) /\ Len(others) = n
        /\ \A j \in 1..n : others[j].kind = "dependency failed"
    <3>1. \A j \in 1..n : Line("dependency failed", Step[i + j], "none") \in LogLine
      BY <2>0 DEF Line, LogLine, PhaseNames
    <3>2. \A j \in 1..n : Line("dependency failed", Step[i + j], "none").kind = "dependency failed"
      BY DEF Line
    <3>3. others \in [1..n -> LogLine]
      BY <3>1
    <3>4. \A j \in 1..n : others[j].kind = "dependency failed"
      BY <3>2
    <3> HIDE DEF n, others
    <3> QED BY <2>0, <3>3, <3>4, FunctionIsSeq
  <2>3. /\ builder[d].pc = "running"
        /\ builder' = [builder EXCEPT ![d].pc = "failed"]
        /\ Write(new) /\ UNCHANGED <<before, realized, activities, taken, reason, verdict>>
    BY <1>6 DEF Break
  <2> HIDE DEF d, own, n, others
  <2>4. /\ new \in Seq(LogLine) /\ Len(new) = n + 2
        /\ new[1] = own[1] /\ new[2] = own[2]
        /\ \A k \in 1..Len(new) : k > 2 => k - 2 \in 1..n /\ new[k] = others[k - 2]
    <3>1. /\ new \in Seq(LogLine) /\ Len(new) = Len(own) + Len(others)
          /\ \A k \in 1..Len(own) : new[k] = own[k]
          /\ \A k \in 1..(Len(own) + Len(others)) : k > Len(own) => new[k] = others[k - Len(own)]
      BY ONLY <2>1, <2>2, ConcatIsSeq, ZenonT(30)
    <3> HIDE DEF new
    <3>2. n \in Nat /\ Len(own) = 2 /\ Len(others) = n
      BY <2>0, <2>1, <2>2
    <3>3. Len(new) = n + 2 /\ 1 \in 1..Len(own) /\ 2 \in 1..Len(own)
      BY <3>1, <3>2
    <3>4. new[1] = own[1] /\ new[2] = own[2]
      BY <3>1, <3>3
    <3>5. ASSUME NEW k \in 1..Len(new), k > 2 PROVE k - 2 \in 1..n /\ new[k] = others[k - 2]
      <4>1. k \in 1..(Len(own) + Len(others)) /\ k > Len(own) /\ k - 2 \in 1..n
        BY <3>2, <3>3, <3>5
      <4> QED BY <4>1, <3>1, <3>2
    <3> QED BY <3>1, <3>3, <3>4, <3>5
  <2> HIDE DEF new
  <2>5. /\ 2 \in 1..Len(new) /\ new[2].kind = "builder failed" /\ new[2].drv = d
        /\ \A k \in 1..Len(new) :
             /\ new[k].kind \in {"stop", "builder failed", "dependency failed"}
             /\ new[k].kind = "builder failed" => new[k].drv = d
    <3>1. ASSUME NEW k \in 1..Len(new)
          PROVE  /\ new[k].kind \in {"stop", "builder failed", "dependency failed"}
                 /\ new[k].kind = "builder failed" => new[k].drv = d
      <4>1. k = 1 \/ k = 2 \/ k > 2
        BY <2>0, <2>4
      <4> QED BY <4>1, <2>1, <2>2, <2>4
    <3>2. 2 \in 1..Len(new)
      BY <2>0, <2>4
    <3> QED BY <3>1, <3>2, <2>1, <2>4
  <2>6. /\ builder' \in [Steps -> [pc : {"none", "running", "built", "failed"}, phase : 0..3]]
        /\ \A e \in Steps \ {d} : builder'[e] = builder[e]
        /\ builder'[d].pc = "failed" /\ builder'[d].phase = builder[d].phase
    BY <2>1, <2>3, <1>1
  <2>7. BuiltHere'
    <3>1. before \subseteq Steps /\ d \notin before
      BY <2>3, <1>1 DEF EvidenceInv, EvidenceTypeOK, BuiltHere
    <3> QED BY <3>1, <2>1, <2>3, <2>6, <1>1 DEF BuiltHere
  <2>8. OwnStep(d, new)
    BY <2>1, <2>3, <2>5, <2>6, <2>7, <1>1 DEF OwnStep
  <2> QED BY <2>1, <2>3, <2>4, <2>8, BuilderStep
<1> QED BY <1>3, <1>4, <1>5, <1>6

\* Observing a record makes the row what the records up to it say.
LEMMA ObserveStep == ASSUME EvidenceInv, ObserveRecord PROVE EvidenceInv'
<1> DEFINE r == records[taken + 1]
           d == r.drv
<1>1. /\ taken < Len(records)
      /\ activities' = [activities EXCEPT ![d] = observe(@, r)]
      /\ taken' = taken + 1
      /\ UNCHANGED <<before, realized, builder, records, cut, reason, verdict>>
  BY DEF ObserveRecord
<1>2. taken \in Nat /\ Len(records) \in Nat /\ taken + 1 \in 1..Len(records)
  BY <1>1 DEF EvidenceInv, EvidenceTypeOK
<1>3. r \in LogLine /\ d \in Steps /\ r.phase \in PhaseNames
  <2>1. r \in LogLine
    BY <1>2 DEF EvidenceInv, EvidenceTypeOK
  <2> QED BY <2>1 DEF LogLine
<1>4. activities[d] \in [drv : Steps \cup {"none"}, phase : PhaseNames,
                         checks : SUBSET {"checkPhase"}, stopped : BOOLEAN]
  BY <1>3 DEF EvidenceInv, EvidenceTypeOK
<1> DEFINE row == activities[d]
           next == observe(row, r)
<1>5. next \in [drv : Steps \cup {"none"}, phase : PhaseNames,
                checks : SUBSET {"checkPhase"}, stopped : BOOLEAN]
  BY <1>3, <1>4 DEF observe, NoRow
<1>6. activities'[d] = next /\ \A e \in Steps \ {d} : activities'[e] = activities[e]
  BY <1>1, <1>3 DEF EvidenceInv, EvidenceTypeOK
<1>7. EvidenceTypeOK'
  <2>1. activities' \in [Steps -> [drv : Steps \cup {"none"}, phase : PhaseNames,
                                   checks : SUBSET {"checkPhase"}, stopped : BOOLEAN]]
    BY <1>1, <1>3, <1>5 DEF EvidenceInv, EvidenceTypeOK
  <2> QED BY <2>1, <1>1, <1>2 DEF EvidenceInv, EvidenceTypeOK
<1>8. /\ next # NoRow <=> row # NoRow \/ r.kind = "start"
      /\ next.checks # {} <=>
           row.checks # {} \/ (row # NoRow /\ r.kind = "phase" /\ r.phase = "checkPhase")
      /\ next.phase = IF row # NoRow /\ r.kind = "phase" THEN r.phase ELSE row.phase
  <2>1. d # "none"
    BY <1>3, EvidenceAssumption DEF Steps
  <2> HIDE DEF r, d, row
  <2>2. CASE r.kind = "start" /\ row = NoRow
    <3>1. next = [NoRow EXCEPT !.drv = d]
      BY <2>2 DEF observe, d
    <3>2. next.drv = d /\ next.phase = "none" /\ next.checks = {} /\ NoRow.drv = "none"
          /\ NoRow.phase = "none" /\ NoRow.checks = {}
      BY <3>1 DEF NoRow
    <3> QED BY <2>1, <2>2, <3>2
  <2>3. CASE r.kind = "phase" /\ row # NoRow
    <3>1. next = [row EXCEPT !.phase = r.phase, !.checks = @ \cup ({r.phase} \cap {"checkPhase"})]
      BY <2>3 DEF observe
    <3>2. next.phase = r.phase /\ next.checks = row.checks \cup ({r.phase} \cap {"checkPhase"})
      BY <3>1, <1>4 DEF row
    <3>3. next # NoRow
      <4>1. taken + 1 \in 1..Len(records) /\ records[taken + 1].kind = "phase"
        BY <1>2, <2>3 DEF r
      <4>2. r.phase # "none"
        BY <4>1 DEF EvidenceInv, RecordsTrue, r
      <4> QED BY <3>2, <4>2 DEF NoRow
    <3> QED BY <2>3, <3>2, <3>3
  <2>4. CASE r.kind = "stop" /\ row # NoRow
    <3>1. next = [row EXCEPT !.stopped = TRUE]
      BY <2>4 DEF observe
    <3>2. next.phase = row.phase /\ next.checks = row.checks /\ next.stopped = TRUE
      BY <3>1, <1>4 DEF row
    <3>3. next # NoRow
      BY <3>2 DEF NoRow
    <3> QED BY <2>4, <3>2, <3>3
  <2>5. CASE ~(r.kind = "start" /\ row = NoRow) /\ ~(r.kind = "phase" /\ row # NoRow)
             /\ ~(r.kind = "stop" /\ row # NoRow)
    <3>1. next = row
      BY <2>5 DEF observe
    <3> QED BY <2>5, <3>1 DEF NoRow
  <2> QED BY <2>2, <2>3, <2>4, <2>5
<1> HIDE DEF row, next
<1>9. ASSUME NEW e \in Steps
      PROVE  (/\ activities[e] # NoRow <=> \E i \in 1..taken : IsStart(i, e)
              /\ activities[e].checks # {} <=>
                   \E i \in 1..taken : IsPhase(i, e) /\ records[i].phase = "checkPhase"
              /\ (\A i \in 1..taken : ~IsPhase(i, e)) => activities[e].phase = "none"
              /\ \A i \in 1..taken :
                   IsPhase(i, e) /\ (\A j \in (i + 1)..taken : ~IsPhase(j, e))
                     => activities[e].phase = records[i].phase)'
  <2>1. /\ activities[e] # NoRow <=> \E i \in 1..taken : IsStart(i, e)
        /\ activities[e].checks # {} <=>
             \E i \in 1..taken : IsPhase(i, e) /\ records[i].phase = "checkPhase"
        /\ (\A i \in 1..taken : ~IsPhase(i, e)) => activities[e].phase = "none"
        /\ \A i \in 1..taken :
             IsPhase(i, e) /\ (\A j \in (i + 1)..taken : ~IsPhase(j, e))
               => activities[e].phase = records[i].phase
    BY DEF EvidenceInv, RowsFollow
  <2>2. \A i : (IsStart(i, e)' <=> IsStart(i, e)) /\ (IsPhase(i, e)' <=> IsPhase(i, e))
    BY <1>1 DEF IsStart, IsPhase
  <2>3. taken' = taken + 1 /\ records' = records /\ taken + 1 \in 1..(taken + 1)
        /\ \A i \in 1..(taken + 1) : i \in 1..taken \/ i = taken + 1
    BY <1>1, <1>2
  <2>4. \A i \in 1..taken : i \in 1..(taken + 1) /\ taken + 1 \in (i + 1)..(taken + 1)
    BY <1>2
  <2>5. \A i \in 1..taken : \A j \in (i + 1)..taken : j \in (i + 1)..(taken + 1)
    BY <1>2
  <2>6. IsPhase(taken + 1, d) => row # NoRow
    <3> HAVE IsPhase(taken + 1, d)
    <3>1. PICK j \in 1..((taken + 1) - 1) : IsStart(j, d)
      BY <1>2 DEF EvidenceInv, RecordsTrue, IsPhase
    <3>2. j \in 1..taken
      BY <1>2
    <3> QED BY <3>1, <3>2, <1>3 DEF EvidenceInv, RowsFollow, row
  <2>7. CASE e # d
    <3>1. ~IsStart(taken + 1, e) /\ ~IsPhase(taken + 1, e) /\ activities'[e] = activities[e]
      BY <2>7, <1>6 DEF IsStart, IsPhase
    <3>2. /\ (\E i \in 1..(taken + 1) : IsStart(i, e)) <=> (\E i \in 1..taken : IsStart(i, e))
          /\ (\A i \in 1..(taken + 1) : ~IsPhase(i, e)) <=> (\A i \in 1..taken : ~IsPhase(i, e))
          /\ (\E i \in 1..(taken + 1) : IsPhase(i, e) /\ records[i].phase = "checkPhase")
               <=> (\E i \in 1..taken : IsPhase(i, e) /\ records[i].phase = "checkPhase")
      BY <3>1, <2>3, <2>4
    <3>3. ASSUME NEW i \in 1..(taken + 1), IsPhase(i, e),
                 \A j \in (i + 1)..(taken + 1) : ~IsPhase(j, e)
          PROVE  activities[e].phase = records[i].phase
      <4>1. i \in 1..taken
        BY <3>1, <3>3, <2>3
      <4>2. \A j \in (i + 1)..taken : ~IsPhase(j, e)
        BY <4>1, <3>3, <2>5
      <4> QED BY <4>1, <4>2, <3>3, <2>1
    <3> QED BY <2>1, <2>2, <2>3, <3>1, <3>2, <3>3
  <2>8. CASE e = d
    <3>1. /\ (\E i \in 1..(taken + 1) : IsStart(i, d)) <=>
               (r.kind = "start" \/ \E i \in 1..taken : IsStart(i, d))
          /\ (\E i \in 1..(taken + 1) : IsPhase(i, d) /\ records[i].phase = "checkPhase")
               <=> ((r.kind = "phase" /\ r.phase = "checkPhase")
                      \/ \E i \in 1..taken : IsPhase(i, d) /\ records[i].phase = "checkPhase")
          /\ IsPhase(taken + 1, d) <=> r.kind = "phase"
      BY <2>3, <2>4 DEF IsStart, IsPhase
    <3>2. activities'[e] = next /\ activities[e] = row
      BY <2>8, <1>6 DEF row
    <3>3. activities'[e] # NoRow <=> \E i \in 1..(taken + 1) : IsStart(i, e)
      BY <2>1, <2>8, <3>1, <3>2, <1>8
    <3>4. activities'[e].checks # {} <=>
             \E i \in 1..(taken + 1) : IsPhase(i, e) /\ records[i].phase = "checkPhase"
      BY <2>1, <2>6, <2>8, <3>1, <3>2, <1>8
    <3>5. (\A i \in 1..(taken + 1) : ~IsPhase(i, e)) => activities'[e].phase = "none"
      BY <2>1, <2>3, <2>4, <2>8, <3>1, <3>2, <1>8
    <3>6. ASSUME NEW i \in 1..(taken + 1), IsPhase(i, e),
                 \A j \in (i + 1)..(taken + 1) : ~IsPhase(j, e)
          PROVE  activities'[e].phase = records[i].phase
      <4>1. CASE i = taken + 1
        BY <4>1, <3>6, <2>6, <2>8, <3>1, <3>2, <1>8
      <4>2. CASE i \in 1..taken
        <5>1. ~IsPhase(taken + 1, d)
          BY <4>2, <3>6, <2>4, <2>8
        <5>2. \A j \in (i + 1)..taken : ~IsPhase(j, e)
          BY <4>2, <3>6, <2>5
        <5>3. activities[e].phase = records[i].phase
          BY <4>2, <5>2, <3>6, <2>1
        <5> QED BY <5>1, <5>3, <3>1, <3>2, <1>8
      <4> QED BY <4>1, <4>2, <2>3
    <3> QED BY <2>2, <2>3, <3>3, <3>4, <3>5, <3>6
  <2> QED BY <2>7, <2>8
<1>10. RowsFollow'
  BY <1>9 DEF RowsFollow
<1>11. BuiltHere' /\ Ended'
  BY <1>1 DEF EvidenceInv, BuiltHere, Ended
<1>12. RecordsTrue' /\ RecordsComplete'
  BY <1>1, RecordsKept DEF EvidenceInv
<1>13. VerdictsTrue'
  BY <1>1 DEF EvidenceInv, VerdictsTrue, PassedIsBuilt, FailureIsOwn, ReportIsComplete
<1> QED BY <1>7, <1>10, <1>11, <1>12, <1>13 DEF EvidenceInv

\* The verdicts that are given are true.
LEMMA SettleStep == ASSUME EvidenceInv, SettleVerdict PROVE EvidenceInv'
<1>1. /\ reason # "none" /\ (reason # "stopped" => taken = Len(records))
      /\ verdict' = [d \in Steps |-> VerdictOn(d)]
      /\ UNCHANGED <<before, realized, builder, records, cut, activities, taken, reason>>
  BY DEF SettleVerdict
<1>2. EvidenceTypeOK' /\ BuiltHere' /\ Ended'
  BY <1>1 DEF EvidenceInv, EvidenceTypeOK, BuiltHere, Ended
<1>3. RecordsTrue' /\ RecordsComplete' /\ RowsFollow'
  <2>1. Len(records) \in Nat
    BY DEF EvidenceInv, EvidenceTypeOK
  <2>2. RecordsTrue' /\ RecordsComplete'
    BY <1>1, RecordsKept DEF EvidenceInv
  <2> QED BY <2>1, <2>2, <1>1, RowsKept DEF EvidenceInv
<1>4. taken \in Nat /\ Len(records) \in Nat /\ taken <= Len(records) /\ records \in Seq(LogLine)
      /\ DOMAIN records = 1..Len(records)
  BY DEF EvidenceInv, EvidenceTypeOK
<1> DEFINE Checked(d) == \E i \in DOMAIN records : records[i] = Line("phase", d, "checkPhase")
<1>5. ASSUME NEW d \in Steps
      PROVE  /\ activities[d].checks # {} => Checked(d)
             /\ taken = Len(records) /\ Checked(d) => activities[d].checks # {}
  <2>1. \A i \in 1..Len(records) : records[i] = Line("phase", d, "checkPhase") <=>
          IsPhase(i, d) /\ records[i].phase = "checkPhase"
    <3> TAKE i \in 1..Len(records)
    <3>1. records[i] \in LogLine
      BY <1>4
    <3>2. records[i] = [kind |-> records[i].kind, drv |-> records[i].drv, phase |-> records[i].phase]
      BY <3>1 DEF LogLine
    <3> QED BY <3>2 DEF Line, IsPhase
  <2>2. activities[d].checks # {} <=>
          \E i \in 1..taken : IsPhase(i, d) /\ records[i].phase = "checkPhase"
    BY DEF EvidenceInv, RowsFollow
  <2>3. \A i \in 1..taken : i \in 1..Len(records)
    BY <1>4
  <2> QED BY <2>1, <2>2, <2>3, <1>4
<1> HIDE DEF Checked
<1>6. ASSUME NEW d \in Steps
      PROVE  d \in failure_messages <=>
               \E i \in 1..Len(records) : records[i].kind = "builder failed" /\ records[i].drv = d
  BY <1>4 DEF failure_messages
<1>7. ASSUME NEW d \in Steps, reason = "build-error"
      PROVE  /\ activities[d].phase = "buildPhase" => builder[d].phase = 1
             /\ activities[d].phase = "checkPhase" => builder[d].phase = 2
  <2>1. ~cut /\ taken = Len(records)
    BY <1>1, <1>7 DEF EvidenceInv, Ended
  <2>2. builder[d].phase \in 0..3
    BY DEF EvidenceInv, EvidenceTypeOK
  <2>3. CASE builder[d].phase = 0
    <3>1. activities[d].phase = "none"
      BY <2>1, <2>3 DEF EvidenceInv, RecordsComplete, RowsFollow
    <3> QED BY <3>1
  <2>4. CASE builder[d].phase # 0
    <3>1. PICK i \in 1..Len(records) :
            /\ IsPhase(i, d) /\ records[i].phase = BuildPhases[builder[d].phase]
            /\ \A j \in (i + 1)..Len(records) : ~IsPhase(j, d)
      BY <2>1, <2>4 DEF EvidenceInv, RecordsComplete
    <3>2. activities[d].phase = BuildPhases[builder[d].phase]
      BY <2>1, <3>1 DEF EvidenceInv, RowsFollow
    <3> QED BY <3>2, <2>2, <2>4 DEF BuildPhases
  <2> QED BY <2>3, <2>4
<1>8. ASSUME NEW d \in Steps
      PROVE  /\ verdict'[d] \in {"built", "tested"} => builder[d].pc = "built"
             /\ verdict'[d] = "tested" => Checked(d)
             /\ verdict'[d] \in {"failed to build", "failed its checks", "failed"} => builder[d].pc = "failed"
             /\ verdict'[d] = "failed to build" => builder[d].phase = 1
             /\ verdict'[d] = "failed its checks" => builder[d].phase = 2
             /\ reason \in {"completed", "build-error"} =>
                  /\ builder[d].pc = "built" => verdict'[d] = (IF Checked(d) THEN "tested" ELSE "built")
                  /\ builder[d].pc = "failed" =>
                       verdict'[d] \in {"failed to build", "failed its checks", "failed"}
  <2>1. verdict'[d] = VerdictOn(d)
    BY <1>1
  <2>2. /\ d \in realized <=> d \in before \/ builder[d].pc = "built"
        /\ d \in before => builder[d].pc = "none"
    BY DEF EvidenceInv, BuiltHere
  <2>3. CASE d \in realized
    <3>1. VerdictOn(d) = IF d \in before THEN "pre-existing"
                         ELSE IF activities[d] = NoRow THEN "unknown"
                         ELSE IF activities[d].checks # {} /\ reason # "log-limit" THEN "tested" ELSE "built"
      BY <2>3 DEF VerdictOn, Complete
    <3>2. builder[d].pc # "failed"
      BY <2>2, <2>3
    <3>3. ASSUME reason \in {"completed", "build-error"}, builder[d].pc = "built"
          PROVE  activities[d] # NoRow /\ d \notin before
      <4>1. ~cut /\ taken = Len(records)
        BY <1>1, <3>3 DEF EvidenceInv, Ended
      <4>2. \E i \in 1..Len(records) : IsStart(i, d)
        BY <3>3, <4>1 DEF EvidenceInv, RecordsComplete
      <4> QED BY <2>2, <3>3, <4>1, <4>2 DEF EvidenceInv, RowsFollow
    <3>4. CASE reason \in {"completed", "build-error"}
      BY <2>1, <2>2, <2>3, <3>1, <3>2, <3>3, <3>4, <1>1, <1>5
    <3>5. CASE reason \notin {"completed", "build-error"}
      BY <2>1, <2>2, <2>3, <3>1, <3>2, <3>5, <1>5
    <3> QED BY <3>4, <3>5
  <2>4. CASE d \notin realized
    <3>1. VerdictOn(d) =
            IF reason = "build-error" /\ d \in failure_messages
            THEN CASE activities[d].phase = "buildPhase" -> "failed to build"
                   [] activities[d].phase = "checkPhase" -> "failed its checks"
                   [] OTHER -> "failed"
            ELSE "open"
      BY <2>4 DEF VerdictOn, Complete
    <3>2. builder[d].pc # "built"
      BY <2>2, <2>4
    <3>3. reason # "completed"
      BY <2>4 DEF EvidenceInv, Ended
    <3>4. CASE reason = "build-error" /\ d \in failure_messages
      <4>1. builder[d].pc = "failed"
        <5>1. PICK i \in 1..Len(records) : records[i].kind = "builder failed" /\ records[i].drv = d
          BY <3>4, <1>6
        <5> QED BY <5>1 DEF EvidenceInv, RecordsTrue
      <4>2. CASE activities[d].phase = "buildPhase"
        <5>1. verdict'[d] = "failed to build"
          BY <2>1, <3>1, <3>4, <4>2
        <5> QED BY <4>1, <4>2, <5>1, <3>4, <1>7
      <4>3. CASE activities[d].phase = "checkPhase"
        <5>1. verdict'[d] = "failed its checks"
          BY <2>1, <3>1, <3>4, <4>3
        <5> QED BY <4>1, <4>3, <5>1, <3>4, <1>7
      <4>4. CASE activities[d].phase \notin {"buildPhase", "checkPhase"}
        <5>1. verdict'[d] = "failed"
          BY <2>1, <3>1, <3>4, <4>4
        <5> QED BY <4>1, <5>1
      <4> QED BY <4>2, <4>3, <4>4
    <3>5. CASE ~(reason = "build-error" /\ d \in failure_messages)
      <4>1. verdict'[d] = "open"
        BY <2>1, <3>1, <3>5
      <4>2. ASSUME reason = "build-error", builder[d].pc = "failed" PROVE FALSE
        <5>1. ~cut
          BY <4>2 DEF EvidenceInv, Ended
        <5>2. \E i \in 1..Len(records) : records[i].kind = "builder failed" /\ records[i].drv = d
          BY <4>2, <5>1 DEF EvidenceInv, RecordsComplete
        <5> QED BY <4>2, <5>2, <3>5, <1>6
      <4> QED BY <4>1, <4>2, <3>2, <3>3
    <3> QED BY <3>4, <3>5
  <2> QED BY <2>3, <2>4
<1>9. VerdictsTrue'
  BY <1>1, <1>8 DEF VerdictsTrue, PassedIsBuilt, FailureIsOwn, ReportIsComplete, Checked
<1> QED BY <1>2, <1>3, <1>9 DEF EvidenceInv

\* Every step keeps the invariant.
LEMMA EvidenceStep == EvidenceInv /\ [EvidenceNext]_evidenceVars => EvidenceInv'
<1> SUFFICES ASSUME EvidenceInv, [EvidenceNext]_evidenceVars PROVE EvidenceInv'
  OBVIOUS
<1>1. ASSUME NEW how \in {"completed", "build-error", "log-limit", "stopped"}, EndAttempt(how)
      PROVE  EvidenceInv'
  <2>1. EvidenceTypeOK' /\ BuiltHere'
    BY <1>1 DEF EvidenceInv, EvidenceTypeOK, BuiltHere, EndAttempt
  <2>2. RecordsTrue' /\ RecordsComplete' /\ RowsFollow'
    <3>1. Len(records) \in Nat
      BY DEF EvidenceInv, EvidenceTypeOK
    <3>2. UNCHANGED <<builder, records, cut, activities, taken>>
      BY <1>1 DEF EndAttempt
    <3>3. RecordsTrue' /\ RecordsComplete'
      BY <3>2, RecordsKept DEF EvidenceInv
    <3> QED BY <3>1, <3>2, <3>3, RowsKept DEF EvidenceInv
  <2>3. Ended'
    BY <1>1 DEF EndAttempt, Ended
  <2>4. VerdictsTrue'
    BY <1>1, Undecided DEF EndAttempt, EvidenceInv, Ended
  <2> QED BY <2>1, <2>2, <2>3, <2>4 DEF EvidenceInv
<1>2. CASE UNCHANGED evidenceVars
  <2>1. EvidenceTypeOK' /\ BuiltHere' /\ Ended'
    BY <1>2 DEF evidenceVars, EvidenceInv, EvidenceTypeOK, BuiltHere, Ended
  <2>2. RecordsTrue' /\ RecordsComplete' /\ RowsFollow'
    <3>1. Len(records) \in Nat
      BY DEF EvidenceInv, EvidenceTypeOK
    <3>2. UNCHANGED <<builder, records, cut, activities, taken>>
      BY <1>2 DEF evidenceVars
    <3>3. RecordsTrue' /\ RecordsComplete'
      BY <3>2, RecordsKept DEF EvidenceInv
    <3> QED BY <3>1, <3>2, <3>3, RowsKept DEF EvidenceInv
  <2>3. VerdictsTrue'
    BY <1>2 DEF evidenceVars, EvidenceInv, VerdictsTrue, PassedIsBuilt, FailureIsOwn, ReportIsComplete
  <2> QED BY <2>1, <2>2, <2>3 DEF EvidenceInv
<1> QED BY <1>1, <1>2, BuildersStep, ObserveStep, SettleStep DEF EvidenceNext

\* The verdicts on a build are those of its own builders, for any chain of
\* derivations, any limit of the log, wherever it is cut and the attempt stopped.
THEOREM VerdictsStayTrue == EvidenceSpec => []VerdictsTrue
<1>1. EvidenceInv => VerdictsTrue
  BY DEF EvidenceInv
<1> QED BY <1>1, EvidenceInitInv, EvidenceStep, PTL DEF EvidenceSpec

-----------------------------------------------------------------------------
\* The commands.  Those of any number of operators are carried out at most once,
\* by the owner of the database, and answered truthfully, however often the
\* controller is killed and whenever clients give up.

\* Where a client may be.
Places == {"start", "send", "wait", "lock", "dispatch", "left",
           "refused", "late", "ok", "error", "cut off"}

ControlTypeOK ==
  /\ op \in [Client -> {"retry", "cancel", "import"}]
  /\ owner \in Client \cup {"nobody", "controller"}
  /\ waitingIn \in Seq(Client)
  /\ server \in [pc : {"off", "locked", "bound", "idle", "reading", "answering"},
                 with : Client \cup {"nobody"}, answer : {"none", "ok", "error"}]
  /\ client \in [Client -> Places]
  /\ applied \in [Client -> 0..1]
  /\ kills \in Nat

\* The lock is with the controller while it runs and with a client while it
\* carries out a command, and with nobody else.
LockHeld ==
  /\ server.pc # "off" <=> owner = "controller"
  /\ \A c \in Client : client[c] = "dispatch" <=> owner = c

\* A client in the hands of the controller: connected, or gone.
Known(c) == client[c] \in {"send", "wait", "left"}

\* Who waits, and that nobody waits twice.
InLine(q) == {q[i] : i \in 1..Len(q)}
OnlyOnce(q) == \A i, j \in 1..Len(q) : q[i] = q[j] => i = j

Occupied == server.pc \in {"reading", "answering"}

\* Nothing was done yet for those who wait.
QueueFresh ==
  /\ OnlyOnce(waitingIn)
  /\ \A c \in InLine(waitingIn) :
       /\ c \in Client /\ Known(c) /\ applied[c] = 0
       /\ Occupied => c # server.with

\* What the controller has done for the client it serves.
ServedFairly ==
  /\ server.pc = "reading" =>
       server.with \in Client /\ Known(server.with) /\ applied[server.with] = 0
  /\ server.pc = "answering" =>
       /\ server.with \in Client /\ Known(server.with)
       /\ server.answer \in Answers
       /\ server.answer = "ok" => applied[server.with] = 1
       /\ server.answer = "error" =>
            applied[server.with] = 0 \/ op[server.with] = "cancel"
       /\ client[server.with] = "send" => applied[server.with] = 0

\* Nothing is done for a client before its turn.
NotYet ==
  \A c \in Client :
    /\ client[c] \in {"start", "send", "lock", "dispatch", "refused", "late"} => applied[c] = 0
    /\ client[c] = "wait" =>
         applied[c] = 0 \/ (server.pc = "answering" /\ server.with = c)

ControlInv ==
  /\ ControlTypeOK /\ LockHeld /\ QueueFresh /\ ServedFairly /\ NotYet
  /\ AnswerIsTrue /\ OthersUnharmed

USE ControlAssumption

\* Taking the first one out of line leaves the others.
LEMMA TakeFirst ==
  ASSUME NEW S, NEW q \in Seq(S), q # <<>>, OnlyOnce(q)
  PROVE  /\ Head(q) \in S /\ Head(q) \in InLine(q)
         /\ Tail(q) \in Seq(S) /\ OnlyOnce(Tail(q))
         /\ InLine(Tail(q)) = InLine(q) \ {Head(q)}
<1>1. /\ Len(q) \in Nat /\ Len(q) # 0 /\ Head(q) = q[1] /\ Head(q) \in S
      /\ Tail(q) \in Seq(S) /\ Len(Tail(q)) = Len(q) - 1
  OBVIOUS
<1>2. \A i \in 1..Len(Tail(q)) : Tail(q)[i] = q[i + 1]
  OBVIOUS
<1>3. Head(q) \in InLine(q)
  BY <1>1 DEF InLine
<1>4. OnlyOnce(Tail(q))
  <2> SUFFICES ASSUME NEW i \in 1..Len(Tail(q)), NEW j \in 1..Len(Tail(q)),
                      Tail(q)[i] = Tail(q)[j]
               PROVE  i = j
    BY DEF OnlyOnce
  <2>1. q[i + 1] = q[j + 1] /\ i + 1 \in 1..Len(q) /\ j + 1 \in 1..Len(q)
    BY <1>1, <1>2
  <2> QED BY <2>1 DEF OnlyOnce
<1>5. ASSUME NEW c \in InLine(Tail(q)) PROVE c \in InLine(q) /\ c # Head(q)
  <2>1. PICK i \in 1..Len(Tail(q)) : c = Tail(q)[i]
    BY DEF InLine
  <2>2. c = q[i + 1] /\ i + 1 \in 1..Len(q) /\ i + 1 # 1 /\ 1 \in 1..Len(q)
    BY <2>1, <1>1, <1>2
  <2>3. c \in InLine(q)
    BY <2>2 DEF InLine
  <2>4. c # q[1]
    BY <2>2 DEF OnlyOnce
  <2> QED BY <2>3, <2>4, <1>1
<1>6. ASSUME NEW c \in InLine(q), c # Head(q) PROVE c \in InLine(Tail(q))
  <2>1. PICK i \in 1..Len(q) : c = q[i]
    BY DEF InLine
  <2>2. i # 1 /\ i - 1 \in 1..Len(Tail(q)) /\ (i - 1) + 1 = i
    BY <2>1, <1>6, <1>1
  <2>3. Tail(q)[i - 1] = c
    BY <2>1, <2>2, <1>2
  <2> QED BY <2>2, <2>3 DEF InLine
<1> QED BY <1>1, <1>3, <1>4, <1>5, <1>6

\* Someone who was not in line goes to its end.
LEMMA JoinLine ==
  ASSUME NEW S, NEW q \in Seq(S), NEW c \in S, OnlyOnce(q), c \notin InLine(q)
  PROVE  /\ Append(q, c) \in Seq(S) /\ OnlyOnce(Append(q, c))
         /\ InLine(Append(q, c)) = InLine(q) \cup {c}
<1>1. /\ Len(q) \in Nat /\ Append(q, c) \in Seq(S) /\ Len(Append(q, c)) = Len(q) + 1
      /\ Append(q, c)[Len(q) + 1] = c
      /\ \A i \in 1..Len(q) : Append(q, c)[i] = q[i]
  OBVIOUS
<1>2. \A i \in 1..(Len(q) + 1) : i = Len(q) + 1 \/ i \in 1..Len(q)
  BY <1>1
<1>3. \A i \in 1..Len(q) : q[i] # c /\ i \in 1..(Len(q) + 1)
  BY <1>1 DEF InLine
<1>4. Len(q) + 1 \in 1..(Len(q) + 1)
  BY <1>1
<1>5. OnlyOnce(Append(q, c))
  <2> SUFFICES ASSUME NEW i \in 1..(Len(q) + 1), NEW j \in 1..(Len(q) + 1),
                      Append(q, c)[i] = Append(q, c)[j]
               PROVE  i = j
    BY <1>1 DEF OnlyOnce
  <2> QED BY <1>1, <1>2, <1>3 DEF OnlyOnce
<1>6. InLine(Append(q, c)) \subseteq InLine(q) \cup {c}
  BY <1>1, <1>2 DEF InLine
<1>7. InLine(q) \cup {c} \subseteq InLine(Append(q, c))
  BY <1>1, <1>3, <1>4 DEF InLine
<1> QED BY <1>1, <1>5, <1>6, <1>7

\* Nobody is served and nothing was asked for yet.
LEMMA ControlInitInv == ControlInit => ControlInv
<1> SUFFICES ASSUME ControlInit PROVE ControlInv
  OBVIOUS
<1>1. /\ op \in [Client -> {"retry", "cancel", "import"}] /\ owner = "nobody"
      /\ waitingIn = <<>> /\ kills = 0
      /\ server = [pc |-> "off", with |-> "nobody", answer |-> "none"]
      /\ client = [c \in Client |-> "start"] /\ applied = [c \in Client |-> 0]
  BY DEF ControlInit, NotServing
<1>2. "start" \in Places
  BY DEF Places
<1>3. ControlTypeOK
  BY <1>1, <1>2 DEF ControlTypeOK
<1>4. InLine(waitingIn) = {} /\ OnlyOnce(waitingIn)
  BY <1>1 DEF InLine, OnlyOnce
<1>5. LockHeld
  BY <1>1 DEF LockHeld
<1>6. QueueFresh /\ ServedFairly /\ NotYet
  BY <1>1, <1>4 DEF QueueFresh, ServedFairly, NotYet
<1>7. AnswerIsTrue /\ OthersUnharmed
  BY <1>1 DEF AnswerIsTrue, OthersUnharmed
<1> QED BY <1>3, <1>5, <1>6, <1>7 DEF ControlInv

\* Every step of the controller and of its clients keeps all of this.
LEMMA ControlStep == ControlInv /\ [ControlNext]_controlVars => ControlInv'
<1> SUFFICES ASSUME ControlInv, [ControlNext]_controlVars PROVE ControlInv'
  OBVIOUS
<1> USE DEF ControlInv
<1>1. ASSUME StartController PROVE ControlInv'
  <2>1. /\ server.pc = "off" /\ owner = "nobody" /\ owner' = "controller"
        /\ server' = [pc |-> "locked", with |-> "nobody", answer |-> "none"]
        /\ UNCHANGED <<op, waitingIn, client, applied, kills>>
    BY <1>1 DEF StartController, NotServing
  <2>2. ControlTypeOK'
    BY <2>1 DEF ControlTypeOK
  <2>3. LockHeld'
    BY <2>1 DEF LockHeld, ControlTypeOK
  <2>4. QueueFresh'
    BY <2>1 DEF QueueFresh, ControlTypeOK, Occupied, Known
  <2>5. ServedFairly'
    BY <2>1 DEF ServedFairly, ControlTypeOK, Known, Answers
  <2>6. NotYet'
    BY <2>1 DEF NotYet, ControlTypeOK
  <2>7. AnswerIsTrue'
    BY <2>1 DEF AnswerIsTrue, ControlTypeOK
  <2>8. OthersUnharmed'
    BY <2>1 DEF OthersUnharmed, ControlTypeOK
  <2> QED BY <2>2, <2>3, <2>4, <2>5, <2>6, <2>7, <2>8
<1>2. ASSUME BindSocket PROVE ControlInv'
  <2>1. /\ server.pc = "locked" /\ server' = [server EXCEPT !.pc = "bound"]
        /\ UNCHANGED <<op, owner, waitingIn, client, applied, kills>>
    BY <1>2 DEF BindSocket
  <2>2. ControlTypeOK'
    BY <2>1 DEF ControlTypeOK
  <2>3. LockHeld'
    BY <2>1 DEF LockHeld, ControlTypeOK
  <2>4. QueueFresh'
    BY <2>1 DEF QueueFresh, ControlTypeOK, Occupied, Known
  <2>5. ServedFairly'
    BY <2>1 DEF ServedFairly, ControlTypeOK, Known, Answers
  <2>6. NotYet'
    BY <2>1 DEF NotYet, ControlTypeOK
  <2>7. AnswerIsTrue'
    BY <2>1 DEF AnswerIsTrue, ControlTypeOK
  <2>8. OthersUnharmed'
    BY <2>1 DEF OthersUnharmed, ControlTypeOK
  <2> QED BY <2>2, <2>3, <2>4, <2>5, <2>6, <2>7, <2>8
<1>3. ASSUME Listen PROVE ControlInv'
  <2>1. /\ server.pc = "bound"
        /\ server' = [pc |-> "idle", with |-> "nobody", answer |-> "none"]
        /\ UNCHANGED <<op, owner, waitingIn, client, applied, kills>>
    BY <1>3 DEF Listen, Idling, NotServing
  <2>2. ControlTypeOK'
    BY <2>1 DEF ControlTypeOK
  <2>3. LockHeld'
    BY <2>1 DEF LockHeld, ControlTypeOK
  <2>4. QueueFresh'
    BY <2>1 DEF QueueFresh, ControlTypeOK, Occupied, Known
  <2>5. ServedFairly'
    BY <2>1 DEF ServedFairly, ControlTypeOK, Known, Answers
  <2>6. NotYet'
    BY <2>1 DEF NotYet, ControlTypeOK
  <2>7. AnswerIsTrue'
    BY <2>1 DEF AnswerIsTrue, ControlTypeOK
  <2>8. OthersUnharmed'
    BY <2>1 DEF OthersUnharmed, ControlTypeOK
  <2> QED BY <2>2, <2>3, <2>4, <2>5, <2>6, <2>7, <2>8
<1>4. ASSUME Accept PROVE ControlInv'
  <2>1. /\ server.pc = "idle" /\ waitingIn # <<>>
        /\ server' = [pc |-> "reading", with |-> Head(waitingIn), answer |-> "none"]
        /\ waitingIn' = Tail(waitingIn)
        /\ UNCHANGED <<op, owner, client, applied, kills>>
    BY <1>4 DEF Accept
  <2>2. /\ Head(waitingIn) \in Client /\ Head(waitingIn) \in InLine(waitingIn)
        /\ waitingIn' \in Seq(Client) /\ OnlyOnce(waitingIn')
        /\ InLine(waitingIn') = InLine(waitingIn) \ {Head(waitingIn)}
    BY <2>1, TakeFirst DEF ControlTypeOK, QueueFresh
  <2>3. ControlTypeOK'
    BY <2>1, <2>2 DEF ControlTypeOK
  <2>4. LockHeld'
    BY <2>1, <2>2 DEF LockHeld, ControlTypeOK
  <2>5. QueueFresh'
    BY <2>1, <2>2 DEF QueueFresh, ControlTypeOK, Occupied, Known
  <2>6. ServedFairly'
    BY <2>1, <2>2 DEF ServedFairly, ControlTypeOK, Known, Answers, QueueFresh
  <2>7. NotYet'
    BY <2>1, <2>2 DEF NotYet, ControlTypeOK
  <2>8. AnswerIsTrue'
    BY <2>1, <2>2 DEF AnswerIsTrue, ControlTypeOK
  <2>9. OthersUnharmed'
    BY <2>1, <2>2 DEF OthersUnharmed, ControlTypeOK
  <2> QED BY <2>3, <2>4, <2>5, <2>6, <2>7, <2>8, <2>9
<1>5. ASSUME ReadTimeout PROVE ControlInv'
  <2>1. /\ server.pc = "reading" /\ client[server.with] = "send"
        /\ server' = [server EXCEPT !.pc = "answering", !.answer = "error"]
        /\ UNCHANGED <<op, owner, waitingIn, client, applied, kills>>
    BY <1>5 DEF ReadTimeout
  <2>2. server.with \in Client /\ applied[server.with] = 0
    BY <2>1 DEF ServedFairly
  <2>3. ControlTypeOK'
    BY <2>1, <2>2 DEF ControlTypeOK
  <2>4. LockHeld'
    BY <2>1, <2>2 DEF LockHeld, ControlTypeOK
  <2>5. QueueFresh'
    BY <2>1, <2>2 DEF QueueFresh, ControlTypeOK, Occupied, Known
  <2>6. ServedFairly'
    BY <2>1, <2>2 DEF ServedFairly, ControlTypeOK, Known, Answers
  <2>7. NotYet'
    BY <2>1, <2>2 DEF NotYet, ControlTypeOK
  <2>8. AnswerIsTrue'
    BY <2>1, <2>2 DEF AnswerIsTrue, ControlTypeOK
  <2>9. OthersUnharmed'
    BY <2>1, <2>2 DEF OthersUnharmed, ControlTypeOK
  <2> QED BY <2>3, <2>4, <2>5, <2>6, <2>7, <2>8, <2>9
<1>6. ASSUME Dispatch PROVE ControlInv'
  <2>1. PICK o \in Outcomes(server.with) :
          /\ server.pc = "reading" /\ client[server.with] # "send"
          /\ applied' = [applied EXCEPT ![server.with] = @ + o[1]]
          /\ server' = [server EXCEPT !.pc = "answering", !.answer = o[2]]
          /\ UNCHANGED <<op, owner, waitingIn, client, kills>>
    BY <1>6 DEF Dispatch
  <2> DEFINE n == o[1]
  <2> DEFINE v == o[2]
  <2>2. /\ n \in 0..1 /\ v \in {"ok", "error"}
        /\ v = "ok" => n = 1
        /\ v = "error" => n = 0 \/ op[server.with] = "cancel"
    BY DEF Outcomes
  <2>3. /\ server.pc = "reading" /\ client[server.with] # "send"
        /\ applied' = [applied EXCEPT ![server.with] = @ + n]
        /\ server' = [server EXCEPT !.pc = "answering", !.answer = v]
        /\ UNCHANGED <<op, owner, waitingIn, client, kills>>
    BY <2>1
  <2> HIDE DEF n, v
  <2>4. /\ server.with \in Client /\ client[server.with] \in {"wait", "left"}
        /\ applied[server.with] = 0
        /\ server'.pc = "answering" /\ server'.with = server.with /\ server'.answer = v
    BY <2>3 DEF ServedFairly, ControlTypeOK, Known
  <2>5. 0 + n = n
    BY <2>2
  <2>6. applied' = [applied EXCEPT ![server.with] = n]
    BY <2>3, <2>4, <2>5
  <2>7. ControlTypeOK'
    <3>1. server' \in [pc : {"off", "locked", "bound", "idle", "reading", "answering"},
                      with : Client \cup {"nobody"}, answer : {"none", "ok", "error"}]
      BY <2>2, <2>3 DEF ControlTypeOK
    <3>2. applied' \in [Client -> 0..1]
      BY <2>2, <2>4, <2>6 DEF ControlTypeOK
    <3> QED BY <2>3, <3>1, <3>2 DEF ControlTypeOK
  <2>8. LockHeld'
    BY <2>2, <2>3, <2>4, <2>6 DEF LockHeld, ControlTypeOK
  <2>9. QueueFresh'
    BY <2>2, <2>3, <2>4, <2>6 DEF QueueFresh, ControlTypeOK, Occupied, Known
  <2>10. ServedFairly'
    BY <2>2, <2>3, <2>4, <2>6 DEF ServedFairly, ControlTypeOK, Known, Answers
  <2>11. NotYet'
    BY <2>2, <2>3, <2>4, <2>6 DEF NotYet, ControlTypeOK
  <2>12. AnswerIsTrue'
    BY <2>2, <2>3, <2>4, <2>6 DEF AnswerIsTrue, ControlTypeOK
  <2>13. OthersUnharmed'
    BY <2>2, <2>3, <2>4, <2>6 DEF OthersUnharmed, ControlTypeOK
  <2> QED BY <2>7, <2>8, <2>9, <2>10, <2>11, <2>12, <2>13
<1>7. ASSUME Answer PROVE ControlInv'
  <2>1. /\ server.pc = "answering" /\ server.with \in Client
        /\ server' = [pc |-> "idle", with |-> "nobody", answer |-> "none"]
        /\ UNCHANGED <<op, owner, waitingIn, applied, kills>>
    BY <1>7 DEF Answer, Idling, NotServing, ServedFairly
  <2>2. \/ client[server.with] = "wait" /\ client' = [client EXCEPT ![server.with] = server.answer]
        \/ client[server.with] = "send" /\ client' = [client EXCEPT ![server.with] = "late"]
        \/ client[server.with] \notin {"wait", "send"} /\ UNCHANGED client
    BY <1>7 DEF Answer
  <2>3. \/ server.answer = "ok" /\ applied[server.with] = 1
        \/ server.answer = "error" /\ (applied[server.with] = 0 \/ op[server.with] = "cancel")
    BY <2>1 DEF ServedFairly, Answers
  <2>4. client[server.with] = "send" => applied[server.with] = 0
    BY <2>1 DEF ServedFairly
  <2>5. /\ client' \in [Client -> Places]
        /\ \A c \in Client : \/ client'[c] = client[c] /\ (c = server.with => client[c] \notin {"wait", "send"})
                             \/ c = server.with /\ client[c] = "wait" /\ client'[c] = server.answer
                             \/ c = server.with /\ client[c] = "send" /\ client'[c] = "late"
    <3> DEFINE w == server.with
    <3> DEFINE v == server.answer
    <3>1. client \in [Client -> Places] /\ w \in Client /\ "late" \in Places /\ v \in Places
      BY <2>1, <2>3 DEF ControlTypeOK, Places
    <3>2. \/ client[w] = "wait" /\ client' = [client EXCEPT ![w] = v]
          \/ client[w] = "send" /\ client' = [client EXCEPT ![w] = "late"]
          \/ client[w] \notin {"wait", "send"} /\ client' = client
      BY <2>2
    <3> HIDE DEF w, v
    <3>3. client' \in [Client -> Places]
      BY <3>1, <3>2
    <3>4. ASSUME NEW c \in Client
          PROVE  \/ client'[c] = client[c] /\ (c = w => client[c] \notin {"wait", "send"})
                 \/ c = w /\ client[c] = "wait" /\ client'[c] = v
                 \/ c = w /\ client[c] = "send" /\ client'[c] = "late"
      BY <3>1, <3>2
    <3> QED BY <3>3, <3>4 DEF w, v
  <2>6. ControlTypeOK'
    BY <2>1, <2>3, <2>4, <2>5 DEF ControlTypeOK
  <2>7. LockHeld'
    BY <2>1, <2>3, <2>4, <2>5 DEF LockHeld, ControlTypeOK
  <2>8. QueueFresh'
    BY <2>1, <2>3, <2>4, <2>5 DEF QueueFresh, ControlTypeOK, Occupied, Known
  <2>9. ServedFairly'
    BY <2>1, <2>3, <2>4, <2>5 DEF ServedFairly, ControlTypeOK, Known, Answers
  <2>10. NotYet'
    BY <2>1, <2>3, <2>4, <2>5 DEF NotYet, ControlTypeOK
  <2>11. AnswerIsTrue'
    BY <2>1, <2>3, <2>4, <2>5 DEF AnswerIsTrue, ControlTypeOK
  <2>12. OthersUnharmed'
    BY <2>1, <2>3, <2>5 DEF OthersUnharmed
  <2> QED BY <2>6, <2>7, <2>8, <2>9, <2>10, <2>11, <2>12
<1>8. ASSUME KillController PROVE ControlInv'
  <2>1. /\ server' = [pc |-> "off", with |-> "nobody", answer |-> "none"]
        /\ server.pc # "off" /\ owner' = "nobody" /\ waitingIn' = <<>> /\ kills' = kills + 1
        /\ UNCHANGED <<op, applied>>
    BY <1>8 DEF KillController, NotServing
  <2>2. client' = [c \in Client |->
                   IF client[c] \in {"send", "wait"} THEN "cut off" ELSE client[c]]
    BY <1>8 DEF KillController, Disconnected, Connected, Reset
  <2>3. InLine(waitingIn') = {} /\ OnlyOnce(waitingIn')
    BY <2>1 DEF InLine, OnlyOnce
  <2>4. kills' \in Nat /\ kills' > 0 /\ waitingIn' \in Seq(Client)
    <3>1. kills \in Nat /\ kills' = kills + 1
      BY <2>1 DEF ControlTypeOK
    <3>2. <<>> \in Seq(Client) /\ waitingIn' = <<>>
      BY <2>1
    <3> QED BY <3>1, <3>2
  <2>5. client' \in [Client -> Places]
    BY <2>2 DEF ControlTypeOK, Places
  <2>6. ControlTypeOK'
    BY <2>1, <2>4, <2>5 DEF ControlTypeOK
  <2>7. LockHeld'
    <3>1. \A c \in Client : client[c] # "dispatch" /\ c # "nobody"
      BY <2>1 DEF LockHeld
    <3> QED BY <2>1, <2>2, <3>1 DEF LockHeld
  <2>8. QueueFresh'
    BY <2>1, <2>2, <2>3, <2>4, <2>5 DEF QueueFresh, ControlTypeOK, Occupied, Known
  <2>9. ServedFairly'
    BY <2>1, <2>2, <2>3, <2>4, <2>5 DEF ServedFairly, ControlTypeOK, Known, Answers
  <2>10. NotYet'
    BY <2>1, <2>2, <2>3, <2>4, <2>5 DEF NotYet, ControlTypeOK
  <2>11. AnswerIsTrue'
    BY <2>1, <2>2, <2>3, <2>4, <2>5 DEF AnswerIsTrue, ControlTypeOK
  <2>12. OthersUnharmed'
    BY <2>4 DEF OthersUnharmed
  <2> QED BY <2>6, <2>7, <2>8, <2>9, <2>10, <2>11, <2>12
<1>9. ASSUME NEW c \in Client, Dial(c) PROVE ControlInv'
  <2>1. /\ client[c] = "start"
        /\ UNCHANGED <<op, owner, server, applied, kills>>
    BY <1>9 DEF Dial
  <2>2. \/ client' = [client EXCEPT ![c] = "lock"] /\ UNCHANGED waitingIn
        \/ client' = [client EXCEPT ![c] = "refused"] /\ UNCHANGED waitingIn
        \/ client' = [client EXCEPT ![c] = "send"] /\ waitingIn' = Append(waitingIn, c)
    BY <1>9 DEF Dial, Goes
  <2>3. c \notin InLine(waitingIn) /\ (Occupied => c # server.with)
    BY <2>1 DEF QueueFresh, ServedFairly, Occupied, Known
  <2>4. /\ waitingIn' \in Seq(Client) /\ OnlyOnce(waitingIn')
        /\ \/ InLine(waitingIn') = InLine(waitingIn)
           \/ /\ client' = [client EXCEPT ![c] = "send"]
              /\ InLine(waitingIn') = InLine(waitingIn) \cup {c}
    <3>1. waitingIn \in Seq(Client) /\ OnlyOnce(waitingIn)
      BY DEF ControlTypeOK, QueueFresh
    <3>2. CASE UNCHANGED waitingIn
      BY <3>1, <3>2
    <3>3. CASE client' = [client EXCEPT ![c] = "send"] /\ waitingIn' = Append(waitingIn, c)
      BY <3>1, <3>3, <2>3, JoinLine
    <3> QED BY <2>2, <3>2, <3>3
  <2>5. /\ \E v \in {"lock", "refused", "send"} : client' = [client EXCEPT ![c] = v]
        /\ applied[c] = 0
    BY <2>1, <2>2 DEF NotYet
  <2>6. /\ client' \in [Client -> Places]
        /\ client'[c] \in {"lock", "refused", "send"}
        /\ \A d \in Client : d # c => client'[d] = client[d]
    <3>1. client \in [Client -> Places]
      BY DEF ControlTypeOK
    <3>2. PICK v \in {"lock", "refused", "send"} : client' = [client EXCEPT ![c] = v]
      BY <2>5
    <3>3. v \in Places
      BY DEF Places
    <3> QED BY <3>1, <3>2, <3>3
  <2>7. ControlTypeOK'
    BY <2>1, <2>4, <2>6 DEF ControlTypeOK
  <2>8. LockHeld'
    BY <2>1, <2>6 DEF LockHeld
  <2>9. QueueFresh'
    <3>1. CASE InLine(waitingIn') = InLine(waitingIn)
      BY <2>1, <2>3, <2>4, <2>6, <3>1 DEF QueueFresh, Occupied, Known
    <3>2. CASE /\ client' = [client EXCEPT ![c] = "send"]
               /\ InLine(waitingIn') = InLine(waitingIn) \cup {c}
      <4>1. client'[c] = "send"
        BY <3>2 DEF ControlTypeOK
      <4> QED BY <2>1, <2>3, <2>4, <2>5, <2>6, <3>2, <4>1 DEF QueueFresh, Occupied, Known
    <3> QED BY <2>4, <3>1, <3>2
  <2>10. ServedFairly'
    BY <2>1, <2>2, <2>3, <2>4, <2>5, <2>6 DEF ServedFairly, ControlTypeOK, Known, Answers, Occupied
  <2>11. NotYet'
    BY <2>1, <2>5 DEF NotYet, ControlTypeOK
  <2>12. AnswerIsTrue'
    BY <2>1, <2>5, <2>6 DEF AnswerIsTrue, ControlTypeOK
  <2>13. OthersUnharmed'
    BY <2>1, <2>5 DEF OthersUnharmed, ControlTypeOK
  <2> QED BY <2>7, <2>8, <2>9, <2>10, <2>11, <2>12, <2>13
<1>10. ASSUME NEW c \in Client, Send(c) PROVE ControlInv'
  <2>1. /\ client[c] = "send" /\ client' = [client EXCEPT ![c] = "wait"]
        /\ UNCHANGED <<op, owner, waitingIn, server, applied, kills>>
    BY <1>10 DEF Send, Goes
  <2>2. ControlTypeOK'
    <3>1. client \in [Client -> Places] /\ "wait" \in Places
      BY DEF ControlTypeOK, Places
    <3>2. client' \in [Client -> Places]
      BY <3>1, <2>1
    <3> QED BY <3>2, <2>1 DEF ControlTypeOK
  <2>3. LockHeld'
    BY <2>1 DEF LockHeld, ControlTypeOK
  <2>4. QueueFresh'
    BY <2>1 DEF QueueFresh, ControlTypeOK, Occupied, Known
  <2>5. ServedFairly'
    BY <2>1 DEF ServedFairly, ControlTypeOK, Known, Answers
  <2>6. NotYet'
    BY <2>1 DEF NotYet, ControlTypeOK
  <2>7. AnswerIsTrue'
    BY <2>1 DEF AnswerIsTrue, ControlTypeOK
  <2>8. OthersUnharmed'
    BY <2>1 DEF OthersUnharmed, ControlTypeOK
  <2> QED BY <2>2, <2>3, <2>4, <2>5, <2>6, <2>7, <2>8
<1>11. ASSUME NEW c \in Client, WriterLock(c) PROVE ControlInv'
  <2>1. /\ client[c] = "lock"
        /\ UNCHANGED <<op, waitingIn, server, applied, kills>>
    BY <1>11 DEF WriterLock
  <2>2. \/ owner = "nobody" /\ owner' = c /\ client' = [client EXCEPT ![c] = "dispatch"]
        \/ client' = [client EXCEPT ![c] = "refused"] /\ UNCHANGED owner
    BY <1>11 DEF WriterLock, Goes
  <2>3. c \notin InLine(waitingIn) /\ (Occupied => c # server.with)
    BY <2>1 DEF QueueFresh, ServedFairly, Occupied, Known
  <2>4. applied[c] = 0
    BY <2>1 DEF NotYet
  <2>5. ControlTypeOK'
    <3>1. client \in [Client -> Places] /\ "dispatch" \in Places /\ "refused" \in Places
      BY DEF ControlTypeOK, Places
    <3>2. client' \in [Client -> Places]
      BY <3>1, <2>1, <2>2
    <3> QED BY <3>2, <2>1, <2>2 DEF ControlTypeOK
  <2>6. LockHeld'
    <3>1. CASE owner = "nobody" /\ owner' = c /\ client' = [client EXCEPT ![c] = "dispatch"]
      BY <2>1, <3>1 DEF LockHeld, ControlTypeOK
    <3>2. CASE client' = [client EXCEPT ![c] = "refused"] /\ UNCHANGED owner
      BY <2>1, <3>2 DEF LockHeld, ControlTypeOK
    <3> QED BY <2>2, <3>1, <3>2
  <2>7. QueueFresh'
    BY <2>1, <2>2, <2>3, <2>4 DEF QueueFresh, ControlTypeOK, Occupied, Known
  <2>8. ServedFairly'
    BY <2>1, <2>2, <2>3, <2>4 DEF ServedFairly, ControlTypeOK, Known, Answers, Occupied
  <2>9. NotYet'
    BY <2>1, <2>2, <2>3, <2>4 DEF NotYet, ControlTypeOK
  <2>10. AnswerIsTrue'
    BY <2>1, <2>2, <2>3, <2>4 DEF AnswerIsTrue, ControlTypeOK
  <2>11. OthersUnharmed'
    BY <2>1, <2>2, <2>3, <2>4 DEF OthersUnharmed, ControlTypeOK
  <2> QED BY <2>5, <2>6, <2>7, <2>8, <2>9, <2>10, <2>11
<1>12. ASSUME NEW c \in Client, DispatchHere(c) PROVE ControlInv'
  <2>1. PICK o \in Outcomes(c) :
          /\ client[c] = "dispatch" /\ owner' = "nobody"
          /\ applied' = [applied EXCEPT ![c] = @ + o[1]]
          /\ client' = [client EXCEPT ![c] = o[2]]
          /\ UNCHANGED <<op, waitingIn, server, kills>>
    BY <1>12 DEF DispatchHere, Goes
  <2> DEFINE n == o[1]
  <2> DEFINE v == o[2]
  <2>2. /\ n \in 0..1 /\ v \in {"ok", "error"}
        /\ v = "ok" => n = 1
        /\ v = "error" => n = 0 \/ op[c] = "cancel"
    BY DEF Outcomes
  <2>3. /\ client[c] = "dispatch" /\ owner' = "nobody"
        /\ applied' = [applied EXCEPT ![c] = @ + n]
        /\ client' = [client EXCEPT ![c] = v]
        /\ UNCHANGED <<op, waitingIn, server, kills>>
    BY <2>1
  <2> HIDE DEF n, v
  <2>4. applied[c] = 0 /\ owner = c /\ 0 + n = n
    BY <2>2, <2>3 DEF NotYet, LockHeld
  <2>5. applied' = [applied EXCEPT ![c] = n] /\ v \in Places
    BY <2>2, <2>3, <2>4 DEF Places
  <2>6. c \notin InLine(waitingIn) /\ (Occupied => c # server.with)
    BY <2>3 DEF QueueFresh, ServedFairly, Occupied, Known
  <2>7. ControlTypeOK'
    BY <2>2, <2>3, <2>4, <2>5, <2>6 DEF ControlTypeOK
  <2>8. LockHeld'
    BY <2>2, <2>3, <2>4, <2>5, <2>6 DEF LockHeld, ControlTypeOK
  <2>9. QueueFresh'
    BY <2>2, <2>3, <2>4, <2>5, <2>6 DEF QueueFresh, ControlTypeOK, Occupied, Known
  <2>10. ServedFairly'
    BY <2>2, <2>3, <2>4, <2>5, <2>6 DEF ServedFairly, ControlTypeOK, Known, Answers, Occupied
  <2>11. NotYet'
    BY <2>2, <2>3, <2>4, <2>5, <2>6 DEF NotYet, ControlTypeOK, Occupied
  <2>12. AnswerIsTrue'
    BY <2>2, <2>3, <2>4, <2>5, <2>6 DEF AnswerIsTrue, ControlTypeOK
  <2>13. OthersUnharmed'
    BY <2>2, <2>3, <2>4, <2>5, <2>6 DEF OthersUnharmed, ControlTypeOK
  <2> QED BY <2>7, <2>8, <2>9, <2>10, <2>11, <2>12, <2>13
<1>13. ASSUME NEW c \in Client, LeaveClient(c) PROVE ControlInv'
  <2>1. /\ client[c] \in {"wait", "dispatch"} /\ client' = [client EXCEPT ![c] = "left"]
        /\ owner' = IF owner = c THEN "nobody" ELSE owner
        /\ UNCHANGED <<op, waitingIn, server, applied, kills>>
    BY <1>13 DEF LeaveClient, Goes
  <2>2. ControlTypeOK'
    <3>1. client \in [Client -> Places] /\ "left" \in Places
      BY DEF ControlTypeOK, Places
    <3>2. client' \in [Client -> Places]
      BY <3>1, <2>1
    <3> QED BY <3>2, <2>1 DEF ControlTypeOK
  <2>3. LockHeld'
    BY <2>1 DEF LockHeld, ControlTypeOK
  <2>4. QueueFresh'
    BY <2>1 DEF QueueFresh, ControlTypeOK, Occupied, Known
  <2>5. ServedFairly'
    BY <2>1 DEF ServedFairly, ControlTypeOK, Known, Answers
  <2>6. NotYet'
    BY <2>1 DEF NotYet, ControlTypeOK
  <2>7. AnswerIsTrue'
    BY <2>1 DEF AnswerIsTrue, ControlTypeOK
  <2>8. OthersUnharmed'
    BY <2>1 DEF OthersUnharmed, ControlTypeOK
  <2> QED BY <2>2, <2>3, <2>4, <2>5, <2>6, <2>7, <2>8
<1>14. ASSUME UNCHANGED controlVars PROVE ControlInv'
  <2>1. UNCHANGED <<op, owner, waitingIn, server, client, applied, kills>>
    BY <1>14 DEF controlVars
  <2>2. ControlTypeOK'
    BY <2>1 DEF ControlTypeOK
  <2>3. LockHeld'
    BY <2>1 DEF LockHeld
  <2>4. QueueFresh'
    BY <2>1 DEF QueueFresh, Occupied, Known
  <2>5. ServedFairly'
    BY <2>1 DEF ServedFairly, Known, Answers
  <2>6. NotYet'
    BY <2>1 DEF NotYet
  <2>7. AnswerIsTrue'
    BY <2>1 DEF AnswerIsTrue
  <2>8. OthersUnharmed'
    BY <2>1 DEF OthersUnharmed
  <2> QED BY <2>2, <2>3, <2>4, <2>5, <2>6, <2>7, <2>8
<1> QED
  BY <1>1, <1>2, <1>3, <1>4, <1>5, <1>6, <1>7, <1>8, <1>9, <1>10, <1>11, <1>12, <1>13, <1>14
     DEF ControlNext, Serving

\* The invariant holds in every reachable state.
THEOREM ControlInvariance == ControlSpec => []ControlInv
  BY ControlInitInv, ControlStep, PTL DEF ControlSpec

\* Whoever writes owns the database, for any number of clients: what a client
\* found out about the socket before it took the lock does not matter.
THEOREM SoleWriter == ControlSpec => []WriterOwns
<1>1. ControlInv => WriterOwns
  BY DEF ControlInv, LockHeld, WriterOwns
<1> QED BY <1>1, ControlInvariance, PTL

\* A command is committed at most once, whoever carries it out in the end.
THEOREM NeverTwice == ControlSpec => []AppliedOnce
<1>1. ControlInv => AppliedOnce
  <2> SUFFICES ASSUME ControlInv, NEW c \in Client PROVE applied[c] <= 1
    BY DEF AppliedOnce
  <2>1. applied[c] \in 0..1
    BY DEF ControlInv, ControlTypeOK
  <2> QED BY <2>1
<1> QED BY <1>1, ControlInvariance, PTL

\* The answer of every command agrees with what was committed.
THEOREM TruthfulAnswers == ControlSpec => []AnswerIsTrue
<1>1. ControlInv => AnswerIsTrue
  BY DEF ControlInv
<1> QED BY <1>1, ControlInvariance, PTL

\* Connections break only with a controller that is killed.
THEOREM NobodyCutOff == ControlSpec => []OthersUnharmed
<1>1. ControlInv => OthersUnharmed
  BY DEF ControlInv
<1> QED BY <1>1, ControlInvariance, PTL

\* Commands are carried out at most once, by the owner of the database, and
\* answered truthfully, and no client cuts another off.
THEOREM CommandsStaySound == ControlSpec => []CommandsSound
BY SoleWriter, NeverTwice, TruthfulAnswers, NobodyCutOff, PTL DEF CommandsSound

=============================================================================
