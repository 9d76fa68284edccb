---------------------------- MODULE RankingCache ----------------------------
(***************************************************************************)
(* blockers.ranking: one ranking per campaign is kept and refreshed in a   *)
(* background thread, while request threads take the one that is there.    *)
(* The database is a version number.  A request sees the version its       *)
(* transaction began with; the background walk reads edges, candidates and *)
(* failures in transactions of their own.                                  *)
(***************************************************************************)
EXTENDS Naturals, FiniteSets

CONSTANTS
  Reader,       \* request threads
  Walker,       \* background threads, as many as there might be
  MaxVersion,   \* bound on the changes of the database
  MaxFailed     \* bound on the walks that fail

VARIABLES
  version,      \* of the database
  cache,        \* _cache: oldest and newest version that went into it
  fresh,        \* its age is below TTL
  refreshing,   \* the campaign is in _refreshing
  lock,         \* a reader walks under _lock
  reader,       \* request threads: place and snapshot
  walker,       \* background threads
  failed        \* walks that failed

rankingVars == <<version, cache, fresh, refreshing, lock, reader, walker, failed>>

Missing == [from |-> 0, to |-> 0]
Rest == [pc |-> "idle", seen |-> 0]
NoWalk == [pc |-> "none", from |-> 0]

RankingInit ==
  /\ version = 1 /\ cache = Missing /\ fresh = FALSE
  /\ refreshing = FALSE /\ lock = FALSE /\ failed = 0
  /\ reader = [r \in Reader |-> Rest]
  /\ walker = [w \in Walker |-> NoWalk]

Goto(r, pc) == reader' = [reader EXCEPT ![r].pc = pc]

\* hit = _cache.get(cid)
Look(r) ==
  /\ reader[r].pc = "idle"
  /\ reader' = [reader EXCEPT ![r] =
       [pc |-> IF cache = Missing THEN "missed" ELSE IF fresh THEN "idle" ELSE "expired",
        seen |-> version]]
  /\ UNCHANGED <<version, cache, fresh, refreshing, lock, walker, failed>>

\* Mutant: the cache is not looked at again under the lock.
MissBlind(r) ==
  /\ reader[r].pc = "missed" /\ ~lock
  /\ lock' = TRUE
  /\ Goto(r, "walking")
  /\ UNCHANGED <<version, cache, fresh, refreshing, walker, failed>>
\* "Share the first graph walk": under the lock, the cache is looked at again.
Miss(r) ==
  /\ reader[r].pc = "missed" /\ ~lock
  /\ IF cache = Missing THEN lock' = TRUE /\ Goto(r, "walking")
     ELSE /\ Goto(r, IF fresh THEN "idle" ELSE "expired")
          /\ UNCHANGED lock
  /\ UNCHANGED <<version, cache, fresh, refreshing, walker, failed>>

\* The walk of a request, in the request's own transaction.
FirstWalk(r) ==
  /\ reader[r].pc = "walking"
  /\ cache' = [from |-> reader[r].seen, to |-> reader[r].seen]
  /\ fresh' = TRUE /\ lock' = FALSE
  /\ Goto(r, "idle")
  /\ UNCHANGED <<version, refreshing, walker, failed>>

\* Whoever finds nobody refreshing starts a thread; all return the old ranking.
Claim(r) ==
  /\ reader[r].pc = "expired" /\ ~lock
  /\ refreshing' = TRUE
  /\ Goto(r, IF refreshing THEN "idle" ELSE "start")
  /\ UNCHANGED <<version, cache, fresh, lock, walker, failed>>

StartWalk(r) ==
  /\ reader[r].pc = "start"
  /\ \E w \in Walker :
       /\ walker[w].pc = "none"
       /\ walker' = [walker EXCEPT ![w].pc = "edges"]
  /\ Goto(r, "idle")
  /\ UNCHANGED <<version, cache, fresh, refreshing, lock, failed>>

\* compute, in a connection without a transaction.
ReadEdges(w) ==
  /\ walker[w].pc = "edges"
  /\ walker' = [walker EXCEPT ![w] = [pc |-> "failures", from |-> version]]
  /\ UNCHANGED <<version, cache, fresh, refreshing, lock, reader, failed>>

ReadFailures(w) ==
  /\ walker[w].pc = "failures"
  /\ cache' = [from |-> walker[w].from, to |-> version]
  /\ fresh' = TRUE
  /\ walker' = [walker EXCEPT ![w].pc = "end"]
  /\ UNCHANGED <<version, refreshing, lock, reader, failed>>

EndWalk(w) ==
  /\ walker[w].pc = "end"
  /\ refreshing' = FALSE
  /\ walker' = [walker EXCEPT ![w] = NoWalk]
  /\ UNCHANGED <<version, cache, fresh, lock, reader, failed>>

\* Mutant: no finally.
FailWalkForgets(w) ==
  /\ walker[w].pc \in {"edges", "failures"} /\ failed < MaxFailed
  /\ failed' = failed + 1
  /\ walker' = [walker EXCEPT ![w] = NoWalk]
  /\ UNCHANGED <<version, cache, fresh, refreshing, lock, reader>>
\* The walk raises; the mark is taken away all the same.
FailWalk(w) ==
  /\ walker[w].pc \in {"edges", "failures"} /\ failed < MaxFailed
  /\ failed' = failed + 1
  /\ refreshing' = FALSE
  /\ walker' = [walker EXCEPT ![w] = NoWalk]
  /\ UNCHANGED <<version, cache, fresh, lock, reader>>

\* The controller commits, and time passes.
Commit ==
  /\ version < MaxVersion
  /\ version' = version + 1
  /\ UNCHANGED <<cache, fresh, refreshing, lock, reader, walker, failed>>
Expire ==
  /\ fresh /\ fresh' = FALSE
  /\ UNCHANGED <<version, cache, refreshing, lock, reader, walker, failed>>

Request(r) == Look(r) \/ Miss(r) \/ FirstWalk(r) \/ Claim(r) \/ StartWalk(r)
Refresh(w) == ReadEdges(w) \/ ReadFailures(w) \/ EndWalk(w)
RankingNext ==
  \/ \E r \in Reader : Request(r)
  \/ \E w \in Walker : Refresh(w)
  \/ \E w \in Walker : FailWalk(w)
  \/ Commit
  \/ Expire

RankingSpec == RankingInit /\ [][RankingNext]_rankingVars

\* Requests keep coming, threads run and time passes.
RankingFairness ==
  /\ \A r \in Reader : WF_rankingVars(Request(r))
  /\ \A w \in Walker : WF_rankingVars(Refresh(w))
  /\ WF_rankingVars(Expire)

-----------------------------------------------------------------------------
\* "Share the first graph walk instead of multiplying its memory and CPU cost":
\* at most one walk is under way, in a request or behind it.
OneWalk ==
  Cardinality({r \in Reader : reader[r].pc = "walking"})
    + Cardinality({w \in Walker : walker[w].pc \in {"edges", "failures"}}) <= 1

\* A ranking is never replaced by an older one, whichever thread finishes last.
RankingNeverGoesBack ==
  [][cache'.from >= cache.from /\ cache'.to >= cache.to]_rankingVars

\* When the database comes to rest, readers come to see it, although a walk may
\* fail and a ranking may mix versions.
RankingCatchesUp == <>[](cache.from = version)

\* Walks are shared, and never undo each other.
RankingSound == []OneWalk /\ RankingNeverGoesBack
=============================================================================
