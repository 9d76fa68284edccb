----------------------------- MODULE ToolsProofs -----------------------------
(***************************************************************************)
(* What is run beside the campaign, module by module: the export for       *)
(* analytics with its mirror, the pin of the sources, landing and release, *)
(* the check of the caches and the benchmark; then what the scripts        *)
(* conclude, and the files that they leave, in the model of them all.      *)
(***************************************************************************)
EXTENDS Tools, FilesProofs, FiniteSetTheorems, WellFoundedInduction, TLAPS

\* The service manager does not start filnix-analytics.service while it runs: it
\* is killed and started again, and one process at a time is at work.
OnePublisher == \A p, q \in Process : p = q

M == remote.manifests
Pending == db.pending # NoPending
\* The manifest that a generation was journalled with.
Ledger(g) == IF Pending /\ g = db.revision THEN db.pending ELSE M[g]
UpTo(g) == UNION {Ledger(h).files : h \in 1..g}
RowsAt(g) == IF g = 0 THEN [k \in Key |-> Absent] ELSE history[Ledger(g).at].rows
EventsAt(g) == IF g = 0 THEN 0 ELSE history[Ledger(g).at].events

Row == [Key -> Value \cup {Absent}]
SourceState == [rows : Row, events : Nat, log : Seq(BOOLEAN), offset : Nat, live : BOOLEAN]

Columns == {"index", "changes", "events_seq", "log_cursor", "revision", "generation",
            "remote_seen", "pending"}

ProcTypeOK ==
  /\ proc = [p \in Process |-> [pc |-> proc[p].pc, pending |-> proc[p].pending, etag |-> proc[p].etag]]
  /\ \A p \in Process : proc[p].pc \in {"off", "made", "put", "publish", "finalize", "unlink"}

\* The records of the state, and what their fields may be.
Types ==
  /\ history \in Seq(SourceState) /\ history # <<>>
  /\ DOMAIN db = Columns
  /\ db.index \in Row /\ DOMAIN db.changes \subseteq Key
  /\ db.events_seq \in Nat /\ db.log_cursor \in Nat /\ db.revision \in Nat
  /\ db.remote_seen \in BOOLEAN
  /\ remote = [objects |-> remote.objects, manifests |-> M, latest |-> remote.latest]
  /\ ProcTypeOK
  /\ lock \in Process \cup {Nothing}
  /\ share = [objects |-> share.objects, manifests |-> share.manifests, latest |-> share.latest]
  /\ mirror = [pc |-> mirror.pc, pinned |-> mirror.pinned, files |-> mirror.files,
               copies |-> mirror.copies, etag |-> mirror.etag]
  /\ mirror.pc \in {"off", "copy", "index"}
  /\ crashes \in 0..MaxCrashes

\* The source is ahead of what was exported of it.
SourceInv ==
  /\ Source.events < Len(history)
  /\ Len(history) <= MaxChanges + (IF Source.live THEN 1 ELSE 2)
  /\ Source.offset <= Len(Source.log)
  /\ db.events_seq <= Source.events
  /\ db.log_cursor <= Len(Source.log)
  /\ Source.live => db.log_cursor <= Source.offset

\* The generations are a chain, and their manifests name files that are there.
ChainInv ==
  /\ remote.latest \in Nat \cup {Foreign} /\ Own \in Nat
  /\ IF Pending THEN /\ Own \in {db.revision - 1, db.revision}
                     /\ db.revision # 0
                ELSE Own = db.revision
  /\ DOMAIN M \subseteq {Foreign} \cup 1..db.revision
  /\ 1..Own \subseteq DOMAIN M /\ (remote.latest = Foreign => Foreign \in DOMAIN M)
  /\ \A g \in 1..db.revision :
       /\ Ledger(g) = [generation |-> g, parent |-> g - 1, files |-> Ledger(g).files, at |-> Ledger(g).at]
       /\ Ledger(g).at \in 1..Len(history)
       /\ g > 1 => Ledger(g - 1).at <= Ledger(g).at
       /\ g \in DOMAIN M => M[g] = Ledger(g) /\ M[g].files \subseteq remote.objects

\* The checkpoint is what readers have of its generation; the journal what the
\* next one adds.
CheckpointInv ==
  /\ db.generation = (IF Pending THEN db.revision - 1 ELSE db.revision)
  /\ db.remote_seen <=> db.generation # 0
  /\ db.index = RowsAt(db.generation)
  /\ Pending => RowsAt(db.revision) = [k \in Key |-> IF k \in DOMAIN db.changes THEN db.changes[k] ELSE db.index[k]]
  /\ db.events_seq = EventsAt(db.revision)
  /\ UNION Pieces(UpTo(db.revision), "logs") = 1..db.log_cursor

\* What a reader has of generation g.
ReadsWell(g) ==
  /\ \A f \in UpTo(g) : f.revision \in 1..g
  /\ Disjoint(UpTo(g))
  /\ \A k \in Key : LatestRow(UpTo(g), k) = RowsAt(g)[k]
  /\ UNION Pieces(UpTo(g), "events") = 1..EventsAt(g)
  /\ \E t \in Nat :
       /\ UNION Pieces(UpTo(g), "logs") = 1..t
       /\ g # 0 /\ history[Ledger(g).at].live => t <= history[Ledger(g).at].offset

\* Every generation reads well, the pending one too.
DataInv == \A g \in 0..db.revision : ReadsWell(g)

\* What a publisher has read is as it was read.
Working(p) ==
    /\ proc[p].pc \in {"made", "put", "publish", "finalize"} => proc[p].pending = db.pending
    /\ proc[p].pc = "made" /\ ~Pending => proc[p].etag # Foreign
    /\ proc[p].pc \in {"put", "publish", "finalize"} => Pending
    /\ proc[p].pc = "publish" => db.revision \in DOMAIN M
    /\ proc[p].pc = "finalize" => Own = db.revision
ProcessInv == \A p \in Process : Working(p)

\* What the mirror names is there, all of it.
MirrorInv ==
  /\ share.latest \in {NoGeneration} \cup DOMAIN share.manifests
  /\ \A g \in DOMAIN share.manifests :
       g \in 1..Own /\ share.manifests[g].files = UpTo(g) /\ UpTo(g) \subseteq share.objects
  /\ mirror.pc # "off" =>
       LET g == mirror.pinned.generation
       IN  /\ g \in 1..Own /\ mirror.pinned = Ledger(g) /\ mirror.files = UpTo(g)
           /\ mirror.files \ mirror.copies \subseteq share.objects
           /\ mirror.pc = "index" => g \in DOMAIN share.manifests

AnalyticsInv ==
  Types /\ SourceInv /\ ChainInv /\ CheckpointInv /\ DataInv /\ ProcessInv /\ MirrorInv

-----------------------------------------------------------------------------
\* Max of a bounded set of numbers is one of them and the greatest.
LEMMA MaxNat ==
  ASSUME NEW S \in SUBSET Nat, S # {}, NEW b \in Nat, \A x \in S : x <= b
  PROVE  Max(S) \in S /\ \A x \in S : x <= Max(S)
<1> DEFINE T == {n \in Nat : \A x \in S : x <= n}
<1>1. PICK n \in T : \A m \in T : n <= m
  BY LeastNat
<1>2. n \in S
  <2> SUFFICES ASSUME n \notin S PROVE FALSE
    OBVIOUS
  <2>1. PICK x \in S : TRUE
    OBVIOUS
  <2>2. n # 0 /\ n - 1 \in Nat
    BY <2>1
  <2>3. \A y \in S : y <= n - 1
    OBVIOUS
  <2> QED BY <1>1, <2>2, <2>3
<1>3. \E y \in S : \A x \in S : y >= x
  BY <1>2
<1>4. Max(S) \in S /\ \A x \in S : Max(S) >= x
  BY <1>3 DEF Max
<1> QED BY <1>4

\* load_chain of a chain whose parents are the generations before: all up to it.
LEMMA LoadChain ==
  ASSUME NEW ms, NEW n \in Nat, 1..n \subseteq DOMAIN ms,
         \A g \in 1..n : ms[g].parent = g - 1
  PROVE  load_chain(ms, n) = 1..n
<1> DEFINE named == ({n} \cup DOMAIN ms \cup {ms[g].parent : g \in DOMAIN ms}) \ {NoGeneration}
           closed == {S \in SUBSET named :
                        /\ n \in S \cup {NoGeneration}
                        /\ \A g \in S \cap DOMAIN ms : ms[g].parent \in S \cup {NoGeneration}}
<1>1. load_chain(ms, n) = {g \in named : \A S \in closed : g \in S}
  BY DEF load_chain
<1>2. 1..n \in closed
  <2>1. 1..n \subseteq named
    BY DEF NoGeneration
  <2>2. n \in (1..n) \cup {NoGeneration}
    BY DEF NoGeneration
  <2>3. \A g \in (1..n) \cap DOMAIN ms : ms[g].parent \in (1..n) \cup {NoGeneration}
    BY DEF NoGeneration
  <2> QED BY <2>1, <2>2, <2>3
<1>3. ASSUME NEW S \in closed PROVE 1..n \subseteq S
  <2> SUFFICES ASSUME NEW g \in 1..n, g \notin S PROVE FALSE
    OBVIOUS
  <2> DEFINE T == {k \in Nat : k < n /\ n - k \notin S}
  <2>1. n - g \in T
    OBVIOUS
  <2>2. PICK k \in T : \A m \in T : k <= m
    BY <2>1, LeastNat
  <2>3. n # 0 /\ n \in S
    BY <1>3 DEF NoGeneration
  <2>4. k # 0 /\ k - 1 \in Nat /\ k - 1 < n /\ k - 1 \notin T
    BY <2>2, <2>3
  <2>5. n - (k - 1) \in S /\ n - (k - 1) \in 1..n
    BY <2>4
  <2>6. ms[n - (k - 1)].parent = n - k /\ n - k # NoGeneration
    BY <2>2, <2>5 DEF NoGeneration
  <2>7. ms[n - (k - 1)].parent \in S \cup {NoGeneration}
    BY <1>3, <2>5
  <2> QED BY <2>2, <2>6, <2>7
<1> HIDE DEF closed
<1>4. load_chain(ms, n) \subseteq 1..n
  BY <1>1, <1>2
<1>5. 1..n \subseteq named
  BY DEF NoGeneration
<1> HIDE DEF named
<1> QED BY <1>1, <1>3, <1>4, <1>5

-----------------------------------------------------------------------------
\* The data set the pointer leads to.
LEMMA ChainIs ==
  ASSUME ChainInv, db.revision \in Nat
  PROVE  /\ Chain = 1..Own /\ Dataset = UpTo(Own)
         /\ \A g \in 1..Own : load_chain(M, g) = 1..g /\ Files(M, 1..g) = UpTo(g)
<1>1. Own \in Nat /\ Own <= db.revision
  BY DEF ChainInv
<1>2. \A g \in 1..Own : M[g].parent = g - 1 /\ M[g] = Ledger(g) /\ g \in DOMAIN M
  <2> TAKE g \in 1..Own
  <2>1. g \in 1..db.revision /\ g \in DOMAIN M
    BY <1>1 DEF ChainInv
  <2>2. M[g] = Ledger(g) /\ Ledger(g).parent = g - 1
    BY <2>1 DEF ChainInv
  <2> QED BY <2>1, <2>2
<1>3. \A g \in 0..Own : load_chain(M, g) = 1..g
  <2> TAKE g \in 0..Own
  <2>1. \A h \in 1..g : M[h].parent = h - 1 /\ h \in DOMAIN M
    BY <1>1, <1>2
  <2> QED BY <1>1, <2>1, LoadChain
<1>4. \A g \in 0..Own : Files(M, 1..g) = UpTo(g)
  <2> TAKE g \in 0..Own
  <2>1. \A h \in 1..g : M[h] = Ledger(h)
    BY <1>1, <1>2
  <2> QED BY <2>1 DEF Files, UpTo
<1>5. Own \in 0..Own /\ 1..Own \subseteq 0..Own
  BY <1>1
<1> QED BY <1>3, <1>4, <1>5 DEF Chain, Dataset, M

\* What the invariant says of readers, of the source and of the checkpoint.
LEMMA SoundFollows == ASSUME AnalyticsInv PROVE ArchiveSound
<1> USE AnalyticsAssumption
<1>0. /\ Types /\ SourceInv /\ ChainInv /\ CheckpointInv /\ DataInv /\ ProcessInv /\ MirrorInv
      /\ db.revision \in Nat
  BY DEF AnalyticsInv, Types
<1>s. /\ Len(history) \in Nat \ {0} /\ Source = history[Len(history)] /\ Source \in SourceState
      /\ DOMAIN history = 1..Len(history)
  BY <1>0 DEF Types, Source, Last
<1>1. TypeOK
  <2>1. Len(history) \in 1..(MaxChanges + 2)
    BY <1>0, <1>s DEF SourceInv
  <2>2. db.events_seq \in 0..Len(history) /\ db.log_cursor \in 0..Len(Source.log)
    <3>1. Source.events \in Nat /\ Len(Source.log) \in Nat
      BY <1>s DEF SourceState
    <3> QED BY <1>0, <1>s, <3>1 DEF Types, SourceInv
  <2>3. DOMAIN db.index = Key
    BY <1>0 DEF Types, Row
  <2> QED BY <1>0, <2>1, <2>2, <2>3 DEF TypeOK, Types, ProcTypeOK
<1>2. /\ Chain = 1..Own /\ Dataset = UpTo(Own)
      /\ \A g \in 1..Own : load_chain(M, g) = 1..g /\ Files(M, 1..g) = UpTo(g)
      /\ Own \in Nat /\ Own <= db.revision
  <2>1. Own \in Nat /\ Own <= db.revision
    BY <1>0 DEF ChainInv
  <2> QED BY <1>0, <2>1, ChainIs
<1>3. \A g \in 1..Own : M[g] = Ledger(g) /\ g \in DOMAIN M /\ M[g].files \subseteq remote.objects
  <2> TAKE g \in 1..Own
  <2>1. g \in 1..db.revision /\ g \in DOMAIN M
    BY <1>0, <1>2 DEF ChainInv
  <2> QED BY <1>0, <2>1 DEF ChainInv
<1>4. NothingDangles
  <2>1. Chain \subseteq DOMAIN remote.manifests
    BY <1>2, <1>3 DEF M
  <2>2. Dataset \subseteq remote.objects
    BY <1>2, <1>3 DEF UpTo
  <2>3. share.latest # NoGeneration => share.manifests[share.latest].files \subseteq share.objects
    BY <1>0 DEF MirrorInv
  <2> QED BY <2>1, <2>2, <2>3 DEF NothingDangles
<1>5. ASSUME Ours
      PROVE  /\ ReadsWell(Own) /\ At = Ledger(Own).at /\ EventsAt(Own) = history[At].events
             /\ Own # 0
  <2>1. Own # 0 /\ Own \in 1..Own /\ Own \in 0..db.revision
    BY <1>2, <1>5 DEF Ours, NoGeneration
  <2>2. At = Ledger(Own).at
    BY <1>3, <2>1 DEF At, M
  <2> QED BY <1>0, <2>1, <2>2 DEF DataInv, EventsAt
<1>6. DatasetIsSnapshot
  <2> SUFFICES ASSUME Ours
               PROVE  /\ Disjoint(Dataset)
                      /\ Reading(Dataset).events = 1..history[At].events
                      /\ Reading(Dataset).log = 1..Cardinality(Reading(Dataset).log)
    BY DEF DatasetIsSnapshot
  <2>1. PICK t \in Nat : UNION Pieces(UpTo(Own), "logs") = 1..t
    BY <1>5 DEF ReadsWell
  <2>2. Cardinality(1..t) = t
    BY FS_Interval
  <2>3. Reading(Dataset).log = 1..t
    BY <1>2, <2>1 DEF Reading
  <2>4. Disjoint(Dataset) /\ Reading(Dataset).events = 1..history[At].events
    BY <1>2, <1>5 DEF ReadsWell, Reading
  <2> QED BY <2>2, <2>3, <2>4
<1>7. LiveLogCommitted
  <2> SUFFICES ASSUME Ours, history[At].live, NEW n \in Reading(Dataset).log
               PROVE  n <= history[At].offset
    BY DEF LiveLogCommitted
  <2>1. PICK t \in Nat : UNION Pieces(UpTo(Own), "logs") = 1..t /\ t <= history[At].offset
    BY <1>5 DEF ReadsWell
  <2>2. n \in 1..t
    BY <1>2, <2>1 DEF Reading
  <2>3. history[At].offset \in Nat
    <3>1. Own \in 1..db.revision
      BY <1>2, <1>5
    <3>2. At \in 1..Len(history)
      BY <1>0, <1>5, <3>1 DEF ChainInv
    <3>3. history[At] \in SourceState
      BY <1>0, <1>s, <3>2 DEF Types
    <3> QED BY <3>3 DEF SourceState
  <2> QED BY <2>1, <2>2, <2>3
<1>8. MirrorAgrees
  <2> SUFFICES ASSUME share.latest # NoGeneration
               PROVE  share.manifests[share.latest].files
                        = Files(remote.manifests, load_chain(remote.manifests, share.latest))
    BY DEF MirrorAgrees
  <2>1. share.latest \in 1..Own /\ share.manifests[share.latest].files = UpTo(share.latest)
    BY <1>0 DEF MirrorInv
  <2> QED BY <1>2, <2>1 DEF M
<1> QED BY <1>1, <1>4, <1>6, <1>7, <1>8 DEF ArchiveSound

\* The publisher starts from an empty checkpoint and an empty prefix.
LEMMA AnalyticsInitInv == Init => AnalyticsInv
<1> SUFFICES ASSUME Init PROVE AnalyticsInv
  OBVIOUS
<1> USE AnalyticsAssumption DEF Init
<1>1. /\ history = <<FirstSource>> /\ Len(history) = 1 /\ Source = FirstSource /\ history[1] = FirstSource
  BY DEF Source, Last
<1>2. FirstSource \in SourceState
  <2>1. <<>> \in Seq(BOOLEAN)
    OBVIOUS
  <2> QED BY <2>1 DEF FirstSource, SourceState, Row
<1>3. Types
  <2>1. history \in Seq(SourceState) /\ history # <<>>
    BY <1>1, <1>2
  <2>2. ProcTypeOK
    BY DEF ProcTypeOK, Off
  <2> QED BY <2>1, <2>2 DEF Types, Columns, Row, M, Resting
<1>4. ~Pending /\ Own = 0 /\ db.revision = 0 /\ M = <<>> /\ remote.latest = 0
  BY DEF Pending, Own, M, NoGeneration, Foreign
<1>5. SourceInv
  BY <1>1 DEF SourceInv, FirstSource
<1>6. ChainInv
  <2>1. 1..db.revision = {} /\ DOMAIN M = {}
    BY <1>4
  <2> QED BY <1>4, <2>1 DEF ChainInv, Foreign
<1>7. UpTo(0) = {}
  BY DEF UpTo
<1>8. CheckpointInv
  BY <1>4, <1>7 DEF CheckpointInv, RowsAt, EventsAt, Pieces, NoGeneration
<1>9. ReadsWell(0)
  <2>1. 1..0 = {} /\ 0 \in Nat
    OBVIOUS
  <2>2. \A k \in Key : LatestRow(UpTo(0), k) = RowsAt(0)[k]
    BY <1>7 DEF LatestRow, Rows, RowsAt
  <2> QED BY <1>7, <2>1, <2>2 DEF ReadsWell, Disjoint, Pieces, EventsAt
<1>10. DataInv
  BY <1>4, <1>9 DEF DataInv
<1>11. ProcessInv /\ MirrorInv
  BY DEF ProcessInv, Working, MirrorInv, Off, Resting
<1> QED BY <1>3, <1>5, <1>6, <1>8, <1>10, <1>11 DEF AnalyticsInv

\* What any step leaves of the journalled generations, of those that are
\* published, and of the history of the source.
Progress ==
  /\ \A g \in 1..db.revision : Ledger(g)' = Ledger(g)
  /\ Own' = Own \/ (Pending /\ Own' = db.revision /\ history' = history)
  /\ history' = history \/ \E s \in SourceState : history' = Append(history, s)
  /\ Pending => db'.pending \in {db.pending, NoPending}
  /\ remote.latest = Foreign => remote'.latest = Foreign

-----------------------------------------------------------------------------
\* A step that journals nothing: what was journalled is read as before.
NothingJournalled ==
  /\ db'.revision = db.revision
  /\ \A g \in 1..db.revision : Ledger(g)' = Ledger(g)
  /\ \A i \in 1..Len(history) : history'[i] = history[i]

\* While no generation is journalled, what readers have of each stays.
LEMMA LedgerKept ==
  ASSUME AnalyticsInv, NothingJournalled
  PROVE  /\ \A g \in 0..db.revision : /\ UpTo(g)' = UpTo(g) /\ RowsAt(g)' = RowsAt(g)
                                      /\ EventsAt(g)' = EventsAt(g)
         /\ DataInv'
<1>0. db.revision \in Nat /\ DataInv /\ \A g \in 1..db.revision : Ledger(g).at \in 1..Len(history)
  BY DEF AnalyticsInv, Types, ChainInv
<1>1. \A g \in 1..db.revision : Ledger(g)' = Ledger(g) /\ history'[Ledger(g).at] = history[Ledger(g).at]
  BY <1>0 DEF NothingJournalled
<1>2. ASSUME NEW g \in 0..db.revision
      PROVE  UpTo(g)' = UpTo(g) /\ RowsAt(g)' = RowsAt(g) /\ EventsAt(g)' = EventsAt(g)
  <2>1. \A h \in 1..g : h \in 1..db.revision
    BY <1>0
  <2>2. \A h \in 1..g : Ledger(h)'.files = Ledger(h).files
    BY <1>1, <2>1
  <2>3. UpTo(g)' = UpTo(g)
    BY <2>2 DEF UpTo
  <2>4. g # 0 => history'[Ledger(g)'.at] = history[Ledger(g).at]
    BY <1>0, <1>1
  <2> QED BY <2>3, <2>4 DEF RowsAt, EventsAt
<1>3. ASSUME NEW g \in 0..db.revision PROVE ReadsWell(g)'
  <2>1. g # 0 => history'[Ledger(g)'.at] = history[Ledger(g).at]
    BY <1>0, <1>1
  <2>2. UpTo(g)' = UpTo(g) /\ RowsAt(g)' = RowsAt(g) /\ EventsAt(g)' = EventsAt(g) /\ ReadsWell(g)
    BY <1>0, <1>2 DEF DataInv
  <2> QED BY <2>1, <2>2 DEF ReadsWell
<1>4. DataInv'
  BY <1>3 DEF DataInv, NothingJournalled
<1> QED BY <1>2, <1>4

\* The source changes: what was journalled is of its past.
LEMMA SourceStep ==
  ASSUME AnalyticsInv, NEW s \in SourceState, Became(s),
         s.events \in {Source.events, Source.events + 1}, s.offset <= Len(s.log),
         Source.offset <= s.offset, Len(Source.log) <= Len(s.log), s.live => Source.live,
         Len(history) + 1 <= MaxChanges + (IF s.live THEN 1 ELSE 2)
  PROVE  AnalyticsInv' /\ Progress
<1> USE AnalyticsAssumption
<1>0. /\ Types /\ SourceInv /\ ChainInv /\ CheckpointInv /\ DataInv /\ ProcessInv /\ MirrorInv
      /\ db.revision \in Nat /\ history \in Seq(SourceState) /\ Len(history) \in Nat \ {0}
  <2>1. Types
    BY DEF AnalyticsInv
  <2>2. history \in Seq(SourceState) /\ history # <<>>
    BY <2>1 DEF Types
  <2>3. Len(history) \in Nat \ {0}
    BY <2>2
  <2> QED BY <2>1, <2>2, <2>3 DEF AnalyticsInv, Types
<1>1. /\ history' = Append(history, s) /\ UNCHANGED <<db, spool, remote, proc, lock, share, mirror, crashes>>
  BY DEF Became
<1>2. /\ Len(history') = Len(history) + 1 /\ history' \in Seq(SourceState) /\ history' # <<>>
      /\ history'[Len(history')] = s
      /\ \A i \in 1..Len(history) : history'[i] = history[i]
  BY <1>0, <1>1
<1>3. Source' = s /\ Source = history[Len(history)] /\ Source \in SourceState
  BY <1>0, <1>2 DEF Source, Last
<1>4. M' = M /\ (Pending' <=> Pending) /\ Own' = Own /\ \A g : Ledger(g)' = Ledger(g)
  BY <1>1 DEF M, Pending, Own, Ledger
<1>5. NothingJournalled
  BY <1>1, <1>2, <1>4 DEF NothingJournalled
<1>6. /\ \A g \in 0..db.revision : UpTo(g)' = UpTo(g) /\ RowsAt(g)' = RowsAt(g) /\ EventsAt(g)' = EventsAt(g)
      /\ DataInv'
  BY <1>5, LedgerKept
<1>7. Types'
  BY <1>0, <1>1, <1>2, <1>4 DEF Types, ProcTypeOK
<1>8. SourceInv'
  <2>1. /\ Source.events \in Nat /\ Source.offset \in Nat /\ Len(Source.log) \in Nat
        /\ s.events \in Nat /\ s.offset \in Nat /\ Len(s.log) \in Nat
    BY <1>3 DEF SourceState
  <2>2. db.events_seq \in Nat /\ db.log_cursor \in Nat
    BY <1>0 DEF Types
  <2>3. /\ Source.events < Len(history) /\ db.events_seq <= Source.events
        /\ db.log_cursor <= Len(Source.log) /\ (Source.live => db.log_cursor <= Source.offset)
    BY <1>0 DEF SourceInv
  <2>4. s.events < Len(history') /\ s.offset <= Len(s.log) /\ db.events_seq <= s.events
    BY <1>0, <1>2, <2>1, <2>2, <2>3, SMTT(30)
  <2>5. db.log_cursor <= Len(s.log) /\ (s.live => db.log_cursor <= s.offset)
    BY <2>1, <2>2, <2>3, SMTT(30)
  <2>6. Len(history') <= MaxChanges + (IF s.live THEN 1 ELSE 2)
    BY <1>2
  <2> QED BY <1>1, <1>3, <2>4, <2>5, <2>6 DEF SourceInv
<1>9. ChainInv'
  BY <1>0, <1>1, <1>2, <1>4, SMTT(30) DEF ChainInv
<1>10. CheckpointInv'
  <2>1. db.generation \in 0..db.revision /\ db.revision \in 0..db.revision
    BY <1>0 DEF CheckpointInv, ChainInv
  <2> QED BY <1>0, <1>1, <1>4, <1>6, <2>1 DEF CheckpointInv
<1>11. ProcessInv'
  BY <1>0, <1>1, <1>4 DEF ProcessInv, Working
<1>12. MirrorInv'
  <2>1. \A g \in 1..Own : UpTo(g)' = UpTo(g)
    BY <1>0, <1>6 DEF ChainInv
  <2> QED BY <1>0, <1>1, <1>4, <2>1 DEF MirrorInv
<1>13. Progress
  BY <1>1, <1>4 DEF Progress
<1> QED BY <1>6, <1>7, <1>8, <1>9, <1>10, <1>11, <1>12, <1>13 DEF AnalyticsInv

\* What becomes of a state of the source, whatever it was.
LEMMA RowChanges ==
  ASSUME NEW r \in SourceState, NEW k \in Key, NEW v \in Value \cup {Absent}
  PROVE  LET s == [r EXCEPT !.rows[k] = v, !.events = @ + 1]
         IN  s \in SourceState /\ s.events = r.events + 1 /\ s.offset = r.offset
             /\ s.log = r.log /\ s.live = r.live
<1>1. [r EXCEPT !.rows[k] = v, !.events = @ + 1]
        = [r EXCEPT !.rows = [r.rows EXCEPT ![k] = v], !.events = r.events + 1]
  BY DEF SourceState
<1>2. r.events + 1 \in Nat /\ [r.rows EXCEPT ![k] = v] \in Row
  BY DEF SourceState, Row
<1>3. ASSUME NEW e \in Nat, NEW w \in Row PROVE [r EXCEPT !.rows = w, !.events = e] \in SourceState
  BY DEF SourceState
<1>4. [r EXCEPT !.rows[k] = v, !.events = @ + 1] \in SourceState
  BY <1>1, <1>2, <1>3
<1> QED BY <1>4 DEF SourceState

\* A campaign that records one more event and stops writing its log.
LEMMA AttemptEnds ==
  ASSUME NEW r \in SourceState
  PROVE  LET s == [r EXCEPT !.live = FALSE, !.events = @ + 1]
         IN  s \in SourceState /\ s.events = r.events + 1 /\ s.offset = r.offset
             /\ s.log = r.log /\ s.live = FALSE
<1>1. [r EXCEPT !.live = FALSE, !.events = @ + 1] = [r EXCEPT !.live = FALSE, !.events = r.events + 1]
  BY DEF SourceState
<1>2. r.events + 1 \in Nat
  BY DEF SourceState
<1>3. ASSUME NEW e \in Nat PROVE [r EXCEPT !.live = FALSE, !.events = e] \in SourceState
  BY DEF SourceState
<1>4. [r EXCEPT !.live = FALSE, !.events = @ + 1] \in SourceState
  BY <1>1, <1>2, <1>3
<1> QED BY <1>4 DEF SourceState

\* The campaign changes rows and writes to its log; the export is behind it.
LEMMA CampaignStep == ASSUME AnalyticsInv, Campaign PROVE AnalyticsInv' /\ Progress
<1> USE AnalyticsAssumption
<1>1. /\ Source \in SourceState /\ Source.events \in Nat /\ Source.offset \in Nat
      /\ Source.log \in Seq(BOOLEAN) /\ Len(Source.log) \in Nat /\ Source.live \in BOOLEAN
      /\ Source.rows \in Row /\ Source.offset <= Len(Source.log) /\ Len(history) \in Nat
      /\ Len(history) <= MaxChanges + (IF Source.live THEN 1 ELSE 2)
  <2>1. history \in Seq(SourceState) /\ history # <<>> /\ SourceInv
    BY DEF AnalyticsInv, Types
  <2>2. Source \in SourceState
    BY <2>1 DEF Source, Last
  <2> QED BY <2>1, <2>2 DEF SourceState, SourceInv
<1>2. ASSUME NEW k \in Key, NEW v \in Value \cup {Absent}, SetRow(k, v) PROVE AnalyticsInv' /\ Progress
  <2> DEFINE s == [Source EXCEPT !.rows[k] = v, !.events = @ + 1]
  <2>1. s \in SourceState /\ s.events = Source.events + 1 /\ s.offset = Source.offset
        /\ s.log = Source.log /\ s.live = Source.live
    BY <1>1, RowChanges
  <2>2. Became(s) /\ Len(history) < MaxChanges
    BY <1>2 DEF SetRow, MayChange
  <2> HIDE DEF s
  <2>3. Len(history) + 1 <= MaxChanges + (IF s.live THEN 1 ELSE 2)
    BY <1>1, <2>2
  <2> QED BY <1>1, <2>1, <2>2, <2>3, SourceStep
<1>3. ASSUME NEW newline \in BOOLEAN, WriteLog(newline) PROVE AnalyticsInv' /\ Progress
  <2> DEFINE s == [Source EXCEPT !.log = Append(@, newline)]
  <2>0. Append(Source.log, newline) \in Seq(BOOLEAN) /\ Len(Append(Source.log, newline)) = Len(Source.log) + 1
    BY <1>1
  <2>1. s \in SourceState /\ s.events = Source.events /\ s.offset = Source.offset
        /\ s.log = Append(Source.log, newline) /\ s.live = Source.live
    BY <1>1, <2>0 DEF SourceState
  <2>2. Became(s) /\ Len(history) < MaxChanges
    BY <1>3 DEF WriteLog, MayChange
  <2> HIDE DEF s
  <2>3. Len(history) + 1 <= MaxChanges + (IF s.live THEN 1 ELSE 2)
    BY <1>1, <2>2
  <2> QED BY <1>1, <2>0, <2>1, <2>2, <2>3, SourceStep, SMTT(30)
<1>4. ASSUME CommitLine PROVE AnalyticsInv' /\ Progress
  <2>0. PICK n \in DOMAIN Source.log : n > Source.offset /\ MayChange /\ Became([Source EXCEPT !.offset = n])
    BY <1>4 DEF CommitLine
  <2> DEFINE s == [Source EXCEPT !.offset = n]
  <2>1. s \in SourceState /\ s.events = Source.events /\ s.offset = n /\ n \in Nat /\ n <= Len(Source.log)
        /\ s.log = Source.log /\ s.live = Source.live
    BY <1>1 DEF SourceState
  <2>2. Became(s) /\ Len(history) < MaxChanges
    BY <2>0 DEF MayChange
  <2> HIDE DEF s
  <2>3. Len(history) + 1 <= MaxChanges + (IF s.live THEN 1 ELSE 2)
    BY <1>1, <2>2
  <2>4. Source.offset <= n /\ (s.live => Source.live)
    BY <1>1, <2>0, <2>1
  <2> QED BY <1>1, <2>1, <2>2, <2>3, <2>4, SourceStep, SMTT(30)
<1>5. ASSUME FinishAttempt PROVE AnalyticsInv' /\ Progress
  <2> DEFINE s == [Source EXCEPT !.live = FALSE, !.events = @ + 1]
  <2>1. s \in SourceState /\ s.events = Source.events + 1 /\ s.offset = Source.offset
        /\ s.log = Source.log /\ s.live = FALSE
    BY <1>1, AttemptEnds
  <2>2. Became(s) /\ Source.live
    BY <1>5 DEF FinishAttempt
  <2> HIDE DEF s
  <2>3. Len(history) + 1 <= MaxChanges + 2
    BY <1>1, <2>2
  <2> QED BY <1>1, <2>1, <2>2, <2>3, SourceStep, SMTT(30)
<1> QED BY <1>2, <1>3, <1>4, <1>5 DEF Campaign

-----------------------------------------------------------------------------
\* Steps of a publisher that journal nothing: objects and the manifest that is
\* pending are put, and the pointer may move to it.
RemoteMoves ==
  /\ UNCHANGED <<history, db, share, mirror>>
  /\ remote.objects \subseteq remote'.objects
  /\ remote'.latest \in Nat \cup {Foreign} /\ (remote'.latest = Foreign => Foreign \in DOMAIN M')
  /\ remote.latest = Foreign => remote'.latest = Foreign
  /\ Own' = Own \/ (Pending /\ Own' = db.revision /\ db.revision \in DOMAIN M')
  /\ DOMAIN M \subseteq DOMAIN M' /\ DOMAIN M' \subseteq DOMAIN M \cup {Foreign} \cup 1..db.revision
  /\ \A g \in 1..db.revision :
       g \in DOMAIN M' =>
         \/ g \in DOMAIN M /\ M'[g] = M[g]
         \/ Pending /\ g = db.revision /\ M'[g] = db.pending /\ db.pending.files \subseteq remote'.objects

\* The remote store gains objects and manifests, or its pointer moves.
LEMMA RemoteStep ==
  ASSUME AnalyticsInv, RemoteMoves
  PROVE  SourceInv' /\ ChainInv' /\ CheckpointInv' /\ DataInv' /\ MirrorInv' /\ Progress
<1>0. /\ Types /\ SourceInv /\ ChainInv /\ CheckpointInv /\ DataInv /\ MirrorInv
      /\ db.revision \in Nat
  BY DEF AnalyticsInv, Types
<1>1. UNCHANGED <<history, db, share, mirror>> /\ (Pending' <=> Pending) /\ Source' = Source
  BY DEF RemoteMoves, Pending, Source
<1>2. \A g \in 1..db.revision : Ledger(g)' = Ledger(g)
  <2> TAKE g \in 1..db.revision
  <2>1. CASE Pending /\ g = db.revision
    BY <1>1, <2>1 DEF Ledger
  <2>2. CASE ~(Pending /\ g = db.revision)
    <3>1. g \in 1..Own
      BY <1>0, <2>2 DEF ChainInv
    <3>2. g \in DOMAIN M /\ g \in DOMAIN M'
      BY <1>0, <3>1 DEF ChainInv, RemoteMoves
    <3>3. M'[g] = M[g]
      BY <2>2, <3>2 DEF RemoteMoves
    <3> QED BY <1>1, <2>2, <3>3 DEF Ledger
  <2> QED BY <2>1, <2>2
<1>3. NothingJournalled
  BY <1>1, <1>2 DEF NothingJournalled
<1>4. /\ \A g \in 0..db.revision : UpTo(g)' = UpTo(g) /\ RowsAt(g)' = RowsAt(g) /\ EventsAt(g)' = EventsAt(g)
      /\ DataInv'
  BY <1>3, LedgerKept
<1>5. SourceInv'
  BY <1>0, <1>1 DEF SourceInv
<1>6. Own' \in Nat /\ Own <= Own' /\ Own \in Nat /\ Own' <= db.revision
  BY <1>0 DEF ChainInv, RemoteMoves
<1>7. ChainInv'
  <2>1. IF Pending THEN Own' \in {db.revision - 1, db.revision} /\ db.revision # 0 ELSE Own' = db.revision
    BY <1>0 DEF ChainInv, RemoteMoves
  <2>2. DOMAIN M' \subseteq {Foreign} \cup 1..db.revision
    BY <1>0 DEF ChainInv, RemoteMoves
  <2>3. 1..Own' \subseteq DOMAIN M'
    <3>1. CASE Own' = Own
      BY <1>0, <3>1 DEF ChainInv, RemoteMoves
    <3>2. CASE Own' # Own
      <4>1. Own' = db.revision /\ db.revision \in DOMAIN M' /\ Own >= db.revision - 1
        BY <1>0, <3>2 DEF RemoteMoves, ChainInv
      <4>2. \A g \in 1..Own' : g \in 1..Own \/ g = db.revision
        BY <1>0, <1>6, <4>1
      <4>3. 1..Own \subseteq DOMAIN M'
        BY <1>0 DEF ChainInv, RemoteMoves
      <4> QED BY <4>1, <4>2, <4>3
    <3> QED BY <3>1, <3>2
  <2>4. ASSUME NEW g \in 1..db.revision
        PROVE  /\ Ledger(g)' = [generation |-> g, parent |-> g - 1, files |-> Ledger(g)'.files, at |-> Ledger(g)'.at]
               /\ Ledger(g)'.at \in 1..Len(history)
               /\ g > 1 => Ledger(g - 1)'.at <= Ledger(g)'.at
               /\ g \in DOMAIN M' => M'[g] = Ledger(g)' /\ M'[g].files \subseteq remote'.objects
    <3>1. /\ Ledger(g) = [generation |-> g, parent |-> g - 1, files |-> Ledger(g).files, at |-> Ledger(g).at]
          /\ Ledger(g).at \in 1..Len(history)
          /\ g > 1 => Ledger(g - 1).at <= Ledger(g).at
          /\ g \in DOMAIN M => M[g] = Ledger(g) /\ M[g].files \subseteq remote.objects
      BY <1>0 DEF ChainInv
    <3>2. Ledger(g)' = Ledger(g)
      BY <1>2
    <3>3. g > 1 => Ledger(g - 1)' = Ledger(g - 1)
      <4>1. g > 1 => g - 1 \in 1..db.revision
        BY <1>0
      <4> QED BY <1>2, <4>1
    <3>4. g \in DOMAIN M' => M'[g] = Ledger(g) /\ M'[g].files \subseteq remote'.objects
      <4>1. CASE g \in DOMAIN M /\ M'[g] = M[g]
        BY <3>1, <4>1 DEF RemoteMoves
      <4>2. CASE Pending /\ g = db.revision /\ M'[g] = db.pending /\ db.pending.files \subseteq remote'.objects
        BY <4>2 DEF Ledger
      <4> QED BY <4>1, <4>2 DEF RemoteMoves
    <3> QED BY <3>1, <3>2, <3>3, <3>4
  <2>5. remote'.latest \in Nat \cup {Foreign} /\ (remote'.latest = Foreign => Foreign \in DOMAIN M')
    BY DEF RemoteMoves
  <2> QED BY <1>1, <1>6, <2>1, <2>2, <2>3, <2>4, <2>5 DEF ChainInv
<1>8. CheckpointInv'
  <2>1. db.generation \in 0..db.revision /\ db.revision \in 0..db.revision
    BY <1>0 DEF CheckpointInv, ChainInv
  <2> QED BY <1>0, <1>1, <1>4, <2>1 DEF CheckpointInv
<1>9. MirrorInv'
  <2>1. \A g \in 1..Own : UpTo(g)' = UpTo(g) /\ g \in 1..Own' /\ Ledger(g)' = Ledger(g)
    BY <1>0, <1>2, <1>4, <1>6
  <2> QED BY <1>0, <1>1, <2>1 DEF MirrorInv
<1>10. Progress
  BY <1>1, <1>2 DEF Progress, RemoteMoves
<1> QED BY <1>4, <1>5, <1>7, <1>8, <1>9, <1>10

\* One publisher goes on.
LEMMA ProcSet ==
  ASSUME ProcTypeOK, NEW p \in Process, NEW q, proc' = [proc EXCEPT ![p] = q],
         q = [pc |-> q.pc, pending |-> q.pending, etag |-> q.etag],
         q.pc \in {"off", "made", "put", "publish", "finalize", "unlink"}
  PROVE  ProcTypeOK' /\ proc'[p] = q
<1>1. DOMAIN proc = Process
  BY DEF ProcTypeOK
<1>2. proc'[p] = q /\ (\A o \in Process : o # p => proc'[o] = proc[o]) /\ proc' = [o \in Process |-> proc'[o]]
  BY <1>1
<1>3. \A o \in Process : /\ proc'[o] = [pc |-> proc'[o].pc, pending |-> proc'[o].pending, etag |-> proc'[o].etag]
                         /\ proc'[o].pc \in {"off", "made", "put", "publish", "finalize", "unlink"}
  <2> TAKE o \in Process
  <2>1. CASE o = p
    BY <1>2, <2>1
  <2>2. CASE o # p
    <3>1. proc[o] = [pc |-> proc[o].pc, pending |-> proc[o].pending, etag |-> proc[o].etag]
      BY DEF ProcTypeOK
    <3> QED BY <1>2, <2>2, <3>1 DEF ProcTypeOK
  <2> QED BY <2>1, <2>2
<1>4. proc' = [o \in Process |-> [pc |-> proc'[o].pc, pending |-> proc'[o].pending, etag |-> proc'[o].etag]]
  BY <1>2, <1>3
<1> QED BY <1>2, <1>3, <1>4 DEF ProcTypeOK

\* A step of a publisher that journals and completes nothing.
LEMMA MovesInv ==
  ASSUME AnalyticsInv, RemoteMoves, ProcTypeOK', ProcessInv', lock' \in Process \cup {Nothing},
         crashes' \in 0..MaxCrashes,
         remote' = [objects |-> remote'.objects, manifests |-> M', latest |-> remote'.latest]
  PROVE  AnalyticsInv' /\ Progress
<1>1. SourceInv' /\ ChainInv' /\ CheckpointInv' /\ DataInv' /\ MirrorInv' /\ Progress
  BY RemoteStep
<1>2. Types'
  BY DEF AnalyticsInv, Types, RemoteMoves
<1> QED BY <1>1, <1>2 DEF AnalyticsInv

\* A step that writes nothing but where the publisher is.
LEMMA Quiet ==
  ASSUME AnalyticsInv, UNCHANGED <<history, db, remote, share, mirror>>
  PROVE  /\ RemoteMoves /\ remote' = [objects |-> remote'.objects, manifests |-> M', latest |-> remote'.latest]
         /\ Own' = Own /\ M' = M /\ (Pending' <=> Pending)
<1>1. Own' = Own /\ M' = M /\ (Pending' <=> Pending)
  BY DEF Own, M, Pending
<1>2. /\ remote.latest \in Nat \cup {Foreign} /\ (remote.latest = Foreign => Foreign \in DOMAIN M)
      /\ remote = [objects |-> remote.objects, manifests |-> M, latest |-> remote.latest]
  BY DEF AnalyticsInv, Types, ChainInv
<1> QED BY <1>1, <1>2 DEF RemoteMoves

\* A publisher that raises is off, and its lock is free.
LEMMA RaiseOff ==
  ASSUME AnalyticsInv, OnePublisher, NEW p \in Process, Raise(p)
  PROVE  ProcTypeOK' /\ ProcessInv' /\ lock' \in Process \cup {Nothing}
<1>1. ProcTypeOK /\ lock \in Process \cup {Nothing}
  BY DEF AnalyticsInv, Types
<1>2. ProcTypeOK' /\ proc'[p] = Off
  <2>1. Off = [pc |-> Off.pc, pending |-> Off.pending, etag |-> Off.etag] /\ Off.pc = "off"
    BY DEF Off
  <2> QED BY <1>1, <2>1, ProcSet DEF Raise
<1>3. Working(p)'
  BY <1>2 DEF Working, Off
<1> QED BY <1>1, <1>2, <1>3 DEF Raise, ProcessInv, OnePublisher

\* A process goes on to another step.
LEMMA GoesOn ==
  ASSUME AnalyticsInv, NEW p \in Process, NEW place \in {"put", "publish", "finalize", "unlink"},
         proc' = [proc EXCEPT ![p].pc = place]
  PROVE  ProcTypeOK' /\ proc'[p].pc = place /\ proc'[p].pending = proc[p].pending
<1>1. ProcTypeOK
  BY DEF AnalyticsInv, Types
<1>2. proc[p] = [pc |-> proc[p].pc, pending |-> proc[p].pending, etag |-> proc[p].etag]
  BY <1>1 DEF ProcTypeOK
<1> DEFINE q == [pc |-> place, pending |-> proc[p].pending, etag |-> proc[p].etag]
<1>3. proc' = [proc EXCEPT ![p] = q]
  <2>1. [proc[p] EXCEPT !.pc = place] = q
    BY <1>2
  <2>2. proc' = [proc EXCEPT ![p] = [proc[p] EXCEPT !.pc = place]]
    OBVIOUS
  <2> QED BY <2>1, <2>2
<1>4. q = [pc |-> q.pc, pending |-> q.pending, etag |-> q.etag] /\ q.pc = place /\ q.pending = proc[p].pending
  OBVIOUS
<1> HIDE DEF q
<1> QED BY <1>1, <1>3, <1>4, ProcSet

\* A publisher that uploads works on the pending generation.
LEMMA WorkerPending ==
  ASSUME AnalyticsInv, NEW p \in Process, proc[p].pc \in {"put", "publish", "finalize"}
  PROVE  /\ Pending /\ proc[p].pending = db.pending /\ db.revision \in Nat \ {0}
         /\ db.pending = [generation |-> db.revision, parent |-> db.revision - 1,
                          files |-> db.pending.files, at |-> db.pending.at]
         /\ db.revision \in 1..db.revision
<1>1. Pending /\ proc[p].pending = db.pending
  BY DEF AnalyticsInv, ProcessInv, Working
<1>2. db.revision \in Nat /\ db.revision # 0
  BY <1>1 DEF AnalyticsInv, Types, ChainInv
<1>3. Ledger(db.revision) = db.pending /\ db.revision \in 1..db.revision
  BY <1>1, <1>2 DEF Ledger
<1>4. ChainInv
  BY DEF AnalyticsInv
<1>5. db.pending = [generation |-> db.revision, parent |-> db.revision - 1,
                    files |-> db.pending.files, at |-> db.pending.at]
  BY <1>3, <1>4 DEF ChainInv
<1> QED BY <1>1, <1>2, <1>3, <1>5

\* A publisher starts: it reads the pending generation and the pointer.
LEMMA MakeStep ==
  ASSUME AnalyticsInv, OnePublisher, NEW p \in Process, Make(p)
  PROVE  AnalyticsInv' /\ Progress
<1>1. /\ Fits /\ proc' = [proc EXCEPT ![p] = [pc |-> "made", pending |-> db.pending, etag |-> remote.latest]]
      /\ UNCHANGED <<history, db, remote, share, mirror, lock, crashes>>
  BY DEF Make
<1>2. ProcTypeOK' /\ proc'[p] = [pc |-> "made", pending |-> db.pending, etag |-> remote.latest]
  <2> DEFINE q == [pc |-> "made", pending |-> db.pending, etag |-> remote.latest]
  <2>1. q = [pc |-> q.pc, pending |-> q.pending, etag |-> q.etag] /\ q.pc = "made"
    OBVIOUS
  <2>2. proc' = [proc EXCEPT ![p] = q] /\ ProcTypeOK
    BY <1>1 DEF AnalyticsInv, Types
  <2> HIDE DEF q
  <2>3. ProcTypeOK' /\ proc'[p] = q
    BY <2>1, <2>2, ProcSet
  <2> QED BY <2>3 DEF q
<1>3. ~Pending => remote.latest # Foreign
  <2>1. CheckpointInv /\ ChainInv /\ db.revision \in Nat
    BY DEF AnalyticsInv, Types
  <2>2. db.remote_seen <=> db.generation # 0
    BY <2>1 DEF CheckpointInv
  <2>3. ~Pending => db.generation \in Nat
    BY <2>1 DEF CheckpointInv
  <2> QED BY <1>1, <2>2, <2>3 DEF Fits, Pending, NoGeneration, Foreign
<1>4. Working(p)'
  BY <1>1, <1>2, <1>3 DEF Working, Pending
<1>5. ProcessInv'
  BY <1>4 DEF ProcessInv, OnePublisher
<1>6. lock' \in Process \cup {Nothing} /\ crashes' \in 0..MaxCrashes
  BY <1>1 DEF AnalyticsInv, Types
<1> QED BY <1>1, <1>2, <1>5, <1>6, Quiet, MovesInv

\* A publisher gives up and leaves all as it was.
LEMMA QuietRaise ==
  ASSUME AnalyticsInv, OnePublisher, NEW p \in Process, Raise(p),
         UNCHANGED <<history, db, remote, share, mirror>>, crashes' \in 0..MaxCrashes
  PROVE  AnalyticsInv' /\ Progress
BY RaiseOff, Quiet, MovesInv

\* A publisher goes on with the generation that an earlier one journalled.
LEMMA ResumeStep ==
  ASSUME AnalyticsInv, OnePublisher, NEW p \in Process, proc[p].pc = "made",
         proc[p].pending # NoPending, Resume(p), UNCHANGED <<history, remote, share, mirror, crashes>>
  PROVE  AnalyticsInv' /\ Progress
<1>1. proc[p].pending = db.pending /\ Pending
  BY DEF AnalyticsInv, ProcessInv, Working, Pending
<1>2. UNCHANGED <<history, db, remote, share, mirror>> /\ crashes' \in 0..MaxCrashes
  BY DEF Resume, AnalyticsInv, Types
<1>3. /\ db.pending.generation = db.revision /\ db.revision \in Nat
      /\ db.pending.parent = db.revision - 1
  <2>1. db.revision \in Nat /\ db.revision # 0 /\ ChainInv
    BY <1>1 DEF AnalyticsInv, Types, ChainInv
  <2>2. db.revision \in 1..db.revision /\ Ledger(db.revision) = db.pending
    BY <1>1, <2>1 DEF Ledger
  <2> QED BY <2>1, <2>2 DEF ChainInv
<1>4. CASE remote.latest = proc[p].pending.generation
  <2>0. remote.latest # proc[p].pending.parent
    BY <1>1, <1>3, <1>4
  <2>1. proc' = [proc EXCEPT ![p].pc = "finalize"] /\ lock' = p
    BY <1>4, <2>0 DEF Resume
  <2>2. ProcTypeOK' /\ proc'[p].pc = "finalize" /\ proc'[p].pending = proc[p].pending
    BY <2>1, GoesOn
  <2>3. Own = db.revision
    BY <1>1, <1>3, <1>4 DEF Own, Foreign
  <2>4. Own' = db.revision /\ Pending' /\ db' = db
    BY <1>2, <1>1, <2>3, Quiet
  <2>5. Working(p)'
    BY <1>1, <2>2, <2>4 DEF Working
  <2>6. ProcessInv'
    BY <2>5 DEF ProcessInv, OnePublisher
  <2> QED BY <1>2, <2>1, <2>2, <2>6, Quiet, MovesInv
<1>5. CASE remote.latest # proc[p].pending.generation /\ remote.latest = proc[p].pending.parent
  <2>1. proc' = [proc EXCEPT ![p].pc = "put"] /\ lock' = p
    BY <1>5 DEF Resume
  <2>2. ProcTypeOK' /\ proc'[p].pc = "put" /\ proc'[p].pending = proc[p].pending
    BY <2>1, GoesOn
  <2>4. Pending' /\ db' = db
    BY <1>1, <1>2, Quiet
  <2>5. Working(p)'
    BY <1>1, <2>2, <2>4 DEF Working
  <2>6. ProcessInv'
    BY <2>5 DEF ProcessInv, OnePublisher
  <2> QED BY <1>2, <2>1, <2>2, <2>6, Quiet, MovesInv
<1>6. CASE remote.latest # proc[p].pending.generation /\ remote.latest # proc[p].pending.parent
  <2>1. Raise(p)
    BY <1>6 DEF Resume
  <2> QED BY <1>2, <2>1, QuietRaise
<1> QED BY <1>4, <1>5, <1>6

\* A file of the pending generation is uploaded, or refused.
LEMMA PutStep ==
  ASSUME AnalyticsInv, OnePublisher, NEW p \in Process, Put(p)
  PROVE  AnalyticsInv' /\ Progress
<1>1. /\ proc[p].pc = "put" /\ UNCHANGED <<history, db, share, mirror, crashes>>
      /\ crashes' \in 0..MaxCrashes
  BY DEF Put, AnalyticsInv, Types
<1>2. CASE proc[p].pending.files \subseteq spool
  <2>1. PICK f : remote' = [remote EXCEPT !.objects = @ \cup {f}]
    BY <1>2 DEF Put
  <2>2. UNCHANGED <<proc, lock>>
    BY <1>2 DEF Put
  <2>3. /\ remote = [objects |-> remote.objects, manifests |-> M, latest |-> remote.latest]
        /\ remote.latest \in Nat \cup {Foreign} /\ (remote.latest = Foreign => Foreign \in DOMAIN M)
    BY DEF AnalyticsInv, Types, ChainInv
  <2>4. remote' = [objects |-> remote.objects \cup {f}, manifests |-> M, latest |-> remote.latest]
    BY <2>1, <2>3
  <2>5. M' = M /\ Own' = Own /\ remote'.latest = remote.latest /\ remote'.objects = remote.objects \cup {f}
        /\ (Pending' <=> Pending)
    BY <1>1, <2>4 DEF M, Own, Pending
  <2>6. RemoteMoves
    BY <1>1, <2>3, <2>5 DEF RemoteMoves
  <2>7. ProcTypeOK' /\ lock' \in Process \cup {Nothing}
    BY <2>2 DEF AnalyticsInv, Types, ProcTypeOK
  <2>8. ProcessInv'
    BY <1>1, <2>2, <2>5 DEF AnalyticsInv, ProcessInv, Working
  <2>9. remote' = [objects |-> remote'.objects, manifests |-> M', latest |-> remote'.latest]
    BY <2>4, <2>5
  <2> QED BY <1>1, <2>6, <2>7, <2>8, <2>9, MovesInv
<1>3. CASE ~(proc[p].pending.files \subseteq spool)
  <2>1. Raise(p) /\ UNCHANGED remote
    BY <1>3 DEF Put
  <2> QED BY <1>1, <2>1, QuietRaise
<1> QED BY <1>2, <1>3

\* The manifest of the pending generation is uploaded, after its files.
LEMMA PutManifestStep ==
  ASSUME AnalyticsInv, OnePublisher, NEW p \in Process, PutManifest(p)
  PROVE  AnalyticsInv' /\ Progress
<1>0. proc[p].pc = "put"
  BY DEF PutManifest
<1>1. /\ Pending /\ proc[p].pending = db.pending /\ db.revision \in Nat \ {0}
      /\ db.pending = [generation |-> db.revision, parent |-> db.revision - 1,
                       files |-> db.pending.files, at |-> db.pending.at]
      /\ db.revision \in 1..db.revision
  BY <1>0, WorkerPending
<1>2. /\ db.pending.files \subseteq remote.objects
      /\ remote' = [remote EXCEPT !.manifests = WithManifest(@, db.pending.generation, db.pending)]
      /\ proc' = [proc EXCEPT ![p].pc = "publish"]
      /\ UNCHANGED <<history, db, share, mirror, crashes, lock>>
  BY <1>1 DEF PutManifest
<1>3. db.pending.generation = db.revision
  BY <1>1
<1>4. /\ remote = [objects |-> remote.objects, manifests |-> M, latest |-> remote.latest]
      /\ remote.latest \in Nat \cup {Foreign} /\ ChainInv /\ Own \in Nat
      /\ (remote.latest = Foreign => Foreign \in DOMAIN M)
  BY DEF AnalyticsInv, Types, ChainInv
<1>5. remote' = [objects |-> remote.objects, manifests |-> WithManifest(M, db.revision, db.pending),
                 latest |-> remote.latest]
  BY <1>2, <1>3, <1>4
<1>6. /\ remote'.objects = remote.objects /\ remote'.latest = remote.latest
      /\ M' = WithManifest(M, db.revision, db.pending)
  BY <1>5 DEF M
<1>7. /\ DOMAIN M' = DOMAIN M \cup {db.revision} /\ M'[db.revision] = db.pending
      /\ \A g \in DOMAIN M : g # db.revision => M'[g] = M[g]
  BY <1>6 DEF WithManifest
<1>8. Own' = Own
  <2>1. CASE remote.latest = Foreign
    <3>1. Foreign # db.revision
      BY <1>1 DEF Foreign
    <3>2. M'[Foreign] = M[Foreign]
      BY <1>4, <1>7, <2>1, <3>1
    <3> QED BY <1>6, <2>1, <3>2 DEF Own, M
  <2>2. CASE remote.latest # Foreign
    BY <1>6, <2>2 DEF Own
  <2> QED BY <2>1, <2>2
<1>9. RemoteMoves
  BY <1>1, <1>2, <1>4, <1>6, <1>7, <1>8 DEF RemoteMoves
<1>10. ProcTypeOK' /\ proc'[p].pc = "publish" /\ proc'[p].pending = proc[p].pending
  BY <1>2, GoesOn
<1>11. Working(p)'
  BY <1>1, <1>2, <1>7, <1>10 DEF Working, Pending
<1>12. ProcessInv'
  BY <1>11 DEF ProcessInv, OnePublisher
<1>13. lock' \in Process \cup {Nothing} /\ crashes' \in 0..MaxCrashes
  BY <1>2 DEF AnalyticsInv, Types
<1>14. remote' = [objects |-> remote'.objects, manifests |-> M', latest |-> remote'.latest]
  BY <1>5, <1>6
<1> QED BY <1>9, <1>10, <1>12, <1>13, <1>14, MovesInv

\* The pointer moves to the pending generation, whether the answer comes or not.
LEMMA PublishStep ==
  ASSUME AnalyticsInv, OnePublisher, NEW p \in Process, NEW answered \in BOOLEAN, Publish(p, answered)
  PROVE  AnalyticsInv' /\ Progress
<1>0. proc[p].pc = "publish" /\ UNCHANGED <<history, db, share, mirror>>
  BY DEF Publish
<1>1. /\ Pending /\ proc[p].pending = db.pending /\ db.revision \in Nat \ {0}
      /\ db.pending = [generation |-> db.revision, parent |-> db.revision - 1,
                       files |-> db.pending.files, at |-> db.pending.at]
      /\ db.revision \in 1..db.revision
  BY <1>0, WorkerPending
<1>2. db.revision \in DOMAIN M
  BY <1>0 DEF AnalyticsInv, ProcessInv, Working
<1>4. /\ remote = [objects |-> remote.objects, manifests |-> M, latest |-> remote.latest]
      /\ remote.latest \in Nat \cup {Foreign} /\ crashes \in 0..MaxCrashes
      /\ lock \in Process \cup {Nothing}
  BY DEF AnalyticsInv, Types, ChainInv
<1>5. CASE remote.latest = proc[p].pending.parent
  <2>1. remote' = [remote EXCEPT !.latest = db.revision]
    BY <1>1, <1>5 DEF Publish
  <2>2. remote' = [objects |-> remote.objects, manifests |-> M, latest |-> db.revision]
    BY <1>4, <2>1
  <2>3. /\ remote'.objects = remote.objects /\ remote'.latest = db.revision /\ M' = M
        /\ Own' = db.revision
    BY <1>1, <2>2 DEF M, Own, Foreign
  <2>4. RemoteMoves
    <3>1. remote.latest # Foreign
      BY <1>1, <1>5 DEF Foreign
    <3> QED BY <1>0, <1>1, <1>2, <2>3, <3>1 DEF RemoteMoves
  <2>5. remote' = [objects |-> remote'.objects, manifests |-> M', latest |-> remote'.latest]
    BY <2>2, <2>3
  <2>6. CASE answered
    <3>1. proc' = [proc EXCEPT ![p].pc = "finalize"] /\ UNCHANGED <<lock, crashes>>
      BY <1>5, <2>6 DEF Publish
    <3>2. ProcTypeOK' /\ proc'[p].pc = "finalize" /\ proc'[p].pending = proc[p].pending
      BY <3>1, GoesOn
    <3>3. Working(p)'
      BY <1>0, <1>1, <2>3, <3>2 DEF Working, Pending
    <3>4. ProcessInv'
      BY <3>3 DEF ProcessInv, OnePublisher
    <3> QED BY <1>4, <2>4, <2>5, <3>1, <3>2, <3>4, MovesInv
  <2>7. CASE ~answered
    <3>1. crashes < MaxCrashes /\ crashes' = crashes + 1 /\ Raise(p)
      BY <1>5, <2>7 DEF Publish
    <3>2. crashes' \in 0..MaxCrashes
      BY <1>4, <3>1, AnalyticsAssumption
    <3> QED BY <2>4, <2>5, <3>1, <3>2, RaiseOff, MovesInv
  <2> QED BY <2>6, <2>7
<1>6. CASE remote.latest # proc[p].pending.parent
  <2>1. Raise(p) /\ UNCHANGED <<remote, crashes>>
    BY <1>6 DEF Publish
  <2> QED BY <1>0, <1>4, <2>1, QuietRaise
<1> QED BY <1>5, <1>6

\* The remote store with another pointer and other manifests.
LEMMA PointerAndManifest ==
  ASSUME NEW o, NEW ms, NEW l, NEW w, NEW x
  PROVE  [[objects |-> o, manifests |-> ms, latest |-> l] EXCEPT !.latest = x, !.manifests = w]
           = [objects |-> o, manifests |-> w, latest |-> x]
<1> DEFINE a == [objects |-> o, manifests |-> ms, latest |-> l]
           b == [objects |-> o, manifests |-> ms, latest |-> x]
<1>1. [a EXCEPT !.latest = x, !.manifests = w] = [[a EXCEPT !.latest = x] EXCEPT !.manifests = w]
  OBVIOUS
<1>2. [a EXCEPT !.latest = x] = b
  OBVIOUS
<1>3. [b EXCEPT !.manifests = w] = [objects |-> o, manifests |-> w, latest |-> x]
  OBVIOUS
<1> HIDE DEF b
<1>4. [a EXCEPT !.latest = x, !.manifests = w] = [b EXCEPT !.manifests = w]
  BY <1>1, <1>2
<1> QED BY <1>3, <1>4

\* Another writer moves the pointer to a manifest of its own.
LEMMA IntrudeStep == ASSUME AnalyticsInv, Intrude PROVE AnalyticsInv' /\ Progress
<1> DEFINE m == [generation |-> Foreign, parent |-> remote.latest, files |-> {}, at |-> 0]
<1>1. /\ crashes < MaxCrashes /\ crashes' = crashes + 1 /\ remote.latest # Foreign
      /\ remote' = [remote EXCEPT !.latest = Foreign, !.manifests = WithManifest(@, Foreign, m)]
      /\ UNCHANGED <<history, db, spool, proc, lock, share, mirror>>
  BY DEF Intrude
<1>2. /\ remote = [objects |-> remote.objects, manifests |-> M, latest |-> remote.latest]
      /\ remote.latest \in Nat \cup {Foreign} /\ crashes \in 0..MaxCrashes
      /\ lock \in Process \cup {Nothing} /\ ProcTypeOK /\ ChainInv /\ ProcessInv /\ db.revision \in Nat
  BY DEF AnalyticsInv, Types, ChainInv
<1>3. m.parent = remote.latest
  OBVIOUS
<1> HIDE DEF m
<1>4. remote' = [objects |-> remote.objects, manifests |-> WithManifest(M, Foreign, m), latest |-> Foreign]
  <2>1. remote' = [remote EXCEPT !.latest = Foreign, !.manifests = WithManifest(remote.manifests, Foreign, m)]
    BY <1>1
  <2> QED BY <1>2, <2>1, PointerAndManifest DEF M
<1>5. /\ remote'.objects = remote.objects /\ remote'.latest = Foreign /\ M' = WithManifest(M, Foreign, m)
      /\ M' = remote'.manifests
  BY <1>4 DEF M
<1>6. /\ DOMAIN M' = DOMAIN M \cup {Foreign} /\ M'[Foreign] = m
      /\ \A g \in DOMAIN M : g # Foreign => M'[g] = M[g]
  BY <1>5 DEF WithManifest
<1>7. Own' = Own
  BY <1>1, <1>3, <1>5, <1>6 DEF Own
<1>8. RemoteMoves
  <2>1. \A g \in 1..db.revision : g # Foreign
    BY <1>2 DEF Foreign
  <2> QED BY <1>1, <1>2, <1>5, <1>6, <1>7, <2>1 DEF RemoteMoves
<1>9. ProcTypeOK' /\ lock' \in Process \cup {Nothing} /\ crashes' \in 0..MaxCrashes
  BY <1>1, <1>2, AnalyticsAssumption DEF ProcTypeOK
<1>10. ProcessInv'
  BY <1>1, <1>2, <1>6, <1>7 DEF ProcessInv, Working, Pending
<1>11. remote' = [objects |-> remote'.objects, manifests |-> M', latest |-> remote'.latest]
  BY <1>4, <1>5
<1> QED BY <1>8, <1>9, <1>10, <1>11, MovesInv

\* The changes of a published generation become the index.
LEMMA Finalized ==
  ASSUME NEW d, DOMAIN d = Columns, NEW n, NEW g
  PROVE  LET e == [d EXCEPT !.index = [k \in Key |-> IF k \in DOMAIN d.changes THEN d.changes[k] ELSE @[k]],
                            !.changes = <<>>, !.pending = n, !.remote_seen = TRUE, !.generation = g]
         IN  /\ DOMAIN e = Columns /\ e.changes = <<>> /\ e.pending = n
             /\ e.index = [k \in Key |-> IF k \in DOMAIN d.changes THEN d.changes[k] ELSE d.index[k]]
             /\ e.remote_seen = TRUE /\ e.generation = g /\ e.revision = d.revision
             /\ e.events_seq = d.events_seq /\ e.log_cursor = d.log_cursor
BY DEF Columns

\* The pending generation becomes the checkpoint.
LEMMA FinalizeStep ==
  ASSUME AnalyticsInv, OnePublisher, NEW p \in Process, Finalize(p)
  PROVE  AnalyticsInv' /\ Progress
<1>0. proc[p].pc = "finalize"
  BY DEF Finalize
<1>1. /\ Pending /\ proc[p].pending = db.pending /\ db.revision \in Nat \ {0}
      /\ db.pending.generation = db.revision /\ Own = db.revision
  BY <1>0, WorkerPending DEF AnalyticsInv, ProcessInv, Working
<1>2. /\ db' = [db EXCEPT !.index = [k \in Key |-> IF k \in DOMAIN db.changes THEN db.changes[k] ELSE @[k]],
                          !.changes = <<>>, !.pending = NoPending, !.remote_seen = TRUE,
                          !.generation = proc[p].pending.generation]
      /\ proc' = [proc EXCEPT ![p].pc = "unlink"]
      /\ UNCHANGED <<history, spool, remote, lock, share, mirror, crashes>>
  BY DEF Finalize
<1>3. /\ Types /\ SourceInv /\ ChainInv /\ CheckpointInv /\ MirrorInv /\ DOMAIN db = Columns
  BY DEF AnalyticsInv, Types
<1>4. /\ DOMAIN db' = Columns /\ db'.changes = <<>> /\ db'.pending = NoPending
      /\ db'.index = [k \in Key |-> IF k \in DOMAIN db.changes THEN db.changes[k] ELSE db.index[k]]
      /\ db'.remote_seen = TRUE /\ db'.generation = db.revision /\ db'.revision = db.revision
      /\ db'.events_seq = db.events_seq /\ db'.log_cursor = db.log_cursor
  BY ONLY <1>1, <1>2, <1>3, Finalized
<1>5. ~Pending' /\ M' = M /\ Own' = Own /\ Source' = Source
  BY <1>2, <1>4 DEF Pending, M, Own, Source
<1>6. \A g \in 1..db.revision : Ledger(g)' = Ledger(g) /\ g \in DOMAIN M /\ M[g] = Ledger(g)
  <2> TAKE g \in 1..db.revision
  <2>1. g \in DOMAIN M
    BY <1>1, <1>3 DEF ChainInv
  <2>2. M[g] = Ledger(g)
    BY <1>3, <2>1 DEF ChainInv
  <2>3. Ledger(g)' = M[g]
    BY <1>5 DEF Ledger
  <2> QED BY <2>1, <2>2, <2>3
<1>7. NothingJournalled
  BY <1>2, <1>4, <1>6 DEF NothingJournalled
<1>8. /\ \A g \in 0..db.revision : UpTo(g)' = UpTo(g) /\ RowsAt(g)' = RowsAt(g) /\ EventsAt(g)' = EventsAt(g)
      /\ DataInv'
  BY <1>7, LedgerKept
<1>9. db'.index = RowsAt(db.revision) /\ RowsAt(db.revision) \in Row
  <2>1. db'.index = RowsAt(db.revision)
    BY <1>1, <1>3, <1>4 DEF CheckpointInv
  <2>2. db.revision \in 1..db.revision /\ db.revision # 0
    BY <1>1
  <2>3. Ledger(db.revision).at \in 1..Len(history)
    BY <1>3, <2>2 DEF ChainInv
  <2>4. history[Ledger(db.revision).at] \in SourceState
    BY <1>3, <2>3 DEF Types
  <2> QED BY <2>1, <2>2, <2>4 DEF RowsAt, SourceState
<1>10. ProcTypeOK' /\ proc'[p].pc = "unlink"
  BY <1>2, GoesOn
<1>11. ProcessInv'
  <2>1. Working(p)'
    BY <1>10 DEF Working
  <2> QED BY <2>1 DEF ProcessInv, OnePublisher
<1>12. Types'
  <2>1. DOMAIN db'.changes \subseteq Key
    BY <1>4
  <2> QED BY <1>2, <1>3, <1>4, <1>5, <1>9, <1>10, <2>1 DEF Types
<1>13. SourceInv'
  BY <1>2, <1>3, <1>4, <1>5 DEF SourceInv
<1>14. ChainInv'
  <2>1. \A g \in 1..db.revision : g > 1 => g - 1 \in 1..db.revision
    BY <1>1
  <2>2. \A g \in 1..db.revision : g > 1 => Ledger(g - 1)' = Ledger(g - 1)
    BY <1>6, <2>1
  <2>3. \A g \in 1..db.revision :
       /\ Ledger(g)' = [generation |-> g, parent |-> g - 1, files |-> Ledger(g)'.files, at |-> Ledger(g)'.at]
       /\ Ledger(g)'.at \in 1..Len(history)
       /\ g > 1 => Ledger(g - 1)'.at <= Ledger(g)'.at
       /\ g \in DOMAIN M => M[g] = Ledger(g)' /\ M[g].files \subseteq remote.objects
    BY <1>3, <1>6, <2>2 DEF ChainInv
  <2>4. /\ remote.latest \in Nat \cup {Foreign} /\ Own \in Nat
        /\ DOMAIN M \subseteq {Foreign} \cup 1..db.revision
        /\ 1..Own \subseteq DOMAIN M /\ (remote.latest = Foreign => Foreign \in DOMAIN M)
    BY <1>3 DEF ChainInv
  <2> QED BY <1>1, <1>2, <1>4, <1>5, <2>3, <2>4 DEF ChainInv
<1>15. CheckpointInv'
  <2>1. db.revision \in 0..db.revision
    BY <1>1
  <2>2. EventsAt(db.revision)' = EventsAt(db.revision) /\ UpTo(db.revision)' = UpTo(db.revision)
        /\ RowsAt(db.revision)' = RowsAt(db.revision)
    BY <1>4, <1>8, <2>1
  <2>3. db.events_seq = EventsAt(db.revision) /\ UNION Pieces(UpTo(db.revision), "logs") = 1..db.log_cursor
    BY <1>3 DEF CheckpointInv
  <2> QED BY <1>1, <1>4, <1>5, <1>9, <2>2, <2>3 DEF CheckpointInv
<1>16. MirrorInv'
  <2>1. \A g \in 1..Own : UpTo(g)' = UpTo(g) /\ Ledger(g)' = Ledger(g)
    BY <1>1, <1>6, <1>8
  <2> QED BY <1>2, <1>3, <1>5, <2>1 DEF MirrorInv
<1>17. Progress
  BY <1>2, <1>4, <1>5, <1>6 DEF Progress
<1> QED BY <1>8, <1>11, <1>12, <1>13, <1>14, <1>15, <1>16, <1>17 DEF AnalyticsInv

-----------------------------------------------------------------------------
\* A scan takes the log on from the cursor, and never past what it may read.
LEMMA LogEndBounds ==
  ASSUME AnalyticsInv
  PROVE  /\ LogEnd \in Nat /\ db.log_cursor <= LogEnd /\ LogEnd <= Len(Source.log)
         /\ Source.live => LogEnd <= Source.offset
<1> DEFINE c == db.log_cursor
           whole == {n \in (c + 1)..Source.offset : Source.log[n]}
           end == IF ~Source.live THEN Len(Source.log) ELSE Max(whole \cup {c})
<1>1. /\ c \in Nat /\ Source.offset \in Nat /\ Len(Source.log) \in Nat /\ Source.live \in BOOLEAN
      /\ c <= Len(Source.log) /\ Source.offset <= Len(Source.log)
      /\ Source.live => c <= Source.offset
  <2>1. history \in Seq(SourceState) /\ history # <<>> /\ SourceInv /\ c \in Nat
    BY DEF AnalyticsInv, Types
  <2>2. Source \in SourceState
    BY <2>1 DEF Source, Last
  <2> QED BY <2>1, <2>2 DEF SourceState, SourceInv
<1>2. end \in Nat /\ c <= end /\ end <= Len(Source.log) /\ (Source.live => end <= Source.offset)
  <2>1. CASE ~Source.live
    BY <1>1, <2>1
  <2>2. CASE Source.live
    <3> DEFINE S == whole \cup {c}
    <3>1. S \in SUBSET Nat /\ S # {} /\ (\A x \in S : x <= Source.offset) /\ c \in S
      BY <1>1, <2>2
    <3>2. Max(S) \in S /\ \A x \in S : x <= Max(S)
      BY <1>1, <3>1, MaxNat
    <3>3. end = Max(S)
      BY <2>2
    <3> HIDE DEF S, end, whole
    <3>4. Max(S) \in Nat /\ c <= Max(S) /\ Max(S) <= Source.offset
      BY ONLY <3>1, <3>2
    <3>5. end \in Nat /\ c <= end /\ end <= Source.offset
      BY ONLY <3>3, <3>4
    <3> QED BY <1>1, <3>5
  <2> QED BY <1>1, <2>1, <2>2
<1>3. LogEnd = Min({end, c + Budget})
  BY DEF LogEnd
<1> HIDE DEF end
<1>4. Budget \in Nat /\ c + Budget \in Nat /\ c <= c + Budget
  BY <1>1, AnalyticsAssumption
<1>5. Min({end, c + Budget}) \in {end, c + Budget} /\ Min({end, c + Budget}) <= end
  <2>1. \E x \in {end, c + Budget} : \A y \in {end, c + Budget} : x <= y
    BY <1>2, <1>4
  <2>2. /\ Min({end, c + Budget}) \in {end, c + Budget}
        /\ \A y \in {end, c + Budget} : Min({end, c + Budget}) <= y
    BY <2>1 DEF Min
  <2> QED BY <2>2
<1> QED BY <1>1, <1>2, <1>3, <1>4, <1>5

\* The objects of a generation: one of a kind at the most, none of them empty.
LEMMA StagedFiles ==
  ASSUME NEW g
  PROVE  LET rows == [table |-> "rows", revision |-> g, piece |-> [k \in Delta |-> Source.rows[k]]]
             events == [table |-> "events", revision |-> g, piece |-> (db.events_seq + 1)..Source.events]
             logs == [table |-> "logs", revision |-> g, piece |-> (db.log_cursor + 1)..LogEnd]
         IN  /\ Staged(g) \subseteq {rows, events, logs}
             /\ rows \in Staged(g) <=> Delta # {}
             /\ events \in Staged(g) <=> events.piece # {}
             /\ logs \in Staged(g) <=> logs.piece # {}
<1> DEFINE rows == [table |-> "rows", revision |-> g, piece |-> [k \in Delta |-> Source.rows[k]]]
           events == [table |-> "events", revision |-> g, piece |-> (db.events_seq + 1)..Source.events]
           logs == [table |-> "logs", revision |-> g, piece |-> (db.log_cursor + 1)..LogEnd]
<1>1. Staged(g) = (IF Delta = {} THEN {} ELSE {rows})
                  \cup (IF (db.events_seq + 1)..Source.events = {} THEN {} ELSE {events})
                  \cup (IF (db.log_cursor + 1)..LogEnd = {} THEN {} ELSE {logs})
  BY DEF Staged
<1>2. rows.table = "rows" /\ events.table = "events" /\ logs.table = "logs"
  OBVIOUS
<1>3. rows # events /\ rows # logs /\ events # logs
  BY <1>2
<1>4. events.piece = (db.events_seq + 1)..Source.events /\ logs.piece = (db.log_cursor + 1)..LogEnd
  OBVIOUS
<1> HIDE DEF rows, events, logs
<1>5. /\ Staged(g) \subseteq {rows, events, logs}
      /\ rows \in Staged(g) <=> Delta # {}
      /\ events \in Staged(g) <=> events.piece # {}
      /\ logs \in Staged(g) <=> logs.piece # {}
  BY <1>1, <1>3, <1>4
<1> QED BY <1>5 DEF rows, events, logs

\* An interval of numbers in two parts.
LEMMA IntervalSplit ==
  ASSUME NEW a \in Nat, NEW b \in Nat, a <= b
  PROVE  (1..a) \cup ((a + 1)..b) = 1..b
OBVIOUS

\* The row that the latest of the given files has.
Newest(of, k) ==
  IF of = {} THEN Absent ELSE (CHOOSE f \in of : \A h \in of : h.revision <= f.revision).piece[k]

\* A generation on top of what was published reads as the snapshot it is of.
LEMMA GenerationAdds ==
  ASSUME AnalyticsInv, ~Pending
  PROVE  LET new == UpTo(db.revision) \cup Staged(db.revision + 1)
         IN  /\ \A f \in new : f.revision \in 1..(db.revision + 1)
             /\ Disjoint(new)
             /\ \A k \in Key : LatestRow(new, k) = Source.rows[k]
             /\ UNION Pieces(new, "events") = 1..Source.events
             /\ UNION Pieces(new, "logs") = 1..LogEnd
<1> DEFINE n == db.revision
           g == n + 1
           old == UpTo(n)
           new == old \cup Staged(g)
           rows == [table |-> "rows", revision |-> g, piece |-> [k \in Delta |-> Source.rows[k]]]
           events == [table |-> "events", revision |-> g, piece |-> (db.events_seq + 1)..Source.events]
           logs == [table |-> "logs", revision |-> g, piece |-> (db.log_cursor + 1)..LogEnd]
<1>1. /\ Staged(g) \subseteq {rows, events, logs}
      /\ rows \in Staged(g) <=> Delta # {}
      /\ events \in Staged(g) <=> events.piece # {}
      /\ logs \in Staged(g) <=> logs.piece # {}
  BY StagedFiles
<1>2. /\ rows.table = "rows" /\ rows.revision = g /\ rows.piece = [k \in Delta |-> Source.rows[k]]
      /\ events.table = "events" /\ events.revision = g /\ events.piece = (db.events_seq + 1)..Source.events
      /\ logs.table = "logs" /\ logs.revision = g /\ logs.piece = (db.log_cursor + 1)..LogEnd
  OBVIOUS
<1>3. /\ n \in Nat /\ db.events_seq \in Nat /\ db.log_cursor \in Nat /\ Source.events \in Nat
      /\ db.events_seq <= Source.events /\ Source.rows \in Row
  <2>1. history \in Seq(SourceState) /\ history # <<>> /\ SourceInv
    BY DEF AnalyticsInv, Types
  <2>2. Source \in SourceState
    BY <2>1 DEF Source, Last
  <2> QED BY <2>1, <2>2 DEF SourceState, SourceInv, AnalyticsInv, Types
<1>4. ReadsWell(n) /\ CheckpointInv
  <2>1. n \in 0..db.revision
    BY <1>3
  <2> QED BY <2>1 DEF AnalyticsInv, DataInv
<1>5. /\ UNION Pieces(old, "events") = 1..db.events_seq
      /\ UNION Pieces(old, "logs") = 1..db.log_cursor
      /\ \A k \in Key : LatestRow(old, k) = db.index[k]
      /\ \A f \in old : f.revision \in 1..n
      /\ Disjoint(old)
  <2>1. db.generation = n /\ db.index = RowsAt(db.generation) /\ db.events_seq = EventsAt(n)
        /\ UNION Pieces(UpTo(n), "logs") = 1..db.log_cursor
    BY <1>4 DEF CheckpointInv
  <2> QED BY <1>4, <2>1 DEF ReadsWell
<1>6. LogEnd \in Nat /\ db.log_cursor <= LogEnd
  BY LogEndBounds
<1> HIDE DEF rows, events, logs, old, n
<1>7. \A f \in new : f \in old \/ f = rows \/ f = events \/ f = logs
  BY <1>1
<1>8. \A f \in new : f.revision \in 1..g
  BY <1>2, <1>3, <1>5, <1>7
<1>9. \A f \in old : /\ f.table = "events" => f.piece \subseteq 1..db.events_seq
                     /\ f.table = "logs" => f.piece \subseteq 1..db.log_cursor
  <2> TAKE f \in old
  <2>1. f.table = "events" => f.piece \in Pieces(old, "events")
    BY DEF Pieces
  <2>2. f.table = "logs" => f.piece \in Pieces(old, "logs")
    BY DEF Pieces
  <2> QED BY <1>5, <2>1, <2>2
<1>10. Disjoint(new)
  <2> SUFFICES ASSUME NEW f \in new, NEW h \in new, f # h, f.table = h.table, f.table # "rows"
               PROVE  f.piece \cap h.piece = {}
    BY DEF Disjoint
  <2>1. CASE f \in old /\ h \in old
    BY <1>5, <2>1 DEF Disjoint
  <2>2. ASSUME NEW a \in old, NEW b \in {events, logs}, a.table = b.table PROVE a.piece \cap b.piece = {}
    <3>1. CASE b = events
      BY <1>2, <1>3, <1>9, <2>2, <3>1
    <3>2. CASE b = logs
      BY <1>2, <1>3, <1>6, <1>9, <2>2, <3>2
    <3> QED BY <2>2, <3>1, <3>2
  <2>3. f \in old \/ f \in {events, logs}
    BY <1>2, <1>7
  <2>4. h \in old \/ h \in {events, logs}
    BY <1>2, <1>7
  <2>5. ~(f \in {events, logs} /\ h \in {events, logs})
    BY <1>2
  <2> QED BY <2>1, <2>2, <2>3, <2>4, <2>5
<1>11. ASSUME NEW k \in Key PROVE LatestRow(new, k) = Source.rows[k]
  <2> DEFINE of == {f \in Rows(new) : k \in DOMAIN f.piece}
             before == {f \in Rows(old) : k \in DOMAIN f.piece}
  <2>1. LatestRow(new, k) = Newest(of, k)
    BY DEF LatestRow, Newest
  <2>2. LatestRow(old, k) = Newest(before, k)
    BY DEF LatestRow, Newest
  <2>3. Rows(new) \subseteq Rows(old) \cup {rows} /\ Rows(old) \subseteq Rows(new)
        /\ (Delta # {} => rows \in Rows(new))
    BY <1>1, <1>2, <1>7 DEF Rows
  <2>4. CASE k \in Delta
    <3>1. rows \in of
      BY <1>2, <2>3, <2>4
    <3>2. \A h \in of : h = rows \/ h.revision \in 1..n
      BY <1>5, <2>3 DEF Rows
    <3> HIDE DEF of
    <3> DEFINE f == CHOOSE f \in of : \A h \in of : h.revision <= f.revision
    <3>3. \A h \in of : h.revision <= rows.revision
      BY <1>2, <1>3, <3>2
    <3>4. f \in of /\ \A h \in of : h.revision <= f.revision
      BY <3>1, <3>3
    <3> HIDE DEF f
    <3>5. f = rows
      <4>1. rows.revision <= f.revision
        BY <3>1, <3>4
      <4>2. ~(f.revision \in 1..n)
        BY <1>2, <1>3, <4>1
      <4> QED BY <3>2, <3>4, <4>2
    <3>6. LatestRow(new, k) = rows.piece[k]
      BY <2>1, <3>1, <3>5 DEF f, Newest
    <3> QED BY <1>2, <2>4, <3>6
  <2>5. CASE k \notin Delta
    <3>1. k \notin DOMAIN rows.piece
      BY <1>2, <2>5
    <3>2. of = before
      BY <2>3, <3>1
    <3> HIDE DEF of, before, new
    <3>3. LatestRow(new, k) = LatestRow(old, k)
      BY <2>1, <2>2, <3>2
    <3>4. Source.rows[k] = db.index[k]
      BY <2>5 DEF Delta
    <3> QED BY <1>5, <3>3, <3>4 DEF new
  <2> QED BY <2>4, <2>5
<1>12. UNION Pieces(new, "events") = 1..Source.events
  <2>1. Pieces(new, "events") = Pieces(old, "events") \cup (IF events \in Staged(g) THEN {events.piece} ELSE {})
    BY <1>1, <1>2 DEF Pieces
  <2>2. UNION Pieces(new, "events") = (1..db.events_seq) \cup events.piece
    BY <1>1, <1>5, <2>1
  <2>3. events.piece = (db.events_seq + 1)..Source.events
    BY <1>2
  <2>4. (1..db.events_seq) \cup ((db.events_seq + 1)..Source.events) = 1..Source.events
    BY <1>3, IntervalSplit
  <2> HIDE DEF new
  <2> QED BY ONLY <2>2, <2>3, <2>4
<1>13. UNION Pieces(new, "logs") = 1..LogEnd
  <2>1. Pieces(new, "logs") = Pieces(old, "logs") \cup (IF logs \in Staged(g) THEN {logs.piece} ELSE {})
    BY <1>1, <1>2 DEF Pieces
  <2>2. UNION Pieces(new, "logs") = (1..db.log_cursor) \cup logs.piece
    BY <1>1, <1>5, <2>1
  <2>3. logs.piece = (db.log_cursor + 1)..LogEnd
    BY <1>2
  <2>4. (1..db.log_cursor) \cup ((db.log_cursor + 1)..LogEnd) = 1..LogEnd
    BY <1>3, <1>6, IntervalSplit
  <2> HIDE DEF new
  <2> QED BY ONLY <2>2, <2>3, <2>4
<1> QED BY <1>8, <1>10, <1>11, <1>12, <1>13 DEF old, n

\* What the journal of a generation changes of the database.
LEMMA Journalled ==
  ASSUME NEW d, DOMAIN d = Columns, NEW c, NEW e, NEW l, NEW g, NEW m
  PROVE  LET j == [d EXCEPT !.changes = c, !.events_seq = e, !.log_cursor = l, !.revision = g, !.pending = m]
         IN  /\ DOMAIN j = Columns /\ j.changes = c /\ j.events_seq = e /\ j.log_cursor = l
             /\ j.revision = g /\ j.pending = m /\ j.index = d.index
             /\ j.generation = d.generation /\ j.remote_seen = d.remote_seen
BY DEF Columns

\* A scan is journalled: what changed since the checkpoint, and the next pieces.
LEMMA JournalStep ==
  ASSUME AnalyticsInv, OnePublisher, NEW p \in Process, proc[p].pc = "made",
         proc[p].pending = NoPending, remote.latest = proc[p].etag,
         Journal(db.revision + 1), lock' = p,
         proc' = [proc EXCEPT ![p].pc = "put", ![p].pending = Manifest(db.revision + 1)],
         UNCHANGED <<history, remote, share, mirror, crashes>>
  PROVE  AnalyticsInv' /\ Progress
<1> DEFINE changes == [k \in Delta |-> Source.rows[k]]
<1>n. PICK n \in Nat : n = db.revision
  BY DEF AnalyticsInv, Types
<1>g. PICK g \in Nat : g = n + 1
  BY <1>n
<1>0. /\ Types /\ SourceInv /\ ChainInv /\ CheckpointInv /\ DataInv /\ ProcessInv /\ MirrorInv
      /\ db.revision \in Nat /\ DOMAIN db = Columns /\ ProcTypeOK /\ n \in Nat /\ g = n + 1 /\ n = db.revision
      /\ Len(history) \in Nat \ {0} /\ Source = history[Len(history)] /\ Source \in SourceState
  <2>1. Types /\ db.revision \in Nat /\ history \in Seq(SourceState) /\ history # <<>>
    BY DEF AnalyticsInv, Types
  <2>2. Len(history) \in Nat \ {0} /\ Source = history[Len(history)]
    BY <2>1 DEF Source, Last
  <2>3. Source \in SourceState
    BY <2>1, <2>2
  <2> QED BY <1>n, <1>g, <2>1, <2>2, <2>3 DEF AnalyticsInv, Types
<1>1. ~Pending /\ remote.latest # Foreign /\ Own = n /\ remote.latest = n
  <2>1. ~Pending /\ proc[p].etag # Foreign
    BY <1>0 DEF ProcessInv, Working, Pending
  <2> QED BY <1>0, <2>1 DEF ChainInv, Own
<1>2. /\ DOMAIN db' = Columns /\ db'.changes = changes /\ db'.events_seq = Source.events
      /\ db'.log_cursor = LogEnd /\ db'.revision = g /\ db'.pending = Manifest(g)
      /\ db'.index = db.index /\ db'.generation = db.generation /\ db'.remote_seen = db.remote_seen
  <2>1. db' = [db EXCEPT !.changes = changes, !.events_seq = Source.events, !.log_cursor = LogEnd,
                         !.revision = g, !.pending = Manifest(g)]
    BY <1>0 DEF Journal
  <2> HIDE DEF changes
  <2> QED BY ONLY <1>0, <2>1, Journalled
<1>3. /\ Manifest(g).generation = g /\ Manifest(g).parent = n /\ Manifest(g).files = Staged(g)
      /\ Manifest(g).at = Len(history)
      /\ Manifest(g) = [generation |-> g, parent |-> n, files |-> Staged(g), at |-> Len(history)]
  BY <1>1 DEF Manifest
<1> HIDE DEF changes
<1>4. Pending' /\ M' = M /\ Own' = Own /\ Source' = Source
  <2>1. Manifest(g) # NoPending
    BY <1>0, <1>3 DEF NoPending, NoGeneration
  <2> QED BY <1>2, <2>1 DEF Pending, M, Own, Source
<1>5. Ledger(g)' = Manifest(g) /\ \A h \in 1..n : Ledger(h)' = Ledger(h)
  <2>1. \A h \in 1..n : h # g
    BY <1>0
  <2>2. \A h : Ledger(h)' = IF h = g THEN Manifest(g) ELSE M[h]
    BY <1>0, <1>2, <1>4 DEF Ledger
  <2>3. \A h : Ledger(h) = M[h]
    BY <1>1 DEF Ledger
  <2> QED BY <2>1, <2>2, <2>3
<1>6. \A h \in 1..n : Ledger(h).at \in 1..Len(history)
  BY <1>0 DEF ChainInv
<1>7. \A h \in 0..n : UpTo(h)' = UpTo(h) /\ RowsAt(h)' = RowsAt(h) /\ EventsAt(h)' = EventsAt(h)
  <2> TAKE h \in 0..n
  <2>1. \A i \in 1..h : i \in 1..n
    BY <1>0
  <2>2. \A i \in 1..h : Ledger(i)'.files = Ledger(i).files
    BY <1>5, <2>1
  <2>3. UpTo(h)' = UpTo(h)
    BY <2>2 DEF UpTo
  <2>4. h # 0 => history'[Ledger(h)'.at] = history[Ledger(h).at]
    BY <1>5
  <2> QED BY <2>3, <2>4 DEF RowsAt, EventsAt
<1>8. UpTo(g)' = UpTo(n) \cup Staged(g) /\ RowsAt(g)' = Source.rows /\ EventsAt(g)' = Source.events
      /\ history'[Ledger(g)'.at] = Source
  <2>1. 1..g = (1..n) \cup {g}
    BY <1>0
  <2>2. \A i \in 1..n : Ledger(i)'.files = Ledger(i).files
    BY <1>5
  <2>3. Ledger(g)'.files = Staged(g)
    BY <1>3, <1>5
  <2>4. UpTo(g)' = UpTo(n) \cup Staged(g)
    BY <2>1, <2>2, <2>3 DEF UpTo
  <2>5. g # 0 /\ history'[Ledger(g)'.at] = Source
    BY <1>0, <1>3, <1>5
  <2> QED BY <2>4, <2>5 DEF RowsAt, EventsAt
<1>9. /\ \A f \in UpTo(g)' : f.revision \in 1..g
      /\ Disjoint(UpTo(g)')
      /\ \A k \in Key : LatestRow(UpTo(g)', k) = Source.rows[k]
      /\ UNION Pieces(UpTo(g)', "events") = 1..Source.events
      /\ UNION Pieces(UpTo(g)', "logs") = 1..LogEnd
  BY <1>0, <1>1, <1>8, GenerationAdds
<1>10. /\ LogEnd \in Nat /\ db.log_cursor <= LogEnd /\ LogEnd <= Len(Source.log)
       /\ Source.live => LogEnd <= Source.offset
  BY LogEndBounds
<1>11. ReadsWell(g)'
  BY <1>8, <1>9, <1>10 DEF ReadsWell
<1>12. ASSUME NEW h \in 0..n PROVE ReadsWell(h)'
  <2>1. h # 0 => history'[Ledger(h)'.at] = history[Ledger(h).at]
    <3>1. h # 0 => h \in 1..n
      BY <1>0
    <3> QED BY <1>5, <3>1
  <2>2. ReadsWell(h)
    BY <1>0 DEF DataInv
  <2>3. UpTo(h)' = UpTo(h) /\ RowsAt(h)' = RowsAt(h) /\ EventsAt(h)' = EventsAt(h)
    BY <1>7
  <2> QED BY <2>1, <2>2, <2>3 DEF ReadsWell
<1>13. DataInv'
  <2>1. \A h \in 0..g : h \in 0..n \/ h = g
    BY <1>0
  <2> QED BY <1>2, <1>11, <1>12, <2>1 DEF DataInv
<1>14. ProcTypeOK' /\ proc'[p].pc = "put" /\ proc'[p].pending = Manifest(g)
  <2> DEFINE q == [pc |-> "put", pending |-> Manifest(g), etag |-> proc[p].etag]
  <2>1. proc[p] = [pc |-> proc[p].pc, pending |-> proc[p].pending, etag |-> proc[p].etag] /\ p \in DOMAIN proc
    BY <1>0 DEF ProcTypeOK
  <2>2. proc' = [proc EXCEPT ![p] = q]
    <3>1. proc' = [[proc EXCEPT ![p].pc = "put"] EXCEPT ![p].pending = Manifest(g)]
      BY <1>0
    <3>2. proc' = [proc EXCEPT ![p] = [[proc[p] EXCEPT !.pc = "put"] EXCEPT !.pending = Manifest(g)]]
      BY <3>1, <2>1
    <3>3. [[proc[p] EXCEPT !.pc = "put"] EXCEPT !.pending = Manifest(g)] = q
      <4> DEFINE r == [pc |-> "put", pending |-> proc[p].pending, etag |-> proc[p].etag]
      <4>1. [proc[p] EXCEPT !.pc = "put"] = r
        BY <2>1
      <4>2. [r EXCEPT !.pending = Manifest(g)] = q
        OBVIOUS
      <4> HIDE DEF r
      <4> QED BY <4>1, <4>2
    <3> QED BY <3>2, <3>3
  <2>3. q = [pc |-> q.pc, pending |-> q.pending, etag |-> q.etag] /\ q.pc = "put" /\ q.pending = Manifest(g)
    OBVIOUS
  <2> HIDE DEF q
  <2> QED BY <1>0, <2>2, <2>3, ProcSet
<1>15. ProcessInv'
  <2>1. Working(p)'
    BY <1>2, <1>4, <1>14 DEF Working
  <2> QED BY <2>1 DEF ProcessInv, OnePublisher
<1>16. Types'
  <2>1. DOMAIN db'.changes \subseteq Key
    BY <1>2 DEF changes, Delta
  <2>2. Source.events \in Nat
    BY <1>0 DEF SourceState
  <2> QED BY <1>0, <1>2, <1>4, <1>10, <1>14, <2>1, <2>2 DEF Types
<1>17. SourceInv'
  <2>1. Source.events \in Nat
    BY <1>0 DEF SourceState
  <2>2. db'.events_seq <= Source'.events /\ db'.log_cursor <= Len(Source'.log)
        /\ (Source'.live => db'.log_cursor <= Source'.offset)
    BY <1>2, <1>4, <1>10, <2>1
  <2>3. Source'.events < Len(history') /\ Len(history') <= MaxChanges + (IF Source'.live THEN 1 ELSE 2)
        /\ Source'.offset <= Len(Source'.log)
    BY <1>0, <1>4 DEF SourceInv
  <2> QED BY <2>2, <2>3 DEF SourceInv
<1>18. ChainInv'
  <2>1. Own' \in {g - 1, g} /\ g # 0 /\ Own' \in Nat
    BY <1>0, <1>1, <1>4
  <2>2. /\ DOMAIN M \subseteq {Foreign} \cup 1..n /\ 1..Own \subseteq DOMAIN M
        /\ remote.latest \in Nat \cup {Foreign} /\ (remote.latest = Foreign => Foreign \in DOMAIN M)
    BY <1>0 DEF ChainInv
  <2>3. DOMAIN M' \subseteq {Foreign} \cup 1..g /\ g \notin DOMAIN M
    BY <1>0, <1>4, <2>2 DEF Foreign
  <2>4. ASSUME NEW h \in 1..g
        PROVE  /\ Ledger(h)' = [generation |-> h, parent |-> h - 1, files |-> Ledger(h)'.files, at |-> Ledger(h)'.at]
               /\ Ledger(h)'.at \in 1..Len(history)
               /\ h > 1 => Ledger(h - 1)'.at <= Ledger(h)'.at
               /\ h \in DOMAIN M => M[h] = Ledger(h)' /\ M[h].files \subseteq remote.objects
    <3>1. CASE h \in 1..n
      <4>1. h > 1 => h - 1 \in 1..n
        BY <1>0, <3>1
      <4>2. /\ Ledger(h) = [generation |-> h, parent |-> h - 1, files |-> Ledger(h).files, at |-> Ledger(h).at]
            /\ Ledger(h).at \in 1..Len(history)
            /\ h > 1 => Ledger(h - 1).at <= Ledger(h).at
            /\ h \in DOMAIN M => M[h] = Ledger(h) /\ M[h].files \subseteq remote.objects
        BY <1>0, <3>1 DEF ChainInv
      <4>3. Ledger(h)' = Ledger(h) /\ (h > 1 => Ledger(h - 1)' = Ledger(h - 1))
        BY <1>5, <3>1, <4>1
      <4> QED BY <4>2, <4>3
    <3>2. CASE h = g
      <4>1. h - 1 = n /\ (h > 1 => n \in 1..n)
        BY <1>0, <3>2
      <4>2. Ledger(h)' = [generation |-> h, parent |-> h - 1, files |-> Ledger(h)'.files, at |-> Ledger(h)'.at]
            /\ Ledger(h)'.at = Len(history)
        BY <1>3, <1>5, <3>2, <4>1
      <4>3. h > 1 => Ledger(n)' = Ledger(n) /\ Ledger(n).at \in 1..Len(history)
        BY <1>5, <1>6, <4>1
      <4>4. h > 1 => Ledger(h - 1)'.at <= Ledger(h)'.at
        BY <1>0, <4>1, <4>2, <4>3
      <4>5. Ledger(h)'.at \in 1..Len(history)
        BY <1>0, <4>2
      <4>6. h \notin DOMAIN M
        BY <2>3, <3>2
      <4> QED BY <4>2, <4>4, <4>5, <4>6
    <3>3. h \in 1..n \/ h = g
      BY <1>0
    <3> QED BY <3>1, <3>2, <3>3
  <2> QED BY <1>2, <1>4, <2>1, <2>2, <2>3, <2>4 DEF ChainInv
<1>19. CheckpointInv'
  <2>1. db.generation = n /\ (db.remote_seen <=> db.generation # 0) /\ db.index = RowsAt(n)
    BY <1>0, <1>1 DEF CheckpointInv
  <2>2. g - 1 = n /\ n \in 0..n
    BY <1>0
  <2>3. Source.rows = [k \in Key |-> IF k \in DOMAIN changes THEN changes[k] ELSE db.index[k]]
    <3>1. Source.rows \in Row
      BY <1>0 DEF SourceState
    <3>2. \A k \in Key : Source.rows[k] = IF k \in DOMAIN changes THEN changes[k] ELSE db.index[k]
      BY DEF changes, Delta
    <3> QED BY <3>1, <3>2 DEF Row
  <2>4. RowsAt(n)' = RowsAt(n)
    BY <1>7, <2>2
  <2>5. /\ db'.generation = db'.revision - 1 /\ (db'.remote_seen <=> db'.generation # 0)
        /\ db'.index = RowsAt(db.generation)'
    BY <1>2, <2>1, <2>2, <2>4
  <2>6. RowsAt(db.revision)' = [k \in Key |-> IF k \in DOMAIN db'.changes THEN db'.changes[k] ELSE db'.index[k]]
    BY <1>2, <1>8, <2>3
  <2>7. db'.events_seq = EventsAt(db.revision)' /\ UNION Pieces(UpTo(db.revision)', "logs") = 1..db'.log_cursor
    BY <1>2, <1>8, <1>9
  <2> QED BY <1>4, <2>5, <2>6, <2>7 DEF CheckpointInv
<1>20. MirrorInv'
  <2>1. \A h \in 1..Own : UpTo(h)' = UpTo(h) /\ Ledger(h)' = Ledger(h)
    BY <1>0, <1>1, <1>5, <1>7
  <2> QED BY <1>0, <1>4, <2>1 DEF MirrorInv
<1>21. Progress
  BY <1>0, <1>1, <1>4, <1>5 DEF Progress
<1> QED BY <1>13, <1>15, <1>16, <1>17, <1>18, <1>19, <1>20, <1>21 DEF AnalyticsInv

\* A publisher takes the lock, then resumes or scans.
LEMMA BeginStep ==
  ASSUME AnalyticsInv, OnePublisher, NEW p \in Process, Begin(p)
  PROVE  AnalyticsInv' /\ Progress
<1>1. /\ proc[p].pc = "made" /\ UNCHANGED <<history, remote, share, mirror, crashes>>
      /\ crashes' \in 0..MaxCrashes
  BY DEF Begin, AnalyticsInv, Types
<1>2. CASE lock # Nothing
  <2>1. Raise(p) /\ UNCHANGED db
    BY <1>2 DEF Begin
  <2> QED BY <1>1, <2>1, QuietRaise
<1>3. CASE lock = Nothing /\ proc[p].pending = NoPending
  <2>1. Scan(p)
    BY <1>3 DEF Begin
  <2>2. CASE Raise(p) /\ UNCHANGED db
    BY <1>1, <2>2, QuietRaise
  <2>3. CASE ~(Raise(p) /\ UNCHANGED db)
    <3>1. /\ remote.latest = proc[p].etag /\ Journal(db.revision + 1) /\ lock' = p
          /\ proc' = [proc EXCEPT ![p].pc = "put", ![p].pending = Manifest(db.revision + 1)]
      BY <2>1, <2>3 DEF Scan
    <3> QED BY <1>1, <1>3, <3>1, JournalStep
  <2> QED BY <2>2, <2>3
<1>4. CASE lock = Nothing /\ proc[p].pending # NoPending
  <2>1. Resume(p)
    BY <1>4 DEF Begin
  <2> QED BY <1>1, <1>4, <2>1, ResumeStep
<1> QED BY <1>2, <1>3, <1>4

\* A publisher removes what it has staged and ends.
LEMMA UnlinkStep ==
  ASSUME AnalyticsInv, OnePublisher, NEW p \in Process, Unlink(p)
  PROVE  AnalyticsInv' /\ Progress
<1>1. Raise(p) /\ UNCHANGED <<history, db, remote, share, mirror>> /\ crashes' \in 0..MaxCrashes
  BY DEF Unlink, AnalyticsInv, Types
<1> QED BY <1>1, QuietRaise

\* A publisher is killed.
LEMMA CrashStep ==
  ASSUME AnalyticsInv, OnePublisher, NEW p \in Process, Crash(p)
  PROVE  AnalyticsInv' /\ Progress
<1>1. Raise(p) /\ UNCHANGED <<history, db, remote, share, mirror>> /\ crashes < MaxCrashes
      /\ crashes' = crashes + 1 /\ crashes \in 0..MaxCrashes
  BY DEF Crash, AnalyticsInv, Types
<1>2. crashes' \in 0..MaxCrashes
  BY <1>1, AnalyticsAssumption
<1> QED BY <1>1, <1>2, QuietRaise

-----------------------------------------------------------------------------
\* A step of the mirror leaves the publisher alone.
LEMMA MirrorFrame ==
  ASSUME AnalyticsInv, UNCHANGED <<history, db, remote, proc, lock>>
  PROVE  /\ SourceInv' /\ ChainInv' /\ CheckpointInv' /\ DataInv' /\ ProcessInv' /\ Progress
         /\ Own' = Own /\ (\A g : UpTo(g)' = UpTo(g) /\ Ledger(g)' = Ledger(g))
         /\ crashes' \in 0..MaxCrashes
            /\ share' = [objects |-> share'.objects, manifests |-> share'.manifests, latest |-> share'.latest]
            /\ mirror' = [pc |-> mirror'.pc, pinned |-> mirror'.pinned, files |-> mirror'.files,
                          copies |-> mirror'.copies, etag |-> mirror'.etag]
            /\ mirror'.pc \in {"off", "copy", "index"}
            => Types'
<1>1. Source' = Source /\ M' = M /\ (Pending' <=> Pending) /\ Own' = Own
  BY DEF Source, M, Pending, Own
<1>2. \A g : Ledger(g)' = Ledger(g)
  BY <1>1 DEF Ledger
<1>3. \A g : UpTo(g)' = UpTo(g) /\ RowsAt(g)' = RowsAt(g) /\ EventsAt(g)' = EventsAt(g)
  BY <1>2 DEF UpTo, RowsAt, EventsAt
<1>4. \A g : ReadsWell(g)' <=> ReadsWell(g)
  BY <1>2, <1>3 DEF ReadsWell
<1>5. SourceInv' /\ ChainInv'
  BY <1>1, <1>2 DEF AnalyticsInv, SourceInv, ChainInv
<1>6. CheckpointInv'
  BY <1>1, <1>3 DEF AnalyticsInv, CheckpointInv
<1>7. DataInv' /\ ProcessInv'
  BY <1>1, <1>4 DEF AnalyticsInv, DataInv, ProcessInv, Working
<1>8. ASSUME crashes' \in 0..MaxCrashes,
             share' = [objects |-> share'.objects, manifests |-> share'.manifests, latest |-> share'.latest],
             mirror' = [pc |-> mirror'.pc, pinned |-> mirror'.pinned, files |-> mirror'.files,
                        copies |-> mirror'.copies, etag |-> mirror'.etag],
             mirror'.pc \in {"off", "copy", "index"}
      PROVE  Types'
  BY <1>1, <1>8 DEF AnalyticsInv, Types, ProcTypeOK
<1>9. Progress
  BY <1>1, <1>2 DEF Progress
<1> QED BY <1>1, <1>2, <1>3, <1>5, <1>6, <1>7, <1>8, <1>9

\* The mirror pins the generation that the pointer names.
LEMMA MirrorStartStep == ASSUME AnalyticsInv, MirrorStart PROVE AnalyticsInv' /\ Progress
<1> DEFINE files == Files(remote.manifests, load_chain(remote.manifests, remote.latest))
           known == IF share.latest = NoGeneration THEN {} ELSE share.manifests[share.latest].files
           g == remote.latest
<1>1. /\ g \notin {NoGeneration, Foreign}
      /\ mirror' = [pc |-> "copy", pinned |-> remote.manifests[g], files |-> files,
                    copies |-> files \ known, etag |-> share.latest]
      /\ UNCHANGED <<history, db, remote, proc, lock, share, crashes>>
  BY DEF MirrorStart
<1> HIDE DEF files, known
<1>2. /\ Types /\ ChainInv /\ MirrorInv /\ db.revision \in Nat /\ share' = share
      /\ crashes' \in 0..MaxCrashes
  BY <1>1 DEF AnalyticsInv, Types
<1>3. Own = g /\ Own \in 1..Own /\ Own \in 1..db.revision
  <2>1. g \in Nat /\ g # 0 /\ Own = g
    BY <1>1, <1>2 DEF ChainInv, Own, NoGeneration
  <2>2. Own <= db.revision
    BY <1>2 DEF ChainInv
  <2> QED BY <1>2, <2>1, <2>2
<1>4. files = UpTo(Own)
  BY <1>2, <1>3, ChainIs DEF files, M
<1>5. M[Own] = Ledger(Own) /\ Ledger(Own).generation = Own
  <2>1. Own \in DOMAIN M
    BY <1>2, <1>3 DEF ChainInv
  <2> QED BY <1>2, <1>3, <2>1 DEF ChainInv
<1>6. known \subseteq share.objects
  BY <1>2 DEF known, MirrorInv
<1>7. /\ mirror'.pc = "copy" /\ mirror'.pinned = Ledger(Own) /\ mirror'.files = UpTo(Own)
      /\ mirror'.copies = files \ known /\ mirror'.etag = share.latest
      /\ mirror' = [pc |-> mirror'.pc, pinned |-> mirror'.pinned, files |-> mirror'.files,
                    copies |-> mirror'.copies, etag |-> mirror'.etag]
  BY <1>1, <1>3, <1>4, <1>5 DEF M
<1>8. mirror'.files \ mirror'.copies \subseteq share.objects
  BY <1>4, <1>6, <1>7
<1>9. Own' = Own /\ \A h : UpTo(h)' = UpTo(h) /\ Ledger(h)' = Ledger(h)
  BY <1>1, MirrorFrame
<1>10. MirrorInv'
  <2>1. mirror'.pinned.generation = Own
    BY <1>5, <1>7
  <2> QED BY <1>2, <1>3, <1>7, <1>8, <1>9, <2>1 DEF MirrorInv
<1>11. share' = [objects |-> share'.objects, manifests |-> share'.manifests, latest |-> share'.latest]
  BY <1>2 DEF Types
<1>12. Types'
  BY <1>1, <1>2, <1>7, <1>11, MirrorFrame
<1> QED BY <1>1, <1>10, <1>12, MirrorFrame DEF AnalyticsInv

\* The mirror goes on with the generation it is at.
LEMMA MirrorMoves ==
  ASSUME AnalyticsInv, UNCHANGED <<history, db, remote, proc, lock, crashes>>,
         NEW o, NEW ms, NEW l, share' = [objects |-> o, manifests |-> ms, latest |-> l],
         NEW place \in {"copy", "index"}, NEW c,
         mirror' = [pc |-> place, pinned |-> mirror.pinned, files |-> mirror.files, copies |-> c, etag |-> mirror.etag],
         MirrorInv'
  PROVE  AnalyticsInv' /\ Progress
<1>1. share' = [objects |-> share'.objects, manifests |-> share'.manifests, latest |-> share'.latest]
  OBVIOUS
<1>2. mirror'.pc \in {"off", "copy", "index"}
      /\ mirror' = [pc |-> mirror'.pc, pinned |-> mirror'.pinned, files |-> mirror'.files,
                          copies |-> mirror'.copies, etag |-> mirror'.etag]
  OBVIOUS
<1>3. crashes' \in 0..MaxCrashes
  BY DEF AnalyticsInv, Types
<1> QED BY ONLY <1>1, <1>2, <1>3, MirrorFrame, AnalyticsInv, MirrorInv',
          UNCHANGED <<history, db, remote, proc, lock, crashes>> DEF AnalyticsInv

\* The mirror copies a file of the pinned generation.
LEMMA MirrorCopyStep ==
  ASSUME AnalyticsInv, NEW f \in mirror.copies, MirrorCopy(f)
  PROVE  AnalyticsInv' /\ Progress
<1>1. /\ mirror.pc = "copy" /\ UNCHANGED <<history, db, remote, proc, lock, crashes>>
      /\ share' = [share EXCEPT !.objects = @ \cup {f}]
      /\ mirror' = [mirror EXCEPT !.copies = @ \ {f}]
  BY DEF MirrorCopy
<1>2. /\ MirrorInv
      /\ share = [objects |-> share.objects, manifests |-> share.manifests, latest |-> share.latest]
      /\ mirror = [pc |-> mirror.pc, pinned |-> mirror.pinned, files |-> mirror.files,
                   copies |-> mirror.copies, etag |-> mirror.etag]
  BY DEF AnalyticsInv, Types
<1>3. share' = [objects |-> share.objects \cup {f}, manifests |-> share.manifests, latest |-> share.latest]
  BY <1>1, <1>2
<1>4. mirror' = [pc |-> "copy", pinned |-> mirror.pinned, files |-> mirror.files,
                 copies |-> mirror.copies \ {f}, etag |-> mirror.etag]
  BY <1>1, <1>2
<1>5. Own' = Own /\ \A h : UpTo(h)' = UpTo(h) /\ Ledger(h)' = Ledger(h)
  BY <1>1, MirrorFrame
<1>6. /\ share'.objects = share.objects \cup {f} /\ share'.manifests = share.manifests
      /\ share'.latest = share.latest /\ mirror'.pc = "copy" /\ mirror'.pinned = mirror.pinned
      /\ mirror'.files = mirror.files /\ mirror'.copies = mirror.copies \ {f}
  BY <1>3, <1>4
<1>7. MirrorInv'
  BY <1>1, <1>2, <1>5, <1>6 DEF MirrorInv
<1> QED BY <1>1, <1>3, <1>4, <1>7, MirrorMoves

\* The mirror writes the list of the files, once all are copied.
LEMMA MirrorInventoryStep == ASSUME AnalyticsInv, MirrorInventory PROVE AnalyticsInv' /\ Progress
<1>n. PICK g : g = mirror.pinned.generation
  OBVIOUS
<1>i. PICK i : i = Inventory
  OBVIOUS
<1>1. /\ mirror.pc = "copy" /\ mirror.copies = {} /\ UNCHANGED <<history, db, remote, proc, lock, crashes>>
      /\ share' = [share EXCEPT !.manifests = WithManifest(share.manifests, g, i)]
      /\ mirror' = [mirror EXCEPT !.pc = "index"]
  BY <1>n, <1>i DEF MirrorInventory
<1>2. /\ MirrorInv /\ ChainInv /\ db.revision \in Nat
      /\ share = [objects |-> share.objects, manifests |-> share.manifests, latest |-> share.latest]
      /\ mirror = [pc |-> mirror.pc, pinned |-> mirror.pinned, files |-> mirror.files,
                   copies |-> mirror.copies, etag |-> mirror.etag]
  BY DEF AnalyticsInv, Types
<1>3. share' = [objects |-> share.objects, manifests |-> WithManifest(share.manifests, g, i), latest |-> share.latest]
  BY <1>1, <1>2
<1>4. mirror' = [pc |-> "index", pinned |-> mirror.pinned, files |-> mirror.files,
                 copies |-> mirror.copies, etag |-> mirror.etag]
  BY <1>1, <1>2
<1>5. Own' = Own /\ \A h : UpTo(h)' = UpTo(h) /\ Ledger(h)' = Ledger(h)
  BY <1>1, MirrorFrame
<1>6. /\ share'.objects = share.objects /\ share'.manifests = WithManifest(share.manifests, g, i)
      /\ share'.latest = share.latest /\ mirror'.pc = "index" /\ mirror'.pinned = mirror.pinned
      /\ mirror'.files = mirror.files /\ mirror'.copies = mirror.copies
  BY <1>3, <1>4
<1>7. /\ g \in 1..Own /\ mirror.pinned = Ledger(g) /\ mirror.files = UpTo(g)
      /\ UpTo(g) \subseteq share.objects
  BY <1>n, <1>1, <1>2 DEF MirrorInv
<1>8. i.files = UpTo(g)
  <2>1. g \in 1..db.revision
    BY <1>2, <1>7 DEF ChainInv
  <2>2. mirror.pinned = [generation |-> g, parent |-> g - 1, files |-> Ledger(g).files, at |-> Ledger(g).at]
    BY <1>2, <1>7, <2>1 DEF ChainInv
  <2>3. "files" \in DOMAIN mirror.pinned
    BY <2>2
  <2>4. Inventory.files = mirror.files
    BY <2>3 DEF Inventory
  <2> QED BY <1>i, <1>7, <2>4
<1>9. /\ DOMAIN share'.manifests = DOMAIN share.manifests \cup {g}
      /\ share'.manifests[g].files = UpTo(g)
      /\ \A h \in DOMAIN share.manifests : h # g => share'.manifests[h] = share.manifests[h]
  BY <1>6, <1>8 DEF WithManifest
<1>10. \A h \in DOMAIN share'.manifests :
         h \in 1..Own /\ share'.manifests[h].files = UpTo(h) /\ UpTo(h) \subseteq share.objects
  BY <1>2, <1>7, <1>9 DEF MirrorInv
<1>11. share.latest \in {NoGeneration} \cup DOMAIN share'.manifests
  BY <1>2, <1>9 DEF MirrorInv
<1>12. mirror.files \ mirror.copies \subseteq share.objects
  BY <1>7
<1>13. MirrorInv'
  BY <1>n, <1>5, <1>6, <1>7, <1>9, <1>10, <1>11, <1>12 DEF MirrorInv
<1> QED BY <1>1, <1>3, <1>4, <1>13, MirrorMoves

\* The mirror is off again, its pointer moved to the generation it has copied
\* or not.
LEMMA MirrorRests ==
  ASSUME AnalyticsInv, UNCHANGED <<history, db, remote, proc, lock>>, crashes' \in 0..MaxCrashes,
         mirror' = Resting,
         \/ share' = share
         \/ /\ share' = [share EXCEPT !.latest = mirror.pinned.generation]
            /\ mirror.pinned.generation \in DOMAIN share.manifests
  PROVE  AnalyticsInv' /\ Progress
<1>1. /\ MirrorInv
      /\ share = [objects |-> share.objects, manifests |-> share.manifests, latest |-> share.latest]
  BY DEF AnalyticsInv, Types
<1>2. /\ share'.objects = share.objects /\ share'.manifests = share.manifests
      /\ share'.latest \in {share.latest} \cup DOMAIN share.manifests
      /\ share' = [objects |-> share'.objects, manifests |-> share'.manifests, latest |-> share'.latest]
  BY <1>1
<1>3. /\ mirror'.pc = "off"
      /\ mirror' = [pc |-> mirror'.pc, pinned |-> mirror'.pinned, files |-> mirror'.files,
                    copies |-> mirror'.copies, etag |-> mirror'.etag]
  BY DEF Resting
<1>4. Own' = Own /\ \A h : UpTo(h)' = UpTo(h)
  BY MirrorFrame
<1>5. MirrorInv'
  BY <1>1, <1>2, <1>3, <1>4 DEF MirrorInv
<1>6. Types'
  BY <1>2, <1>3, MirrorFrame
<1> QED BY <1>5, <1>6, MirrorFrame DEF AnalyticsInv

\* The mirror names the pinned generation.
LEMMA MirrorPublishStep == ASSUME AnalyticsInv, MirrorPublish PROVE AnalyticsInv' /\ Progress
<1>1. /\ mirror.pc = "index" /\ mirror' = Resting /\ UNCHANGED <<history, db, remote, proc, lock>>
      /\ crashes' \in 0..MaxCrashes
      /\ \/ share' = share \/ share' = [share EXCEPT !.latest = mirror.pinned.generation]
  BY DEF MirrorPublish, AnalyticsInv, Types
<1>2. mirror.pinned.generation \in DOMAIN share.manifests
  BY <1>1 DEF AnalyticsInv, MirrorInv
<1> QED BY <1>1, <1>2, MirrorRests

\* The mirror is killed.
LEMMA MirrorCrashStep == ASSUME AnalyticsInv, MirrorCrash PROVE AnalyticsInv' /\ Progress
<1>1. /\ mirror' = Resting /\ UNCHANGED <<history, db, remote, proc, lock>> /\ share' = share
      /\ crashes < MaxCrashes /\ crashes' = crashes + 1 /\ crashes \in 0..MaxCrashes
  BY DEF MirrorCrash, AnalyticsInv, Types
<1>2. crashes' \in 0..MaxCrashes
  BY <1>1, AnalyticsAssumption
<1> QED BY <1>1, <1>2, MirrorRests

\* Steps of others.
LEMMA StutterStep == ASSUME AnalyticsInv, UNCHANGED vars PROVE AnalyticsInv' /\ Progress
<1>1. UNCHANGED <<history, db, remote, proc, lock>> /\ crashes' = crashes /\ share' = share /\ mirror' = mirror
  BY DEF vars
<1>2. SourceInv' /\ ChainInv' /\ CheckpointInv' /\ DataInv' /\ ProcessInv' /\ Progress
      /\ Own' = Own /\ \A h : UpTo(h)' = UpTo(h) /\ Ledger(h)' = Ledger(h)
  BY <1>1, MirrorFrame
<1>3. Types'
  <2>1. Types
    BY DEF AnalyticsInv
  <2>2. Types <=> Types'
    BY <1>1 DEF Types, M, ProcTypeOK
  <2> QED BY <2>1, <2>2
<1>4. MirrorInv'
  BY <1>1, <1>2 DEF AnalyticsInv, MirrorInv
<1> QED BY <1>2, <1>3, <1>4 DEF AnalyticsInv

\* Every step keeps the invariant, and what readers see goes forward.
LEMMA AnalyticsStep ==
  ASSUME AnalyticsInv, OnePublisher, [Next]_vars
  PROVE  AnalyticsInv' /\ Progress
<1>1. CASE Campaign
  BY <1>1, CampaignStep
<1>2. CASE \E p \in Process : Publisher(p) \/ Publish(p, FALSE) \/ Crash(p)
  <2>1. PICK p \in Process : Publisher(p) \/ Publish(p, FALSE) \/ Crash(p)
    BY <1>2
  <2>2. CASE Make(p)
    BY <2>2, MakeStep
  <2>3. CASE Begin(p)
    BY <2>3, BeginStep
  <2>4. CASE Put(p)
    BY <2>4, PutStep
  <2>5. CASE PutManifest(p)
    BY <2>5, PutManifestStep
  <2>6. CASE Publish(p, TRUE)
    BY <2>6, PublishStep
  <2>7. CASE Finalize(p)
    BY <2>7, FinalizeStep
  <2>8. CASE Unlink(p)
    BY <2>8, UnlinkStep
  <2>9. CASE Publish(p, FALSE)
    BY <2>9, PublishStep
  <2>10. CASE Crash(p)
    BY <2>10, CrashStep
  <2> QED BY <2>1, <2>2, <2>3, <2>4, <2>5, <2>6, <2>7, <2>8, <2>9, <2>10 DEF Publisher
<1>3. CASE Mirror
  <2>1. CASE MirrorStart
    BY <2>1, MirrorStartStep
  <2>2. CASE \E f \in mirror.copies : MirrorCopy(f)
    BY <2>2, MirrorCopyStep
  <2>3. CASE MirrorInventory
    BY <2>3, MirrorInventoryStep
  <2>4. CASE MirrorPublish
    BY <2>4, MirrorPublishStep
  <2> QED BY <1>3, <2>1, <2>2, <2>3, <2>4 DEF Mirror
<1>4. CASE MirrorCrash
  BY <1>4, MirrorCrashStep
<1>5. CASE Intrude
  BY <1>5, IntrudeStep
<1>6. CASE UNCHANGED vars
  BY <1>6, StutterStep
<1> QED BY <1>1, <1>2, <1>3, <1>4, <1>5, <1>6 DEF Next

\* ArchiveSound: whatever crashes, and whatever another checkpoint writes, what
\* one publisher has published, and what is mirrored of it, is a snapshot of
\* the source that names nothing missing and nothing uncommitted.
THEOREM ArchiveStaysSound == ASSUME OnePublisher PROVE Spec => []ArchiveSound
<1>1. AnalyticsInv /\ [Next]_vars => AnalyticsInv'
  BY AnalyticsStep
<1>2. AnalyticsInv => ArchiveSound
  BY SoundFollows
<1> QED BY <1>1, <1>2, AnalyticsInitInv, PTL DEF Spec

-----------------------------------------------------------------------------
\* PendingFinishesFirst and NoOverwrite: a generation that is journalled is the
\* next that is published, and the pointer of another checkpoint stays.
THEOREM PendingIsFinished == ASSUME OnePublisher PROVE Spec => PendingFinishesFirst /\ NoOverwrite
<1>1. AnalyticsInv /\ [Next]_vars => AnalyticsInv' /\ Progress
  BY AnalyticsStep
<1>2. Progress => [db.pending # NoPending => db'.pending \in {db.pending, NoPending}]_vars
  BY DEF Progress, Pending
<1>3. Progress => [remote.latest = Foreign => remote'.latest = Foreign]_vars
  BY DEF Progress
<1> QED BY <1>1, <1>2, <1>3, AnalyticsInitInv, PTL DEF Spec, PendingFinishesFirst, NoOverwrite

\* What a reader sees of the rows is the snapshot that the last generation was
\* journalled at.
ReaderView ==
  /\ Own \in 0..db.revision /\ db.revision \in Nat /\ (Ours <=> Own # 0)
  /\ ~Ours => Seen = <<>>
  /\ Ours => /\ Own \in 1..db.revision /\ At = Ledger(Own).at /\ At \in 1..Len(history)
             /\ Seen = history[At].rows
\* A reader who follows the pointer sees the rows of one moment of the source.
LEMMA ReaderSees == AnalyticsInv => ReaderView
<1> SUFFICES ASSUME AnalyticsInv PROVE ReaderView
  OBVIOUS
<1>1. /\ ChainInv /\ DataInv /\ db.revision \in Nat /\ history \in Seq(SourceState)
      /\ Own \in 0..db.revision
  BY DEF AnalyticsInv, Types, ChainInv
<1>2. Ours <=> Own # 0
  BY DEF Ours, NoGeneration
<1>3. ASSUME Ours
      PROVE  Own \in 1..db.revision /\ At = Ledger(Own).at /\ At \in 1..Len(history)
             /\ Seen = history[At].rows
  <2>1. Own \in 1..Own /\ Own \in 1..db.revision
    BY <1>1, <1>2, <1>3
  <2>2. Own \in DOMAIN M /\ M[Own] = Ledger(Own) /\ Ledger(Own).at \in 1..Len(history)
    BY <1>1, <2>1 DEF ChainInv
  <2>3. At = Ledger(Own).at
    BY <2>2 DEF At, M
  <2>4. Dataset = UpTo(Own)
    BY <1>1, ChainIs
  <2>5. \A k \in Key : LatestRow(UpTo(Own), k) = RowsAt(Own)[k]
    BY <1>1 DEF DataInv, ReadsWell
  <2>6. RowsAt(Own) = history[At].rows /\ history[At] \in SourceState
    BY <1>1, <1>2, <1>3, <2>2, <2>3 DEF RowsAt
  <2>7. RowsAt(Own) = [k \in Key |-> RowsAt(Own)[k]]
    BY <2>6 DEF SourceState, Row
  <2>8. Seen = [k \in Key |-> LatestRow(UpTo(Own), k)]
    BY <1>3, <2>4 DEF Seen, Reading
  <2> QED BY <2>1, <2>2, <2>3, <2>5, <2>6, <2>7, <2>8
<1> QED BY <1>1, <1>2, <1>3 DEF Seen, ReaderView

\* The generations are journalled in the order of the snapshots they are of.
LEMMA LaterIsLater ==
  ASSUME AnalyticsInv, Pending, Own # db.revision, Own # 0
  PROVE  Ledger(Own).at <= Ledger(db.revision).at
<1>1. ChainInv /\ db.revision \in Nat
  BY DEF AnalyticsInv, Types
<1>2. Own = db.revision - 1 /\ Own \in Nat /\ db.revision > 1 /\ db.revision \in 1..db.revision
  BY <1>1 DEF ChainInv
<1>3. Ledger(db.revision - 1).at <= Ledger(db.revision).at
  BY <1>1, <1>2 DEF ChainInv
<1> QED BY <1>2, <1>3

\* The rows the source had, one state after the other.
LEMMA HistoryOfRows ==
  ASSUME NEW H \in Seq(SourceState), NEW s \in SourceState
  PROVE  LET rows(h) == [i \in DOMAIN h |-> h[i].rows]
         IN  /\ rows(H) \in Seq(Row) /\ Len(rows(H)) = Len(H)
             /\ Len(rows(Append(H, s))) = Len(rows(H)) + 1
             /\ SubSeq(rows(Append(H, s)), 1, Len(rows(H))) = rows(H)
<1> DEFINE rows(h) == [i \in DOMAIN h |-> h[i].rows]
           G == Append(H, s)
<1>1. G \in Seq(SourceState) /\ Len(G) = Len(H) + 1 /\ \A i \in 1..Len(H) : G[i] = H[i]
  OBVIOUS
<1>2. ASSUME NEW h \in Seq(SourceState)
      PROVE  /\ rows(h) \in Seq(Row) /\ Len(rows(h)) = Len(h) /\ Len(h) \in Nat
             /\ \A i \in 1..Len(h) : rows(h)[i] = h[i].rows
  <2>1. Len(h) \in Nat /\ DOMAIN h = 1..Len(h)
    OBVIOUS
  <2>2. \A i \in 1..Len(h) : h[i].rows \in Row
    <3>1. \A i \in 1..Len(h) : h[i] \in SourceState
      BY <2>1
    <3> QED BY <3>1 DEF SourceState
  <2>3. rows(h) \in [1..Len(h) -> Row]
    BY <2>1, <2>2
  <2>4. rows(h) \in Seq(Row) /\ Len(rows(h)) = Len(h)
    BY <2>1, <2>3
  <2> QED BY <2>1, <2>4
<1> HIDE DEF G, rows
<1>3. /\ rows(H) \in Seq(Row) /\ Len(rows(H)) = Len(H) /\ Len(H) \in Nat
      /\ rows(G) \in Seq(Row) /\ Len(rows(G)) = Len(H) + 1
      /\ \A i \in 1..Len(H) : rows(G)[i] = rows(H)[i]
  BY <1>1, <1>2
<1>4. SubSeq(rows(G), 1, Len(H)) = rows(H)
  <2> DEFINE a == rows(G)
             b == rows(H)
  <2>1. a \in Seq(Row) /\ b \in Seq(Row) /\ Len(b) = Len(H) /\ Len(a) = Len(H) + 1 /\ Len(H) \in Nat
        /\ \A i \in 1..Len(H) : a[i] = b[i]
    BY <1>3
  <2> HIDE DEF a, b
  <2>2. SubSeq(a, 1, Len(H)) \in Seq(Row) /\ Len(SubSeq(a, 1, Len(H))) = Len(H)
        /\ \A i \in 1..Len(H) : SubSeq(a, 1, Len(H))[i] = a[i]
    BY <2>1
  <2>3. SubSeq(a, 1, Len(H)) = b
    BY <2>1, <2>2
  <2> QED BY <2>3 DEF a, b
<1> QED BY <1>3, <1>4 DEF rows, G

\* A step that goes forward is a step of the archive, or none that readers see.
LEMMA ContractStep ==
  ASSUME AnalyticsInv, AnalyticsInv', Progress
  PROVE  [Contract!Next]_(Contract!vars)
<1> DEFINE hist == [i \in DOMAIN history |-> history[i].rows]
           at == IF Ours THEN At ELSE 0
<1>1. ReaderView /\ ReaderView'
  BY ReaderSees, PTL
<1>2. history \in Seq(SourceState) /\ DOMAIN history = 1..Len(history) /\ Len(history) \in Nat
  <2>1. history \in Seq(SourceState)
    BY DEF AnalyticsInv, Types
  <2> QED BY <2>1
<1>n. PICK g : g = Own
  OBVIOUS
<1>3. ASSUME Own' = Own, history' = history \/ \E s : history' = Append(history, s)
      PROVE  UNCHANGED <<at, Seen>>
  <2>1. (Ours' <=> Ours) /\ (g \in 1..db.revision => Ledger(g)' = Ledger(g))
    BY <1>n, <1>1, <1>3 DEF ReaderView, Progress
  <2>2. CASE ~Ours
    BY <1>1, <2>1, <2>2 DEF ReaderView
  <2>3. CASE Ours
    <3>1. g \in 1..db.revision /\ At = Ledger(g).at /\ At' = Ledger(g)'.at
      BY <1>n, <1>1, <1>3, <2>1, <2>3 DEF ReaderView
    <3>2. At' = At /\ At \in 1..Len(history)
      BY <1>1, <2>1, <2>3, <3>1 DEF ReaderView
    <3>3. history'[At] = history[At]
      BY <1>2, <1>3, <3>2
    <3>4. Seen = history[At].rows /\ Seen' = history'[At'].rows
      BY <1>1, <2>1, <2>3 DEF ReaderView
    <3> QED BY <2>1, <3>2, <3>3, <3>4
  <2> QED BY <2>2, <2>3
<1>4. CASE Own' = Own /\ history' = history
  <2>1. UNCHANGED <<hist, at, Seen>>
    BY <1>3, <1>4
  <2> QED BY <2>1 DEF Contract!vars
<1>5. CASE Own' = Own /\ history' # history
  <2>1. PICK s \in SourceState : history' = Append(history, s)
    BY <1>5 DEF Progress
  <2>2. UNCHANGED <<at, Seen>>
    BY <1>3, <1>5, <2>1
  <2>3. hist' = [i \in DOMAIN Append(history, s) |-> Append(history, s)[i].rows]
    BY <2>1
  <2>4. Len(hist') = Len(hist) + 1 /\ SubSeq(hist', 1, Len(hist)) = hist
    BY <1>2, <2>3, HistoryOfRows
  <2> QED BY <2>2, <2>4 DEF Contract!Next, Contract!Change
<1>6. CASE Own' # Own
  <2>1. Pending /\ Own' = db.revision /\ history' = history
    BY <1>6 DEF Progress
  <2>n. PICK h \in Nat : h = db.revision
    BY <1>1 DEF ReaderView
  <2>2. h # 0 /\ Ours' /\ Ledger(h)' = Ledger(h)
    <3>1. h # 0
      BY <2>1, <2>n DEF AnalyticsInv, ChainInv
    <3>2. h \in 1..db.revision
      BY <2>n, <3>1
    <3> QED BY <1>1, <2>1, <2>n, <3>1, <3>2 DEF ReaderView, Progress
  <2>3. At' = Ledger(h).at /\ At' \in 1..Len(history) /\ Seen' = history[At'].rows
    BY <1>1, <2>1, <2>n, <2>2 DEF ReaderView
  <2>4. Ours => At <= At' /\ Seen = history[At].rows /\ At \in 1..Len(history)
    <3> SUFFICES ASSUME Ours PROVE At <= At' /\ Seen = history[At].rows /\ At \in 1..Len(history)
      OBVIOUS
    <3>1. Own # 0 /\ Own # db.revision /\ At = Ledger(Own).at /\ Seen = history[At].rows
          /\ At \in 1..Len(history)
      BY <1>1, <1>6, <2>1 DEF ReaderView
    <3>2. Ledger(Own).at <= Ledger(db.revision).at
      BY <2>1, <3>1, LaterIsLater
    <3> QED BY <2>n, <2>3, <3>1, <3>2
  <2>5. hist' = hist /\ Len(hist) = Len(history)
    BY <1>2, <2>1, HistoryOfRows
  <2>6. at' = At' /\ hist'[at'] = Seen'
    BY <1>2, <2>1, <2>2, <2>3
  <2>7. CASE Ours /\ At = At'
    <3>1. at' = at /\ Seen' = Seen
      BY <2>3, <2>4, <2>6, <2>7
    <3> QED BY <2>5, <3>1 DEF Contract!vars
  <2>8. CASE ~(Ours /\ At = At')
    <3>1. at' \in (at + 1)..Len(hist)
      BY <1>2, <2>3, <2>4, <2>5, <2>6, <2>8
    <3> QED BY <2>5, <2>6, <3>1 DEF Contract!Next, Contract!Publish
  <2> QED BY <2>7, <2>8
<1> QED BY <1>4, <1>5, <1>6

\* ContractSpec: what readers see is a snapshot the source once was, and never
\* goes back to an earlier one.
THEOREM ExportImplementsArchive == ASSUME OnePublisher PROVE Spec => ContractSpec
<1>1. Init => Contract!Init
  <2> SUFFICES ASSUME Init PROVE Contract!Init
    OBVIOUS
  <2>1. ~Ours
    BY DEF Init, Ours, Own, NoGeneration, Foreign
  <2>2. Len([i \in DOMAIN history |-> history[i].rows]) = 1
    <3>1. history = <<FirstSource>>
      BY DEF Init
    <3>2. FirstSource \in SourceState
      BY AnalyticsInitInv DEF AnalyticsInv, Types, Init
    <3> QED BY <3>1
  <2> QED BY <2>1, <2>2 DEF Contract!Init, Seen
<1>2. AnalyticsInv /\ [Next]_vars => AnalyticsInv' /\ Progress
  BY AnalyticsStep
<1>3. AnalyticsInv /\ AnalyticsInv' /\ Progress => [Contract!Next]_(Contract!vars)
  BY ContractStep
<1> QED BY <1>1, <1>2, <1>3, AnalyticsInitInv, PTL DEF Spec, ContractSpec, Contract!Spec

-----------------------------------------------------------------------------
(* The pin of the sources.                                                 *)

\* The sources that come first.
FirstSources(k) == {SourceNames[i] : i \in 1..k}

\* A run has hashed the sources that come first, at its own revision.
RunOK(q) ==
  /\ q = [pc |-> q.pc, variant |-> q.variant, rev |-> q.rev, hashes |-> q.hashes]
  /\ q.variant \in Variants /\ q.rev # Truncated
  /\ q.pc \in {"off", "next", "hash", "upstream", "done", "failed", "killed"}
  /\ q.pc \in {"next", "hash"} =>
       /\ IsFiniteSet(DOMAIN q.hashes) /\ Cardinality(DOMAIN q.hashes) \in 0..Len(SourceNames)
       /\ q.hashes = [n \in FirstSources(Cardinality(DOMAIN q.hashes)) |-> <<n, q.rev>>]
       /\ q.pc = "hash" => Cardinality(DOMAIN q.hashes) < Len(SourceNames)
ScriptOK(s) == RunOK(script[s])

PinTypes ==
  /\ DOMAIN script = Script /\ \A s \in Script : ScriptOK(s)
  /\ DOMAIN upstream = Variants
  /\ hashes = [v \in Variants |-> [coreRev |-> hashes[v].coreRev, hashes |-> hashes[v].hashes]]

\* A file of hashes that is whole has those of the revision it names.
HashesFit == \A v \in Variants : hashes[v].coreRev # Truncated => hashes[v].hashes = HashesOf(hashes[v].coreRev)

\* The runs that have begun with a variant.
Touched(v) == {s \in Script : script[s].pc # "off" /\ script[s].variant = v}

\* The pin of a variant at most one run has touched.
Undisturbed(v) ==
  (\A a, b \in Touched(v) : a = b) =>
     /\ Touched(v) = {} => hashes[v].coreRev = upstream[v] /\ upstream[v] # Truncated
     /\ \A s \in Touched(v) :
          /\ script[s].pc \in {"next", "hash", "failed", "done"} =>
               hashes[v].coreRev = upstream[v] /\ upstream[v] # Truncated
          /\ script[s].pc = "upstream" =>
               hashes[v].coreRev = script[s].rev /\ upstream[v] # Truncated

\* A worktree is that of the source a run hashes, or a killed run left it.
WorktreesOwned ==
  \A w \in worktrees :
    /\ w = <<w[1], w[2]>> /\ w[1] \in Script /\ script[w[1]].pc \in {"hash", "killed"}
    /\ script[w[1]].pc = "hash" => w[2] = SourceNames[Hashed(w[1]) + 1]

PinInv == PinTypes /\ HashesFit /\ (\A v \in Variants : Undisturbed(v)) /\ WorktreesOwned

\* What the invariant says of the files that the build reads.
LEMMA PinSoundFollows == ASSUME PinInv PROVE AcceptedIsExact /\ PinUsable /\ WorktreesRemoved
<1>1. AcceptedIsExact
  BY DEF PinInv, HashesFit, AcceptedIsExact, Accepted
<1>2. PinUsable
  <2> SUFFICES ASSUME NEW v \in Variants, upstream["release"] # Truncated, Cardinality(Touched(v)) <= 1,
                      \A s \in Touched(v) : script[s].pc \in {"next", "hash", "failed", "done"}
               PROVE  Accepted(v)
    BY DEF PinUsable, Touched
  <2>1. IsFiniteSet(Touched(v))
    BY PinAssumption, FS_Subset DEF Touched
  <2>2. Cardinality(Touched(v)) = 0 \/ Cardinality(Touched(v)) = 1
    BY <2>1, FS_CardinalityType
  <2>3. \A a, b \in Touched(v) : a = b
    BY <2>1, <2>2, FS_EmptySet, FS_Singleton
  <2>4. hashes[v].coreRev = upstream[v] /\ upstream[v] # Truncated
    BY <2>3 DEF PinInv, Undisturbed
  <2> QED BY <2>4 DEF Accepted
<1>3. WorktreesRemoved
  BY DEF PinInv, WorktreesOwned, WorktreesRemoved
<1> QED BY <1>1, <1>2, <1>3

\* The files are those of the first revision.
LEMMA PinInitInv == PinInit => PinInv
<1> SUFFICES ASSUME PinInit PROVE PinInv
  OBVIOUS
<1>1. PinTypes
  BY PinAssumption DEF PinInit, PinTypes, ScriptOK, RunOK, Variants
<1>2. HashesFit
  BY DEF PinInit, HashesFit, Variants
<1>3. \A v \in Variants : Undisturbed(v)
  BY PinAssumption DEF PinInit, Undisturbed, Touched, Variants
<1> QED BY <1>1, <1>2, <1>3 DEF PinInit, PinInv, WorktreesOwned

\* One run goes on.
LEMMA ScriptGoesOn ==
  ASSUME PinInv, NEW s \in Script, NEW q, script' = [script EXCEPT ![s] = q], RunOK(q)
  PROVE  /\ DOMAIN script' = Script /\ (\A t \in Script : ScriptOK(t)')
         /\ script'[s] = q /\ \A t \in Script : t # s => script'[t] = script[t]
  BY DEF PinInv, PinTypes, ScriptOK

\* The hashes of the first k sources and that of the next one.
LEMMA NextSource ==
  ASSUME PinInv, NEW s \in Script, NEW n, script[s].pc = "hash", n = SourceNames[Hashed(s) + 1]
  PROVE  LET h == WithHash(script[s].hashes, n, script[s].rev)
         IN  /\ IsFiniteSet(DOMAIN h) /\ Cardinality(DOMAIN h) = Hashed(s) + 1
             /\ h = [m \in FirstSources(Hashed(s) + 1) |-> <<m, script[s].rev>>]
             /\ Hashed(s) \in Nat /\ Hashed(s) < Len(SourceNames)
<1> DEFINE h == WithHash(script[s].hashes, n, script[s].rev)
           k == Hashed(s)
<1>1. /\ IsFiniteSet(DOMAIN script[s].hashes) /\ k \in Nat /\ k < Len(SourceNames)
      /\ script[s].hashes = [m \in FirstSources(k) |-> <<m, script[s].rev>>]
      /\ k = Cardinality(DOMAIN script[s].hashes) /\ Len(SourceNames) \in Nat
  BY PinAssumption DEF PinInv, PinTypes, ScriptOK, RunOK, Hashed
<1> HIDE DEF k
<1>2. FirstSources(k + 1) = FirstSources(k) \cup {n}
  <2>1. 1..(k + 1) = (1..k) \cup {k + 1}
    BY <1>1
  <2>2. n = SourceNames[k + 1]
    BY DEF k
  <2> QED BY <2>1, <2>2 DEF FirstSources
<1>3. n \notin FirstSources(k)
  <2> SUFFICES ASSUME NEW i \in 1..k, SourceNames[i] = n PROVE FALSE
    BY DEF FirstSources
  <2>1. i \in DOMAIN SourceNames /\ k + 1 \in DOMAIN SourceNames /\ i # k + 1
    BY <1>1, PinAssumption
  <2> QED BY <2>1, PinAssumption DEF k
<1>4. DOMAIN h = FirstSources(k) \cup {n} /\ h = [m \in FirstSources(k) \cup {n} |-> <<m, script[s].rev>>]
  BY <1>1, <1>3 DEF WithHash
<1> QED BY <1>1, <1>2, <1>3, <1>4, FS_AddElement DEF k

\* What a step of one run leaves of the files.
LEMMA UndisturbedStays ==
  ASSUME NEW v \in Variants, Undisturbed(v), NEW s \in Script, DOMAIN script = Script,
         \A t \in Script : t # s => script'[t] = script[t],
         script[s].pc # "off" => script'[s].pc # "off" /\ script'[s].variant = script[s].variant,
         script'[s].variant # v => hashes'[v] = hashes[v] /\ upstream'[v] = upstream[v],
         script'[s].variant = v /\ script'[s].pc # "off" =>
           ((script[s].pc = "off" => hashes[v].coreRev = upstream[v] /\ upstream[v] # Truncated)
            /\ (script[s].pc \in {"next", "hash", "failed", "done"} =>
                  hashes[v].coreRev = upstream[v] /\ upstream[v] # Truncated)
            /\ (script[s].pc = "upstream" => hashes[v].coreRev = script[s].rev /\ upstream[v] # Truncated)
            =>
              /\ script'[s].pc \in {"next", "hash", "failed", "done"} =>
                   hashes'[v].coreRev = upstream'[v] /\ upstream'[v] # Truncated
              /\ script'[s].pc = "upstream" =>
                   hashes'[v].coreRev = script'[s].rev /\ upstream'[v] # Truncated),
         script'[s].pc # "off"
  PROVE  Undisturbed(v)'
<1>1. ASSUME \A a, b \in Touched(v)' : a = b
      PROVE  Undisturbed(v)'
  <2>1. Touched(v) \subseteq Touched(v)'
    BY DEF Touched
  <2>2. \A a, b \in Touched(v) : a = b
    BY <1>1, <2>1
  <2>3. CASE script'[s].variant = v
    <3>1. Touched(v)' = {s}
      BY <1>1, <2>3 DEF Touched
    <3>2. script[s].pc = "off" => Touched(v) = {}
      BY <2>1, <3>1 DEF Touched
    <3>3. script[s].pc # "off" => Touched(v) = {s}
      BY <2>1, <2>3, <3>1 DEF Touched
    <3>4. /\ script[s].pc = "off" => hashes[v].coreRev = upstream[v] /\ upstream[v] # Truncated
          /\ script[s].pc \in {"next", "hash", "failed", "done"} =>
                  hashes[v].coreRev = upstream[v] /\ upstream[v] # Truncated
          /\ script[s].pc = "upstream" => hashes[v].coreRev = script[s].rev /\ upstream[v] # Truncated
      BY <2>2, <3>2, <3>3 DEF Undisturbed
    <3> QED BY <2>3, <3>1, <3>4 DEF Undisturbed
  <2>4. CASE script'[s].variant # v
    <3>1. Touched(v)' = Touched(v) /\ s \notin Touched(v)
      BY <2>4 DEF Touched
    <3>2. \A t \in Touched(v) : script'[t] = script[t]
      BY <3>1 DEF Touched
    <3> QED BY <2>2, <2>4, <3>1, <3>2 DEF Undisturbed
  <2> QED BY <2>3, <2>4
<1> QED BY <1>1 DEF Undisturbed

\* The worktrees of the other runs stay theirs.
LEMMA OthersWorktrees ==
  ASSUME PinInv, NEW s \in Script, \A t \in Script : t # s => script'[t] = script[t],
         NEW w \in worktrees, w[1] # s
  PROVE  /\ w = <<w[1], w[2]>> /\ w[1] \in Script /\ script'[w[1]].pc \in {"hash", "killed"}
         /\ script'[w[1]].pc = "hash" => w[2] = SourceNames[Hashed(w[1])' + 1]
<1>1. script'[w[1]] = script[w[1]] /\ w[1] \in Script
  BY DEF PinInv, WorktreesOwned
<1>2. Hashed(w[1])' = Hashed(w[1])
  BY <1>1 DEF Hashed
<1> QED BY <1>1, <1>2 DEF PinInv, WorktreesOwned

\* A run reads which revision it is to pin.
LEMMA PinLoad ==
  ASSUME PinInv, NEW s \in Script, NEW v \in Variants, NEW rev \in Revision, Load(s, v, rev)
  PROVE  PinInv'
<1> DEFINE q == [pc |-> "next", variant |-> v, rev |-> rev, hashes |-> <<>>]
<1>1. DOMAIN q.hashes = {} /\ q.hashes = [n \in FirstSources(0) |-> <<n, rev>>]
  BY DEF FirstSources
<1>2. IsFiniteSet(DOMAIN q.hashes) /\ Cardinality(DOMAIN q.hashes) = 0
  BY <1>1, FS_EmptySet
<1>3. Len(SourceNames) \in Nat
  BY PinAssumption
<1>4. /\ DOMAIN script' = Script /\ (\A t \in Script : ScriptOK(t)')
      /\ script'[s] = q /\ \A t \in Script : t # s => script'[t] = script[t]
  <2>1. script' = [script EXCEPT ![s] = q] /\ q.rev # Truncated /\ q.variant = v
    BY PinAssumption DEF Load
  <2>2. /\ q.pc = "next" /\ q.pc # "hash" /\ q.variant \in Variants
        /\ q.pc \in {"off", "next", "hash", "upstream", "done", "failed", "killed"}
    OBVIOUS
  <2>3. q.hashes = [n \in FirstSources(Cardinality(DOMAIN q.hashes)) |-> <<n, q.rev>>]
    BY <1>1, <1>2
  <2>5. Cardinality(DOMAIN q.hashes) \in 0..Len(SourceNames)
    BY <1>2, <1>3
  <2>4. q = [pc |-> q.pc, variant |-> q.variant, rev |-> q.rev, hashes |-> q.hashes]
    OBVIOUS
  <2> HIDE DEF q
  <2>6. RunOK(q)
    BY <1>2, <2>1, <2>2, <2>3, <2>4, <2>5 DEF RunOK
  <2> QED BY <2>1, <2>6, ScriptGoesOn
<1>5. PinTypes' /\ HashesFit'
  BY <1>4 DEF Load, PinInv, PinTypes, HashesFit
<1>6. \A u \in Variants : Undisturbed(u)'
  BY <1>4, UndisturbedStays DEF Load, PinInv, PinTypes
<1>7. WorktreesOwned'
  <2>1. \A w \in worktrees : w[1] # s
    BY DEF Load, PinInv, WorktreesOwned
  <2> QED BY <1>4, <2>1, OthersWorktrees DEF Load, WorktreesOwned
<1> QED BY <1>5, <1>6, <1>7 DEF PinInv

\* A run that keeps what it has hashed and writes nothing.
LEMMA PinPlain ==
  ASSUME PinInv, NEW s \in Script, NEW p \in {"next", "hash", "failed", "upstream", "done", "killed"},
         script' = [script EXCEPT ![s].pc = p],
         p \in {"next", "hash"} => script[s].pc \in {"next", "hash"},
         p = "hash" => Hashed(s) < Len(SourceNames)
  PROVE  /\ DOMAIN script' = Script /\ (\A t \in Script : ScriptOK(t)')
         /\ script'[s] = [script[s] EXCEPT !.pc = p]
         /\ script'[s].pc = p /\ script'[s].variant = script[s].variant
         /\ script'[s].rev = script[s].rev /\ script'[s].hashes = script[s].hashes
         /\ Hashed(s)' = Hashed(s)
         /\ \A t \in Script : t # s => script'[t] = script[t]
<1>1. ScriptOK(s) /\ DOMAIN script = Script
  BY DEF PinInv, PinTypes
<1> DEFINE q == [script[s] EXCEPT !.pc = p]
<1>2. /\ q.pc = p /\ q.variant = script[s].variant /\ q.rev = script[s].rev /\ q.hashes = script[s].hashes
      /\ q = [pc |-> q.pc, variant |-> q.variant, rev |-> q.rev, hashes |-> q.hashes]
  BY <1>1 DEF ScriptOK, RunOK
<1>3. script' = [script EXCEPT ![s] = q]
  OBVIOUS
<1>4. Hashed(s) = Cardinality(DOMAIN q.hashes)
  BY <1>2 DEF Hashed
<1> HIDE DEF q
<1>5. q.pc \in {"next", "hash"} =>
           /\ IsFiniteSet(DOMAIN q.hashes) /\ Cardinality(DOMAIN q.hashes) \in 0..Len(SourceNames)
           /\ q.hashes = [n \in FirstSources(Cardinality(DOMAIN q.hashes)) |-> <<n, q.rev>>]
           /\ q.pc = "hash" => Cardinality(DOMAIN q.hashes) < Len(SourceNames)
  BY <1>1, <1>2, <1>4 DEF ScriptOK, RunOK
<1>6. /\ DOMAIN script' = Script /\ (\A t \in Script : ScriptOK(t)')
      /\ script'[s] = q /\ \A t \in Script : t # s => script'[t] = script[t]
  <2>1. q.variant \in Variants /\ q.rev # Truncated
    BY <1>1, <1>2 DEF ScriptOK, RunOK
  <2>2. q.pc \in {"off", "next", "hash", "upstream", "done", "failed", "killed"}
    BY <1>2
  <2>3. RunOK(q)
    BY <1>2, <1>5, <2>1, <2>2 DEF RunOK
  <2> QED BY <1>3, <2>3, ScriptGoesOn
<1>7. Hashed(s)' = Hashed(s)
  BY <1>2, <1>6 DEF Hashed
<1> QED BY <1>2, <1>6, <1>7 DEF q

\* A run checks out the next source.
LEMMA PinAddWorktree ==
  ASSUME PinInv, NEW s \in Script, AddWorktree(s)
  PROVE  PinInv'
<1>1. /\ DOMAIN script' = Script /\ (\A t \in Script : ScriptOK(t)')
      /\ script'[s].pc = "hash" /\ script'[s].variant = script[s].variant
      /\ Hashed(s)' = Hashed(s)
      /\ \A t \in Script : t # s => script'[t] = script[t]
  BY PinPlain DEF AddWorktree
<1>2. PinTypes' /\ HashesFit'
  BY <1>1 DEF AddWorktree, PinInv, PinTypes, HashesFit
<1>3. \A u \in Variants : Undisturbed(u)'
  BY <1>1, UndisturbedStays DEF AddWorktree, PinInv, PinTypes
<1>4. WorktreesOwned'
  <2>1. \A w \in worktrees : w[1] # s
    BY DEF AddWorktree, PinInv, WorktreesOwned
  <2>2. \A w \in worktrees' : w \in worktrees \/ w = <<s, SourceNames[Hashed(s) + 1]>>
    BY DEF AddWorktree
  <2> QED BY <1>1, <2>1, <2>2, OthersWorktrees DEF WorktreesOwned
<1> QED BY <1>2, <1>3, <1>4 DEF PinInv

\* A run hashes the source, and removes its worktree.
LEMMA PinHashSource ==
  ASSUME PinInv, NEW s \in Script, HashSource(s)
  PROVE  PinInv'
<1> DEFINE n == SourceNames[Hashed(s) + 1]
           h == WithHash(script[s].hashes, n, script[s].rev)
           q == [script[s] EXCEPT !.pc = "next", !.hashes = h]
<1>1. /\ IsFiniteSet(DOMAIN h) /\ Cardinality(DOMAIN h) = Hashed(s) + 1
      /\ h = [m \in FirstSources(Hashed(s) + 1) |-> <<m, script[s].rev>>]
      /\ Hashed(s) \in Nat /\ Hashed(s) < Len(SourceNames)
  BY NextSource DEF HashSource
<1>2. ScriptOK(s) /\ DOMAIN script = Script
  BY DEF PinInv, PinTypes
<1> HIDE DEF h
<1>21. script[s] = [pc |-> script[s].pc, variant |-> script[s].variant, rev |-> script[s].rev,
                    hashes |-> script[s].hashes]
  BY <1>2 DEF ScriptOK, RunOK
<1> DEFINE z == script[s]
<1>22. q = [pc |-> "next", variant |-> script[s].variant, rev |-> script[s].rev, hashes |-> h]
  <2>1. z = [pc |-> z.pc, variant |-> z.variant, rev |-> z.rev, hashes |-> z.hashes]
    BY <1>21
  <2> HIDE DEF z
  <2>2. [z EXCEPT !.pc = "next"] = [pc |-> "next", variant |-> z.variant, rev |-> z.rev, hashes |-> z.hashes]
    BY <2>1
  <2>3. [[z EXCEPT !.pc = "next"] EXCEPT !.hashes = h]
        = [pc |-> "next", variant |-> z.variant, rev |-> z.rev, hashes |-> h]
    <3> DEFINE y == [z EXCEPT !.pc = "next"]
    <3>1. DOMAIN y = {"pc", "variant", "rev", "hashes"} /\ y.pc = "next" /\ y.variant = z.variant /\ y.rev = z.rev
      BY <2>2
    <3> HIDE DEF y
    <3>2. [y EXCEPT !.hashes = h] = [pc |-> "next", variant |-> z.variant, rev |-> z.rev, hashes |-> h]
      BY <3>1
    <3> QED BY <3>2 DEF y
  <2>4. [z EXCEPT !.pc = "next", !.hashes = h] = [[z EXCEPT !.pc = "next"] EXCEPT !.hashes = h]
    OBVIOUS
  <2> QED BY <2>3, <2>4 DEF z
<1>3. /\ q.pc = "next" /\ q.variant = script[s].variant /\ q.rev = script[s].rev /\ q.hashes = h
      /\ q = [pc |-> q.pc, variant |-> q.variant, rev |-> q.rev, hashes |-> q.hashes]
  BY <1>22
<1>4. script' = [script EXCEPT ![s] = q]
  <2>1. script' = [script EXCEPT ![s].pc = "next", ![s].hashes = WithHash(@, n, script[s].rev)]
    BY DEF HashSource
  <2>2. script[s].hashes = [script[s] EXCEPT !.pc = "next"].hashes
    BY <1>2 DEF ScriptOK, RunOK
  <2>3. DOMAIN script' = Script /\ \A t \in Script \ {s} : script'[t] = script[t]
    BY <1>2, <2>1
  <2>4. script'[s] = q
    BY <1>2, <2>1, <2>2 DEF h
  <2> QED BY <1>2, <2>1, <2>3, <2>4
<1> HIDE DEF q
<1>5. Len(SourceNames) \in Nat
  BY PinAssumption
<1>6. /\ DOMAIN script' = Script /\ (\A t \in Script : ScriptOK(t)')
      /\ script'[s] = q /\ \A t \in Script : t # s => script'[t] = script[t]
  <2>1. q.variant \in Variants /\ q.rev # Truncated
    BY <1>2, <1>3 DEF ScriptOK, RunOK
  <2>2. Cardinality(DOMAIN q.hashes) \in 0..Len(SourceNames)
    BY <1>1, <1>3, <1>5
  <2>4. q.pc # "hash" /\ q.pc \in {"off", "next", "hash", "upstream", "done", "failed", "killed"}
    BY <1>3
  <2>3. IsFiniteSet(DOMAIN q.hashes)
        /\ q.hashes = [m \in FirstSources(Cardinality(DOMAIN q.hashes)) |-> <<m, q.rev>>]
    BY <1>1, <1>3
  <2>5. RunOK(q)
    BY <1>3, <2>1, <2>2, <2>3, <2>4 DEF RunOK
  <2> QED BY <1>4, <2>5, ScriptGoesOn
<1>7. PinTypes' /\ HashesFit'
  BY <1>6 DEF HashSource, PinInv, PinTypes, HashesFit
<1>8. \A u \in Variants : Undisturbed(u)'
  BY <1>3, <1>6, UndisturbedStays DEF HashSource, PinInv, PinTypes
<1>9. WorktreesOwned'
  <2>1. worktrees' = worktrees \ {<<s, n>>} /\ script[s].pc = "hash"
    BY DEF HashSource
  <2>2. \A w \in worktrees' : w \in worktrees /\ w[1] # s
    BY <2>1 DEF PinInv, WorktreesOwned
  <2> QED BY <1>6, <2>2, OthersWorktrees DEF WorktreesOwned
<1> QED BY <1>7, <1>8, <1>9 DEF PinInv

\* A source cannot be hashed: the run ends before it has written anything.
LEMMA PinFail ==
  ASSUME PinInv, NEW s \in Script, Fail(s)
  PROVE  PinInv'
<1>1. /\ DOMAIN script' = Script /\ (\A t \in Script : ScriptOK(t)')
      /\ script'[s].pc = "failed" /\ script'[s].variant = script[s].variant
      /\ \A t \in Script : t # s => script'[t] = script[t]
  BY PinPlain DEF Fail
<1>2. PinTypes' /\ HashesFit'
  BY <1>1 DEF Fail, PinInv, PinTypes, HashesFit
<1>3. \A u \in Variants : Undisturbed(u)'
  BY <1>1, UndisturbedStays DEF Fail, PinInv, PinTypes
<1>4. WorktreesOwned'
  <2>1. \A w \in worktrees' : w \in worktrees /\ w[1] # s
    BY DEF Fail
  <2> QED BY <1>1, <2>1, OthersWorktrees DEF WorktreesOwned
<1> QED BY <1>2, <1>3, <1>4 DEF PinInv

\* A run that is done with its sources has no worktree.
LEMMA NoWorktreeLeft ==
  ASSUME PinInv, NEW s \in Script, script[s].pc \in {"next", "upstream"},
         \A t \in Script : t # s => script'[t] = script[t], worktrees' = worktrees
  PROVE  WorktreesOwned'
<1>1. \A w \in worktrees : w[1] # s
  BY DEF PinInv, WorktreesOwned
<1> QED BY <1>1, OthersWorktrees DEF WorktreesOwned

\* The hashes are written first: until the revision is, the pin is refused.
LEMMA PinWriteHashes ==
  ASSUME PinInv, NEW s \in Script, WriteHashes(s)
  PROVE  PinInv'
<1>1. /\ DOMAIN script' = Script /\ (\A t \in Script : ScriptOK(t)')
      /\ script'[s].pc = "upstream" /\ script'[s].variant = script[s].variant
      /\ script'[s].rev = script[s].rev
      /\ \A t \in Script : t # s => script'[t] = script[t]
  BY PinPlain DEF WriteHashes
<1> DEFINE u == script[s].variant
<1>2. u \in Variants /\ script[s].pc = "next" /\ Hashed(s) = Len(SourceNames)
      /\ DOMAIN hashes = Variants
      /\ hashes' = [hashes EXCEPT ![u] = [coreRev |-> script[s].rev, hashes |-> script[s].hashes]]
  <2>1. RunOK(script[s])
    BY DEF PinInv, PinTypes, ScriptOK
  <2>2. script[s].variant \in Variants
    BY <2>1 DEF RunOK
  <2> QED BY <2>2 DEF WriteHashes, PinInv, PinTypes
<1> HIDE DEF u
<1>3. script[s].hashes = HashesOf(script[s].rev)
  <2>1. script[s].hashes = [n \in FirstSources(Len(SourceNames)) |-> <<n, script[s].rev>>]
    <3>1. RunOK(script[s])
      BY DEF PinInv, PinTypes, ScriptOK
    <3>2. Cardinality(DOMAIN script[s].hashes) = Len(SourceNames)
      BY <1>2 DEF Hashed
    <3> QED BY <1>2, <3>1, <3>2 DEF RunOK
  <2>2. FirstSources(Len(SourceNames)) = SourceSet
    BY PinAssumption DEF FirstSources, SourceSet
  <2> QED BY <2>1, <2>2 DEF HashesOf
<1>4. /\ DOMAIN hashes' = Variants
      /\ \A v \in Variants : v # u => hashes'[v] = hashes[v]
      /\ hashes'[u].coreRev = script[s].rev /\ hashes'[u].hashes = script[s].hashes
      /\ hashes'[u] = [coreRev |-> script[s].rev, hashes |-> script[s].hashes]
  BY <1>2
<1>5. PinTypes'
  <2>1. \A v \in Variants : hashes'[v] = [coreRev |-> hashes'[v].coreRev, hashes |-> hashes'[v].hashes]
    BY <1>4 DEF PinInv, PinTypes
  <2>2. hashes' = [v \in Variants |-> [coreRev |-> hashes'[v].coreRev, hashes |-> hashes'[v].hashes]]
    BY <1>2, <1>4, <2>1
  <2> QED BY <1>1, <2>2 DEF WriteHashes, PinInv, PinTypes
<1>6. HashesFit'
  BY <1>3, <1>4 DEF PinInv, HashesFit, HashesOf
<1>7. \A v \in Variants : Undisturbed(v)'
  BY <1>1, <1>2, <1>4, UndisturbedStays DEF WriteHashes, PinInv, PinTypes, u
<1>8. WorktreesOwned'
  BY <1>1, NoWorktreeLeft DEF WriteHashes
<1> QED BY <1>5, <1>6, <1>7, <1>8 DEF PinInv

\* The revision is written last.
LEMMA PinWriteUpstream ==
  ASSUME PinInv, NEW s \in Script, WriteUpstream(s)
  PROVE  PinInv'
<1>1. /\ DOMAIN script' = Script /\ (\A t \in Script : ScriptOK(t)')
      /\ script'[s].pc = "done" /\ script'[s].variant = script[s].variant
      /\ script'[s].rev = script[s].rev
      /\ \A t \in Script : t # s => script'[t] = script[t]
  BY PinPlain DEF WriteUpstream
<1> DEFINE u == script[s].variant
<1>2. u \in Variants /\ script[s].rev # Truncated /\ upstream' = [upstream EXCEPT ![u] = script[s].rev]
      /\ DOMAIN upstream = Variants
  <2>1. RunOK(script[s])
    BY DEF PinInv, PinTypes, ScriptOK
  <2>2. script[s].variant \in Variants /\ script[s].rev # Truncated
    BY <2>1 DEF RunOK
  <2> QED BY <2>2 DEF WriteUpstream, PinInv, PinTypes
<1>3. PinTypes' /\ HashesFit'
  BY <1>1, <1>2 DEF WriteUpstream, PinInv, PinTypes, HashesFit
<1>4. \A v \in Variants : Undisturbed(v)'
  <2> SUFFICES ASSUME NEW v \in Variants PROVE Undisturbed(v)'
    OBVIOUS
  <2>1. v # u => upstream'[v] = upstream[v]
    BY <1>2
  <2>2. v = u => upstream'[v] = script[s].rev
    BY <1>2
  <2>3. hashes'[v] = hashes[v] /\ script[s].pc = "upstream" /\ Undisturbed(v) /\ DOMAIN script = Script
    BY DEF WriteUpstream, PinInv, PinTypes
  <2> HIDE DEF u
  <2>4. script'[s].variant = u
    BY <1>1 DEF u
  <2> QED BY ONLY <1>1, <1>2, <2>1, <2>2, <2>3, <2>4, UndisturbedStays, s \in Script, v \in Variants
<1>5. WorktreesOwned'
  BY <1>1, NoWorktreeLeft DEF WriteUpstream
<1> QED BY <1>3, <1>4, <1>5 DEF PinInv

\* A run is killed, in a write perhaps: that file is truncated.
LEMMA PinKillScript ==
  ASSUME PinInv, NEW s \in Script, KillScript(s)
  PROVE  PinInv'
<1>1. /\ DOMAIN script' = Script /\ (\A t \in Script : ScriptOK(t)')
      /\ script'[s].pc = "killed" /\ script'[s].variant = script[s].variant
      /\ script'[s].rev = script[s].rev
      /\ \A t \in Script : t # s => script'[t] = script[t]
  BY PinPlain DEF KillScript
<1> DEFINE u == script[s].variant
<1>2. u \in Variants /\ DOMAIN hashes = Variants /\ DOMAIN upstream = Variants
  <2>1. RunOK(script[s])
    BY DEF PinInv, PinTypes, ScriptOK
  <2>2. script[s].variant \in Variants
    BY <2>1 DEF RunOK
  <2> QED BY <2>2 DEF PinInv, PinTypes
<1> HIDE DEF u
<1>3. \/ hashes' = hashes
      \/ hashes' = [hashes EXCEPT ![u].coreRev = Truncated]
  BY DEF KillScript, u
<1>4. \/ upstream' = upstream
      \/ upstream' = [upstream EXCEPT ![u] = Truncated]
  BY DEF KillScript, u
<1>5. /\ DOMAIN hashes' = Variants
      /\ \A v \in Variants : v # u => hashes'[v] = hashes[v]
      /\ \A v \in Variants : hashes'[v] = [coreRev |-> hashes'[v].coreRev, hashes |-> hashes'[v].hashes]
      /\ \A v \in Variants : hashes'[v].coreRev = Truncated \/ hashes'[v] = hashes[v]
  <2>1. CASE hashes' = hashes
    BY <1>2, <2>1 DEF PinInv, PinTypes
  <2>2. CASE hashes' = [hashes EXCEPT ![u].coreRev = Truncated]
    BY <1>2, <2>2 DEF PinInv, PinTypes
  <2> QED BY <1>3, <2>1, <2>2
<1>6. DOMAIN upstream' = Variants /\ \A v \in Variants : v # u => upstream'[v] = upstream[v]
  BY <1>2, <1>4
<1>7. PinTypes'
  <2>1. hashes' = [v \in DOMAIN hashes' |-> hashes'[v]]
    <3>1. CASE hashes' = hashes
      BY <3>1 DEF PinInv, PinTypes
    <3>2. CASE hashes' = [hashes EXCEPT ![u].coreRev = Truncated]
      BY <3>2
    <3> QED BY <1>3, <3>1, <3>2
  <2>2. hashes' = [v \in Variants |-> [coreRev |-> hashes'[v].coreRev, hashes |-> hashes'[v].hashes]]
    BY <1>5, <2>1
  <2> QED BY <1>1, <1>6, <2>2 DEF PinTypes
<1>8. HashesFit'
  BY <1>5 DEF PinInv, HashesFit, HashesOf
<1>9. \A v \in Variants : Undisturbed(v)'
  BY <1>1, <1>5, <1>6, UndisturbedStays DEF PinInv, PinTypes, u
<1>10. WorktreesOwned'
  <2>1. \A w \in worktrees' : w \in worktrees
    BY DEF KillScript
  <2>2. ASSUME NEW w \in worktrees, w[1] = s
        PROVE  /\ w = <<w[1], w[2]>> /\ w[1] \in Script /\ script'[w[1]].pc \in {"hash", "killed"}
               /\ script'[w[1]].pc = "hash" => w[2] = SourceNames[Hashed(w[1])' + 1]
    BY <1>1, <2>2 DEF PinInv, WorktreesOwned
  <2> QED BY <1>1, <2>1, <2>2, OthersWorktrees DEF WorktreesOwned
<1> QED BY <1>7, <1>8, <1>9, <1>10 DEF PinInv

\* Every step keeps the invariant.
LEMMA PinStepInv == PinInv /\ [PinNext]_pinVars => PinInv'
<1> SUFFICES ASSUME PinInv, [PinNext]_pinVars PROVE PinInv'
  OBVIOUS
<1>1. CASE UNCHANGED pinVars
  BY <1>1 DEF pinVars, PinInv, PinTypes, ScriptOK, RunOK, Hashed, HashesFit, Undisturbed, Touched, WorktreesOwned
<1>2. CASE PinNext
  BY <1>2, PinLoad, PinAddWorktree, PinHashSource, PinFail, PinWriteHashes, PinWriteUpstream, PinKillScript
     DEF PinNext
<1> QED BY <1>1, <1>2

\* AcceptedIsExact, PinUsable, WorktreesRemoved: the pin that the build accepts has
\* the hashes of its revision, runs that do not overlap and are not killed while
\* they write leave a usable one, and only a killed run leaves a worktree.
THEOREM PinStaysUsable == PinSpec => [](AcceptedIsExact /\ PinUsable /\ WorktreesRemoved)
<1>1. PinSpec => []PinInv
  BY PinInitInv, PinStepInv, PTL DEF PinSpec
<1>2. PinInv => AcceptedIsExact /\ PinUsable /\ WorktreesRemoved
  BY PinSoundFollows
<1> QED BY <1>1, <1>2, PTL

-----------------------------------------------------------------------------
(* Landing and release.                                                    *)

\* A result of a job says what passed at the commit that it names.
ResultOK(j, r) ==
  /\ \A s \in r.ran : <<r.rev, s>> \in goodAt
  /\ r.status = "pass" => \A s \in Checks(j) : <<r.rev, s>> \in goodAt
FleetOK(f) ==
  /\ f = [rev |-> f.rev, jobs |-> f.jobs, results |-> f.results]
  /\ DOMAIN f.results = f.jobs /\ \A j \in f.jobs : ResultOK(j, f.results[j])

\* A commit that touches the model has passed the Rocq checks.
LastChange(sha) == sha[Len(sha)]
Gated(sha) == LastChange(sha) \in Relevant => <<sha, "rocq">> \in goodAt

\* What a lander has found out about the commit that it is shipping.  A tested one
\* may be of main already.
ShipOK(l, q) ==
  /\ q = [pc |-> q.pc, head |-> q.head, sha |-> q.sha]
  /\ q.head \in Seq(Lander) /\ q.sha \in Seq(Lander)
  /\ ModeOf[l] # "rebase" /\ q.pc \in {"check", "wait", "final", "push"} =>
       Good(q.sha, CheckSteps) /\ (Gated(q.sha) \/ IsPrefix(q.sha, main))
  /\ q.pc = "gate" => ModeOf[l] = "rebase"
  /\ q.pc = "push" => Gated(q.sha)

\* What was pushed, and what was tagged.
LandedOK(x) ==
  /\ x.sha \in cachedAt /\ Gated(x.sha)
  /\ x.mode = "exact" => Good(x.sha, CheckSteps)

TaggedOK(sha) ==
  /\ sha \in Seq(Lander) /\ IsPrefix(sha, main) /\ sha \in cachedAt
  /\ Good(sha, CheckSteps \cup {"rocq-full"})

LandingInv ==
  /\ main \in Seq(Lander)
  /\ DOMAIN ship = Lander /\ \A l \in Lander : ShipOK(l, ship[l])
  /\ FleetOK(fleet) /\ \A r \in receipts : FleetOK(r)
  /\ \A x \in landed : LandedOK(x)
  /\ \A sha \in tagged : TaggedOK(sha)

-----------------------------------------------------------------------------
\* A commit on top of one on top of another.
LEMMA PrefixOfPrefix ==
  ASSUME NEW S, NEW a \in Seq(S), NEW b \in Seq(S), NEW c \in Seq(S), IsPrefix(a, b), IsPrefix(b, c)
  PROVE  IsPrefix(a, c)
<1>1. /\ Len(a) \in Nat /\ Len(b) \in Nat /\ Len(c) \in Nat /\ Len(a) <= Len(b) /\ Len(b) <= Len(c)
      /\ \A i \in 1..Len(a) : a[i] = b[i]
      /\ \A i \in 1..Len(b) : b[i] = c[i]
  BY DEF IsPrefix
<1> QED BY <1>1 DEF IsPrefix

\* Commits on top of each other are the same.
LEMMA PrefixBothWays ==
  ASSUME NEW S, NEW a \in Seq(S), NEW b \in Seq(S), IsPrefix(a, b), IsPrefix(b, a)
  PROVE  a = b
  BY DEF IsPrefix

\* A commit is an ancestor of itself.
LEMMA PrefixSelf == ASSUME NEW S, NEW a \in Seq(S) PROVE IsPrefix(a, a)
  BY DEF IsPrefix

\* A commit on top of main whose last change is relevant needs the Rocq checks.
LEMMA LastIsRequired ==
  ASSUME NEW a \in Seq(Lander), NEW b \in Seq(Lander), IsPrefix(a, b), a # b, LastChange(b) \in Relevant
  PROVE  required_roots(a, b) = {"rocq"}
<1>1. Len(b) \in DOMAIN b
  <2>1. Len(b) # 0
    BY DEF IsPrefix
  <2> QED BY <2>1
<1>2. SubSeq(b, 1, Len(b)) = b
  OBVIOUS
<1>3. ~IsPrefix(b, a)
  BY PrefixBothWays
<1> QED BY <1>1, <1>2, <1>3 DEF required_roots, LastChange

\* An accepted receipt says the truth of the commit.
LEMMA VerifiedIsGood ==
  ASSUME NEW r, FleetOK(r), NEW sha, NEW required, verify(r, sha, required)
  PROVE  /\ Good(sha, CheckSteps) /\ \A x \in required : <<sha, x>> \in goodAt
         /\ \A j \in r.jobs : j.kind = "root" => <<sha, j.name>> \in goodAt
<1>1. r.rev = sha /\ Statuses(r) = {"pass"} /\ Covered(r)
  BY DEF verify, assess
<1>2. \A j \in r.jobs : r.results[j].rev = sha /\ r.results[j].status = "pass"
  <2> SUFFICES ASSUME NEW j \in r.jobs PROVE r.results[j].rev = sha /\ r.results[j].status = "pass"
    OBVIOUS
  <2>1. (IF r.results[j].rev = r.rev THEN r.results[j].status ELSE "error") \in Statuses(r)
    BY DEF Statuses
  <2> QED BY <1>1, <2>1
<1>3. \A j \in r.jobs : \A s \in Checks(j) \cup r.results[j].ran : <<sha, s>> \in goodAt
  BY <1>2 DEF FleetOK, ResultOK
<1>4. \A j \in r.jobs : j.kind = "root" => <<sha, j.name>> \in goodAt
  BY <1>3 DEF Checks
<1>5. \A x \in required : <<sha, x>> \in goodAt
  <2> SUFFICES ASSUME NEW x \in required PROVE <<sha, x>> \in goodAt
    OBVIOUS
  <2>1. RootJob(x) \in r.jobs /\ RootJob(x).kind = "root" /\ RootJob(x).name = x
    BY DEF verify, RootJob
  <2> QED BY <1>4, <2>1
<1>6. Good(sha, CheckSteps)
  <2> DEFINE shards == {j \in r.jobs : j.kind = "shard"}
  <2>1. shards # {}
    <3>1. Cardinality(shards) = Shards
      BY DEF verify
    <3>2. Cardinality({}) = 0
      BY FS_EmptySet
    <3> QED BY <3>1, <3>2, LandingAssumption
  <2>2. CheckSteps = UNION {r.results[j].ran : j \in shards}
    BY <1>1, <2>1 DEF Covered
  <2> QED BY <1>3, <2>2 DEF Good
<1> QED BY <1>4, <1>5, <1>6

\* What the invariant says of receipts, pushes and tags.
LEMMA LandingSoundFollows ==
  ASSUME LandingInv
  PROVE  ReceiptIsSound /\ LandedIsCached /\ LandedIsTested /\ ReleaseIsProven
<1>1. ReceiptIsSound
  BY VerifiedIsGood DEF LandingInv, ReceiptIsSound, Good
<1>2. LandedIsCached /\ LandedIsTested
  BY DEF LandingInv, LandedOK, LandedIsCached, LandedIsTested, Gated, LastChange, Good
<1>3. ReleaseIsProven
  BY DEF LandingInv, TaggedOK, ReleaseIsProven
<1> QED BY <1>1, <1>2, <1>3

\* Nothing is landed or tagged at first.
LEMMA LandingInitInv == LandingInit => LandingInv
<1> SUFFICES ASSUME LandingInit PROVE LandingInv
  OBVIOUS
<1>1. ASSUME NEW l \in Lander PROVE ShipOK(l, ship[l])
  <2>1. ship[l] = [pc |-> "begin", head |-> <<l>>, sha |-> <<>>]
    BY DEF LandingInit
  <2>2. <<l>> \in Seq(Lander) /\ <<>> \in Seq(Lander)
    OBVIOUS
  <2> QED BY ONLY <2>1, <2>2 DEF ShipOK
<1>2. FleetOK(fleet)
  BY DEF LandingInit, FleetOK, NoFleet
<1>3. main \in Seq(Lander)
  BY DEF LandingInit
<1> QED BY <1>1, <1>2, <1>3 DEF LandingInit, LandingInv

-----------------------------------------------------------------------------
\* More is known to be good and cached, and main goes on: what was found out stays.
Grows ==
  /\ goodAt \subseteq goodAt' /\ cachedAt \subseteq cachedAt'
  /\ main' \in Seq(Lander) /\ IsPrefix(main, main')

\* What has been tested and cached stays so, and main goes on.
LEMMA FoundOutStays ==
  ASSUME LandingInv, Grows
  PROVE  /\ \A f : FleetOK(f) => FleetOK(f)'
         /\ \A l, q : ShipOK(l, q) => ShipOK(l, q)'
         /\ \A x : LandedOK(x) => LandedOK(x)'
         /\ \A sha : TaggedOK(sha) => TaggedOK(sha)'
<1>1. \A f : FleetOK(f) => FleetOK(f)'
  BY DEF FleetOK, ResultOK, Grows
<1>2. \A sha : sha \in Seq(Lander) /\ IsPrefix(sha, main) => IsPrefix(sha, main')
  BY PrefixOfPrefix DEF Grows, LandingInv
<1>3. \A sha : Gated(sha) => Gated(sha)'
  BY DEF Gated, LastChange, Grows
<1>4. \A sha, what : Good(sha, what) => Good(sha, what)'
  BY DEF Good, Grows
<1>5. \A l, q : ShipOK(l, q) => ShipOK(l, q)'
  BY <1>2, <1>3, <1>4 DEF ShipOK
<1>6. \A x : LandedOK(x) => LandedOK(x)'
  BY <1>3, <1>4 DEF LandedOK, Grows
<1>7. \A sha : TaggedOK(sha) => TaggedOK(sha)'
  BY <1>2, <1>4 DEF TaggedOK, Grows
<1> QED BY <1>1, <1>5, <1>6, <1>7

\* A step in which one lander goes on.
LEMMA LanderGoesOn ==
  ASSUME LandingInv, NEW l \in Lander, NEW q, ship' = [ship EXCEPT ![l] = q], ShipOK(l, q)',
         Grows, UNCHANGED <<fleet, receipts, tagged>>, \A x \in landed' : x \in landed \/ LandedOK(x)'
  PROVE  LandingInv'
<1>1. DOMAIN ship' = Lander /\ \A k \in Lander : ShipOK(k, ship[k])'
  <2>1. DOMAIN ship' = Lander /\ ship'[l] = q /\ \A k \in Lander : k # l => ship'[k] = ship[k]
    BY DEF LandingInv
  <2>2. ShipOK(l, ship[l])'
    BY <2>1
  <2>3. ASSUME NEW k \in Lander, k # l PROVE ShipOK(k, ship[k])'
    <3>1. ShipOK(k, ship[k])
      BY DEF LandingInv
    <3>2. PICK y : y = ship[k]
      OBVIOUS
    <3>3. ShipOK(k, y)'
      BY <3>1, <3>2, FoundOutStays
    <3> QED BY <2>1, <2>3, <3>2, <3>3
  <2> QED BY <2>1, <2>2, <2>3
<1>2. FleetOK(fleet)' /\ \A r \in receipts' : FleetOK(r)'
  <2>1. PICK y : y = fleet
    OBVIOUS
  <2>2. FleetOK(y)'
    BY <2>1, FoundOutStays DEF LandingInv
  <2>3. FleetOK(fleet)'
    BY <2>1, <2>2
  <2> QED BY <2>3, FoundOutStays DEF LandingInv
<1>3. \A x \in landed' : LandedOK(x)'
  BY FoundOutStays DEF LandingInv
<1>4. \A sha \in tagged' : TaggedOK(sha)'
  BY FoundOutStays DEF LandingInv
<1> QED BY <1>1, <1>2, <1>3, <1>4 DEF LandingInv, Grows

\* A step of the fleet.
LEMMA FleetGoesOn ==
  ASSUME LandingInv, Grows, UNCHANGED <<ship, landed, tagged>>, FleetOK(fleet)',
         \A r \in receipts' : r \in receipts \/ FleetOK(r)'
  PROVE  LandingInv'
<1>1. ASSUME NEW l \in Lander PROVE ShipOK(l, ship[l])'
  <2>1. PICK y : y = ship[l]
    OBVIOUS
  <2>2. ShipOK(l, y)'
    BY <2>1, FoundOutStays DEF LandingInv
  <2> QED BY <2>1, <2>2
<1>2. \A r \in receipts' : FleetOK(r)'
  BY FoundOutStays DEF LandingInv
<1>3. \A x \in landed' : LandedOK(x)'
  BY FoundOutStays DEF LandingInv
<1>4. \A sha \in tagged' : TaggedOK(sha)'
  BY FoundOutStays DEF LandingInv
<1> QED BY <1>1, <1>2, <1>3, <1>4 DEF LandingInv, Grows

\* A step that tests, caches and pushes nothing.
LEMMA NothingFound == ASSUME LandingInv, UNCHANGED <<main, goodAt, cachedAt>> PROVE Grows
  BY PrefixSelf DEF LandingInv, Grows

\* A fleet is started for a commit.
LEMMA LandingStartFleet ==
  ASSUME LandingInv, NEW l \in Lander, NEW sha, NEW choice \in JobChoices, StartFleet(l, sha, choice)
  PROVE  LandingInv'
<1>1. Grows
  BY NothingFound DEF StartFleet
<1>2. FleetOK(fleet)'
  <2> DEFINE f == [rev |-> sha, jobs |-> JobsOf(choice), results |-> [j \in JobsOf(choice) |-> NoResult]]
  <2>1. fleet' = f
    BY DEF StartFleet
  <2>2. \A j : ResultOK(j, NoResult)'
    BY DEF ResultOK, NoResult
  <2>3. /\ f = [rev |-> f.rev, jobs |-> f.jobs, results |-> f.results]
        /\ DOMAIN f.results = f.jobs /\ \A j \in f.jobs : f.results[j] = NoResult
    OBVIOUS
  <2> HIDE DEF f
  <2>4. FleetOK(f)'
    BY <2>2, <2>3 DEF FleetOK
  <2> QED BY <2>1, <2>4
<1> QED BY <1>1, <1>2, FleetGoesOn DEF StartFleet

\* A worker runs the steps of its job, and reports a summary.
LEMMA LandingRunWorker ==
  ASSUME LandingInv, NEW j \in fleet.jobs, NEW at, RunWorker(j, at)
  PROVE  LandingInv'
<1>1. PICK r \in Summaries(j, at) :
        goodAt' = goodAt \cup {<<at, s>> : s \in r.ran} /\ fleet' = [fleet EXCEPT !.results[j] = r]
  BY DEF RunWorker
<1>2. Grows
  BY <1>1, PrefixSelf DEF RunWorker, Grows, LandingInv
<1>3. ResultOK(j, r)'
  <2>1. r.rev = at /\ (r.status = "pass" => Checks(j) \subseteq r.ran \/ \A s \in Checks(j) : <<at, s>> \in goodAt)
    <3>1. CASE r = [rev |-> at, status |-> "pass", ran |-> Checks(j), listed |-> TRUE]
      BY <3>1
    <3>2. CASE \E ok \in SUBSET Checks(j) : r = [rev |-> at, status |-> "fail", ran |-> ok, listed |-> TRUE]
      BY <3>2
    <3>3. CASE /\ \A s \in Checks(j) : <<at, s>> \in goodAt
               /\ r = [rev |-> at, status |-> "pass", ran |-> {}, listed |-> FALSE]
      BY <3>3
    <3> QED BY <3>1, <3>2, <3>3 DEF Summaries
  <2>2. Checks(j)' = Checks(j)
    BY DEF Checks
  <2> QED BY <1>1, <2>1, <2>2 DEF ResultOK
<1>4. FleetOK(fleet)'
  <2>1. PICK y : y = fleet
    OBVIOUS
  <2>2. FleetOK(y)' /\ j \in y.jobs
    BY <1>2, <2>1, FoundOutStays DEF LandingInv
  <2>3. fleet' = [rev |-> y.rev, jobs |-> y.jobs, results |-> [y.results EXCEPT ![j] = r]]
    BY <1>1, <2>1, <2>2 DEF FleetOK
  <2> QED BY <1>3, <2>2, <2>3 DEF FleetOK
<1> QED BY <1>2, <1>4, FleetGoesOn DEF RunWorker

\* The summaries become a receipt, if all passed at the same commit.
LEMMA LandingCollect ==
  ASSUME LandingInv, Collect
  PROVE  LandingInv'
<1>1. Grows
  BY NothingFound DEF Collect
<1>2. FleetOK(fleet)'
  BY DEF Collect, FleetOK, NoFleet
<1>3. \A r \in receipts' : r \in receipts \/ FleetOK(r)'
  <2>1. PICK y : y = fleet
    OBVIOUS
  <2>2. FleetOK(y)'
    BY <1>1, <2>1, FoundOutStays DEF LandingInv
  <2> QED BY <2>1, <2>2 DEF Collect
<1> QED BY <1>1, <1>2, <1>3, FleetGoesOn DEF Collect

-----------------------------------------------------------------------------
\* A lander moves to another place with the commit that it has.
LEMMA ShipMoves ==
  ASSUME LandingInv, NEW l \in Lander, NEW place, Ships(l, place), UNCHANGED <<main, fleet, receipts, tagged, landed>>,
         goodAt \subseteq goodAt', cachedAt \subseteq cachedAt',
         ModeOf[l] # "rebase" /\ place \in {"check", "wait", "final", "push"} =>
           ship[l].pc \in {"check", "wait", "final", "push"},
         place = "gate" => ModeOf[l] = "rebase",
         place = "push" => (LastChange(ship[l].sha) \in Relevant => <<ship[l].sha, "rocq">> \in goodAt')
  PROVE  LandingInv'
<1> DEFINE q == [ship[l] EXCEPT !.pc = place]
<1>1. Grows
  BY PrefixSelf DEF LandingInv, Grows
<1>2. PICK y : y = ship[l] /\ ShipOK(l, y) /\ ShipOK(l, y)'
  BY <1>1, FoundOutStays DEF LandingInv
<1>3. q = [pc |-> place, head |-> y.head, sha |-> y.sha]
  BY <1>2 DEF ShipOK
<1>4. /\ q.pc = place /\ q.head = y.head /\ q.sha = y.sha
      /\ q = [pc |-> q.pc, head |-> q.head, sha |-> q.sha]
  BY <1>3
<1>5. ship' = [ship EXCEPT ![l] = q]
  BY DEF Ships
<1>6. PICK z : z = q
  OBVIOUS
<1> HIDE DEF q
<1>7. ShipOK(l, z)'
  BY <1>2, <1>4, <1>6 DEF ShipOK, Gated, LastChange
<1> QED BY <1>1, <1>5, <1>6, <1>7, LanderGoesOn

\* A lander rebases on main, or takes the tested commit.
LEMMA LandingBeginShip ==
  ASSUME LandingInv, NEW l \in Lander, BeginShip(l)
  PROVE  LandingInv'
<1> DEFINE at == IF ModeOf[l] = "rebase" THEN Append(main, l) ELSE ship[l].head
<1>1. UNCHANGED <<main, landed, cachedAt, goodAt, fleet, receipts, tagged>> /\ Grows
  BY NothingFound DEF BeginShip
<1>2. CASE Ships(l, "stopped")
  BY <1>1, <1>2, ShipMoves
<1>3. CASE /\ ModeOf[l] = "rebase" \/ ((\E r \in receipts : verify(r, at, required_roots(main, at))) /\ IsPrefix(main, at))
           /\ ship' = [ship EXCEPT ![l] = [pc |-> "check", head |-> at, sha |-> at]]
  <2>1. at \in Seq(Lander)
    BY DEF LandingInv, ShipOK
  <2>2. ModeOf[l] # "rebase" => Good(at, CheckSteps) /\ (Gated(at) \/ IsPrefix(at, main))
    <3> SUFFICES ASSUME ModeOf[l] # "rebase" PROVE Good(at, CheckSteps) /\ (Gated(at) \/ IsPrefix(at, main))
      OBVIOUS
    <3>1. PICK r \in receipts : verify(r, at, required_roots(main, at))
      BY <1>3
    <3>2. Good(at, CheckSteps) /\ \A x \in required_roots(main, at) : <<at, x>> \in goodAt
      <4> HIDE DEF at
      <4> QED BY <3>1, VerifiedIsGood DEF LandingInv
    <3>3. CASE at = main
      BY <2>1, <3>2, <3>3, PrefixSelf
    <3>4. CASE at # main
      <4>1. IsPrefix(main, at) /\ main \in Seq(Lander)
        BY <1>3 DEF LandingInv
      <4> HIDE DEF at
      <4>2. Gated(at)
        BY <2>1, <3>2, <3>4, <4>1, LastIsRequired DEF Gated
      <4> QED BY <3>2, <4>2
    <3> QED BY <3>3, <3>4
  <2> HIDE DEF at
  <2>3. PICK y : y = at
    OBVIOUS
  <2>4. PICK q : q = [pc |-> "check", head |-> y, sha |-> y]
    OBVIOUS
  <2>5. /\ q.pc = "check" /\ q.head = y /\ q.sha = y
        /\ q = [pc |-> q.pc, head |-> q.head, sha |-> q.sha]
    BY <2>4
  <2>6. Good(y, CheckSteps)' = Good(y, CheckSteps) /\ Gated(y)' = Gated(y) /\ IsPrefix(y, main)' = IsPrefix(y, main)
    BY <1>1 DEF Good, Gated, LastChange, IsPrefix
  <2>7. ShipOK(l, q)'
    BY <2>1, <2>2, <2>3, <2>5, <2>6 DEF ShipOK
  <2>8. ship' = [ship EXCEPT ![l] = q]
    BY <1>3, <2>3, <2>4
  <2> QED BY <1>1, <2>7, <2>8, LanderGoesOn
<1> QED BY <1>2, <1>3 DEF BeginShip

\* The caches are asked for the foundation of the commit.
LEMMA LandingCheckCache ==
  ASSUME LandingInv, NEW l \in Lander, CheckCache(l)
  PROVE  LandingInv'
<1>1. PICK place \in {"final", "stopped", "wait"} : Ships(l, place)
  BY DEF CheckCache
<1> QED BY <1>1, ShipMoves DEF CheckCache

\* Somebody fills the caches.
LEMMA LandingUpload ==
  ASSUME LandingInv, NEW l \in Lander, Upload(l)
  PROVE  LandingInv'
<1>1. Grows
  BY PrefixSelf DEF Upload, Grows, LandingInv
<1>2. FleetOK(fleet)'
  <2>1. PICK y : y = fleet
    OBVIOUS
  <2> QED BY <1>1, <2>1, FoundOutStays DEF LandingInv, Upload
<1> QED BY <1>1, <1>2, FleetGoesOn DEF Upload

\* A lander that is not past the last look at its commit may work on.
LEMMA LandingAmend ==
  ASSUME LandingInv, NEW l \in Lander, Amend(l)
  PROVE  LandingInv'
<1>1. Grows
  BY NothingFound DEF Amend
<1>2. PICK y : y = ship[l] /\ ShipOK(l, y) /\ ShipOK(l, y)'
  BY <1>1, FoundOutStays DEF LandingInv
<1>3. PICK q : q = [pc |-> y.pc, head |-> Append(y.head, l), sha |-> y.sha]
  OBVIOUS
<1>4. ship' = [ship EXCEPT ![l] = q]
  <2>1. y = [pc |-> y.pc, head |-> y.head, sha |-> y.sha]
    BY <1>2 DEF ShipOK
  <2>2. [y EXCEPT !.head = Append(y.head, l)] = q
    <3>1. PICK h : h = Append(y.head, l)
      OBVIOUS
    <3>2. [y EXCEPT !.head = h] = [pc |-> y.pc, head |-> h, sha |-> y.sha]
      BY ONLY <2>1
    <3> QED BY <1>3, <3>1, <3>2
  <2> QED BY <1>2, <2>2 DEF Amend
<1>5. /\ q.pc = y.pc /\ q.head = Append(y.head, l) /\ q.sha = y.sha
      /\ q = [pc |-> q.pc, head |-> q.head, sha |-> q.sha]
  BY <1>3
<1>6. ShipOK(l, q)'
  BY <1>2, <1>5 DEF ShipOK
<1> QED BY <1>1, <1>4, <1>6, LanderGoesOn DEF Amend

\* Before the push: main is fetched again, and the checks that the changes require.
LEMMA LandingFinal ==
  ASSUME LandingInv, NEW l \in Lander, Final(l)
  PROVE  LandingInv'
<1> DEFINE sha == ship[l].sha
<1>1. ship[l].pc = "final" /\ ShipOK(l, ship[l]) /\ main \in Seq(Lander)
      /\ UNCHANGED <<main, landed, cachedAt, goodAt, fleet, receipts, tagged>>
  BY DEF Final, LandingInv
<1>2. CASE Ships(l, "stopped") \/ Ships(l, "done")
  BY <1>1, <1>2, ShipMoves
<1>3. CASE Ships(l, "gate") /\ ModeOf[l] = "rebase"
  BY <1>1, <1>3, ShipMoves
<1>4. CASE /\ Ships(l, "push") /\ IsPrefix(main, sha) /\ sha # main
           /\ ~(ModeOf[l] = "rebase" /\ required_roots(main, sha) # {})
  <2>1. sha \in Seq(Lander) /\ (ModeOf[l] # "rebase" => Gated(sha) \/ IsPrefix(sha, main))
    BY <1>1 DEF ShipOK
  <2> HIDE DEF sha
  <2>2. Gated(sha)
    <3>1. CASE ModeOf[l] = "rebase"
      <4>1. required_roots(main, sha) # {"rocq"}
        BY <1>4, <3>1
      <4> QED BY <1>1, <1>4, <2>1, <4>1, LastIsRequired DEF Gated
    <3>2. CASE ModeOf[l] # "rebase"
      BY <1>1, <1>4, <2>1, <3>2, PrefixBothWays
    <3> QED BY <3>1, <3>2
  <2>3. LastChange(ship[l].sha) \in Relevant => <<ship[l].sha, "rocq">> \in goodAt'
    BY <1>1, <2>2 DEF Gated, sha
  <2> QED BY <1>1, <1>4, <2>3, ShipMoves
<1> QED BY <1>2, <1>3, <1>4 DEF Final


\* The Rocq checks pass or not.
LEMMA LandingGate ==
  ASSUME LandingInv, NEW l \in Lander, NEW passes \in BOOLEAN, Gate(l, passes)
  PROVE  LandingInv'
<1>1. PICK place \in {"push", "stopped"} :
        Ships(l, place) /\ (place = "push" => <<ship[l].sha, "rocq">> \in goodAt') /\ goodAt \subseteq goodAt'
  <2>1. CASE passes
    BY <2>1 DEF Gate
  <2>2. CASE ~passes
    BY <2>2 DEF Gate
  <2> QED BY <2>1, <2>2
<1>2. ship[l].pc = "gate" /\ ShipOK(l, ship[l]) /\ UNCHANGED <<main, landed, cachedAt, fleet, receipts, tagged>>
  BY DEF Gate, LandingInv
<1> QED BY <1>1, <1>2, ShipMoves DEF ShipOK

\* A push that is not a fast-forward is refused.
LEMMA LandingPush ==
  ASSUME LandingInv, NEW l \in Lander, Push(l)
  PROVE  LandingInv'
<1>1. CASE Ships(l, "stopped") /\ UNCHANGED <<main, landed>>
  BY <1>1, ShipMoves DEF Push
<1>2. CASE /\ "cached" \in CacheStatus(ship[l].sha) /\ IsPrefix(main, ship[l].sha)
           /\ main' = ship[l].sha /\ landed' = landed \cup {[sha |-> ship[l].sha, mode |-> ModeOf[l]]}
           /\ Ships(l, "done")
  <2>1. PICK y : y = ship[l] /\ ShipOK(l, y) /\ y.pc = "push"
    BY DEF LandingInv, Push
  <2>2. y.sha \in cachedAt
    BY <1>2, <2>1 DEF CacheStatus
  <2>3. Grows
    BY <1>2, <2>1 DEF Push, Grows, ShipOK
  <2>4. PICK x : x = [sha |-> y.sha, mode |-> ModeOf[l]]
    OBVIOUS
  <2>5. LandedOK(x)
    <3>1. x.sha = y.sha /\ x.mode = ModeOf[l]
      BY <2>4
    <3> QED BY <2>1, <2>2, <3>1 DEF LandedOK, ShipOK
  <2>6. \A z \in landed' : z \in landed \/ LandedOK(z)'
    BY <1>2, <2>1, <2>3, <2>4, <2>5, FoundOutStays
  <2>7. PICK q : q = [pc |-> "done", head |-> y.head, sha |-> y.sha]
    OBVIOUS
  <2>8. /\ q.pc = "done" /\ q.head = y.head /\ q.sha = y.sha
        /\ q = [pc |-> q.pc, head |-> q.head, sha |-> q.sha]
    BY <2>7
  <2>9. ShipOK(l, q)'
    BY <2>1, <2>8 DEF ShipOK
  <2>10. ship' = [ship EXCEPT ![l] = q]
    <3>1. y = [pc |-> y.pc, head |-> y.head, sha |-> y.sha]
      BY <2>1 DEF ShipOK
    <3>2. [y EXCEPT !.pc = "done"] = q
      BY ONLY <2>7, <3>1
    <3> QED BY <1>2, <2>1, <3>2 DEF Ships
  <2> QED BY <2>3, <2>6, <2>9, <2>10, LanderGoesOn DEF Push
<1> QED BY <1>1, <1>2 DEF Push

\* A lander whose push was refused starts over.
LEMMA LandingStartOver ==
  ASSUME LandingInv, NEW l \in Lander, StartOver(l)
  PROVE  LandingInv'
<1>1. Grows
  BY NothingFound DEF StartOver
<1>2. PICK q : q = [pc |-> "begin", head |-> Append(main, l), sha |-> <<>>]
  OBVIOUS
<1>3. /\ q.pc = "begin" /\ q.head = Append(main, l) /\ q.sha = <<>>
      /\ q = [pc |-> q.pc, head |-> q.head, sha |-> q.sha]
  BY <1>2
<1>4. ShipOK(l, q)'
  BY <1>3 DEF ShipOK, LandingInv
<1> QED BY <1>1, <1>2, <1>4, LanderGoesOn DEF StartOver

\* A tag is put on a commit of main that is proven.
LEMMA LandingRelease ==
  ASSUME LandingInv, NEW sha \in Prefixes(main), Release(sha)
  PROVE  LandingInv'
<1>1. Grows
  BY NothingFound DEF Release
<1>2. sha \in Seq(Lander)
  <2>1. PICK n \in 0..Len(main) : sha = SubSeq(main, 1, n)
    BY DEF Prefixes
  <2> QED BY <2>1 DEF LandingInv
<1>3. PICK r \in receipts : verify(r, sha, {"rocq-full"})
  BY DEF Release
<1>4. Good(sha, CheckSteps \cup {"rocq-full"})
  BY <1>3, VerifiedIsGood DEF LandingInv, Good
<1>5. TaggedOK(sha)
  BY <1>2, <1>4 DEF Release, TaggedOK, CacheStatus
<1>6. \A x \in tagged' : TaggedOK(x)'
  BY <1>1, <1>5, FoundOutStays DEF Release, LandingInv
<1>7. FleetOK(fleet)' /\ \A l \in Lander : ShipOK(l, ship[l])'
  <2>1. PICK y : y = fleet
    OBVIOUS
  <2>2. ASSUME NEW l \in Lander PROVE ShipOK(l, ship[l])'
    <3>1. PICK z : z = ship[l]
      OBVIOUS
    <3> QED BY <1>1, <3>1, FoundOutStays DEF LandingInv, Release
  <2> QED BY <1>1, <2>1, <2>2, FoundOutStays DEF LandingInv, Release
<1>8. (\A f \in receipts' : FleetOK(f)') /\ \A x \in landed' : LandedOK(x)'
  BY <1>1, FoundOutStays DEF LandingInv, Release
<1> QED BY <1>6, <1>7, <1>8 DEF LandingInv, Release

\* Every step keeps the invariant.
LEMMA LandingStepInv == LandingInv /\ [LandingNext]_landingVars => LandingInv'
<1> SUFFICES ASSUME LandingInv, [LandingNext]_landingVars PROVE LandingInv'
  OBVIOUS
<1>1. CASE UNCHANGED landingVars
  BY <1>1 DEF landingVars, LandingInv, ShipOK, FleetOK, ResultOK, LandedOK, TaggedOK, Gated, LastChange, Good, Checks
<1>2. CASE LandingNext
  BY <1>2, LandingStartFleet, LandingRunWorker, LandingCollect, LandingBeginShip, LandingCheckCache,
     LandingUpload, LandingAmend, LandingFinal, LandingGate, LandingPush, LandingStartOver, LandingRelease
     DEF LandingNext
<1> QED BY <1>1, <1>2

\* ReceiptIsSound, LandedIsCached, LandedIsTested, ReleaseIsProven: whatever main
\* does meanwhile, a receipt is about one commit, what is pushed is cached and has
\* passed the checks its way of landing asks for, and a tag is on a proven commit.
THEOREM LandingStaysSound ==
  LandingSpec => [](ReceiptIsSound /\ LandedIsCached /\ LandedIsTested /\ ReleaseIsProven)
<1>1. LandingSpec => []LandingInv
  BY LandingInitInv, LandingStepInv, PTL DEF LandingSpec
<1>2. LandingInv => ReceiptIsSound /\ LandedIsCached /\ LandedIsTested /\ ReleaseIsProven
  BY LandingSoundFollows
<1> QED BY <1>1, <1>2, PTL

-----------------------------------------------------------------------------
(* The check of the caches.                                                *)

-----------------------------------------------------------------------------
(* The paths that references lead to.                                      *)

\* The roots are reached.
LEMMA RootsReached ==
  ASSUME NEW roots, NEW references PROVE roots \subseteq Reached(roots, references)
  BY DEF Reached

\* What a reached path refers to is reached.
LEMMA ReachedGoesOn ==
  ASSUME NEW roots, NEW references, NEW p \in Reached(roots, references), p \in DOMAIN references
  PROVE  references[p] \subseteq Reached(roots, references)
  BY DEF Reached

\* What holds the roots and all that its paths refer to holds what is reached.
LEMMA ReachedIsLeast ==
  ASSUME NEW roots, NEW references, NEW S, roots \subseteq S,
         \A p \in S \cap DOMAIN references : references[p] \subseteq S
  PROVE  Reached(roots, references) \subseteq S
<1> DEFINE all == roots \cup UNION {references[p] : p \in DOMAIN references}
           T == S \cap all
<1>1. T \in SUBSET all /\ roots \subseteq T /\ \A p \in T \cap DOMAIN references : references[p] \subseteq T
  OBVIOUS
<1> QED BY <1>1 DEF Reached

-----------------------------------------------------------------------------
\* All that the check may look at.
Closure == Reached(UNION {RootsOf[a] : a \in {attrs[i] : i \in DOMAIN attrs}}, refs)

\* A group of caches that may hold p has it now; one had not when the check began.
FoundAt(p) == \E g \in Groups(p) : HeldIn(g, p, content)
MissedAt(p) == \E g \in Groups(p) : ~HeldIn(g, p, began)

\* What the check is given; paths are only added to the caches.
CheckGiven ==
  /\ \A p \in DOMAIN refs : refs[p] \subseteq DOMAIN refs
  /\ \A i \in DOMAIN attrs : RootsOf[attrs[i]] \subseteq DOMAIN refs
  /\ \E S : attrs \in Seq(S)
  /\ began \subseteq content

\* What was learnt of a path is true of it.
KnownOK ==
  /\ DOMAIN learnt \subseteq Closure /\ absent \subseteq DOMAIN learnt
  /\ \A p \in absent : learnt[p] = {} /\ MissedAt(p)
  /\ \A p \in DOMAIN learnt \ absent : learnt[p] = refs[p] /\ FoundAt(p)

\* A level asks for paths of one group of caches.
CachesOK(g, caches) ==
  \/ g = {"swa"} /\ caches \in {<<"swa">>, <<>>}
  \/ g = {"filc", "nixos"} /\ caches \in {<<"filc", "nixos">>, <<"nixos">>, <<>>}
Asked(g, caches) == {c \in g : \A i \in DOMAIN caches : caches[i] # c}
LevelOK(g, w) ==
  /\ w.frontier \subseteq Closure /\ w.frontier \ w.remaining \subseteq DOMAIN learnt
  /\ w.remaining \cap DOMAIN learnt = {} /\ w.remaining \subseteq w.frontier
  /\ RootsOf[Attr] \subseteq DOMAIN learnt \cup w.frontier
  /\ \A p \in DOMAIN learnt \ w.frontier : learnt[p] \subseteq DOMAIN learnt \cup w.frontier
  /\ \A p \in w.frontier : g \in Groups(p)
  /\ CachesOK(g, w.caches)
  /\ w.asking \subseteq w.remaining /\ w.hits \subseteq w.remaining \ w.asking
  /\ w.caches = <<>> => w.asking = {} /\ w.hits = {}
  /\ \A p \in w.remaining : \A c \in Asked(g, w.caches) : <<c, p>> \notin began
  /\ w.caches # <<>> => \A p \in w.remaining \ (w.asking \cup w.hits) : <<Head(w.caches), p>> \notin began
  /\ \A p \in w.hits : HeldIn(g, p, content)

\* Between levels all that the paths learnt refer to is learnt.
RestOK(w) ==
  /\ w.asking = {} /\ \A p \in DOMAIN learnt : learnt[p] \subseteq DOMAIN learnt
  /\ w.pc = "verdict" => RootsOf[Attr] \subseteq DOMAIN learnt

WaveOK(w) ==
  /\ w = [pc |-> w.pc, caches |-> w.caches, frontier |-> w.frontier, remaining |-> w.remaining,
          asking |-> w.asking, hits |-> w.hits]
  /\ w.pc \in {"outputs", "lookup", "verdict"}
  /\ w.pc # "outputs" => Len(verdicts) + 1 \in DOMAIN attrs
  /\ IF w.pc = "lookup" THEN \E g : LevelOK(g, w) ELSE RestOK(w)

\* A verdict is about the references themselves, not what was learnt of them.
RowOK(i, row) ==
  /\ row.missing = {} => \A p \in Reached(RootsOf[attrs[i]], refs) : FoundAt(p)
  /\ \A p \in row.missing : p \in Reached(RootsOf[attrs[i]], refs) /\ MissedAt(p)
RowsOK ==
  /\ \E S : verdicts \in Seq(S)
  /\ \A i \in DOMAIN verdicts : RowOK(i, verdicts[i])

CheckInv == CheckGiven /\ KnownOK /\ WaveOK(wave) /\ RowsOK

\* What the invariant says of a verdict.
LEMMA CheckSoundFollows == ASSUME CheckInv PROVE CachedIsComplete /\ MissingIsReal
  BY DEF CheckInv, RowsOK, RowOK, FoundAt, MissedAt, CachedIsComplete, MissingIsReal

\* Nothing is looked up at first.
LEMMA CheckInitInv == CheckInit => CheckInv
<1> SUFFICES ASSUME CheckInit PROVE CheckInv
  OBVIOUS
<1>1. CheckGiven
  BY CheckAssumption DEF CheckInit, CheckGiven
<1>2. KnownOK /\ RowsOK
  <2>1. learnt = <<>> /\ verdicts = <<>> /\ absent = {} /\ <<>> \in Seq({}) /\ DOMAIN <<>> = {}
    BY DEF CheckInit
  <2> QED BY <2>1 DEF KnownOK, RowsOK
<1>3. WaveOK(wave)
  <2>1. wave = NoLevel("outputs") /\ DOMAIN learnt = {}
    BY DEF CheckInit
  <2> QED BY <2>1 DEF WaveOK, RestOK, NoLevel
<1> QED BY <1>1, <1>2, <1>3 DEF CheckInv

-----------------------------------------------------------------------------
ListedAttrs == {attrs[i] : i \in DOMAIN attrs}
Below == UNION {refs[q] \ {q} : q \in Closure}
\* The caches that may hold a path.
LEMMA GroupsAre ==
  ASSUME NEW p
  PROVE  Groups(p) = (IF \E a \in ListedAttrs \cap SwaOnly : p \in RootsOf[a] THEN {{"swa"}} ELSE {})
                       \cup (IF p \in Below \/ \E a \in ListedAttrs \ SwaOnly : p \in RootsOf[a]
                             THEN {{"filc", "nixos"}} ELSE {})
  BY Zenon DEF Groups, ListedAttrs, Below, Closure
\* An output of an attribute of the swa cache may be there.
LEMMA SwaGroup ==
  ASSUME NEW p, \E a \in {attrs[j] : j \in DOMAIN attrs} \cap SwaOnly : p \in RootsOf[a]
  PROVE  {"swa"} \in Groups(p)
<1>1. \E a \in ListedAttrs \cap SwaOnly : p \in RootsOf[a]
  BY DEF ListedAttrs
<1> QED BY <1>1, GroupsAre
\* An ordinary output, or what another path refers to, may be in the others.
LEMMA OrdinaryGroup ==
  ASSUME NEW p,
         \/ p \in UNION {refs[q] \ {q} : q \in Closure}
         \/ \E a \in {attrs[j] : j \in DOMAIN attrs} \ SwaOnly : p \in RootsOf[a]
  PROVE  {"filc", "nixos"} \in Groups(p)
<1>1. p \in Below \/ \E a \in ListedAttrs \ SwaOnly : p \in RootsOf[a]
  BY DEF ListedAttrs, Below
<1> QED BY <1>1, GroupsAre

\* An output of a listed attribute.
LEMMA RootGroups ==
  ASSUME NEW i \in DOMAIN attrs, NEW p \in RootsOf[attrs[i]]
  PROVE  (IF attrs[i] \in SwaOnly THEN {"swa"} ELSE {"filc", "nixos"}) \in Groups(p) /\ p \in Closure
<1>1. attrs[i] \in {attrs[j] : j \in DOMAIN attrs}
  OBVIOUS
<1>2. p \in Closure
  BY <1>1, RootsReached DEF Closure
<1>3. CASE attrs[i] \in SwaOnly
  <2>1. \E a \in {attrs[j] : j \in DOMAIN attrs} \cap SwaOnly : p \in RootsOf[a]
    BY <1>1, <1>3
  <2>2. {"swa"} \in Groups(p)
    BY <2>1, SwaGroup
  <2> QED BY <1>2, <1>3, <2>2
<1>4. CASE attrs[i] \notin SwaOnly
  <2>1. \E a \in {attrs[j] : j \in DOMAIN attrs} \ SwaOnly : p \in RootsOf[a]
    BY <1>1, <1>4
  <2>2. {"filc", "nixos"} \in Groups(p)
    BY <2>1, OrdinaryGroup
  <2> QED BY <1>2, <1>4, <2>2
<1> QED BY <1>2, <1>3, <1>4

\* A reference of a path of the closure.
LEMMA ReferenceGroups ==
  ASSUME NEW q \in Closure, NEW p \in refs[q], p # q, q \in DOMAIN refs
  PROVE  {"filc", "nixos"} \in Groups(p) /\ p \in Closure
<1>1. p \in UNION {refs[x] \ {x} : x \in Closure}
  OBVIOUS
<1>2. {"filc", "nixos"} \in Groups(p)
  BY <1>1, OrdinaryGroup
<1> QED BY <1>2, ReachedGoesOn DEF Closure

\* The references of all that is reached are given.
LEMMA ClosureIsKnown == ASSUME CheckGiven PROVE Closure \subseteq DOMAIN refs
<1>1. UNION {RootsOf[a] : a \in {attrs[i] : i \in DOMAIN attrs}} \subseteq DOMAIN refs
  BY DEF CheckGiven
<1> QED BY <1>1, ReachedIsLeast DEF Closure, CheckGiven

\* More paths get cached: what was found out stays.
LEMMA FoundOutGrows ==
  ASSUME UNCHANGED <<attrs, refs, began>>, content \subseteq content'
  PROVE  /\ Closure' = Closure /\ \A p : Groups(p)' = Groups(p)
         /\ \A p : FoundAt(p) => FoundAt(p)'
         /\ \A p : MissedAt(p) => MissedAt(p)'
         /\ \A i, row : RowOK(i, row) => RowOK(i, row)'
         /\ CheckGiven => CheckGiven'
<1>1. Closure' = Closure /\ \A p : Groups(p)' = Groups(p)
  BY DEF Closure, Groups, Reached
<1>2. \A p : FoundAt(p) => FoundAt(p)'
  BY <1>1 DEF FoundAt, HeldIn
<1>3. \A p : MissedAt(p) => MissedAt(p)'
  BY <1>1 DEF MissedAt, HeldIn
<1>4. \A i, row : RowOK(i, row) => RowOK(i, row)'
  BY <1>2, <1>3 DEF RowOK, Reached
<1> QED BY <1>1, <1>2, <1>3, <1>4 DEF CheckGiven

\* A step that leaves the verdicts, and what was learnt, as they are.
LEMMA WaveGoesOn ==
  ASSUME CheckInv, NEW w, wave' = w, UNCHANGED <<attrs, refs, began, learnt, absent, verdicts>>,
         content \subseteq content', WaveOK(w)'
  PROVE  CheckInv'
<1>1. CheckGiven' /\ RowsOK' /\ KnownOK'
  BY FoundOutGrows DEF CheckInv, RowsOK, KnownOK
<1>2. WaveOK(wave)'
  OBVIOUS
<1> QED BY <1>1, <1>2 DEF CheckInv

\* An attribute is evaluated: the first level are its outputs.
LEMMA CheckEvaluate == ASSUME CheckInv, Evaluate PROVE CheckInv'
<1> DEFINE caches == IF Attr \in SwaOnly THEN <<"swa">> ELSE CACHES
           frontier == RootsOf[Attr] \ DOMAIN learnt
           g == IF Attr \in SwaOnly THEN {"swa"} ELSE {"filc", "nixos"}
<1>1. Len(verdicts) + 1 \in DOMAIN attrs
  BY DEF CheckInv, RowsOK, CheckGiven, Evaluate
<1>2. PICK w : w = Level(caches, frontier)
  OBVIOUS
<1>3. /\ w.pc = "lookup" /\ w.caches = caches /\ w.frontier = frontier /\ w.remaining = frontier
      /\ w.asking = frontier /\ w.hits = {}
      /\ w = [pc |-> w.pc, caches |-> w.caches, frontier |-> w.frontier, remaining |-> w.remaining,
              asking |-> w.asking, hits |-> w.hits]
  BY <1>2 DEF Level
<1>4. \A p \in frontier : g \in Groups(p) /\ p \in Closure
  BY <1>1, RootGroups DEF Attr
<1>5. \A p \in DOMAIN learnt : learnt[p] \subseteq DOMAIN learnt
  BY DEF CheckInv, WaveOK, RestOK, Evaluate
<1>6. CachesOK(g, caches) /\ Asked(g, caches) = {} /\ caches # <<>>
  BY DEF CachesOK, Asked, CACHES
<1>7. LevelOK(g, w)
  BY <1>3, <1>4, <1>5, <1>6 DEF LevelOK
<1>8. UNCHANGED <<attrs, refs, content, began, learnt, absent, verdicts>> /\ wave' = w
  BY <1>2 DEF Evaluate
<1>9. WaveOK(w)'
  <2>1. WaveOK(w)
    BY <1>1, <1>3, <1>7 DEF WaveOK
  <2> QED BY <1>8, <2>1, FoundOutGrows DEF WaveOK, LevelOK, RestOK, Attr, HeldIn
<1> QED BY <1>8, <1>9, WaveGoesOn

\* While a request is under way, the checked level is one of a group.
LEMMA LevelUnderWay ==
  ASSUME CheckInv, wave.pc = "lookup" \/ wave.asking # {}
  PROVE  /\ wave.pc = "lookup" /\ Len(verdicts) + 1 \in DOMAIN attrs
         /\ \E g : LevelOK(g, wave)
  BY DEF CheckInv, WaveOK, RestOK

\* A cache answers whether it has a path.
LEMMA CheckNarinfo == ASSUME CheckInv, NEW p, Narinfo(p) PROVE CheckInv'
<1>1. PICK v : v = wave
  OBVIOUS
<1>2. PICK g : LevelOK(g, v)
  BY <1>1, LevelUnderWay DEF Narinfo
<1>3. /\ v.pc = "lookup" /\ p \in v.asking /\ Len(verdicts) + 1 \in DOMAIN attrs
      /\ v = [pc |-> v.pc, caches |-> v.caches, frontier |-> v.frontier, remaining |-> v.remaining,
              asking |-> v.asking, hits |-> v.hits]
  BY <1>1, LevelUnderWay DEF Narinfo, CheckInv, WaveOK
<1> DEFINE hits == IF <<Head(v.caches), p>> \in content THEN v.hits \cup {p} ELSE v.hits
<1>4. PICK w : w = [pc |-> "lookup", caches |-> v.caches, frontier |-> v.frontier, remaining |-> v.remaining,
                    asking |-> v.asking \ {p}, hits |-> hits]
  OBVIOUS
<1>5. /\ w.pc = "lookup" /\ w.caches = v.caches /\ w.frontier = v.frontier /\ w.remaining = v.remaining
      /\ w.asking = v.asking \ {p} /\ w.hits = hits
      /\ w = [pc |-> w.pc, caches |-> w.caches, frontier |-> w.frontier, remaining |-> w.remaining,
              asking |-> w.asking, hits |-> w.hits]
  BY <1>4
<1>6. wave' = w /\ UNCHANGED <<attrs, refs, content, began, learnt, absent, verdicts>>
  <2>1. wave' = [v EXCEPT !.asking = v.asking \ {p}, !.hits = hits]
    BY <1>1 DEF Narinfo
  <2>2. PICK h, a : h = hits /\ a = v.asking \ {p}
    OBVIOUS
  <2> HIDE DEF hits
  <2>3. [v EXCEPT !.asking = a, !.hits = h] =
          [pc |-> v.pc, caches |-> v.caches, frontier |-> v.frontier, remaining |-> v.remaining, asking |-> a, hits |-> h]
    <3>1. PICK y : y = [pc |-> v.pc, caches |-> v.caches, frontier |-> v.frontier, remaining |-> v.remaining,
                        asking |-> a, hits |-> v.hits]
      OBVIOUS
    <3>2. [v EXCEPT !.asking = a] = y
      BY ONLY <1>3, <3>1
    <3>3. [y EXCEPT !.hits = h] =
            [pc |-> v.pc, caches |-> v.caches, frontier |-> v.frontier, remaining |-> v.remaining, asking |-> a, hits |-> h]
      BY ONLY <3>1
    <3>4. [v EXCEPT !.asking = a, !.hits = h] = [[v EXCEPT !.asking = a] EXCEPT !.hits = h]
      OBVIOUS
    <3> QED BY ONLY <3>2, <3>3, <3>4
  <2>4. wave' = w
    BY <1>3, <1>4, <2>1, <2>2, <2>3
  <2> QED BY <2>4 DEF Narinfo
<1>7. Head(v.caches) \in g /\ v.caches # <<>>
  BY <1>2, <1>3 DEF LevelOK, CachesOK
<1>8. \A q \in hits : HeldIn(g, q, content)
  BY <1>2, <1>7 DEF LevelOK, HeldIn
<1>9. p \notin hits => <<Head(v.caches), p>> \notin began
  BY DEF CheckInv, CheckGiven
<1>10. hits \subseteq v.remaining \ w.asking /\ v.hits \subseteq hits
  BY <1>2, <1>3, <1>5 DEF LevelOK
<1> HIDE DEF hits
<1>11. LevelOK(g, w)
  BY <1>2, <1>5, <1>7, <1>8, <1>9, <1>10 DEF LevelOK
<1>12. WaveOK(w)'
  <2>1. WaveOK(w)
    BY <1>3, <1>5, <1>11 DEF WaveOK
  <2> QED BY <1>6, <2>1, FoundOutGrows DEF WaveOK, LevelOK, RestOK, Attr, HeldIn
<1> QED BY <1>6, <1>12, WaveGoesOn

\* What the cache has is learnt, the next one is asked for the rest.
LEMMA CheckNextCache == ASSUME CheckInv, NextCache PROVE CheckInv'
<1>1. PICK v : v = wave
  OBVIOUS
<1>2. PICK g : LevelOK(g, v)
  BY <1>1, LevelUnderWay DEF NextCache
<1>3. /\ v.pc = "lookup" /\ v.asking = {} /\ v.caches # <<>> /\ Len(verdicts) + 1 \in DOMAIN attrs
      /\ v = [pc |-> v.pc, caches |-> v.caches, frontier |-> v.frontier, remaining |-> v.remaining,
              asking |-> v.asking, hits |-> v.hits]
  BY <1>1, LevelUnderWay DEF NextCache, CheckInv, WaveOK
<1> DEFINE rest == v.remaining \ v.hits
           asking == IF Len(v.caches) > 1 THEN rest ELSE {}
<1>4. PICK w : w = [pc |-> "lookup", caches |-> Tail(v.caches), frontier |-> v.frontier, remaining |-> rest,
                    asking |-> asking, hits |-> {}]
  OBVIOUS
<1>5. /\ w.pc = "lookup" /\ w.caches = Tail(v.caches) /\ w.frontier = v.frontier /\ w.remaining = rest
      /\ w.asking = asking /\ w.hits = {}
      /\ w = [pc |-> w.pc, caches |-> w.caches, frontier |-> w.frontier, remaining |-> w.remaining,
              asking |-> w.asking, hits |-> w.hits]
  BY <1>4
<1>6. wave' = w /\ UNCHANGED <<attrs, refs, content, began, absent, verdicts>> /\ learnt' = Known(v.hits, {})
  <2>1. wave' = [v EXCEPT !.caches = Tail(v.caches), !.remaining = rest, !.hits = {}, !.asking = asking]
    BY <1>1 DEF NextCache
  <2>2. PICK c, r, a : c = Tail(v.caches) /\ r = rest /\ a = asking
    OBVIOUS
  <2> HIDE DEF rest, asking
  <2>3. [v EXCEPT !.caches = c, !.remaining = r, !.hits = {}, !.asking = a] =
          [pc |-> v.pc, caches |-> c, frontier |-> v.frontier, remaining |-> r, asking |-> a, hits |-> {}]
    <3>1. PICK x : x = [pc |-> v.pc, caches |-> c, frontier |-> v.frontier, remaining |-> v.remaining,
                        asking |-> v.asking, hits |-> v.hits]
      OBVIOUS
    <3>2. PICK y : y = [pc |-> v.pc, caches |-> c, frontier |-> v.frontier, remaining |-> r,
                        asking |-> v.asking, hits |-> v.hits]
      OBVIOUS
    <3>3. PICK z : z = [pc |-> v.pc, caches |-> c, frontier |-> v.frontier, remaining |-> r,
                        asking |-> v.asking, hits |-> {}]
      OBVIOUS
    <3>0. v = [pc |-> v.pc, caches |-> v.caches, frontier |-> v.frontier, remaining |-> v.remaining,
               asking |-> v.asking, hits |-> v.hits]
      BY <1>3
    <3>4. [v EXCEPT !.caches = c] = x
      BY ONLY <3>0, <3>1
    <3>5. [x EXCEPT !.remaining = r] = y
      BY ONLY <3>1, <3>2
    <3>6. [y EXCEPT !.hits = {}] = z
      BY ONLY <3>2, <3>3
    <3>7. [z EXCEPT !.asking = a] =
            [pc |-> v.pc, caches |-> c, frontier |-> v.frontier, remaining |-> r, asking |-> a, hits |-> {}]
      BY ONLY <3>3
    <3>8. [v EXCEPT !.caches = c, !.remaining = r, !.hits = {}, !.asking = a]
          = [[[[v EXCEPT !.caches = c] EXCEPT !.remaining = r] EXCEPT !.hits = {}] EXCEPT !.asking = a]
      OBVIOUS
    <3> QED BY ONLY <3>4, <3>5, <3>6, <3>7, <3>8
  <2>4. wave' = w
    BY <1>3, <1>4, <2>1, <2>2, <2>3
  <2> QED BY <1>1, <2>4 DEF NextCache
<1>7. /\ CachesOK(g, Tail(v.caches)) /\ Asked(g, Tail(v.caches)) \subseteq Asked(g, v.caches) \cup {Head(v.caches)}
      /\ Tail(v.caches) = <<>> => asking = {}
      /\ Tail(v.caches) # <<>> => asking = rest
  <2>1. CASE g = {"swa"} /\ v.caches = <<"swa">>
    BY <2>1 DEF CachesOK, Asked
  <2>2. CASE g = {"filc", "nixos"} /\ v.caches = <<"filc", "nixos">>
    <3>1. Tail(v.caches) = <<"nixos">> /\ Head(v.caches) = "filc" /\ Len(v.caches) = 2
      BY <2>2
    <3> QED BY <2>2, <3>1 DEF CachesOK, Asked
  <2>3. CASE g = {"filc", "nixos"} /\ v.caches = <<"nixos">>
    <3>1. Tail(v.caches) = <<>> /\ Head(v.caches) = "nixos" /\ Len(v.caches) = 1
      BY <2>3
    <3> QED BY <2>3, <3>1 DEF CachesOK, Asked
  <2> QED BY <1>2, <1>3, <2>1, <2>2, <2>3 DEF LevelOK, CachesOK
<1>8. /\ DOMAIN learnt' = DOMAIN learnt \cup v.hits
      /\ \A q \in v.hits : learnt'[q] = refs[q]
      /\ \A q \in DOMAIN learnt \ v.hits : learnt'[q] = learnt[q]
  BY <1>6 DEF Known
<1>9. v.hits \cap DOMAIN learnt = {} /\ v.hits \subseteq v.frontier /\ v.hits \subseteq v.remaining
  BY <1>2 DEF LevelOK
<1>10. (CheckGiven /\ RowsOK)' /\ Closure' = Closure /\ \A q : Groups(q)' = Groups(q)
  BY <1>6, FoundOutGrows DEF CheckInv, RowsOK
<1>11. KnownOK'
  <2>1. \A q \in v.hits : FoundAt(q)
    BY <1>2, <1>9 DEF LevelOK, FoundAt
  <2>2. \A q \in DOMAIN learnt' \ absent' : learnt'[q] = refs[q] /\ FoundAt(q)
    BY <1>6, <1>8, <2>1 DEF CheckInv, KnownOK
  <2>3. \A q \in absent : learnt'[q] = {} /\ MissedAt(q)
    BY <1>8, <1>9 DEF CheckInv, KnownOK
  <2>4. DOMAIN learnt' \subseteq Closure
    BY <1>2, <1>8, <1>9 DEF CheckInv, KnownOK, LevelOK
  <2>5. absent \subseteq DOMAIN learnt'
    BY <1>8 DEF CheckInv, KnownOK
  <2> QED BY <1>6, <1>10, <2>2, <2>3, <2>4, <2>5, FoundOutGrows DEF KnownOK
<1>12. WaveOK(w)'
  <2> HIDE DEF asking, rest
  <2>1. w.frontier \ w.remaining \subseteq DOMAIN learnt' /\ w.remaining \cap DOMAIN learnt' = {} /\ w.remaining \subseteq w.frontier
    BY <1>2, <1>5, <1>8, <1>9 DEF LevelOK, rest
  <2>2. RootsOf[Attr] \subseteq DOMAIN learnt' \cup w.frontier
    BY <1>2, <1>5, <1>8 DEF LevelOK
  <2>3. \A q \in DOMAIN learnt' \ w.frontier : learnt'[q] \subseteq DOMAIN learnt' \cup w.frontier
    BY <1>2, <1>5, <1>8, <1>9 DEF LevelOK
  <2>4. w.asking \subseteq w.remaining /\ w.hits \subseteq w.remaining \ w.asking
        /\ (w.caches = <<>> => w.asking = {} /\ w.hits = {})
        /\ (w.caches # <<>> => \A q \in w.remaining \ (w.asking \cup w.hits) : <<Head(w.caches), q>> \notin began)
    BY <1>5, <1>7 DEF asking
  <2>5. \A q \in w.remaining : \A c \in Asked(g, w.caches) : <<c, q>> \notin began
    BY <1>2, <1>3, <1>5, <1>7 DEF LevelOK, rest
  <2>6. w.frontier \subseteq Closure /\ (\A q \in w.frontier : g \in Groups(q)) /\ CachesOK(g, w.caches)
    BY <1>2, <1>5, <1>7 DEF LevelOK
  <2>7. Attr' = Attr
    BY <1>6 DEF Attr
  <2>8. LevelOK(g, w)'
    BY <1>5, <1>6, <1>10, <2>1, <2>2, <2>3, <2>4, <2>5, <2>6, <2>7 DEF LevelOK
  <2> QED BY <1>3, <1>5, <1>6, <2>8 DEF WaveOK
<1> QED BY <1>6, <1>10, <1>11, <1>12 DEF CheckInv

\* What no cache has is missing; the next level are the references.
LEMMA CheckNextLevel == ASSUME CheckInv, NextLevel PROVE CheckInv'
<1>1. PICK v : v = wave
  OBVIOUS
<1>2. PICK g : LevelOK(g, v)
  BY <1>1, LevelUnderWay DEF NextLevel
<1>3. v.pc = "lookup" /\ v.caches = <<>> /\ Len(verdicts) + 1 \in DOMAIN attrs
  BY <1>1, LevelUnderWay DEF NextLevel
<1>4. PICK all : all = Known({}, v.remaining)
  OBVIOUS
<1> DEFINE next == (UNION {all[p] : p \in v.frontier}) \ DOMAIN all
<1>5. /\ absent' = absent \cup v.remaining /\ learnt' = all
      /\ wave' = IF next = {} THEN NoLevel("verdict") ELSE Level(CACHES, next)
      /\ UNCHANGED <<attrs, refs, content, began, verdicts>>
  BY <1>1, <1>4 DEF NextLevel
<1>6. /\ DOMAIN all = DOMAIN learnt \cup v.remaining
      /\ \A q \in v.remaining : all[q] = {}
      /\ \A q \in DOMAIN learnt \ v.remaining : all[q] = learnt[q]
  BY <1>4 DEF Known
<1>7. (CheckGiven /\ RowsOK)' /\ Closure' = Closure /\ \A q : Groups(q)' = Groups(q)
  BY <1>5, FoundOutGrows DEF CheckInv, RowsOK
<1>8. v.remaining \cap DOMAIN learnt = {} /\ v.frontier \subseteq DOMAIN all
  BY <1>2, <1>6 DEF LevelOK
<1>9. KnownOK'
  <2>1. Asked(g, v.caches) = g /\ g # {}
    <3>1. g # {}
      BY <1>2 DEF LevelOK, CachesOK
    <3>2. DOMAIN v.caches = {}
      BY <1>3
    <3> QED BY <3>1, <3>2 DEF Asked
  <2>2. \A q \in v.remaining : MissedAt(q)
    BY <1>2, <2>1 DEF LevelOK, MissedAt, HeldIn
  <2>3. \A q \in absent' : all[q] = {} /\ MissedAt(q)
    BY <1>5, <1>6, <1>8, <2>2 DEF CheckInv, KnownOK
  <2>4. \A q \in DOMAIN all \ absent' : all[q] = refs[q] /\ FoundAt(q)
    BY <1>5, <1>6, <1>8 DEF CheckInv, KnownOK
  <2>5. DOMAIN all \subseteq Closure /\ absent' \subseteq DOMAIN all
    BY <1>2, <1>5, <1>6 DEF CheckInv, KnownOK, LevelOK
  <2> QED BY <1>5, <1>7, <2>3, <2>4, <2>5, FoundOutGrows DEF KnownOK
<1>10. \A p \in DOMAIN all : all[p] \subseteq DOMAIN all \cup next
  <2> SUFFICES ASSUME NEW p \in DOMAIN all PROVE all[p] \subseteq DOMAIN all \cup next
    OBVIOUS
  <2>1. CASE p \in v.frontier
    BY ONLY <2>1 DEF next
  <2>2. CASE p \notin v.frontier
    BY <1>2, <1>6, <1>8, <2>2 DEF LevelOK
  <2> QED BY <2>1, <2>2
<1>11. RootsOf[Attr] \subseteq DOMAIN all /\ Attr' = Attr
  BY <1>2, <1>5, <1>8, <1>6 DEF LevelOK, Attr
<1>12. CASE next = {}
  <2>1. wave' = NoLevel("verdict")
    BY <1>5, <1>12
  <2>2. RestOK(NoLevel("verdict"))'
    BY <1>5, <1>10, <1>11, <1>12 DEF RestOK, NoLevel
  <2>3. WaveOK(NoLevel("verdict"))'
    BY <1>3, <1>5, <2>2 DEF WaveOK, NoLevel
  <2> QED BY <1>7, <1>9, <2>1, <2>3 DEF CheckInv
<1>13. CASE next # {}
  <2>1. PICK w : w = Level(CACHES, next)
    OBVIOUS
  <2>2. /\ w.pc = "lookup" /\ w.caches = CACHES /\ w.frontier = next /\ w.remaining = next
        /\ w.asking = next /\ w.hits = {}
        /\ w = [pc |-> w.pc, caches |-> w.caches, frontier |-> w.frontier, remaining |-> w.remaining,
                asking |-> w.asking, hits |-> w.hits]
    BY <2>1 DEF Level
  <2>3. \A p \in next : {"filc", "nixos"} \in Groups(p) /\ p \in Closure
    <3> SUFFICES ASSUME NEW p \in next PROVE {"filc", "nixos"} \in Groups(p) /\ p \in Closure
      OBVIOUS
    <3>1. PICK q \in v.frontier : p \in all[q] /\ p \notin DOMAIN all
      BY ONLY p \in next DEF next
    <3>2. all[q] = refs[q] /\ p # q /\ q \in Closure /\ q \in DOMAIN refs
      BY <1>2, <1>6, <1>8, <3>1, ClosureIsKnown DEF CheckInv, KnownOK, LevelOK
    <3> QED BY <3>1, <3>2, ReferenceGroups
  <2>4. CachesOK({"filc", "nixos"}, CACHES) /\ Asked({"filc", "nixos"}, CACHES) = {} /\ CACHES # <<>>
    BY DEF CachesOK, Asked, CACHES
  <2>5. next \cap DOMAIN all = {}
    BY ONLY TRUE DEF next
  <2>6. LevelOK({"filc", "nixos"}, w)'
    <3> HIDE DEF next
    <3> QED BY <1>5, <1>7, <1>10, <1>11, <2>2, <2>3, <2>4, <2>5 DEF LevelOK
  <2>7. WaveOK(w)'
    BY <1>3, <1>5, <2>2, <2>6 DEF WaveOK
  <2>8. wave' = w
    BY <1>5, <1>13, <2>1
  <2> QED BY <1>7, <1>9, <2>7, <2>8 DEF CheckInv
<1> QED BY <1>12, <1>13

\* The verdict on an attribute, from what has been learnt of its closure.
LEMMA CheckVerdict == ASSUME CheckInv, Verdict PROVE CheckInv'
<1> DEFINE roots == RootsOf[Attr]
           paths == Reached(roots, learnt)
           row == [paths |-> paths, missing |-> paths \cap absent]
           n == Len(verdicts) + 1
<1>1. /\ wave.pc = "verdict" /\ verdicts' = Append(verdicts, row) /\ wave' = NoLevel("outputs")
      /\ UNCHANGED <<attrs, refs, content, began, learnt, absent>>
  BY DEF Verdict
<1>2. roots \subseteq DOMAIN learnt /\ \A p \in DOMAIN learnt : learnt[p] \subseteq DOMAIN learnt
  BY <1>1 DEF CheckInv, WaveOK, RestOK
<1>3. paths \subseteq DOMAIN learnt
  BY <1>2, ReachedIsLeast
<1>4. Closure \subseteq DOMAIN refs
  BY ClosureIsKnown DEF CheckInv
<1>5. paths \subseteq Reached(roots, refs)
  <2>1. \A p \in DOMAIN learnt : p \in DOMAIN refs /\ learnt[p] \subseteq refs[p]
    BY <1>4 DEF CheckInv, KnownOK
  <2>2. \A p \in Reached(roots, refs) \cap DOMAIN learnt : learnt[p] \subseteq Reached(roots, refs)
    BY <2>1, ReachedGoesOn
  <2> QED BY <2>2, RootsReached, ReachedIsLeast
<1>6. ASSUME paths \cap absent = {} PROVE Reached(roots, refs) \subseteq paths
  <2>1. \A p \in paths : learnt[p] = refs[p]
    BY <1>3, <1>6 DEF CheckInv, KnownOK
  <2>2. \A p \in paths \cap DOMAIN refs : refs[p] \subseteq paths
    BY <1>3, <2>1, ReachedGoesOn
  <2> QED BY <2>2, RootsReached, ReachedIsLeast
<1>7. RowOK(n, row)
  <2>1. row.missing = paths \cap absent /\ attrs[n] = Attr
    BY DEF Attr
  <2>2. paths \cap absent = {} => \A p \in Reached(roots, refs) : FoundAt(p)
    BY <1>3, <1>6 DEF CheckInv, KnownOK
  <2>3. \A p \in paths \cap absent : p \in Reached(roots, refs) /\ MissedAt(p)
    BY <1>5 DEF CheckInv, KnownOK
  <2> HIDE DEF paths, row, n
  <2> QED BY <2>1, <2>2, <2>3 DEF RowOK
<1>8. (CheckGiven /\ KnownOK)' /\ \A i, r : RowOK(i, r) => RowOK(i, r)'
  BY <1>1, FoundOutGrows DEF CheckInv, KnownOK
<1>9. RowsOK'
  <2>1. PICK S : verdicts \in Seq(S)
    BY DEF CheckInv, RowsOK
  <2>2. PICK r : r = row
    OBVIOUS
  <2> HIDE DEF row
  <2>3. verdicts' \in Seq(S \cup {r}) /\ DOMAIN verdicts' = DOMAIN verdicts \cup {n}
        /\ verdicts'[n] = r /\ \A i \in DOMAIN verdicts : verdicts'[i] = verdicts[i]
    BY <1>1, <2>1, <2>2
  <2>4. \A i \in DOMAIN verdicts : RowOK(i, verdicts[i])
    BY DEF CheckInv, RowsOK
  <2> HIDE DEF n
  <2>5. \A i \in DOMAIN verdicts' : RowOK(i, verdicts'[i])
    BY <1>7, <2>2, <2>3, <2>4
  <2>6. \A i \in DOMAIN verdicts' : RowOK(i, verdicts[i])'
    BY <1>8, <2>5
  <2> QED BY <2>3, <2>6 DEF RowsOK
<1>10. WaveOK(wave)'
  <2>1. RestOK(NoLevel("outputs"))'
    BY <1>1, <1>2 DEF RestOK, NoLevel
  <2>2. WaveOK(NoLevel("outputs"))'
    BY <2>1 DEF WaveOK, NoLevel
  <2> QED BY <1>1, <2>2
<1> QED BY <1>8, <1>9, <1>10 DEF CheckInv

\* A path is published while the check runs.
LEMMA CheckPublish ==
  ASSUME CheckInv, NEW entry, PublishMeanwhile(entry)
  PROVE  CheckInv'
<1>1. content \subseteq content' /\ UNCHANGED <<attrs, refs, began, learnt, absent, verdicts, wave>>
  BY DEF PublishMeanwhile
<1>2. PICK w : w = wave
  OBVIOUS
<1>3. WaveOK(w)'
  BY <1>1, <1>2, FoundOutGrows DEF CheckInv, WaveOK, LevelOK, RestOK, Attr, HeldIn
<1> QED BY <1>1, <1>2, <1>3, WaveGoesOn

\* Every step keeps the invariant.
LEMMA CheckStepInv == CheckInv /\ [CheckNext]_checkVars => CheckInv'
<1> SUFFICES ASSUME CheckInv, [CheckNext]_checkVars PROVE CheckInv'
  OBVIOUS
<1>1. CASE UNCHANGED <<attrs, refs, content, began, learnt, absent, wave, verdicts>>
  <2>1. PICK w : w = wave
    OBVIOUS
  <2>2. WaveOK(w)'
    BY <1>1, <2>1, FoundOutGrows DEF CheckInv, WaveOK, LevelOK, RestOK, Attr, HeldIn
  <2> QED BY <1>1, <2>1, <2>2, WaveGoesOn
<1>2. CASE CheckNext
  BY <1>1, <1>2, CheckEvaluate, CheckNarinfo, CheckNextCache, CheckNextLevel, CheckVerdict, CheckPublish
     DEF CheckNext, Conclude, CheckFails
<1>3. CASE UNCHANGED checkVars
  BY <1>1, <1>3 DEF checkVars
<1> QED BY <1>2, <1>3

\* CachedIsComplete, MissingIsReal: a check that finds nothing missing has found
\* all that the outputs refer to, and what it names was not there when it began.
THEOREM CheckStaysSound == CheckSpec => [](CachedIsComplete /\ MissingIsReal)
<1>1. CheckSpec => []CheckInv
  BY CheckInitInv, CheckStepInv, PTL DEF CheckSpec
<1>2. CheckInv => CachedIsComplete /\ MissingIsReal
  BY CheckSoundFollows
<1> QED BY <1>1, <1>2, PTL

-----------------------------------------------------------------------------
(* The benchmark.                                                          *)

BusyPlaces == {"quiet", "probe", "measure"}
Places == BusyPlaces \cup {"off", "failed", "timeout", "passed", "killed"}
States == {"starting", "bound", "ended", "crashed"}

\* The clean results of the servers of a harness.
CleanOf(h) == {r \in recorded : servers[r.server].of = h /\ r.clean}
Judged(q) == q.mode \in {"check", "service"}

\* What a harness knows of its server and of the variants that are done.
HarnessOK(h, q) ==
  /\ q = [pc |-> q.pc, mode |-> q.mode, done |-> q.done, server |-> q.server,
          got |-> q.got, own |-> q.own, ok |-> q.ok]
  /\ q.pc \in Places
  /\ q.pc = "off" => q.done = 0 /\ CleanOf(h) = {}
  /\ q.pc \in BusyPlaces =>
       /\ q.done \in Nat /\ q.done < Variant
       /\ Judged(q) /\ q.ok => Cardinality(CleanOf(h)) = q.done
  /\ q.pc \in {"probe", "measure"} =>
       /\ q.server \in DOMAIN servers /\ servers[q.server].of = h
       /\ \A r \in recorded : r.server # q.server
       /\ q.own \/ servers[q.server].state = "crashed"
  /\ q.pc = "measure" => servers[q.server].state \in {"bound", "crashed"}
  /\ q.pc = "passed" /\ Judged(q) => Cardinality(CleanOf(h)) = Variant

\* A server that is about is one of its harness, or was left behind.
ServerOK(s, v) ==
  v.state \in Alive =>
    \/ harness[v.of].pc \in {"killed", "timeout"}
    \/ harness[v.of].pc \in {"probe", "measure"} /\ harness[v.of].server = s

\* The port has at most one server, the one that is bound.
PortOK ==
  /\ port # 0 => port \in DOMAIN servers /\ servers[port].state = "bound"
  /\ \A s \in DOMAIN servers : servers[s].state = "bound" => port = s

\* The lock file is held by the harness that is busy.
FlockOK ==
  /\ flock # NoHarness => flock \in Harness
  /\ \A h \in Harness : flock = h <=> harness[h].pc \in BusyPlaces

\* A result is of the harness's own server, unless that has crashed.
RecordsOK ==
  /\ IsFiniteSet(recorded)
  /\ \A r \in recorded : r.server \in DOMAIN servers /\ (r.own \/ servers[r.server].state = "crashed")

BenchInv ==
  /\ DOMAIN harness = Harness /\ \A h \in Harness : HarnessOK(h, harness[h])
  /\ servers \in Seq([state : States, of : Harness]) /\ \A s \in DOMAIN servers : ServerOK(s, servers[s])
  /\ PortOK /\ FlockOK /\ RecordsOK

\* The elements of a sequence.
LEMMA ElementAt == ASSUME NEW S, NEW q \in Seq(S), NEW i \in DOMAIN q PROVE q[i] \in S
  OBVIOUS

\* A server has a state and a harness.
LEMMA ServerFields ==
  ASSUME BenchInv, NEW s \in DOMAIN servers PROVE servers[s] \in [state : States, of : Harness]
<1>1. PICK S : S = [state : States, of : Harness]
  OBVIOUS
<1>2. servers \in Seq(S)
  BY <1>1 DEF BenchInv
<1>3. servers[s] \in S
  BY <1>2, ElementAt
<1> QED BY <1>1, <1>3

\* What the invariant says of measurements and verdicts.
LEMMA BenchSoundFollows ==
  ASSUME BenchInv
  PROVE  MeasuredIsOwn /\ OneMeasurement /\ PassedIsClean /\ ServersStopped
<1>1. MeasuredIsOwn
  BY DEF BenchInv, RecordsOK, MeasuredIsOwn
<1>2. OneMeasurement
  <2> DEFINE busy == {h \in Harness : In(h, {"quiet", "probe", "measure"})}
  <2>1. busy = {h \in Harness : flock = h}
    BY DEF BenchInv, FlockOK, In, BusyPlaces
  <2>2. CASE flock = NoHarness
    <3>1. busy = {}
      BY <2>1, <2>2, BenchAssumption DEF NoHarness
    <3>2. Cardinality({}) = 0
      BY FS_EmptySet
    <3> HIDE DEF busy
    <3>3. Cardinality(busy) <= 1 /\ (flock = NoHarness <=> busy = {})
      BY <2>2, <3>1, <3>2
    <3> QED BY <3>3 DEF OneMeasurement, busy
  <2>3. CASE flock # NoHarness
    <3>1. busy = {flock}
      BY <2>1, <2>3 DEF BenchInv, FlockOK
    <3>2. Cardinality({flock}) = 1
      BY FS_Singleton
    <3> HIDE DEF busy
    <3>3. Cardinality(busy) <= 1 /\ (flock = NoHarness <=> busy = {})
      BY <2>3, <3>1, <3>2
    <3> QED BY <3>3 DEF OneMeasurement, busy
  <2> QED BY <2>2, <2>3
<1>3. PassedIsClean
  BY DEF BenchInv, HarnessOK, PassedIsClean, In, CleanOf, Judged
<1>4. ServersStopped
  BY DEF BenchInv, ServerOK, ServersStopped, In
<1> QED BY <1>1, <1>2, <1>3, <1>4

\* No harness and no server has been started.
LEMMA BenchInitInv == BenchInit => BenchInv
<1> SUFFICES ASSUME BenchInit PROVE BenchInv
  OBVIOUS
<1>1. DOMAIN servers = {} /\ servers \in Seq([state : States, of : Harness]) /\ recorded = {}
  BY DEF BenchInit
<1>2. ASSUME NEW h \in Harness PROVE HarnessOK(h, harness[h]) /\ harness[h].pc = "off"
  <2>1. harness[h] = [pc |-> "off", mode |-> "run", done |-> 0, server |-> 0,
                      got |-> <<>>, own |-> TRUE, ok |-> TRUE]
    BY DEF BenchInit, Ready
  <2> QED BY <1>1, <2>1 DEF HarnessOK, Places, BusyPlaces, CleanOf
<1>3. PortOK /\ FlockOK /\ RecordsOK
  BY <1>1, <1>2, BenchAssumption, FS_EmptySet DEF BenchInit, PortOK, FlockOK, RecordsOK, NoHarness, BusyPlaces
<1> QED BY <1>1, <1>2, <1>3 DEF BenchInit, BenchInv

-----------------------------------------------------------------------------
\* What a step does to the servers of other harnesses than h: they may come as far
\* as the port, and die.
ServersGoOn(h) ==
  /\ servers' \in Seq([state : States, of : Harness]) /\ DOMAIN servers \subseteq DOMAIN servers'
  /\ \A s \in DOMAIN servers :
       /\ servers'[s].of = servers[s].of
       /\ servers[s].state = "crashed" => servers'[s].state = "crashed"
       /\ servers'[s].state \in Alive => servers[s].state \in Alive
       /\ servers[s].of # h /\ servers[s].state = "bound" => servers'[s].state \in {"bound", "crashed"}
  /\ \A s \in DOMAIN servers' \ DOMAIN servers : servers'[s].of = h

\* What one harness does leaves what the others know.
LEMMA OthersGoOn ==
  ASSUME BenchInv, NEW h, ServersGoOn(h),
         \A r \in recorded' : r \in recorded \/ (r.server \in DOMAIN servers /\ servers[r.server].of = h),
         recorded \subseteq recorded'
  PROVE  /\ \A k \in Harness : k # h => CleanOf(k)' = CleanOf(k)
         /\ \A k \in Harness : \A q : k # h /\ HarnessOK(k, q) => HarnessOK(k, q)'
<1>1. ASSUME NEW k \in Harness, k # h PROVE CleanOf(k)' = CleanOf(k)
  <2>1. \A r \in recorded : r.server \in DOMAIN servers /\ servers'[r.server].of = servers[r.server].of
    BY DEF BenchInv, RecordsOK, ServersGoOn
  <2>2. \A r \in recorded' : r \notin recorded => servers'[r.server].of = h
    BY DEF ServersGoOn
  <2> QED BY <1>1, <2>1, <2>2 DEF CleanOf
<1>2. ASSUME NEW k \in Harness, NEW q, k # h, HarnessOK(k, q) PROVE HarnessOK(k, q)'
  <2>1. CleanOf(k)' = CleanOf(k)
    BY <1>1, <1>2
  <2>2. q.pc \in {"probe", "measure"} =>
          /\ q.server \in DOMAIN servers' /\ servers'[q.server].of = k
          /\ \A r \in recorded' : r.server # q.server
          /\ q.own \/ servers'[q.server].state = "crashed"
    BY <1>2 DEF HarnessOK, ServersGoOn
  <2>3. q.pc = "measure" => servers'[q.server].state \in {"bound", "crashed"}
    BY <1>2 DEF HarnessOK, ServersGoOn
  <2> QED BY <1>2, <2>1, <2>2, <2>3 DEF HarnessOK
<1> QED BY <1>1, <1>2

\* A step of one harness.
LEMMA HarnessGoesOn ==
  ASSUME BenchInv, NEW h \in Harness, NEW q, harness' = [harness EXCEPT ![h] = q], HarnessOK(h, q)',
         ServersGoOn(h),
         \A r \in recorded' : r \in recorded \/ (r.server \in DOMAIN servers /\ servers[r.server].of = h),
         recorded \subseteq recorded',
         \A s \in DOMAIN servers' : servers'[s].of = h /\ servers'[s].state \in Alive =>
           q.pc \in {"killed", "timeout"} \/ (q.pc \in {"probe", "measure"} /\ q.server = s),
         PortOK', RecordsOK',
         IF q.pc \in BusyPlaces THEN flock' = h /\ flock \in {h, NoHarness}
         ELSE flock' = (IF flock = h THEN NoHarness ELSE flock)
  PROVE  BenchInv'
<1>1. DOMAIN harness' = Harness /\ harness'[h] = q /\ \A k \in Harness : k # h => harness'[k] = harness[k]
  BY DEF BenchInv
<1>2. ASSUME NEW k \in Harness PROVE HarnessOK(k, harness[k])'
  <2>1. CASE k = h
    BY <1>1, <2>1
  <2>2. CASE k # h
    <3>1. PICK y : y = harness[k] /\ HarnessOK(k, y)
      BY DEF BenchInv
    <3>2. HarnessOK(k, y)'
      BY <2>2, <3>1, OthersGoOn
    <3> QED BY <1>1, <2>2, <3>1, <3>2
  <2> QED BY <2>1, <2>2
<1>3. ASSUME NEW s \in DOMAIN servers' PROVE ServerOK(s, servers[s])'
  <2>1. CASE servers'[s].of = h
    BY <1>1, <2>1 DEF ServerOK
  <2>2. CASE servers'[s].of # h
    <3>1. s \in DOMAIN servers /\ servers'[s].of = servers[s].of
      BY <2>2 DEF ServersGoOn
    <3>2. servers[s].of \in Harness
      <4>1. servers[s] \in [state : States, of : Harness]
        BY <3>1, ServerFields
      <4> QED BY <4>1
    <3> QED BY <1>1, <2>2, <3>1, <3>2 DEF ServerOK, BenchInv, ServersGoOn
  <2> QED BY <2>1, <2>2
<1>4. FlockOK'
  BY <1>1, BenchAssumption DEF BenchInv, FlockOK, NoHarness
<1> QED BY <1>1, <1>2, <1>3, <1>4 DEF BenchInv, ServersGoOn

\* A step of a harness that leaves the servers and the results as they are.
LEMMA HarnessAlone ==
  ASSUME BenchInv, NEW h \in Harness, NEW q, harness' = [harness EXCEPT ![h] = q], HarnessOK(h, q),
         UNCHANGED <<servers, port, recorded>>,
         \A s \in DOMAIN servers : servers[s].of = h /\ servers[s].state \in Alive =>
           q.pc \in {"killed", "timeout"} \/ (q.pc \in {"probe", "measure"} /\ q.server = s),
         IF q.pc \in BusyPlaces THEN flock' = h /\ flock \in {h, NoHarness}
         ELSE flock' = (IF flock = h THEN NoHarness ELSE flock)
  PROVE  BenchInv'
<1>1. ServersGoOn(h)
  BY DEF ServersGoOn, BenchInv
<1>2. PortOK' /\ RecordsOK'
  BY DEF BenchInv, PortOK, RecordsOK
<1>3. HarnessOK(h, q)'
  BY DEF HarnessOK, CleanOf
<1>4. \A s \in DOMAIN servers' : servers'[s].of = h /\ servers'[s].state \in Alive =>
           q.pc \in {"killed", "timeout"} \/ (q.pc \in {"probe", "measure"} /\ q.server = s)
  OBVIOUS
<1>5. recorded \subseteq recorded' /\ \A r \in recorded' : r \in recorded \/ (r.server \in DOMAIN servers /\ servers[r.server].of = h)
  OBVIOUS
<1>6. IF q.pc \in BusyPlaces THEN flock' = h /\ flock \in {h, NoHarness}
      ELSE flock' = (IF flock = h THEN NoHarness ELSE flock)
  OBVIOUS
<1> QED BY <1>1, <1>2, <1>3, <1>4, <1>5, <1>6, HarnessGoesOn

\* The harness stops its server.
LEMMA StopServer ==
  ASSUME BenchInv, NEW h \in Harness, harness[h].pc \in {"probe", "measure"},
         servers' = Stopped(h), port' = PortWithout(h)
  PROVE  /\ ServersGoOn(h) /\ PortOK' /\ DOMAIN servers' = DOMAIN servers
         /\ \A s \in DOMAIN servers : servers'[s].of = h => servers'[s].state \notin Alive
         /\ \A s \in DOMAIN servers : servers[s].of = h /\ servers'[s].state = "crashed" => servers[s].state = "crashed"
<1> DEFINE t == harness[h].server
<1>1. HarnessOK(h, harness[h])
  BY DEF BenchInv
<1>2. t \in DOMAIN servers /\ servers[t].of = h
  BY <1>1 DEF HarnessOK
<1> HIDE DEF t
<1>3. servers' = IF servers[t].state \in Alive THEN [servers EXCEPT ![t].state = "ended"] ELSE servers
  BY DEF Stopped, Server, t
<1>4. /\ DOMAIN servers' = DOMAIN servers
      /\ \A s \in DOMAIN servers : s # t => servers'[s] = servers[s]
      /\ servers'[t].of = h
      /\ IF servers[t].state \in Alive THEN servers'[t].state = "ended" ELSE servers'[t].state = servers[t].state
  BY <1>2, <1>3 DEF BenchInv
<1>5. servers' \in Seq([state : States, of : Harness])
  <2>1. servers[t] \in [state : States, of : Harness] /\ servers \in Seq([state : States, of : Harness])
    BY <1>2, ServerFields DEF BenchInv
  <2>2. [servers[t] EXCEPT !.state = "ended"] \in [state : States, of : Harness]
    BY <2>1 DEF States
  <2>3. [servers EXCEPT ![t].state = "ended"] = [servers EXCEPT ![t] = [servers[t] EXCEPT !.state = "ended"]]
    BY <1>2
  <2> QED BY <1>2, <1>3, <2>1, <2>2, <2>3
<1>6. \A s \in DOMAIN servers : servers[s].of = h /\ s # t => servers[s].state \notin Alive
  BY DEF BenchInv, ServerOK, t
<1>7. ServersGoOn(h)
  BY <1>2, <1>4, <1>5 DEF ServersGoOn, Alive
<1>8. PortOK'
  <2>1. port' = IF port = t THEN 0 ELSE port
    BY DEF PortWithout, t
  <2> QED BY <1>2, <1>4, <2>1 DEF BenchInv, PortOK, Alive
<1> QED BY <1>2, <1>4, <1>6, <1>7, <1>8 DEF Alive

\* The servers of a harness that has none under way.
LEMMA NoneAbout ==
  ASSUME BenchInv, NEW h \in Harness, harness[h].pc \in {"off", "quiet"}
  PROVE  \A s \in DOMAIN servers : servers[s].of = h => servers[s].state \notin Alive
  BY DEF BenchInv, ServerOK

\* A process that has ended.
EndedAs(place, mode) == [pc |-> place, mode |-> mode, done |-> 0, server |-> 0, got |-> <<>>, own |-> TRUE, ok |-> TRUE]
\* A harness that has ended knows nothing of servers.
LEMMA EndedOK ==
  ASSUME NEW h, NEW mode, NEW place \in {"failed", "timeout", "killed", "passed"},
         place = "passed" /\ mode \in {"check", "service"} => Cardinality(CleanOf(h)) = Variant
  PROVE  HarnessOK(h, EndedAs(place, mode)) /\ EndedAs(place, mode).pc = place
  BY DEF HarnessOK, EndedAs, Places, BusyPlaces, Judged

\* A harness exits: the lock file is free if it was its.
LEMMA ExitIs ==
  ASSUME NEW h, NEW place, Exit(h, place)
  PROVE  /\ harness' = [harness EXCEPT ![h] = EndedAs(place, harness[h].mode)]
         /\ flock' = IF flock = h THEN NoHarness ELSE flock
<1>1. PICK m : m = harness[h].mode
  OBVIOUS
<1>2. [Ready EXCEPT !.pc = place, !.mode = m] = EndedAs(place, m)
  <2>1. [Ready EXCEPT !.pc = place] = [pc |-> place, mode |-> "run", done |-> 0, server |-> 0,
                                    got |-> <<>>, own |-> TRUE, ok |-> TRUE]
    <3>1. PICK r : r = Ready
      OBVIOUS
    <3>2. PICK e, u : e = <<>> /\ u = TRUE
      OBVIOUS
    <3>3. r = [pc |-> "off", mode |-> "run", done |-> 0, server |-> 0, got |-> e, own |-> u, ok |-> u]
      BY <3>1, <3>2 DEF Ready
    <3>4. [r EXCEPT !.pc = place] = [pc |-> place, mode |-> "run", done |-> 0, server |-> 0, got |-> e, own |-> u, ok |-> u]
      BY ONLY <3>3
    <3> QED BY ONLY <3>1, <3>2, <3>4
  <2>2. PICK y : y = [pc |-> place, mode |-> "run", done |-> 0, server |-> 0, got |-> <<>>, own |-> TRUE, ok |-> TRUE]
    OBVIOUS
  <2>3. [y EXCEPT !.mode = m] = EndedAs(place, m)
    <3>1. PICK e, u : e = <<>> /\ u = TRUE
      OBVIOUS
    <3>2. y = [pc |-> place, mode |-> "run", done |-> 0, server |-> 0, got |-> e, own |-> u, ok |-> u]
      BY <2>2, <3>1
    <3>3. [y EXCEPT !.mode = m] = [pc |-> place, mode |-> m, done |-> 0, server |-> 0, got |-> e, own |-> u, ok |-> u]
      BY ONLY <3>2
    <3> QED BY ONLY <3>1, <3>3 DEF EndedAs
  <2>4. [Ready EXCEPT !.pc = place, !.mode = m] = [[Ready EXCEPT !.pc = place] EXCEPT !.mode = m]
    OBVIOUS
  <2> QED BY <2>1, <2>2, <2>3, <2>4
<1> QED BY <1>1, <1>2 DEF Exit

-----------------------------------------------------------------------------
\* A harness gets the lock file, or ends.
LEMMA BenchLock ==
  ASSUME BenchInv, NEW h \in Harness, NEW mode, Lock(h, mode)
  PROVE  BenchInv'
<1>1. PICK y : y = harness[h] /\ HarnessOK(h, y)
  BY DEF BenchInv
<1>2. PICK q : q = [pc |-> "quiet", mode |-> mode, done |-> y.done, server |-> y.server,
                    got |-> y.got, own |-> y.own, ok |-> y.ok]
  OBVIOUS
<1>3. harness' = [harness EXCEPT ![h] = q]
  <2>1. y = [pc |-> y.pc, mode |-> y.mode, done |-> y.done, server |-> y.server,
             got |-> y.got, own |-> y.own, ok |-> y.ok]
    BY <1>1 DEF HarnessOK
  <2>2. PICK z : z = [pc |-> "quiet", mode |-> y.mode, done |-> y.done, server |-> y.server,
             got |-> y.got, own |-> y.own, ok |-> y.ok]
    OBVIOUS
  <2>3. [y EXCEPT !.pc = "quiet"] = z
    BY ONLY <2>1, <2>2
  <2>4. [z EXCEPT !.mode = mode] = q
    BY ONLY <2>2, <1>2
  <2>5. [y EXCEPT !.pc = "quiet", !.mode = mode] = [[y EXCEPT !.pc = "quiet"] EXCEPT !.mode = mode]
    OBVIOUS
  <2>6. DOMAIN harness = Harness
    BY DEF BenchInv
  <2>7. [harness EXCEPT ![h].pc = "quiet", ![h].mode = mode] =
          [harness EXCEPT ![h] = [y EXCEPT !.pc = "quiet", !.mode = mode]]
    BY <1>1, <2>6
  <2> QED BY <2>3, <2>4, <2>5, <2>7 DEF Lock
<1>4. q.pc = "quiet" /\ q.done = y.done /\ q.ok = y.ok
      /\ q = [pc |-> q.pc, mode |-> q.mode, done |-> q.done, server |-> q.server,
              got |-> q.got, own |-> q.own, ok |-> q.ok]
  BY <1>2
<1>5. HarnessOK(h, q)
  <2>1. y.done = 0 /\ CleanOf(h) = {} /\ Cardinality({}) = 0
    BY <1>1, FS_EmptySet DEF HarnessOK, Lock, In
  <2> QED BY <1>4, <2>1, BenchAssumption DEF HarnessOK, Places, BusyPlaces
<1>6. \A s \in DOMAIN servers : servers[s].of = h => servers[s].state \notin Alive
  BY NoneAbout DEF Lock, In
<1>7. IF q.pc \in BusyPlaces THEN flock' = h /\ flock \in {h, NoHarness}
      ELSE flock' = (IF flock = h THEN NoHarness ELSE flock)
  BY <1>4 DEF Lock, BusyPlaces
<1> QED BY <1>3, <1>5, <1>6, <1>7, HarnessAlone DEF Lock

\* A process ends by itself or is killed, and its server is left as it is.
LEMMA BenchExit ==
  ASSUME BenchInv, NEW h \in Harness, NEW place \in {"failed", "timeout", "killed"}, Exit(h, place),
         UNCHANGED <<servers, port, recorded>>,
         place = "failed" => \A s \in DOMAIN servers : servers[s].of = h => servers[s].state \notin Alive
  PROVE  BenchInv'
<1>1. PICK q : q = EndedAs(place, harness[h].mode)
  OBVIOUS
<1>2. HarnessOK(h, q) /\ q.pc = place
  BY <1>1, EndedOK
<1>3. harness' = [harness EXCEPT ![h] = q] /\ flock' = IF flock = h THEN NoHarness ELSE flock
  BY <1>1, ExitIs
<1>4. place \notin BusyPlaces
  BY DEF BusyPlaces
<1> QED BY <1>2, <1>3, <1>4, HarnessAlone

\* It stops its server and ends.
LEMMA BenchStopAndExit ==
  ASSUME BenchInv, NEW h \in Harness, harness[h].pc \in {"probe", "measure"},
         servers' = Stopped(h), port' = PortWithout(h), recorded' = recorded, Exit(h, "failed")
  PROVE  BenchInv'
<1>1. PICK q : q = EndedAs("failed", harness[h].mode)
  OBVIOUS
<1>2. HarnessOK(h, q)' /\ q.pc = "failed"
  <2>1. q.pc = "failed" /\ q = [pc |-> q.pc, mode |-> q.mode, done |-> q.done, server |-> q.server,
              got |-> q.got, own |-> q.own, ok |-> q.ok]
    BY <1>1 DEF EndedAs
  <2> QED BY <2>1 DEF HarnessOK, Places, BusyPlaces
<1>3. harness' = [harness EXCEPT ![h] = q] /\ flock' = IF flock = h THEN NoHarness ELSE flock
  BY <1>1, ExitIs
<1>4. "failed" \notin BusyPlaces
  BY DEF BusyPlaces
<1>5. RecordsOK'
  BY StopServer DEF BenchInv, RecordsOK, ServersGoOn
<1> QED BY <1>2, <1>3, <1>4, <1>5, StopServer, HarnessGoesOn

\* A harness starts the server of a variant, on a port that answers nobody.
LEMMA BenchSpawn ==
  ASSUME BenchInv, NEW h \in Harness, Spawn(h)
  PROVE  BenchInv'
<1> DEFINE s == Len(servers) + 1
<1>1. PICK y : y = harness[h] /\ HarnessOK(h, y) /\ y.pc = "quiet"
  BY DEF BenchInv, Spawn, In
<1>2. PICK q : q = [pc |-> "probe", mode |-> y.mode, done |-> y.done, server |-> s,
                    got |-> <<>>, own |-> TRUE, ok |-> y.ok]
  OBVIOUS
<1>3. harness' = [harness EXCEPT ![h] = q]
  <2>1. PICK e, t, u : e = <<>> /\ t = s /\ u = TRUE
    OBVIOUS
  <2>2. [y EXCEPT !.pc = "probe", !.server = t, !.got = e, !.own = u] =
          [[[[y EXCEPT !.pc = "probe"] EXCEPT !.server = t] EXCEPT !.got = e] EXCEPT !.own = u]
    OBVIOUS
  <2>3. y = [pc |-> y.pc, mode |-> y.mode, done |-> y.done, server |-> y.server,
             got |-> y.got, own |-> y.own, ok |-> y.ok]
    BY <1>1 DEF HarnessOK
  <2>4. PICK a : a = [pc |-> "probe", mode |-> y.mode, done |-> y.done, server |-> y.server,
             got |-> y.got, own |-> y.own, ok |-> y.ok]
    OBVIOUS
  <2>5. PICK b : b = [pc |-> "probe", mode |-> y.mode, done |-> y.done, server |-> t,
             got |-> y.got, own |-> y.own, ok |-> y.ok]
    OBVIOUS
  <2>6. PICK c : c = [pc |-> "probe", mode |-> y.mode, done |-> y.done, server |-> t,
             got |-> e, own |-> y.own, ok |-> y.ok]
    OBVIOUS
  <2>7. [y EXCEPT !.pc = "probe"] = a
    BY ONLY <2>3, <2>4
  <2>8. [a EXCEPT !.server = t] = b
    BY ONLY <2>4, <2>5
  <2>9. [b EXCEPT !.got = e] = c
    BY ONLY <2>5, <2>6
  <2>10. [c EXCEPT !.own = u] = [pc |-> "probe", mode |-> y.mode, done |-> y.done, server |-> t,
             got |-> e, own |-> u, ok |-> y.ok]
    BY ONLY <2>6
  <2>11. DOMAIN harness = Harness
    BY DEF BenchInv
  <2>12. [harness EXCEPT ![h].pc = "probe", ![h].server = t, ![h].got = e, ![h].own = u] =
           [harness EXCEPT ![h] = [y EXCEPT !.pc = "probe", !.server = t, !.got = e, !.own = u]]
    BY <1>1, <2>11
  <2>13. harness' = [harness EXCEPT ![h].pc = "probe", ![h].server = t, ![h].got = e, ![h].own = u]
    BY <2>1 DEF Spawn
  <2> QED BY <1>2, <2>1, <2>2, <2>7, <2>8, <2>9, <2>10, <2>12, <2>13
<1>4. /\ q.pc = "probe" /\ q.mode = y.mode /\ q.done = y.done /\ q.server = s /\ q.own /\ q.ok = y.ok
      /\ q = [pc |-> q.pc, mode |-> q.mode, done |-> q.done, server |-> q.server,
              got |-> q.got, own |-> q.own, ok |-> q.ok]
  BY <1>2
<1>5. PICK v : v = [state |-> "starting", of |-> h] /\ v.state = "starting" /\ v.of = h
               /\ v \in [state : States, of : Harness]
  <2>1. PICK v : v = [state |-> "starting", of |-> h]
    OBVIOUS
  <2>2. v.state = "starting" /\ v.of = h
    BY <2>1
  <2>3. "starting" \in States
    BY DEF States
  <2>4. v \in [state : States, of : Harness]
    BY ONLY <2>1, <2>3, h \in Harness
  <2> QED BY <2>1, <2>2, <2>4
<1>6. /\ servers' \in Seq([state : States, of : Harness]) /\ DOMAIN servers' = DOMAIN servers \cup {s}
      /\ s \notin DOMAIN servers /\ s # 0
      /\ servers'[s] = v /\ \A t \in DOMAIN servers : servers'[t] = servers[t]
  <2>1. servers \in Seq([state : States, of : Harness]) /\ servers' = Append(servers, v)
    BY <1>5 DEF BenchInv, Spawn
  <2>2. DOMAIN servers = 1..Len(servers) /\ Len(servers) \in Nat
    BY <2>1
  <2> QED BY <1>5, <2>1, <2>2
<1>7. UNCHANGED <<port, flock, recorded>>
  BY DEF Spawn
<1> HIDE DEF s
<1>8. ServersGoOn(h)
  BY <1>5, <1>6 DEF ServersGoOn
<1>9. PortOK' /\ RecordsOK'
  BY <1>5, <1>6, <1>7 DEF BenchInv, PortOK, RecordsOK
<1>10. CleanOf(h)' = CleanOf(h)
  BY <1>6, <1>7 DEF CleanOf, BenchInv, RecordsOK
<1>11. HarnessOK(h, q)'
  <2>1. s \in DOMAIN servers' /\ servers'[s].of = h /\ \A r \in recorded' : r.server # s
    BY <1>5, <1>6, <1>7 DEF BenchInv, RecordsOK
  <2> QED BY <1>1, <1>4, <1>10, <2>1 DEF HarnessOK, Places, BusyPlaces, Judged
<1>12. \A t \in DOMAIN servers' : servers'[t].of = h /\ servers'[t].state \in Alive => q.server = t
  BY <1>1, <1>4, <1>6, NoneAbout
<1>13. flock' = h /\ flock = h /\ q.pc \in BusyPlaces /\ recorded' = recorded
  BY <1>1, <1>4, <1>7 DEF BenchInv, FlockOK, BusyPlaces
<1> QED BY <1>3, <1>4, <1>8, <1>9, <1>11, <1>12, <1>13, HarnessGoesOn

\* A server moves by itself.
LEMMA ServerGoesOn ==
  ASSUME BenchInv, NEW s \in DOMAIN servers, NEW state \in {"bound", "ended", "crashed"},
         servers' = [servers EXCEPT ![s].state = state], UNCHANGED <<harness, flock, recorded>>, PortOK',
         servers[s].state = "starting" => state \in {"bound", "ended"},
         servers[s].state # "starting" => servers[s].state = "bound" /\ state = "crashed"
  PROVE  BenchInv'
<1>1. servers[s] \in [state : States, of : Harness] /\ servers \in Seq([state : States, of : Harness])
  BY ServerFields DEF BenchInv
<1>2. servers' \in Seq([state : States, of : Harness])
  <2>1. [servers[s] EXCEPT !.state = state] \in [state : States, of : Harness]
    BY <1>1 DEF States
  <2>2. servers' = [servers EXCEPT ![s] = [servers[s] EXCEPT !.state = state]]
    OBVIOUS
  <2> QED BY <1>1, <2>1, <2>2
<1>3. /\ DOMAIN servers' = DOMAIN servers /\ \A t \in DOMAIN servers : t # s => servers'[t] = servers[t]
      /\ servers'[s].state = state /\ servers'[s].of = servers[s].of
  BY <1>1
<1>4. \A h : CleanOf(h)' = CleanOf(h)
  BY <1>3 DEF CleanOf, BenchInv, RecordsOK
<1>5. ASSUME NEW h \in Harness PROVE HarnessOK(h, harness[h])'
  <2>1. PICK q : q = harness[h] /\ HarnessOK(h, q)
    BY DEF BenchInv
  <2>2. q.pc \in {"probe", "measure"} =>
       /\ q.server \in DOMAIN servers' /\ servers'[q.server].of = h
       /\ \A r \in recorded' : r.server # q.server
       /\ q.own \/ servers'[q.server].state = "crashed"
    BY <1>3, <2>1 DEF HarnessOK
  <2>3. q.pc = "measure" => servers'[q.server].state \in {"bound", "crashed"}
    BY <1>3, <2>1 DEF HarnessOK
  <2>4. HarnessOK(h, q)'
    BY <1>4, <2>1, <2>2, <2>3 DEF HarnessOK
  <2> QED BY <2>1, <2>4
<1>6. ASSUME NEW t \in DOMAIN servers' PROVE ServerOK(t, servers[t])'
  BY <1>3 DEF BenchInv, ServerOK, Alive
<1>7. RecordsOK'
  BY <1>3 DEF BenchInv, RecordsOK
<1>8. FlockOK'
  BY DEF BenchInv, FlockOK
<1> QED BY <1>2, <1>5, <1>6, <1>7, <1>8 DEF BenchInv

\* A server binds the port, or exits because another has it.
LEMMA BenchBind ==
  ASSUME BenchInv, NEW s \in DOMAIN servers, Bind(s)
  PROVE  BenchInv'
<1>1. servers[s] \in [state : States, of : Harness] /\ s # 0
  <2>1. servers \in Seq([state : States, of : Harness])
    BY DEF BenchInv
  <2>2. servers[s] \in [state : States, of : Harness]
    BY ServerFields
  <2>3. DOMAIN servers = 1..Len(servers)
    BY <2>1
  <2> QED BY <2>2, <2>3
<1>2. CASE port = 0
  <2>1. servers' = [servers EXCEPT ![s].state = "bound"] /\ port' = s
    BY <1>2 DEF Bind
  <2>2. DOMAIN servers' = DOMAIN servers /\ (\A t \in DOMAIN servers : t # s => servers'[t] = servers[t])
        /\ servers'[s].state = "bound"
    BY <1>1, <2>1
  <2>3. PortOK'
    BY <1>1, <1>2, <2>1, <2>2 DEF BenchInv, PortOK
  <2> QED BY <2>1, <2>3, ServerGoesOn DEF Bind
<1>3. CASE port # 0
  <2>1. servers' = [servers EXCEPT ![s].state = "ended"] /\ port' = port
    BY <1>3 DEF Bind
  <2>2. DOMAIN servers' = DOMAIN servers /\ (\A t \in DOMAIN servers : t # s => servers'[t] = servers[t])
        /\ servers'[s].state = "ended"
    BY <1>1, <2>1
  <2>3. PortOK'
    BY <1>1, <2>1, <2>2 DEF BenchInv, PortOK, Bind
  <2> QED BY <2>1, <2>3, ServerGoesOn DEF Bind
<1> QED BY <1>2, <1>3

\* A server crashes.
LEMMA BenchDies ==
  ASSUME BenchInv, NEW s \in DOMAIN servers, Dies(s)
  PROVE  BenchInv'
<1>1. servers[s] \in [state : States, of : Harness] /\ port = s
  BY ServerFields DEF BenchInv, Dies, PortOK
<1>2. DOMAIN servers' = DOMAIN servers /\ (\A t \in DOMAIN servers : t # s => servers'[t] = servers[t])
        /\ servers'[s].state = "crashed"
  BY <1>1 DEF Dies
<1>3. PortOK'
  BY <1>1, <1>2 DEF BenchInv, PortOK, Dies
<1> QED BY <1>3, ServerGoesOn DEF Dies

-----------------------------------------------------------------------------
Fields(y) == [pc |-> y.pc, mode |-> y.mode, done |-> y.done, server |-> y.server,
              got |-> y.got, own |-> y.own, ok |-> y.ok]

\* A harness goes on.
LEMMA SetPc ==
  ASSUME NEW y, y = Fields(y), NEW place
  PROVE  [y EXCEPT !.pc = place] = [pc |-> place, mode |-> y.mode, done |-> y.done, server |-> y.server,
                                 got |-> y.got, own |-> y.own, ok |-> y.ok]
  BY ONLY y = Fields(y) DEF Fields

\* A harness gets an answer.
LEMMA SetGot ==
  ASSUME NEW y, y = Fields(y), NEW got, NEW own
  PROVE  [y EXCEPT !.got = got, !.own = own] = [pc |-> y.pc, mode |-> y.mode, done |-> y.done, server |-> y.server,
                                 got |-> got, own |-> own, ok |-> y.ok]
<1>1. PICK z : z = [pc |-> y.pc, mode |-> y.mode, done |-> y.done, server |-> y.server,
                    got |-> got, own |-> y.own, ok |-> y.ok]
  OBVIOUS
<1>2. [y EXCEPT !.got = got] = z
  BY ONLY y = Fields(y), <1>1 DEF Fields
<1>3. [z EXCEPT !.own = own] = [pc |-> y.pc, mode |-> y.mode, done |-> y.done, server |-> y.server,
                                got |-> got, own |-> own, ok |-> y.ok]
  BY ONLY <1>1
<1>4. [y EXCEPT !.got = got, !.own = own] = [[y EXCEPT !.got = got] EXCEPT !.own = own]
  OBVIOUS
<1> QED BY <1>2, <1>3, <1>4

\* A harness is done with a variant.
LEMMA SetDone ==
  ASSUME NEW y, y = Fields(y), NEW done, NEW ok
  PROVE  [y EXCEPT !.done = done, !.ok = ok] = [pc |-> y.pc, mode |-> y.mode, done |-> done, server |-> y.server,
                                 got |-> y.got, own |-> y.own, ok |-> ok]
<1>1. PICK z : z = [pc |-> y.pc, mode |-> y.mode, done |-> done, server |-> y.server,
                    got |-> y.got, own |-> y.own, ok |-> y.ok]
  OBVIOUS
<1>2. [y EXCEPT !.done = done] = z
  BY ONLY y = Fields(y), <1>1 DEF Fields
<1>3. [z EXCEPT !.ok = ok] = [pc |-> y.pc, mode |-> y.mode, done |-> done, server |-> y.server,
                                got |-> y.got, own |-> y.own, ok |-> ok]
  BY ONLY <1>1
<1>4. [y EXCEPT !.done = done, !.ok = ok] = [[y EXCEPT !.done = done] EXCEPT !.ok = ok]
  OBVIOUS
<1> QED BY <1>2, <1>3, <1>4

\* The probe is answered: the measurement begins.
LEMMA BenchProbed ==
  ASSUME BenchInv, NEW h \in Harness, Probed(h)
  PROVE  BenchInv'
<1>1. PICK y : y = harness[h] /\ HarnessOK(h, y) /\ y.pc = "probe" /\ port = y.server
  BY DEF BenchInv, Probed, In, OwnServer
<1>2. PICK q : q = [y EXCEPT !.pc = "measure"]
  OBVIOUS
<1>3. y = Fields(y)
  BY <1>1 DEF HarnessOK, Fields
<1>4. q = [pc |-> "measure", mode |-> y.mode, done |-> y.done, server |-> y.server,
           got |-> y.got, own |-> y.own, ok |-> y.ok]
  BY <1>2, <1>3, SetPc
<1>5. /\ q.pc = "measure" /\ q.mode = y.mode /\ q.done = y.done /\ q.server = y.server /\ q.own = y.own /\ q.ok = y.ok
      /\ q = [pc |-> q.pc, mode |-> q.mode, done |-> q.done, server |-> q.server,
              got |-> q.got, own |-> q.own, ok |-> q.ok]
  BY <1>4
<1>6. servers[y.server].state = "bound"
  <2>1. y.server \in DOMAIN servers /\ 0 \notin DOMAIN servers
    BY <1>1 DEF HarnessOK, BenchInv
  <2> QED BY <1>1, <2>1 DEF BenchInv, PortOK
<1>7. HarnessOK(h, q)
  BY <1>1, <1>5, <1>6 DEF HarnessOK, Places, BusyPlaces, Judged
<1>8. harness' = [harness EXCEPT ![h] = q]
  BY <1>1, <1>2 DEF Probed, BenchInv
<1>9. \A s \in DOMAIN servers : servers[s].of = h /\ servers[s].state \in Alive => q.server = s
  BY <1>1, <1>5 DEF BenchInv, ServerOK
<1>10. flock' = h /\ flock = h /\ q.pc \in BusyPlaces
  BY <1>1, <1>5 DEF BenchInv, FlockOK, BusyPlaces, Probed
<1> QED BY <1>5, <1>7, <1>8, <1>9, <1>10, HarnessAlone DEF Probed

\* A request is answered by the server that has the port.
LEMMA BenchAnswered ==
  ASSUME BenchInv, NEW h \in Harness, NEW answer, Answered(h, answer)
  PROVE  BenchInv'
<1>1. PICK y : y = harness[h] /\ HarnessOK(h, y) /\ y.pc = "measure" /\ port # 0
  BY DEF BenchInv, Answered, In
<1>2. PICK got, own : got = Append(y.got, answer) /\ own = (y.own /\ port = y.server)
  OBVIOUS
<1>3. PICK q : q = [y EXCEPT !.got = got, !.own = own]
  OBVIOUS
<1>4. y = Fields(y)
  BY <1>1 DEF HarnessOK, Fields
<1>5. q = [pc |-> y.pc, mode |-> y.mode, done |-> y.done, server |-> y.server,
           got |-> got, own |-> own, ok |-> y.ok]
  BY <1>3, <1>4, SetGot
<1>6. /\ q.pc = "measure" /\ q.mode = y.mode /\ q.done = y.done /\ q.server = y.server /\ q.own = own /\ q.ok = y.ok
      /\ q = [pc |-> q.pc, mode |-> q.mode, done |-> q.done, server |-> q.server,
              got |-> q.got, own |-> q.own, ok |-> q.ok]
  BY <1>1, <1>5
<1>7. own \/ servers[y.server].state = "crashed"
  <2>1. y.server \in DOMAIN servers /\ servers[y.server].state \in {"bound", "crashed"}
        /\ (y.own \/ servers[y.server].state = "crashed")
    BY <1>1 DEF HarnessOK
  <2> QED BY <1>2, <2>1 DEF BenchInv, PortOK
<1>8. HarnessOK(h, q)
  BY <1>1, <1>6, <1>7 DEF HarnessOK, Places, BusyPlaces, Judged
<1>9. harness' = [harness EXCEPT ![h] = q]
  <2>1. harness' = [harness EXCEPT ![h].got = got, ![h].own = own]
    BY <1>1, <1>2 DEF Answered, BenchInv
  <2> QED BY <1>1, <1>3, <2>1 DEF BenchInv
<1>10. \A s \in DOMAIN servers : servers[s].of = h /\ servers[s].state \in Alive => q.server = s
  BY <1>1, <1>6 DEF BenchInv, ServerOK
<1>11. flock' = h /\ flock = h /\ q.pc \in BusyPlaces
  BY <1>1, <1>6 DEF BenchInv, FlockOK, BusyPlaces, Answered
<1> QED BY <1>6, <1>8, <1>9, <1>10, <1>11, HarnessAlone DEF Answered

\* The result of a variant is added, if it has one.
ResultAdded(h, y, ok) ==
  /\ \A r \in recorded' : r \in recorded \/ (r.server \in DOMAIN servers /\ servers[r.server].of = h)
  /\ recorded \subseteq recorded' /\ RecordsOK'
  /\ Judged(y) /\ ok => Cardinality(CleanOf(h)') = y.done + 1

\* The server of a variant is stopped, and the next variant or the end comes.
LEMMA BenchAfter ==
  ASSUME BenchInv, NEW h \in Harness, NEW y, y = harness[h], y.pc = "measure",
         NEW ok, NEW record, record = [y EXCEPT !.done = y.done + 1, !.ok = ok],
         After(h, record), servers' = Stopped(h), port' = PortWithout(h),
         ResultAdded(h, y, ok)
  PROVE  BenchInv'
<1>0. /\ \A r \in recorded' : r \in recorded \/ (r.server \in DOMAIN servers /\ servers[r.server].of = h)
      /\ recorded \subseteq recorded' /\ RecordsOK'
      /\ Judged(y) /\ ok => Cardinality(CleanOf(h)') = y.done + 1
  BY DEF ResultAdded
<1>1. HarnessOK(h, y) /\ y = Fields(y)
  BY DEF BenchInv, HarnessOK, Fields
<1>2. PICK n : n = y.done + 1 /\ n \in Nat /\ n <= Variant
  BY <1>1, BenchAssumption DEF HarnessOK, BusyPlaces
<1>3. record = [pc |-> y.pc, mode |-> y.mode, done |-> n, server |-> y.server,
                got |-> y.got, own |-> y.own, ok |-> ok]
  <2>1. record = [y EXCEPT !.done = n, !.ok = ok]
    BY <1>2
  <2> QED BY ONLY <1>1, <2>1, SetDone
<1>4. /\ record.done = n /\ record.ok = ok /\ record.mode = y.mode
      /\ record = Fields(record)
  BY ONLY <1>3 DEF Fields
<1>5. /\ ServersGoOn(h) /\ PortOK'
      /\ \A s \in DOMAIN servers' : servers'[s].of = h /\ servers'[s].state \in Alive => FALSE
  BY StopServer
<1>6. CASE record.done < Variant
  <2>1. PICK q : q = [record EXCEPT !.pc = "quiet"]
    OBVIOUS
  <2>2. q = [pc |-> "quiet", mode |-> record.mode, done |-> record.done, server |-> record.server,
             got |-> record.got, own |-> record.own, ok |-> record.ok]
    BY ONLY <1>4, <2>1, SetPc
  <2>3. /\ q.pc = "quiet" /\ q.mode = y.mode /\ q.done = n /\ q.ok = ok
        /\ q = [pc |-> q.pc, mode |-> q.mode, done |-> q.done, server |-> q.server,
                got |-> q.got, own |-> q.own, ok |-> q.ok]
    BY <1>4, <2>2
  <2>4. HarnessOK(h, q)'
    BY <1>0, <1>2, <1>4, <1>6, <2>3 DEF HarnessOK, Places, BusyPlaces, Judged
  <2>5. harness' = [harness EXCEPT ![h] = q] /\ flock' = flock
    BY <1>6, <2>1 DEF After
  <2>6. flock = h /\ q.pc \in BusyPlaces
    BY <2>3 DEF BenchInv, FlockOK, BusyPlaces
  <2> QED BY <1>0, <1>5, <2>4, <2>5, <2>6, HarnessGoesOn
<1>7. CASE ~(record.done < Variant)
  <2>1. PICK place \in {"passed", "failed"} : Exit(h, place) /\ (place = "passed" => ok)
    BY <1>4, <1>7 DEF After
  <2>2. PICK q : q = EndedAs(place, y.mode)
    OBVIOUS
  <2>3. /\ q.pc = place /\ q.mode = y.mode
        /\ q = [pc |-> q.pc, mode |-> q.mode, done |-> q.done, server |-> q.server,
                got |-> q.got, own |-> q.own, ok |-> q.ok]
    BY <2>2 DEF EndedAs
  <2>4. n = Variant
    BY <1>2, <1>4, <1>7, BenchAssumption
  <2>5. HarnessOK(h, q)'
    BY <1>0, <1>2, <2>1, <2>3, <2>4 DEF HarnessOK, Places, BusyPlaces, Judged
  <2>6. harness' = [harness EXCEPT ![h] = q] /\ flock' = IF flock = h THEN NoHarness ELSE flock
    BY <2>1, <2>2, ExitIs
  <2>7. q.pc \notin BusyPlaces
    BY <2>3 DEF BusyPlaces
  <2> QED BY <1>0, <1>5, <2>5, <2>6, <2>7, HarnessGoesOn
<1> QED BY <1>6, <1>7

\* A request fails.
LEMMA BenchRequestFails ==
  ASSUME BenchInv, NEW h \in Harness, RequestFails(h)
  PROVE  BenchInv'
<1>1. harness[h].pc = "measure" /\ servers' = Stopped(h) /\ port' = PortWithout(h) /\ recorded' = recorded
  BY DEF RequestFails, In
<1>2. CASE harness[h].mode = "check"
  <2>1. PICK y, ok : y = harness[h] /\ ok = FALSE
    OBVIOUS
  <2>2. PICK record : record = [y EXCEPT !.done = y.done + 1, !.ok = ok]
    OBVIOUS
  <2>3. After(h, record)
    BY <1>2, <2>1, <2>2 DEF RequestFails, FailedVariant
  <2>4. RecordsOK'
    BY <1>1, StopServer DEF BenchInv, RecordsOK, ServersGoOn
  <2>5. ResultAdded(h, y, ok)
    BY <1>1, <2>1, <2>4 DEF ResultAdded
  <2> QED BY <1>1, <2>1, <2>2, <2>3, <2>5, BenchAfter
<1>3. CASE harness[h].mode # "check"
  BY <1>1, <1>3, BenchStopAndExit DEF RequestFails
<1> QED BY <1>2, <1>3

\* All requests are answered: the result is recorded, the server stopped.
LEMMA BenchMeasured ==
  ASSUME BenchInv, NEW h \in Harness, Measured(h)
  PROVE  BenchInv'
<1>1. PICK y : y = harness[h] /\ HarnessOK(h, y) /\ y.pc = "measure"
  BY DEF BenchInv, Measured, In
<1>2. PICK r : r = [server |-> y.server, own |-> y.own, clean |-> Clean(h)]
  OBVIOUS
<1>3. r.server = y.server /\ r.own = y.own /\ r.clean = Clean(h)
  BY <1>2
<1>4. PICK ok : ok = (y.ok /\ (y.mode \in {"check", "service"} => Clean(h)))
  OBVIOUS
<1>5. PICK next : next = [y EXCEPT !.done = y.done + 1, !.ok = ok]
  OBVIOUS
<1>6. /\ servers' = Stopped(h) /\ port' = PortWithout(h) /\ recorded' = recorded \cup {r}
      /\ IF y.mode = "service" /\ ~next.ok THEN Exit(h, "failed") ELSE After(h, next)
  BY <1>1, <1>2, <1>4, <1>5 DEF Measured
<1>7. y.server \in DOMAIN servers /\ servers[y.server].of = h /\ r \notin recorded
      /\ (y.own \/ servers[y.server].state = "crashed")
  BY <1>1, <1>3 DEF HarnessOK
<1>8. /\ ServersGoOn(h) /\ PortOK' /\ DOMAIN servers' = DOMAIN servers
      /\ \A s \in DOMAIN servers' : servers'[s].of = h /\ servers'[s].state \in Alive => FALSE
  BY <1>1, <1>6, StopServer
<1>9. RecordsOK'
  <2>1. IsFiniteSet(recorded')
    BY <1>6, FS_AddElement DEF BenchInv, RecordsOK
  <2>2. \A x \in recorded' : x.server \in DOMAIN servers' /\ (x.own \/ servers'[x.server].state = "crashed")
    BY <1>3, <1>6, <1>7, <1>8 DEF BenchInv, RecordsOK, ServersGoOn
  <2> QED BY <2>1, <2>2 DEF RecordsOK
<1>10. Judged(y) /\ ok => Cardinality(CleanOf(h)') = y.done + 1
  <2> SUFFICES ASSUME Judged(y), ok PROVE Cardinality(CleanOf(h)') = y.done + 1
    OBVIOUS
  <2>1. y.ok /\ r.clean
    BY <1>3, <1>4 DEF Judged
  <2>2. \A x \in recorded' : x.server \in DOMAIN servers /\ servers'[x.server].of = servers[x.server].of
    BY <1>3, <1>6, <1>7, <1>8 DEF BenchInv, RecordsOK, ServersGoOn
  <2>3. CleanOf(h)' = CleanOf(h) \cup {r}
    BY <1>3, <1>6, <1>7, <2>1, <2>2 DEF CleanOf
  <2>4. IsFiniteSet(CleanOf(h)) /\ r \notin CleanOf(h)
    BY <1>7, FS_Subset DEF BenchInv, RecordsOK, CleanOf
  <2>5. Cardinality(CleanOf(h)) = y.done
    BY <1>1, <2>1 DEF HarnessOK, BusyPlaces
  <2> QED BY <2>3, <2>4, <2>5, FS_AddElement
<1>11. CASE y.mode = "service" /\ ~next.ok
  <2>1. PICK q : q = EndedAs("failed", harness[h].mode)
    OBVIOUS
  <2>2. q.pc = "failed" /\ q = [pc |-> q.pc, mode |-> q.mode, done |-> q.done, server |-> q.server,
              got |-> q.got, own |-> q.own, ok |-> q.ok]
    BY <2>1 DEF EndedAs
  <2>3. HarnessOK(h, q)'
    BY <2>2 DEF HarnessOK, Places, BusyPlaces
  <2>4. harness' = [harness EXCEPT ![h] = q] /\ flock' = IF flock = h THEN NoHarness ELSE flock
    BY <1>6, <1>11, <2>1, ExitIs
  <2>5. q.pc \notin BusyPlaces
    BY <2>2 DEF BusyPlaces
  <2>6. recorded \subseteq recorded'
        /\ \A x \in recorded' : x \in recorded \/ (x.server \in DOMAIN servers /\ servers[x.server].of = h)
    BY <1>3, <1>6, <1>7
  <2> QED BY <1>8, <1>9, <2>3, <2>4, <2>5, <2>6, HarnessGoesOn
<1>12. CASE ~(y.mode = "service" /\ ~next.ok)
  <2>1. recorded \subseteq recorded'
        /\ \A x \in recorded' : x \in recorded \/ (x.server \in DOMAIN servers /\ servers[x.server].of = h)
    BY <1>3, <1>6, <1>7
  <2>2. After(h, next)
    BY <1>6, <1>12
  <2>3. servers' = Stopped(h) /\ port' = PortWithout(h)
    BY <1>6
  <2>4. ResultAdded(h, y, ok)
    BY <1>9, <1>10, <2>1 DEF ResultAdded
  <2> QED BY ONLY <1>1, <1>5, <2>2, <2>3, <2>4, BenchAfter, BenchInv, h \in Harness
<1> QED BY <1>11, <1>12

\* Every step keeps the invariant.
LEMMA BenchStepInv == BenchInv /\ [BenchNext]_benchVars => BenchInv'
<1> SUFFICES ASSUME BenchInv, [BenchNext]_benchVars PROVE BenchInv'
  OBVIOUS
<1>1. CASE UNCHANGED benchVars
  <2>1. UNCHANGED <<harness, servers, port, flock, recorded>>
    BY <1>1 DEF benchVars
  <2>2. \A h \in Harness : HarnessOK(h, harness[h])'
    <3> SUFFICES ASSUME NEW h \in Harness PROVE HarnessOK(h, harness[h])'
      OBVIOUS
    <3>1. PICK q : q = harness[h] /\ HarnessOK(h, q)
      BY DEF BenchInv
    <3>2. CleanOf(h)' = CleanOf(h)
      BY <2>1 DEF CleanOf
    <3>3. HarnessOK(h, q)'
      BY <2>1, <3>1, <3>2 DEF HarnessOK
    <3> QED BY <2>1, <3>1, <3>3
  <2>3. (PortOK /\ FlockOK /\ RecordsOK)'
    BY <2>1 DEF BenchInv, PortOK, FlockOK, RecordsOK
  <2>4. \A s \in DOMAIN servers' : ServerOK(s, servers[s])'
    BY <2>1 DEF BenchInv, ServerOK
  <2> QED BY <2>1, <2>2, <2>3, <2>4 DEF BenchInv
<1>2. ASSUME NEW h \in Harness, GiveUp(h) PROVE BenchInv'
  BY <1>2, NoneAbout, BenchExit DEF GiveUp, In
<1>3. ASSUME NEW h \in Harness, SomeoneElse(h) PROVE BenchInv'
  BY <1>3, BenchStopAndExit DEF SomeoneElse, In
<1>4. ASSUME NEW h \in Harness, ServerExited(h) PROVE BenchInv'
  <2>1. \A s \in DOMAIN servers : servers[s].of = h => servers[s].state \notin Alive
    BY <1>4 DEF ServerExited, In, Server, BenchInv, ServerOK
  <2> QED BY <1>4, <2>1, BenchExit DEF ServerExited
<1>5. ASSUME NEW h \in Harness, StartTimeout(h) PROVE BenchInv'
  <2>1. CASE harness[h].mode = "service"
    BY <1>5, <2>1, BenchStopAndExit DEF StartTimeout, In
  <2>2. CASE harness[h].mode # "service"
    BY <1>5, <2>2, BenchExit DEF StartTimeout
  <2> QED BY <2>1, <2>2
<1>6. ASSUME NEW h \in Harness, CaptureFails(h) PROVE BenchInv'
  BY <1>6, BenchStopAndExit DEF CaptureFails, In
<1>7. ASSUME NEW h \in Harness, StopHangs(h) PROVE BenchInv'
  BY <1>7, BenchExit DEF StopHangs
<1>8. ASSUME NEW h \in Harness, Kill(h) PROVE BenchInv'
  BY <1>8, BenchExit DEF Kill
<1>9. CASE BenchNext
  BY <1>9, <1>2, <1>3, <1>4, <1>5, <1>6, <1>7, <1>8, BenchLock, BenchSpawn, BenchProbed, BenchAnswered,
     BenchRequestFails, BenchMeasured, BenchBind, BenchDies DEF BenchNext
<1> QED BY <1>1, <1>9

\* MeasuredIsOwn, OneMeasurement, PassedIsClean, ServersStopped: a result is of the
\* harness's own server, one harness measures at a time, one that passes has a
\* clean result of every variant, and none ends with a server that it could stop.
THEOREM BenchStaysSound ==
  BenchSpec => [](MeasuredIsOwn /\ OneMeasurement /\ PassedIsClean /\ ServersStopped)
<1>1. BenchSpec => []BenchInv
  BY BenchInitInv, BenchStepInv, PTL DEF BenchSpec
<1>2. BenchInv => MeasuredIsOwn /\ OneMeasurement /\ PassedIsClean /\ ServersStopped
  BY BenchSoundFollows
<1> QED BY <1>1, <1>2, PTL

-----------------------------------------------------------------------------
(* What the scripts conclude, whichever is run.                            *)

\* Nothing is concluded by a check that never began.
LEMMA CheckOffInv == CheckOff => CheckInv
<1> SUFFICES ASSUME CheckOff PROVE CheckInv
  OBVIOUS
<1>1. attrs = <<>> /\ DOMAIN refs = {} /\ learnt = <<>> /\ verdicts = <<>> /\ began = {} /\ absent = {}
  BY DEF CheckOff
<1>2. CheckGiven /\ KnownOK /\ RowsOK
  BY <1>1 DEF CheckGiven, KnownOK, RowsOK
<1>3. PICK w : w = wave
  OBVIOUS
<1>4. w = NoLevel("outputs")
  BY <1>3 DEF CheckOff
<1>5. WaveOK(w)
  BY <1>1, <1>4 DEF WaveOK, RestOK, NoLevel
<1> QED BY <1>2, <1>3, <1>5 DEF CheckInv

\* Nothing is landed by one that never began.
LEMMA LandingOffInv == LandingOff => LandingInv
<1> SUFFICES ASSUME LandingOff PROVE LandingInv
  OBVIOUS
<1>1. ASSUME NEW l \in Lander PROVE ShipOK(l, ship[l])
  <2>1. ship[l] = [pc |-> "done", head |-> <<>>, sha |-> <<>>]
    BY DEF LandingOff
  <2>2. PICK q : q = ship[l]
    OBVIOUS
  <2>3. q = [pc |-> q.pc, head |-> q.head, sha |-> q.sha] /\ q.pc = "done"
        /\ q.head \in Seq(Lander) /\ q.sha \in Seq(Lander)
    BY <2>1, <2>2
  <2>4. ShipOK(l, q)
    BY <2>3 DEF ShipOK
  <2> QED BY <2>2, <2>4
<1>2. FleetOK(fleet)
  BY DEF LandingOff, NoFleet, FleetOK
<1> QED BY <1>1, <1>2 DEF LandingOff, LandingInv

\* The invariants of the three scripts that conclude something.
VerdictsInv == BenchInv /\ CheckInv /\ LandingInv

\* Whichever script is run, the others are off.
LEMMA ToolsInitInv == ToolsInit => VerdictsInv
  BY BenchInitInv, CheckInitInv, LandingInitInv, CheckOffInv, LandingOffInv DEF ToolsInit, VerdictsInv

\* A step is one of a script, and the others stand still.
LEMMA ToolsStepInv == VerdictsInv /\ [ToolsNext]_toolsVars => VerdictsInv'
<1>1. [ToolsNext]_toolsVars => [BenchNext]_benchVars /\ [CheckNext]_checkVars /\ [LandingNext]_landingVars
  <2>1. CASE UNCHANGED toolsVars
    BY <2>1 DEF toolsVars
  <2>2. CASE Only("analytics") \/ Only("inventory") \/ Only("pin") \/ Only("prefix")
    BY <2>2 DEF Only
  <2>3. CASE Only("bench") /\ BenchNext
    BY <2>3 DEF Only
  <2>4. CASE Only("check") /\ CheckNext
    BY <2>4 DEF Only
  <2>5. CASE Only("landing") /\ LandingNext
    BY <2>5 DEF Only
  <2> QED BY <2>1, <2>2, <2>3, <2>4, <2>5 DEF ToolsNext
<1> QED BY <1>1, BenchStepInv, CheckStepInv, LandingStepInv DEF VerdictsInv

\* VerdictsEarned: a measurement is that of the harness's own server, a cached
\* closure is in the caches with all its references, and what is landed, released
\* or receipted has passed at that very commit.
THEOREM VerdictsStayEarned == ToolsSpec => []VerdictsEarned
<1>1. ToolsSpec => []VerdictsInv
  BY ToolsInitInv, ToolsStepInv, PTL DEF ToolsSpec
<1>2. VerdictsInv => VerdictsEarned
  BY BenchSoundFollows, CheckSoundFollows, LandingSoundFollows DEF VerdictsInv, VerdictsEarned
<1> QED BY <1>1, <1>2, PTL

-----------------------------------------------------------------------------
(* The files that the scripts leave, whichever is run.                     *)

\* Nothing is written by an inventory that never began.
LEMMA InventoryOffSound ==
  ASSUME InventoryOff
  PROVE  FileReadable /\ CompleteMeansAll /\ ErrorsIsolated /\ AssemblyNeutral
<1>1. DOMAIN lines = {} /\ lines = <<>> /\ ~manifest.complete
  BY DEF InventoryOff, NoManifest
<1>2. Broken \notin ToSet(lines)
  BY <1>1 DEF ToSet
<1> QED BY <1>1, <1>2 DEF FileReadable, CompleteMeansAll, ErrorsIsolated, AssemblyNeutral

\* No path has anything in a prefix that is not made.
LEMMA PrefixOffSound ==
  ASSUME PrefixOff
  PROVE  PrefixExact /\ LossesReported
<1>1. out = <<>> /\ conflicts = {} /\ DOMAIN out = {}
  BY DEF PrefixOff
<1>2. ASSUME NEW d \in Destinations, NEW kept PROVE Offers(d, kept) = {}
  <2>1. ASSUME NEW i \in 1..Len(InOrder) PROVE EntryOf(i, d[2]).kind = "none"
    <3>1. PICK p \in PrefixPaths : p = InOrder[i]
      BY PathsInOrder
    <3>2. d[2] \in {"x", "x/y"}
      BY DestinationIs
    <3>3. trees[p] = Tree(NoEntry, NoEntry)
      BY <3>1 DEF PrefixOff
    <3>4. trees[p][d[2]] = NoEntry
      BY <3>2, <3>3 DEF Tree
    <3> QED BY <3>1, <3>4 DEF EntryOf, NoEntry
  <2> QED BY <2>1, OffersAre
<1>3. PrefixExact
  BY <1>1, <1>2 DEF PrefixExact, FirstProvided
<1>4. LossesReported
  <2>1. \A d \in Destinations : Lost(d, Offers(d, Parent(d))) = {}
    BY <1>2 DEF Lost
  <2>2. UNION {Lost(d, Offers(d, Parent(d))) : d \in Destinations} = {}
    BY <2>1
  <2>3. conflicts = UNION {Lost(d, Offers(d, Parent(d))) : d \in Destinations}
    BY <1>1, <2>2
  <2> QED BY <2>3 DEF LossesReported, Lost, Differ, FirstOffer, FirstIn, EntryOf, InOrder
<1> QED BY <1>3, <1>4

\* The invariants of the scripts that leave files: the one that is run and the
\* others, which never begin.
FilesInv ==
  /\ IF tool = "inventory" THEN InventoryInv ELSE InventoryOff
  /\ IF tool = "prefix" THEN PrefixInv ELSE PrefixOff
  /\ PinInv

\* Whichever script is run, the others are off.
LEMMA FilesInitInv == ToolsInit => FilesInv
  BY InventoryInitInv, PrefixInitInv, PinInitInv DEF ToolsInit, FilesInv

\* A step is one of a script, and the others stand still.
LEMMA FilesStepInv == FilesInv /\ [ToolsNext]_toolsVars => FilesInv'
<1> SUFFICES ASSUME FilesInv, [ToolsNext]_toolsVars PROVE FilesInv'
  OBVIOUS
<1>1. /\ UNCHANGED tool /\ [PinNext]_pinVars
      /\ [InventoryNext]_inventoryVars /\ (tool # "inventory" => UNCHANGED inventoryVars)
      /\ [PrefixNext]_prefixVars /\ (tool # "prefix" => UNCHANGED prefixVars)
  <2>1. CASE UNCHANGED toolsVars
    BY <2>1 DEF toolsVars
  <2>2. CASE Only("analytics") \/ Only("bench") \/ Only("check") \/ Only("landing")
    BY <2>2 DEF Only
  <2>3. CASE Only("inventory") /\ InventoryNext
    BY <2>3 DEF Only
  <2>4. CASE Only("pin") /\ PinNext
    BY <2>4 DEF Only
  <2>5. CASE Only("prefix") /\ PrefixNext
    BY <2>5 DEF Only
  <2> QED BY <2>1, <2>2, <2>3, <2>4, <2>5 DEF ToolsNext
<1>2. InventoryOff /\ UNCHANGED inventoryVars => InventoryOff'
  BY DEF InventoryOff, inventoryVars
<1>3. PrefixOff /\ UNCHANGED prefixVars => PrefixOff'
  BY DEF PrefixOff, prefixVars, PrefixPaths
<1>4. (IF tool = "inventory" THEN InventoryInv ELSE InventoryOff)'
  BY <1>1, <1>2, InventoryStepInv DEF FilesInv
<1>5. (IF tool = "prefix" THEN PrefixInv ELSE PrefixOff)'
  BY <1>1, <1>3, PrefixStepInv DEF FilesInv
<1>6. PinInv'
  BY <1>1, PinStepInv DEF FilesInv
<1> QED BY <1>4, <1>5, <1>6 DEF FilesInv

\* FilesUsable: an inventory has a readable record of each attribute that it says it
\* decided on, a pin its own hashes, and a prefix what its first paths have.
THEOREM FilesStayUsable == ToolsSpec => []FilesUsable
<1>1. ToolsSpec => []FilesInv
  BY FilesInitInv, FilesStepInv, PTL DEF ToolsSpec
<1>2. FilesInv => FilesUsable
  BY FileSoundFollows, InventoryOffSound, PrefixExactFollows, PrefixOffSound, PinSoundFollows
  DEF FilesInv, FilesUsable
<1> QED BY <1>1, <1>2, PTL

=============================================================================
