----------------------------- MODULE Analytics -----------------------------
(***************************************************************************)
(* The analytics export (experiment/analytics.py and analytics_share.py):  *)
(* incremental generations of the campaign database and of the logs, put   *)
(* into an object store that readers follow from one pointer, and mirrored *)
(* to a public prefix.  A generation is journalled locally before it is    *)
(* uploaded, so that it survives a crash anywhere.                         *)
(*                                                                         *)
(* One mutable table stands for eleven, one log for all.  A hash is the    *)
(* value it is the hash of; an etag is the generation the pointer names.   *)
(***************************************************************************)
EXTENDS Integers, Sequences, FiniteSets, SequencesExt, FiniteSetsExt

CONSTANTS
  Key, Value, Absent,   \* rows of the mutable table
  Process,              \* publisher processes
  Budget,               \* log bytes one generation may take
  Nothing,
  MaxChanges, MaxCrashes   \* bounds

ASSUME AnalyticsAssumption ==
  /\ Absent \notin Value /\ Nothing \notin Process
  /\ Budget \in Nat \ {0}
  /\ {MaxChanges, MaxCrashes} \subseteq Nat

NoGeneration == 0
Foreign == -1     \* a generation of another checkpoint
NoPending == [generation |-> NoGeneration, parent |-> NoGeneration, files |-> {}, at |-> 0]

VARIABLES
  history,   \* states of the source database and the log, the current one last
  db,        \* analytics.sqlite
  spool,     \* the objects staged on disk
  remote,    \* objects, manifests and pointer of the private prefix
  proc,      \* the publisher processes
  lock,      \* who holds publisher.lock
  share,     \* objects, inventory and pointer of the public prefix
  mirror,    \* the process that copies to it
  crashes

vars == <<history, db, spool, remote, proc, lock, share, mirror, crashes>>

Source == Last(history)
FirstSource ==
  [rows |-> [k \in Key |-> Absent], events |-> 0,
   log |-> <<>>, offset |-> 0, live |-> TRUE]

Off == [pc |-> "off", pending |-> NoPending, etag |-> NoGeneration]
Resting == [pc |-> "off", pinned |-> NoPending, files |-> {}, copies |-> {}, etag |-> NoGeneration]

TypeOK ==
  /\ Len(history) \in 1..(MaxChanges + 2)
  /\ db.events_seq \in 0..Len(history) /\ db.log_cursor \in 0..Len(Source.log)
  /\ DOMAIN db.index = Key /\ DOMAIN db.changes \subseteq Key
  /\ \A p \in Process : proc[p].pc \in {"off", "made", "put", "publish", "finalize", "unlink"}
  /\ lock \in Process \cup {Nothing}
  /\ mirror.pc \in {"off", "copy", "index"}
  /\ crashes \in 0..MaxCrashes

Init ==
  /\ history = <<FirstSource>>
  /\ db = [index |-> [k \in Key |-> Absent], changes |-> <<>>, events_seq |-> 0,
           log_cursor |-> 0, revision |-> 0, generation |-> NoGeneration,
           remote_seen |-> FALSE, pending |-> NoPending]
  /\ spool = {} /\ lock = Nothing
  /\ remote = [objects |-> {}, manifests |-> <<>>, latest |-> NoGeneration]
  /\ proc = [p \in Process |-> Off]
  /\ share = [objects |-> {}, manifests |-> <<>>, latest |-> NoGeneration]
  /\ mirror = Resting /\ crashes = 0

-----------------------------------------------------------------------------
(* The source: the controller's database, and a log that a worker writes   *)
(* and the controller has committed up to an offset.                       *)

Became(s) == /\ history' = Append(history, s)
             /\ UNCHANGED <<db, spool, remote, proc, lock, share, mirror, crashes>>
MayChange == Len(history) < MaxChanges

SetRow(k, v) ==
  /\ MayChange /\ Source.rows[k] # v
  /\ Became([Source EXCEPT !.rows[k] = v, !.events = @ + 1])
WriteLog(newline) ==
  /\ MayChange /\ Source.live
  /\ Became([Source EXCEPT !.log = Append(@, newline)])
CommitLine ==
  \E n \in DOMAIN Source.log :
    /\ MayChange /\ Source.live /\ Source.log[n] /\ n > Source.offset
    /\ Became([Source EXCEPT !.offset = n])
FinishAttempt ==
  /\ Source.live
  /\ Became([Source EXCEPT !.live = FALSE, !.events = @ + 1])

-----------------------------------------------------------------------------
(* Reading a published data set.                                           *)

\* load_chain: the generations that parents lead to from the pinned one, the
\* least set with it and with the parent of every manifest in it.
load_chain(manifests, generation) ==
  LET named == ({generation} \cup DOMAIN manifests \cup {manifests[g].parent : g \in DOMAIN manifests})
                 \ {NoGeneration}
      closed == {S \in SUBSET named :
                   /\ generation \in S \cup {NoGeneration}
                   /\ \A g \in S \cap DOMAIN manifests : manifests[g].parent \in S \cup {NoGeneration}}
  IN  {g \in named : \A S \in closed : g \in S}

Files(manifests, chain) == UNION {manifests[g].files : g \in chain}
Rows(files) == {f \in files : f.table = "rows"}
Pieces(files, table) == {f.piece : f \in {g \in files : g.table = table}}

\* latest_sql: of each primary key the latest revision, unless it is deleted.
LatestRow(files, k) ==
  LET of == {f \in Rows(files) : k \in DOMAIN f.piece}
  IN  IF of = {} THEN Absent
      ELSE (CHOOSE f \in of : \A g \in of : g.revision <= f.revision).piece[k]

\* What a reader has of a snapshot: the rows, the events and the log bytes.
Reading(files) ==
  [rows |-> [k \in Key |-> LatestRow(files, k)],
   events |-> UNION Pieces(files, "events"),
   log |-> UNION Pieces(files, "logs")]

\* No event and no byte is there twice.
Disjoint(files) ==
  \A f, g \in files : f # g /\ f.table = g.table /\ f.table # "rows" => f.piece \cap g.piece = {}

-----------------------------------------------------------------------------
(* The publisher.                                                          *)

WithManifest(manifests, g, m) ==
  [h \in DOMAIN manifests \cup {g} |-> IF h = g THEN m ELSE manifests[h]]

Raise(p) == /\ proc' = [proc EXCEPT ![p] = Off]
            /\ lock' = IF lock = p THEN Nothing ELSE lock

\* Publisher.__init__: a checkpoint that does not fit the remote pointer is
\* refused; the pointer and the pending generation are read before the lock is
\* taken.
Fits ==
  /\ db.generation # NoGeneration => remote.latest # NoGeneration
  /\ remote.latest # NoGeneration /\ db.generation # NoGeneration /\ db.generation # remote.latest
       => db.pending # NoPending /\ db.pending.generation = remote.latest
  /\ remote.latest # NoGeneration => db.pending # NoPending \/ db.remote_seen
\* Mutant: the pending generation is left to a later run.
MakeForgets(p) ==
  /\ proc[p].pc = "off" /\ Fits
  /\ proc' = [proc EXCEPT ![p] = [pc |-> "made", pending |-> NoPending, etag |-> remote.latest]]
  /\ UNCHANGED <<history, db, spool, remote, lock, share, mirror, crashes>>
Make(p) ==
  /\ proc[p].pc = "off" /\ Fits
  /\ proc' = [proc EXCEPT ![p] = [pc |-> "made", pending |-> db.pending, etag |-> remote.latest]]
  /\ UNCHANGED <<history, db, spool, remote, lock, share, mirror, crashes>>

\* Mutant: rows that are gone leave no tombstone.
DeltaOfRows == {k \in Key : Source.rows[k] \notin {Absent, db.index[k]}}
\* _scan_table: rows that differ from the index, and tombstones for those gone.
Delta == {k \in Key : Source.rows[k] # db.index[k]}

\* _logs: from the cursor to the end of the log; while the attempt is live only
\* to the last newline the controller has committed, and never over budget.
LogEnd ==
  LET whole == {n \in (db.log_cursor + 1)..Source.offset : Source.log[n]}
      end == IF ~Source.live THEN Len(Source.log) ELSE Max(whole \cup {db.log_cursor})
  IN  Min({end, db.log_cursor + Budget})

\* The delta objects of a generation; an empty one is not written.
Staged(g) ==
  LET file(table, piece) == [table |-> table, revision |-> g, piece |-> piece]
      rows == [k \in Delta |-> Source.rows[k]]
      events == (db.events_seq + 1)..Source.events
      bytes == (db.log_cursor + 1)..LogEnd
  IN  (IF Delta = {} THEN {} ELSE {file("rows", rows)})
      \cup (IF events = {} THEN {} ELSE {file("events", events)})
      \cup (IF bytes = {} THEN {} ELSE {file("logs", bytes)})

Manifest(g) ==
  [generation |-> g, parent |-> remote.latest, files |-> Staged(g), at |-> Len(history)]

\* The transaction that commits a scan: cursors, changes and the pending journal.
Journal(g) ==
  db' = [db EXCEPT !.changes = [k \in Delta |-> Source.rows[k]],
                   !.events_seq = Source.events, !.log_cursor = LogEnd,
                   !.revision = g, !.pending = Manifest(g)]

\* publish without a pending generation: one snapshot is scanned, stale spools
\* are dropped, and what changed is journalled unless the pointer has moved.
Scan(p) ==
  LET g == db.revision + 1
      refused == \/ Staged(g) = {} \/ remote.latest # proc[p].etag
                 \/ remote.latest # NoGeneration /\ ~db.remote_seen
  IN  IF refused
      THEN /\ spool' = {} /\ Raise(p) /\ UNCHANGED db
      ELSE /\ Journal(g)
           /\ spool' = Staged(g) /\ lock' = p
           /\ proc' = [proc EXCEPT ![p].pc = "put", ![p].pending = Manifest(g)]

\* publish with a pending generation: it is final if the pointer names it
\* already, else it is uploaded again, unless the pointer has moved.
Resume(p) ==
  /\ CASE remote.latest = proc[p].pending.generation ->
            proc' = [proc EXCEPT ![p].pc = "finalize"] /\ lock' = p
       [] remote.latest = proc[p].pending.parent ->
            proc' = [proc EXCEPT ![p].pc = "put"] /\ lock' = p
       [] OTHER -> Raise(p)
  /\ UNCHANGED <<db, spool>>

\* publish, up to the uploads: under the lock, which is not waited for.
Begin(p) ==
  /\ proc[p].pc = "made"
  /\ IF lock # Nothing THEN Raise(p) /\ UNCHANGED <<db, spool>>
     ELSE IF proc[p].pending = NoPending THEN Scan(p) ELSE Resume(p)
  /\ UNCHANGED <<history, remote, share, mirror, crashes>>

\* put_immutable of the objects that are not there yet, one by one; the run
\* refuses to go on without its spool.
Put(p) ==
  LET files == proc[p].pending.files
      missing == files \ remote.objects
  IN  /\ proc[p].pc = "put"
      /\ missing # {} \/ ~(files \subseteq spool)
      /\ IF files \subseteq spool
         THEN /\ \E f \in missing : remote' = [remote EXCEPT !.objects = @ \cup {f}]
              /\ UNCHANGED <<proc, lock>>
         ELSE Raise(p) /\ UNCHANGED remote
      /\ UNCHANGED <<history, db, spool, share, mirror, crashes>>

\* Mutant: the manifest goes up with the first object.
PutManifestEarly(p) ==
  LET m == proc[p].pending
  IN  /\ proc[p].pc = "put"
      /\ remote' = [remote EXCEPT !.manifests = WithManifest(@, m.generation, m)]
      /\ proc' = [proc EXCEPT ![p].pc = "publish"]
      /\ UNCHANGED <<history, db, spool, lock, share, mirror, crashes>>
\* Once every object is there, the manifest is put.
PutManifest(p) ==
  LET m == proc[p].pending
  IN  /\ proc[p].pc = "put" /\ m.files \subseteq remote.objects \cap spool
      /\ remote' = [remote EXCEPT !.manifests = WithManifest(@, m.generation, m)]
      /\ proc' = [proc EXCEPT ![p].pc = "publish"]
      /\ UNCHANGED <<history, db, spool, lock, share, mirror, crashes>>

\* The conditional write of the pointer.  Its answer may be lost, in which case
\* the process fails although the pointer was written.
Publish(p, answered) ==
  /\ proc[p].pc = "publish"
  /\ IF remote.latest = proc[p].pending.parent
     THEN /\ remote' = [remote EXCEPT !.latest = proc[p].pending.generation]
          /\ IF answered
             THEN proc' = [proc EXCEPT ![p].pc = "finalize"] /\ UNCHANGED <<lock, crashes>>
             ELSE crashes < MaxCrashes /\ crashes' = crashes + 1 /\ Raise(p)
     ELSE answered /\ Raise(p) /\ UNCHANGED <<remote, crashes>>
  /\ UNCHANGED <<history, db, spool, share, mirror>>

\* _finalize: the changes become the index, in one transaction.
Finalize(p) ==
  /\ proc[p].pc = "finalize"
  /\ db' = [db EXCEPT !.index = [k \in Key |->
              IF k \in DOMAIN db.changes THEN db.changes[k] ELSE @[k]],
            !.changes = <<>>, !.pending = NoPending, !.remote_seen = TRUE,
            !.generation = proc[p].pending.generation]
  /\ proc' = [proc EXCEPT ![p].pc = "unlink"]
  /\ UNCHANGED <<history, spool, remote, lock, share, mirror, crashes>>

\* The spool is emptied after that.
Unlink(p) ==
  /\ proc[p].pc = "unlink"
  /\ spool' = {}
  /\ Raise(p)
  /\ UNCHANGED <<history, db, remote, share, mirror, crashes>>

Crash(p) ==
  /\ crashes < MaxCrashes /\ proc[p].pc # "off"
  /\ crashes' = crashes + 1
  /\ Raise(p)
  /\ UNCHANGED <<history, db, spool, remote, share, mirror>>

\* Another checkpoint publishes to the same prefix.
Intrude ==
  /\ crashes < MaxCrashes /\ remote.latest # Foreign
  /\ crashes' = crashes + 1
  /\ remote' = [remote EXCEPT !.latest = Foreign, !.manifests = WithManifest(@, Foreign,
       [generation |-> Foreign, parent |-> remote.latest, files |-> {}, at |-> 0])]
  /\ UNCHANGED <<history, db, spool, proc, lock, share, mirror>>

-----------------------------------------------------------------------------
(* The mirror, one process under a lock of its own.                        *)

\* publish_share: the chain of the pinned generation, the pointer of the share
\* and the objects its last inventory does not list.
MirrorStart ==
  LET files == Files(remote.manifests, load_chain(remote.manifests, remote.latest))
      known == IF share.latest = NoGeneration THEN {} ELSE share.manifests[share.latest].files
  IN  /\ mirror.pc = "off"
      /\ remote.latest \notin {NoGeneration, Foreign, share.latest}
      /\ mirror' = [pc |-> "copy", pinned |-> remote.manifests[remote.latest], files |-> files,
                      copies |-> files \ known, etag |-> share.latest]
      /\ UNCHANGED <<history, db, spool, remote, proc, lock, share, crashes>>

\* copy_immutable: eight at a time, in any order; one that is there is verified.
MirrorCopy(f) ==
  /\ mirror.pc = "copy" /\ f \in mirror.copies
  /\ share' = [share EXCEPT !.objects = @ \cup {f}]
  /\ mirror' = [mirror EXCEPT !.copies = @ \ {f}]
  /\ UNCHANGED <<history, db, spool, remote, proc, lock, crashes>>

\* The inventory lists every file of the chain.
Inventory == [mirror.pinned EXCEPT !.parent = NoGeneration, !.files = mirror.files]
MirrorInventory ==
  /\ mirror.pc = "copy" /\ mirror.copies = {}
  /\ share' = [share EXCEPT !.manifests = WithManifest(@, mirror.pinned.generation, Inventory)]
  /\ mirror' = [mirror EXCEPT !.pc = "index"]
  /\ UNCHANGED <<history, db, spool, remote, proc, lock, crashes>>

MirrorPublish ==
  /\ mirror.pc = "index"
  /\ share' = IF share.latest = mirror.etag
              THEN [share EXCEPT !.latest = mirror.pinned.generation] ELSE share
  /\ mirror' = Resting
  /\ UNCHANGED <<history, db, spool, remote, proc, lock, crashes>>

MirrorCrash ==
  /\ crashes < MaxCrashes /\ mirror.pc # "off"
  /\ crashes' = crashes + 1
  /\ mirror' = Resting
  /\ UNCHANGED <<history, db, spool, remote, proc, lock, share>>

-----------------------------------------------------------------------------
Publisher(p) ==
  \/ Make(p) \/ Begin(p) \/ Put(p) \/ PutManifest(p)
  \/ Publish(p, TRUE) \/ Finalize(p) \/ Unlink(p)
Mirror == MirrorStart \/ (\E f \in mirror.copies : MirrorCopy(f)) \/ MirrorInventory \/ MirrorPublish
Campaign ==
  \/ \E k \in Key, v \in Value \cup {Absent} : SetRow(k, v)
  \/ \E newline \in BOOLEAN : WriteLog(newline)
  \/ CommitLine \/ FinishAttempt

Next ==
  \/ Campaign
  \/ \E p \in Process : Publisher(p) \/ Publish(p, FALSE) \/ Crash(p)
  \/ Mirror \/ MirrorCrash
  \/ Intrude

\* The timers start both services again, and a campaign's attempt ends.
Fairness ==
  /\ \A p \in Process : WF_vars(Publisher(p))
  /\ WF_vars(Mirror)
  /\ WF_vars(FinishAttempt)
Spec == Init /\ [][Next]_vars /\ Fairness

-----------------------------------------------------------------------------
\* The last generation of this checkpoint that was published, and its chain.
Own == IF remote.latest = Foreign THEN remote.manifests[Foreign].parent ELSE remote.latest
Ours == Own # NoGeneration
Chain == load_chain(remote.manifests, Own)
Dataset == Files(remote.manifests, Chain)
At == remote.manifests[Own].at

\* What a reader would have of the source as it was at a point of its history,
\* as far as the log had been taken.
Snapshot(s, taken) == [rows |-> s.rows, events |-> 1..s.events, log |-> 1..taken]

\* "Crash-safe": readers that follow the pointer see the events of one snapshot
\* and the log up to a point, each event and each byte once, whatever crashed
\* before; that they see the rows of the same snapshot is ContractSpec.
DatasetIsSnapshot ==
  Ours => /\ Disjoint(Dataset)
          /\ LET seen == Reading(Dataset)
             IN  /\ seen.events = 1..history[At].events
                 /\ seen.log = 1..Cardinality(seen.log)

\* Every manifest and object the pointers lead to is there, also in the mirror.
NothingDangles ==
  /\ Chain \subseteq DOMAIN remote.manifests /\ Dataset \subseteq remote.objects
  /\ share.latest # NoGeneration => share.manifests[share.latest].files \subseteq share.objects

\* "Live stderr never exceeds the controller's committed offset."
LiveLogCommitted ==
  Ours => LET s == history[At]
          IN  s.live => \A n \in Reading(Dataset).log : n <= s.offset

\* The mirror shows what the private data set showed at that generation.
MirrorAgrees ==
  share.latest # NoGeneration =>
    Reading(share.manifests[share.latest].files)
      = Reading(Files(remote.manifests, load_chain(remote.manifests, share.latest)))

\* "On restart it must finish the same generation before consuming further
\* source data": a journalled generation is only ever finished.
PendingFinishesFirst ==
  [][db.pending # NoPending => db'.pending \in {db.pending, NoPending}]_vars

\* Another writer's generation is never overwritten.
NoOverwrite == [][remote.latest = Foreign => remote'.latest = Foreign]_vars

\* The export implements what it promises, read through the chain.
Seen == IF Ours THEN Reading(Dataset).rows ELSE <<>>
Contract ==
  INSTANCE Archive WITH
    history <- [i \in DOMAIN history |-> history[i].rows],
    at <- IF Ours THEN At ELSE 0,
    published <- Seen
ContractSpec == Contract!Spec

\* Left alone, the export and its mirror catch up with the source.
CatchesUp ==
  \/ <>(remote.latest = Foreign)
  \/ <>[](Ours /\ Reading(Dataset) = Snapshot(Source, Len(Source.log))
               /\ share.latest = remote.latest)

\* What is published, and its mirror, is a snapshot that names nothing missing
\* and nothing uncommitted.
ArchiveSound ==
  TypeOK /\ NothingDangles /\ DatasetIsSnapshot /\ LiveLogCommitted /\ MirrorAgrees

\* The export goes on through crashes: it finishes what it began, never writes
\* over others, and catches up.
ExportGoesOn == PendingFinishesFirst /\ NoOverwrite /\ CatchesUp
=============================================================================
