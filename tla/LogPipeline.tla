---------------------------- MODULE LogPipeline ----------------------------
(***************************************************************************)
(* The way of a build's messages into the database: the worker reads what  *)
(* Nix writes in chunks, drops the progress records (capture.py), appends  *)
(* the rest to a bounded log and notes when builds start and stop          *)
(* (timing.py); the controller follows the log (LogIngest) and merges the  *)
(* noted times for the builds it has observed.                             *)
(*                                                                         *)
(* A record is one byte and its newline: "p" is progress, "s" and "e" are  *)
(* the start and the stop of the one build.  A longer line is text.        *)
(***************************************************************************)
EXTENDS LogIngest, SequencesExt

CONSTANTS
  MaxPending,   \* bytes of an unfinished line that are kept (1 MiB)
  LogBytes,     \* policy log_bytes
  MaxCrashes    \* bound on the controller's crashes

ASSUME PipelineAssumption == MaxPending \in Nat \ {0} /\ {LogBytes, MaxCrashes} \subseteq Nat

VARIABLES
  raw,      \* what Nix has written and the worker has read
  filter,   \* BuildLogFilter: where pending begins, passthrough, end of the pipe
  dropped,  \* where the records begin that were not forwarded
  unfed,    \* what is in the log and BuildTimes has not been fed
  times,    \* BuildTimes, with build-times.json as last written
  due,      \* whether ingest_times comes next
  noted,    \* build_times in the database
  crashes   \* how often the controller has died

worker_ == <<raw, filter, dropped, unfed, times>>
pipeline == <<vars, worker_, due, noted, crashes>>

None == 0
NoTimes == [started |-> None, finished |-> None]

PInit ==
  /\ Init
  /\ raw = <<>> /\ filter = [start |-> 1, passthrough |-> FALSE, closed |-> FALSE]
  /\ dropped = {} /\ unfed = <<>>
  /\ times = [pending |-> <<>>, skipping |-> FALSE, rows |-> NoTimes]
  /\ due = FALSE /\ noted = NoTimes /\ crashes = 0

-----------------------------------------------------------------------------
(* The worker.                                                             *)

\* The lines that end in a sequence, as spans, from a first byte on.
Ends(seq, from) == {i \in from..Len(seq) : seq[i] = "n"}
StartOf(seq, from, end) ==
  LET earlier == {i \in Ends(seq, from) : i < end}
  IN  IF earlier = {} THEN from ELSE LastOf(earlier) + 1

\* Whether the line that ends here is a progress record and not the rest of a
\* line whose beginning was forwarded already.
Progress(seq, from, end, through) ==
  /\ ~(through /\ StartOf(seq, from, end) = from)
  /\ StartOf(seq, from, end) = end - 1 /\ seq[end - 1] = "p"

\* feed: complete lines are forwarded or dropped; a pending one that grows too
\* long is forwarded in pieces.
Forwarded(seq) ==
  LET ends == Ends(seq, filter.start)
      tail == IF ends = {} THEN filter.start ELSE LastOf(ends) + 1
      oversized == Len(seq) - tail + 1 > MaxPending
      gone == {e \in ends : Progress(seq, filter.start, e, filter.passthrough)}
      upto == IF oversized THEN Len(seq) ELSE tail - 1
      kept == {i \in filter.start..upto : i \notin gone /\ (i + 1) \notin gone}
  IN  [out |-> SetToSortSeq(kept, <),
       gone |-> {e - 1 : e \in gone},
       filter |-> [start |-> upto + 1,
                   passthrough |-> oversized \/ (filter.passthrough /\ ends = {}),
                   closed |-> FALSE]]

\* What is left of the policy's bytes is written.
Store(bytes) ==
  LET room == SubSeq(bytes, 1, IF Len(bytes) < LogBytes - Len(log) THEN Len(bytes) ELSE LogBytes - Len(log))
  IN  log' = log \o room /\ unfed' = room

\* One read of the pipe goes through the filter into the log.
Feed(chunk) ==
  LET seq == raw \o chunk
      f == Forwarded(seq)
  IN  /\ worker = "running" /\ ~filter.closed /\ unfed = <<>> /\ Len(seq) <= MaxBytes
      /\ raw' = seq /\ filter' = f.filter /\ dropped' = dropped \cup f.gone
      /\ Store([i \in DOMAIN f.out |-> seq[f.out[i]]])
      /\ UNCHANGED <<worker, offset, seen, pc, drain, eof, settled, times, due, noted, crashes>>

\* BuildTimes.feed, one line after the other: the rest of a line that was too
\* long is skipped, a start counts once, and so does a stop after it.
RECURSIVE Note(_, _, _)
Note(t, data, now) ==
  IF \E i \in DOMAIN data : data[i] = "n"
  THEN LET end == FirstOf({i \in DOMAIN data : data[i] = "n"})
           line == SubSeq(data, 1, end - 1)
           rows == CASE t.skipping -> t.rows
                     [] line = <<"s">> /\ t.rows.started = None -> [t.rows EXCEPT !.started = now]
                     [] line = <<"e">> /\ t.rows.started # None /\ t.rows.finished = None ->
                          [t.rows EXCEPT !.finished = now]
                     [] OTHER -> t.rows
       IN  Note([t EXCEPT !.skipping = FALSE, !.rows = rows], SubSeq(data, end + 1, Len(data)), now)
  ELSE IF Len(data) > MaxPending THEN [t EXCEPT !.pending = <<>>, !.skipping = TRUE]
       ELSE [t EXCEPT !.pending = data]

Now == Len(raw)

\* The times follow the write, and their file replaces the last one.
FeedTimes ==
  /\ worker = "running" /\ unfed # <<>>
  /\ times' = Note([times EXCEPT !.pending = <<>>], times.pending \o unfed, Now)
  /\ unfed' = <<>>
  /\ UNCHANGED <<vars, raw, filter, dropped, due, noted, crashes>>

\* The pipe is closed: what is pending is evidence too.  Then exit.json is there.
Finish ==
  /\ worker = "running" /\ unfed = <<>>
  /\ IF ~filter.closed
     THEN /\ Store(SubSeq(raw, filter.start, Len(raw)))
          /\ filter' = [filter EXCEPT !.start = Len(raw) + 1, !.closed = TRUE]
          /\ UNCHANGED worker
     ELSE worker' = "exited" /\ UNCHANGED <<log, unfed, filter>>
  /\ UNCHANGED <<offset, seen, pc, drain, eof, settled, raw, dropped, times, due, noted, crashes>>

Die == End("dead") /\ UNCHANGED <<worker_, due, noted, crashes>>

-----------------------------------------------------------------------------
(* The controller.                                                         *)

\* Every ingest is followed by a transaction of its own for the times.
Ingest(A) == A /\ due' = (pc' \in {"look", "settle"}) /\ UNCHANGED <<worker_, noted, crashes>>
Other(A) == A /\ ~due /\ UNCHANGED <<worker_, due, noted, crashes>>

Observed == \E n \in DOMAIN seen : SubSeq(log, seen[n][1], seen[n][2]) = <<"s", "n">>

\* ingest_times: only for a build that has been observed; what is recorded stays.
ingest_times ==
  /\ due /\ due' = FALSE
  /\ noted' = IF times.rows.started = None \/ ~Observed THEN noted
              ELSE IF noted.started = None THEN times.rows
              ELSE IF noted.finished = None THEN [noted EXCEPT !.finished = times.rows.finished]
              ELSE noted
  /\ UNCHANGED <<vars, worker_, crashes>>

\* The controller dies and starts again from what is committed.
PCrash ==
  /\ crashes < MaxCrashes /\ crashes' = crashes + 1
  /\ Crash /\ due' = FALSE /\ UNCHANGED <<worker_, noted>>

Controller ==
  \/ Other(Begin) \/ Ingest(Read) \/ Ingest(Scan) \/ Ingest(Eof)
  \/ ingest_times
  \/ Other(Look) \/ Other(Unit) \/ Other(Settle)

PNext ==
  \/ \E b \in Byte : Feed(<<b>>)
  \/ \E b, c \in Byte : Feed(<<b, c>>)
  \/ FeedTimes \/ Finish \/ Die
  \/ Controller
  \/ PCrash

\* The worker ends, for it has a runtime limit, and the controller polls.
PFair ==
  /\ WF_pipeline(Finish \/ FeedTimes)
  /\ WF_pipeline(Controller)

-----------------------------------------------------------------------------
\* "Keep build evidence": the log is what Nix wrote, in order, without whole
\* progress records and without what is pending or over the policy's bytes,
\* however the reads cut it: no fragment is ever taken for a record.
Whole(i) == raw[i] = "p" /\ raw[i + 1] = "n" /\ (i = 1 \/ raw[i - 1] = "n")
EvidenceKept ==
  /\ \A i \in dropped : Whole(i)
  /\ LET kept == {i \in 1..(filter.start - 1) : i \notin dropped /\ i - 1 \notin dropped}
         all == SelectSeq([i \in 1..(filter.start - 1) |-> i], LAMBDA i : i \in kept)
     IN  log = SubSeq([i \in DOMAIN all |-> raw[all[i]]], 1, Len(log))
         /\ (Len(log) < LogBytes => Len(log) = Cardinality(kept))

\* A recorded time is never changed, and a stop is never before its start.
TimesStable ==
  [][/\ noted.started # None => noted'.started = noted.started
     /\ noted.finished # None => noted'.finished = noted.finished
     /\ noted'.finished # None => noted'.started # None /\ noted'.started <= noted'.finished]_pipeline

\* Times are recorded only of records that stand as whole lines in the log.
RecordAt(b) ==
  {i \in 1..(Len(log) - 1) : log[i] = b /\ log[i + 1] = "n" /\ (i = 1 \/ log[i - 1] = "n")}
TimesAreRecords ==
  /\ noted.started # None => RecordAt("s") # {}
  /\ noted.finished # None => \E i \in RecordAt("s"), j \in RecordAt("e") : i < j

\* An attempt that is settled after its worker exited has the times of its build.
TimesComplete ==
  [][settled' # settled /\ drain =>
       /\ RecordAt("s") # {} /\ Observed => noted.started # None
       /\ Observed /\ (\E i \in RecordAt("s"), j \in RecordAt("e") : i < j)
            => noted.finished # None]_pipeline

\* The log and what is made of it agree with what the worker wrote: evidence is
\* kept, every line is observed once, and only whole records have times.
LogFaithful == TypeOK /\ ObservedOnce /\ EvidenceKept /\ TimesAreRecords

\* An attempt is settled with all of its log read and its times complete, and no
\* time changes later.
SettledWithAll == DrainedOnExit /\ TimesStable /\ TimesComplete
=============================================================================
