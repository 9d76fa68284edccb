----------------------------- MODULE LogIngest -----------------------------
(***************************************************************************)
(* How the controller follows the log of one worker (controller.py,        *)
(* ingest and the part of reconcile around it): bounded reads from a       *)
(* durable offset, complete lines only, oversized lines skipped, and the   *)
(* backlog drained before an attempt is settled, while the worker goes on  *)
(* writing, exits or dies.  What the worker writes is LogPipeline's part.  *)
(*                                                                         *)
(* The log is a sequence of bytes of which only the newlines matter.  A    *)
(* step of the controller is a read of the file or of exit.json, together  *)
(* with the transaction that follows it.                                   *)
(***************************************************************************)
EXTENDS Naturals, Sequences, FiniteSets

CONSTANTS
  Byte,      \* "n" is a newline
  Chunk,     \* bytes in a bounded read (4 MiB)
  MaxBytes   \* bound on the length of the log

ASSUME ChunkAssumption == Chunk \in Nat \ {0} /\ MaxBytes \in Nat /\ "n" \in Byte

VARIABLES
  log,       \* the bytes of stderr.log
  worker,    \* "running", "exited" (exit.json is there) or "dead"
  offset,    \* attempts.offset
  seen,      \* spans <<first, last>> given to nix.observe, in order
  pc,        \* the controller's place in reconcile
  drain,     \* whether exit.json was found and this is the last ingest
  eof,       \* where the scan for the end of an oversized line met the end
  settled    \* the attempt is finished

vars == <<log, worker, offset, seen, pc, drain, eof, settled>>

TypeOK ==
  /\ log \in Seq(Byte) /\ Len(log) <= MaxBytes
  /\ worker \in {"running", "exited", "dead"}
  /\ offset \in 0..Len(log)
  /\ seen \in Seq((1..MaxBytes) \X (1..MaxBytes))
  /\ pc \in {"idle", "read", "scan", "eof", "look", "unit", "settle"}
  /\ drain \in BOOLEAN
  /\ eof \in 0..MaxBytes
  /\ settled \in BOOLEAN

Init ==
  /\ log = <<>> /\ worker = "running"
  /\ offset = 0 /\ seen = <<>>
  /\ pc = "idle" /\ drain = FALSE /\ eof = 0 /\ settled = FALSE

-----------------------------------------------------------------------------
(* The worker.                                                             *)

\* The worker publishes exit.json, or is gone without.
End(how) ==
  /\ worker = "running"
  /\ worker' = how
  /\ UNCHANGED <<log, offset, seen, pc, drain, eof, settled>>

-----------------------------------------------------------------------------
(* The controller.                                                         *)

\* Every reconcile starts with an ingest.
Begin ==
  /\ pc = "idle" /\ ~settled
  /\ pc' = "read" /\ drain' = FALSE
  /\ UNCHANGED <<log, worker, offset, seen, eof, settled>>

\* Where reconcile goes on after an ingest.
After == IF drain THEN "settle" ELSE "look"

Newlines(from, to) == {i \in (from + 1)..to : log[i] = "n"}
LastOf(S) == CHOOSE m \in S : \A n \in S : n <= m
FirstOf(S) == CHOOSE m \in S : \A n \in S : m <= n

\* The lines that end at the given newlines, the first starting at the offset.
LinesAt(ends) ==
  [n \in 1..Cardinality(ends) |->
    LET last == CHOOSE e \in ends : Cardinality({f \in ends : f <= e}) = n
        earlier == {f \in ends : f < last}
    IN  <<(IF earlier = {} THEN offset ELSE LastOf(earlier)) + 1, last>>]

\* End of a bounded read.
ReadEnd == IF Len(log) < offset + Chunk THEN Len(log) ELSE offset + Chunk

\* Mutant: the offset moves past the torn line as well.
NextOffsetTorn(ends) == ReadEnd
\* The offset that is committed with the lines: behind the last newline.
NextOffset(ends) == LastOf(ends)

\* ingest: complete lines of one bounded read are observed and the offset is
\* moved in one transaction.  A read that is full and has no newline is an
\* oversized line.
Read ==
  LET ends == Newlines(offset, ReadEnd)
  IN  /\ pc = "read"
      /\ \/ /\ ends # {}
            /\ seen' = seen \o LinesAt(ends)
            /\ offset' = NextOffset(ends)
            /\ pc' = After
         \/ /\ ends = {}
            /\ pc' = IF ReadEnd - offset = Chunk THEN "scan" ELSE After
            /\ UNCHANGED <<seen, offset>>
      /\ UNCHANGED <<log, worker, drain, eof, settled>>

\* The oversized line is skipped up to its newline, if it is there yet.
Scan ==
  LET ends == Newlines(offset, Len(log))
  IN  /\ pc = "scan"
      /\ \/ /\ ends # {}
            /\ offset' = FirstOf(ends)
            /\ pc' = After
            /\ UNCHANGED eof
         \/ /\ ends = {}
            /\ eof' = Len(log)
            /\ pc' = "eof"
            /\ UNCHANGED offset
      /\ UNCHANGED <<log, worker, seen, drain, settled>>

\* Mutant: an oversized torn line is waited for, even after the worker's exit.
EofWaits ==
  /\ pc = "eof"
  /\ pc' = After
  /\ eof' = 0
  /\ UNCHANGED <<log, worker, offset, seen, drain, settled>>

\* At the end of the file without a newline: wait for more, unless exit.json is
\* there by now.
Eof ==
  /\ pc = "eof"
  /\ offset' = IF worker = "exited" THEN eof ELSE offset
  /\ pc' = After
  /\ eof' = 0
  /\ UNCHANGED <<log, worker, seen, drain, settled>>

\* Mutant: the backlog is not looked at.
LookAtExit ==
  /\ pc = "look"
  /\ pc' = IF worker = "exited" THEN "read" ELSE "unit"
  /\ drain' = (worker = "exited")
  /\ UNCHANGED <<log, worker, offset, seen, eof, settled>>

\* With exit.json there, a backlog of more than one read is left to the next
\* tick, and the rest is ingested before the attempt is settled.
Look ==
  /\ pc = "look"
  /\ \/ /\ worker = "exited" /\ Len(log) - offset > Chunk
        /\ pc' = "idle"
        /\ UNCHANGED drain
     \/ /\ worker = "exited" /\ Len(log) - offset <= Chunk
        /\ pc' = "read" /\ drain' = TRUE
     \/ /\ worker # "exited"
        /\ pc' = "unit"
        /\ UNCHANGED drain
  /\ UNCHANGED <<log, worker, offset, seen, eof, settled>>

\* Without exit.json, the unit is asked: an attempt whose worker is gone is
\* settled as interrupted.
Unit ==
  /\ pc = "unit"
  /\ pc' = IF worker = "running" THEN "idle" ELSE "settle"
  /\ UNCHANGED <<log, worker, offset, seen, drain, eof, settled>>

Settle ==
  /\ pc = "settle"
  /\ settled' = TRUE
  /\ pc' = "idle" /\ drain' = FALSE
  /\ UNCHANGED <<log, worker, offset, seen, eof>>

\* The controller dies and starts again from what is committed.
Crash ==
  /\ pc # "idle"
  /\ pc' = "idle" /\ drain' = FALSE /\ eof' = 0
  /\ UNCHANGED <<log, worker, offset, seen, settled>>

-----------------------------------------------------------------------------
\* The whole lines of a log, oversized ones aside, as spans.
Starts == {1} \cup {i + 1 : i \in {j \in 1..Len(log) : log[j] = "n"}}
Lines ==
  {<<i, j>> \in Starts \X (1..Len(log)) :
     /\ i <= j /\ j - i < Chunk
     /\ log[j] = "n" /\ \A m \in i..(j - 1) : log[m] # "n"}
Spans == {seen[n] : n \in 1..Len(seen)}

\* Every line behind the offset was observed, once and in order, whatever was
\* torn when it was read and wherever the controller died: a restart neither
\* repeats nor loses an observation.
ObservedOnce ==
  /\ \A l \in Lines : l[2] <= offset => l \in Spans
  /\ \A m, n \in 1..Len(seen) : m < n => seen[m][2] < seen[n][1]

\* "Drain the bounded raw log before terminal reconciliation": an attempt that
\* is settled after its worker exited has all of its log observed, unless the
\* result was missed.
DrainedOnExit ==
  [][settled' # settled /\ drain => \A l \in Lines : l \in Spans]_vars

\* No log keeps an attempt from being settled, however long its lines.
Settles == <>settled

=============================================================================
