----------------------------- MODULE LogReader -----------------------------
(***************************************************************************)
(* A reader of a build log while it is written, ingested and settled       *)
(* (logs.py; data.log and log_response of the dashboard; logview.py): it   *)
(* opens the tail, follows it with cursors that are raw byte offsets, or   *)
(* pages back.  Each request is answered from the offset that is committed *)
(* and from the file.                                                      *)
(***************************************************************************)
EXTENDS LogPipeline

CONSTANTS
  Page,      \* bytes of a window (256 KiB)
  MaxLine,   \* bytes of a record that is shown (1 MiB)
  Limit,     \* entries that a page accumulates (2000)
  Seeks      \* windows searched in one request for a build's output (8)

ASSUME ReaderAssumption == {Page, MaxLine, Limit, Seeks} \subseteq Nat \ {0}

\* The page: what it shows, from which byte on, and its cursors.
VARIABLE page

all == <<pipeline, page>>

Closed == [mode |-> "none", drv |-> FALSE, shown |-> <<>>, start |-> 0, end |-> 0, searching |-> FALSE]

RTypeOK ==
  /\ page.mode \in {"none", "follow", "back", "ended"}
  /\ {page.drv, page.searching} \subseteq BOOLEAN
  /\ page.shown \in Seq((1..MaxBytes) \X (1..MaxBytes)) /\ Len(page.shown) <= Limit
  /\ {page.start, page.end} \subseteq 0..Len(log)

Least(m, n) == IF m < n THEN m ELSE n

\* While the attempt is live, only what was indexed with its activities.
Size == IF settled THEN Len(log) ELSE Least(Len(log), offset)

\* f.readline(limit) at a byte offset: where it ends.
LineEnd(pos, limit) ==
  LET ends == Newlines(pos, pos + limit)
  IN  IF ends = {} THEN pos + limit ELSE FirstOf(ends)
Complete(pos, to) == to > pos /\ log[to] = "n"

\* The records of a window from an aligned offset.
RECURSIVE Records(_, _, _, _)
Records(pos, stop, end, found) ==
  LET limit == Least(MaxLine, end - pos)
      to == LineEnd(pos, limit)
      torn == ~Complete(pos, to) /\ to = end /\ ~settled
      oversized == ~Complete(pos, to) /\ to - pos = MaxLine
  IN  IF pos >= stop \/ torn THEN [end |-> pos, records |-> found, skipped |-> FALSE]
      ELSE IF oversized THEN [end |-> to, records |-> found, skipped |-> TRUE]
      ELSE Records(to, stop, end, Append(found, <<pos + 1, to>>))

\* A window from its first aligned record on.
ReadFrom(direction, start, end) ==
  LET stop == IF direction = "after" THEN Least(end, start + Page) ELSE end
  IN  [start |-> start] @@ Records(start, stop, end, <<>>)

\* Mutant: the window starts where it starts.
AlignUnaligned(direction, from, end) == ReadFrom(direction, from, end)
\* Both directions start at a record boundary.
Align(direction, from, end) ==
  LET aligned == LineEnd(from, Least(MaxLine, end - from))
  IN  IF from = 0 \/ log[from] = "n" THEN ReadFrom(direction, from, end)
      ELSE IF ~Complete(from, aligned) \/ aligned >= end
      THEN [start |-> from, end |-> aligned, records |-> <<>>, skipped |-> TRUE]
      ELSE ReadFrom(direction, aligned, end)

\* window
Window(direction, at) ==
  LET cursor == Least(at, Size)
      end == IF direction = "before" THEN cursor ELSE Size
  IN  Align(direction,
            IF direction = "after" THEN cursor ELSE IF end > Page THEN end - Page ELSE 0,
            end)

\* decode: progress, stops and empty lines are not output.  The start of a build
\* belongs to it, any other text to the batch.
Text(span) == SubSeq(log, span[1], span[2])
Output(span) == Text(span) \notin {<<"n">>, <<"p", "n">>, <<"e", "n">>, <<"p">>, <<"e">>}
OfBuild(span) == Text(span) = <<"s", "n">>

\* build_log
BuildLog(direction, at, drv) ==
  LET read(w) ==
        [entries |-> SelectSeq(w.records, LAMBDA s : Output(s) /\ (drv => OfBuild(s))),
         start |-> w.start, end |-> w.end, before |-> w.start > 0, more |-> w.end < Size]
  IN  read(Window(direction, at))
\* A cursor beyond what may be read is not one of this log.
Reset(at) == at > Size

\* data.log: backwards in bounded requests until some output of the build is
\* found, if it was observed at all.
RECURSIVE Seek(_, _)
Seek(r, n) ==
  IF n = 0 \/ r.entries # <<>> \/ ~r.before THEN r
  ELSE Seek(BuildLog("before", r.start, TRUE), n - 1)
Log(direction, at, drv) ==
  LET sought == drv /\ direction # "after" /\ ~Reset(at) /\ Observed
      found(r) == [searching |-> sought /\ r.entries = <<>> /\ r.before] @@ r
  IN  found(Seek(BuildLog(direction, at, drv), IF sought THEN Seeks - 1 ELSE 0))

\* log_response: a chunk is appended to the page.  A page that would grow too
\* long, or whose cursor is lost, is replaced.
Answer(r, direction, mode, lost, drv) ==
  LET count == IF direction = "after" THEN Len(page.shown) ELSE 0
      recovery == lost \/ count + Len(r.entries) > Limit
      cut == Len(r.entries) > Limit
      last == IF cut THEN SubSeq(r.entries, Len(r.entries) - Limit + 1, Len(r.entries)) ELSE r.entries
  IN  page' = [mode |-> IF mode = "follow" /\ settled /\ ~r.more THEN "ended" ELSE mode,
               drv |-> drv, searching |-> r.searching, end |-> r.end,
               shown |-> IF direction # "after" \/ recovery THEN last ELSE page.shown \o last,
               start |-> IF direction = "after" /\ ~recovery THEN page.start
                         ELSE IF cut THEN last[1][1] - 1 ELSE r.start]
Respond(direction, at, mode, drv) ==
  Answer(IF Reset(at) THEN Log("tail", 0, drv) ELSE Log(direction, at, drv),
         direction, mode, Reset(at), drv)

\* A page is opened at the tail.
Open(drv) == page.mode = "none" /\ Respond("tail", 0, "follow", drv)
\* The cursor at its end asks for what is newer, and stops at the end of a log.
Follow ==
  /\ page.mode = "follow" /\ ~page.searching
  /\ Respond("after", page.end, "follow", page.drv)
\* Earlier output, and the search for a build's output.
Back ==
  /\ page.mode \in {"back", "ended"} \/ page.searching
  /\ page.start > 0
  /\ Respond("before", page.start, IF page.searching THEN page.mode ELSE "back", page.drv)

Reader == (\E drv \in BOOLEAN : Open(drv)) \/ Follow \/ Back

RInit == PInit /\ page = Closed

RNext ==
  \/ PNext /\ UNCHANGED page
  \/ Reader /\ UNCHANGED pipeline

RSpec == RInit /\ [][RNext]_all /\ PFair

-----------------------------------------------------------------------------
\* Lines that a reader can be shown, as spans.
Shown == {page.shown[n] : n \in DOMAIN page.shown}
Readable == {l \in Starts \X (1..Len(log)) :
               /\ l[1] <= l[2] /\ l[2] - l[1] < MaxLine
               /\ \A m \in l[1]..(l[2] - 1) : log[m] # "n"
               /\ \/ log[l[2]] = "n"
                  \/ settled /\ l[2] = Len(log) /\ l[2] - l[1] + 1 < MaxLine}

\* "Never consume a torn live line": whatever its cursors and whenever the log
\* grew, was skipped or was settled, a page that follows shows every readable
\* line between its start and its cursor, each once and in order, and no
\* fragment of one.
FollowerExact ==
  page.mode \in {"follow", "ended"} =>
    /\ \A l \in Readable :
         page.start < l[1] /\ l[2] <= page.end /\ Output(l) /\ (page.drv => OfBuild(l))
           => l \in Shown
    /\ Shown \subseteq Readable
    /\ \A m, n \in DOMAIN page.shown : m < n => page.shown[m][2] < page.shown[n][1]

\* "A new line is never consumed before its owning build is known": what a page
\* has consumed was observed, unless the attempt was settled without it, and no
\* cursor is refused, although what may be read is measured differently before
\* and after the settlement.
ConsumedIsObserved ==
  page.mode = "follow" =>
    /\ page.end <= Size
    /\ ~settled => \A l \in Lines : l[2] <= page.end => l \in Spans

\* A page for one build that shows nothing, and has ended its search, has missed
\* no observed output of that build up to its cursor.
SearchComplete ==
  page.mode \in {"follow", "ended"} /\ page.drv /\ page.shown = <<>> /\ ~page.searching =>
    \A l \in Readable : OfBuild(l) /\ l \in Spans => l[2] > page.end

\* A page that follows does not get stuck before the end of a settled log,
\* whatever lines its cursor stands in front of or inside of.
CursorAdvances ==
  page.mode = "follow" /\ settled /\ page.end < Len(log) =>
    Window("after", page.end).end > page.end

\* A page that follows a log shows every readable line once, whole and in order,
\* never ahead of the controller, and neither gets stuck nor gives up a search.
ReaderExact ==
  RTypeOK /\ FollowerExact /\ ConsumedIsObserved /\ CursorAdvances /\ SearchComplete
=============================================================================
