------------------------------ MODULE History ------------------------------
(***************************************************************************)
(* The history of a campaign's attempts, which a reader pages through from *)
(* an anchor while attempts are admitted and settled.                      *)
(* An attempt is the number of its row.                                    *)
(***************************************************************************)
EXTENDS Integers, Sequences, FiniteSets, SequencesExt, FiniteSetsExt

CONSTANTS
  MaxAttempts,    \* bound on the rows
  PageSize        \* PAGE_SIZE

VARIABLES
  rows,     \* attempts of the campaign, and Foreign ones between them
  walk,     \* the reader's request and what it has been shown
  stable    \* rows that have met the reader's filter ever since it began

historyVars == <<rows, walk, stable>>

Kinds == {"plan", "build"}
NotStarted == [kind |-> "", outcome |-> "", anchor |-> 0, shown |-> <<>>, more |-> TRUE]

HistoryInit ==
  /\ rows = <<>> /\ walk = NotStarted /\ stable = {}

\* Attempts are admitted and settled by the controller; of those of other
\* campaigns only the row numbers that they take matter.
Foreign == [kind |-> "foreign", outcome |-> "none"]

AdmitForeign ==
  /\ Len(rows) < MaxAttempts
  /\ rows' = Append(rows, Foreign)
  /\ UNCHANGED <<walk, stable>>

AdmitRow(kind) ==
  /\ Len(rows) < MaxAttempts
  /\ rows' = Append(rows, [kind |-> kind, outcome |-> "active"])
  /\ UNCHANGED <<walk, stable>>

Meets(row, kind, outcome) ==
  row # Foreign /\ kind \in {"", row.kind} /\ outcome \in {"", row.outcome}

SettleRow(r, outcome) ==
  /\ rows[r].outcome = "active"
  /\ rows' = [rows EXCEPT ![r].outcome = outcome]
  /\ stable' = {s \in stable : Meets(rows'[s], walk.kind, walk.outcome)}
  /\ UNCHANGED walk

Matching(anchor, kind, outcome) ==
  {r \in DOMAIN rows : r <= anchor /\ Meets(rows[r], kind, outcome)}
Descending(S) == SetToSortSeq(S, LAMBDA p, q : p > q)

\* Mutant: the page is counted from the newest row.
PageFromTop(anchor, before, kind, outcome) ==
  LET all == Descending(Matching(Len(rows), kind, outcome))
  IN  SubSeq(all, Len(walk.shown) + 1, Len(all))
\* history: the rows of the anchor's past, newest first, behind the last row
\* that the reader has been shown.
Page(anchor, before, kind, outcome) ==
  Descending({r \in Matching(anchor, kind, outcome) : before = 0 \/ r < before})

Show(anchor, before, kind, outcome, shown) ==
  LET page == Page(anchor, before, kind, outcome)
  IN  walk' = [kind |-> kind, outcome |-> outcome, anchor |-> anchor,
               more |-> Len(page) > PageSize,
               shown |-> shown \o SubSeq(page, 1, IF Len(page) > PageSize THEN PageSize ELSE Len(page))]

\* reference: the anchor is the newest attempt of the campaign.
Newest == Max({0} \cup {r \in DOMAIN rows : rows[r] # Foreign})

FirstPage(kind, outcome) ==
  /\ walk = NotStarted
  /\ Show(Newest, 0, kind, outcome, <<>>)
  /\ stable' = Matching(Newest, kind, outcome)
  /\ UNCHANGED rows

NextPage ==
  /\ walk.more /\ walk.shown # <<>>
  /\ Show(walk.anchor, Last(walk.shown), walk.kind, walk.outcome, walk.shown)
  /\ UNCHANGED <<rows, stable>>

HistoryNext ==
  \/ \E kind \in Kinds : AdmitRow(kind)
  \/ AdmitForeign
  \/ \E r \in DOMAIN rows, outcome \in {"complete", "error"} : SettleRow(r, outcome)
  \/ \E kind \in {"", "build"}, outcome \in {"", "active", "complete"} : FirstPage(kind, outcome)
  \/ NextPage

-----------------------------------------------------------------------------
\* "Attempts are ordered by their immutable admission row": whatever is admitted
\* or settled while a reader turns the pages, it is shown attempts of its
\* campaign up to its anchor, newest first and none twice, and by the last page
\* every one that met its filter all the time.
WalkExact ==
  /\ \A i \in DOMAIN walk.shown :
       /\ rows[walk.shown[i]] # Foreign /\ walk.shown[i] <= walk.anchor
       /\ walk.kind \in {"", rows[walk.shown[i]].kind}
       /\ \A j \in DOMAIN walk.shown : i < j => walk.shown[i] > walk.shown[j]
  /\ ~walk.more => stable \subseteq ToSet(walk.shown)
=============================================================================
