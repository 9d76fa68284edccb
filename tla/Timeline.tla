------------------------------ MODULE Timeline ------------------------------
(***************************************************************************)
(* history.overview: the attempts of a campaign over a window of time, as  *)
(* intervals while they are few and counted in buckets when they are many. *)
(* The campaign was created at time 0; times are integers and a bucket's   *)
(* bounds are compared after multiplying by the number of buckets.         *)
(***************************************************************************)
EXTENDS Integers, FiniteSets, FiniteSetsExt

CONSTANTS
  Entry,          \* attempts
  Now,            \* the time of the request
  TimelineLimit,  \* TIMELINE_LIMIT
  Buckets         \* BUCKETS

VARIABLES
  life,     \* created and finished, if so, of each attempt
  window    \* the requested window, 0 for all

timelineVars == <<life, window>>

Unfinished == -1
Lives == {l \in [created : 0..Now, finished : {Unfinished} \cup 0..Now] :
            l.finished = Unfinished \/ l.created <= l.finished}

TimelineInit ==
  /\ life \in [Entry -> Lives]
  /\ window \in 0..(Now + 1)

Until(e) == IF life[e].finished = Unfinished THEN Now ELSE life[e].finished
End == Max({1} \cup {Until(e) : e \in Entry})
Start == IF window = 0 THEN 0 ELSE Max({0, End - window})
Width == Max({1, End - Start})

Intervals == {e \in Entry : life[e].created <= End /\ Until(e) >= Start}

\* The attempts that touch bucket n.
Bucket(n) ==
  {e \in Entry : /\ life[e].created * Buckets < Start * Buckets + (n + 1) * Width
                 /\ Until(e) * Buckets >= Start * Buckets + n * Width}

Shown ==
  IF Cardinality(Intervals) > TimelineLimit
  THEN UNION {Bucket(n) : n \in 0..(Buckets - 1)}
  ELSE Intervals

-----------------------------------------------------------------------------
\* "Fixed-size duration occupancy, not a sample of recent attempts": every
\* attempt that was running in the window is on the timeline, as an interval or
\* in a bucket, unless it was created at the very end of the window; and one that
\* was not is on neither.
TimelineComplete ==
  /\ \A e \in Entry : life[e].created < End /\ Until(e) >= Start => e \in Shown
  /\ Shown \subseteq Intervals
=============================================================================
