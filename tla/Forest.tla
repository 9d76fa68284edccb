------------------------------- MODULE Forest -------------------------------
(***************************************************************************)
(* data.build_forest: the activities of a build are drawn below the roots  *)
(* they were requested for.  For each one a breadth-first search upwards   *)
(* looks for a root or for something drawn already, with a bound on the    *)
(* length of a path and on the queries of one page.                        *)
(* A derivation is a number, so that parents come in the order of the      *)
(* query; the 33 parents it may return are more than there are here.       *)
(***************************************************************************)
EXTENDS Naturals, Sequences, FiniteSets, SequencesExt

CONSTANTS
  Node,           \* derivations
  ParentChoices,  \* pairs of child and parent from which a graph is drawn
  RootChoices,    \* sets of roots of a request
  ScopeChoices,   \* scopes that the page may be given
  MaxLive,        \* bound on the activities of the request
  MaxPath,        \* 8 in the code
  Queries         \* 256 in the code

VARIABLES
  above,      \* the edges: pairs of child and parent
  roots,      \* the targets of the request
  scope,      \* the derivations of the scope that the page was given
  live,       \* the activities that have not stopped, in the order of the query
  turn,       \* the one that is looked at
  search,     \* the deque: chains from the activity upwards
  seen,
  asked,      \* derivations whose parents were read
  placed,     \* the path from a root of everything drawn
  detached    \* activities without a path

forestVars == <<above, roots, scope, live, turn, search, seen, asked, placed, detached>>

\* observed.setdefault: no activity twice.
ForestInit ==
  /\ above \in SUBSET ParentChoices
  /\ roots \in RootChoices
  /\ scope \in ScopeChoices
  /\ live \in {s \in UNION {[1..k -> Node] : k \in 1..MaxLive} :
                 \A i, j \in DOMAIN s : s[i] = s[j] => i = j}
  /\ turn = 1
  /\ search = << <<live[1]>> >> /\ seen = {live[1]}
  /\ asked = {} /\ placed = <<>> /\ detached = {}

\* The next activity, with a search of its own.
Turn ==
  /\ turn' = turn + 1
  /\ search' = IF turn = Len(live) THEN <<>> ELSE << <<live[turn + 1]>> >>
  /\ seen' = IF turn = Len(live) THEN {} ELSE {live[turn + 1]}

\* The path from a root down to the activity, when the chain has got to a root or
\* to something drawn.
PathTo(chain) ==
  LET top == Last(chain)
  IN  IF top \in DOMAIN placed THEN placed[top] \o Reverse(Front(chain)) ELSE Reverse(chain)

\* A path is drawn unless it is too long.
Draw(path) ==
  IF Len(path) <= MaxPath
  THEN /\ placed' = [n \in DOMAIN placed \cup ToSet(path) |->
                       IF n \in ToSet(path) THEN SubSeq(path, 1, SelectInSeq(path, LAMBDA x : x = n))
                       ELSE placed[n]]
       /\ UNCHANGED detached
  ELSE /\ detached' = detached \cup {live[turn]}
       /\ UNCHANGED placed

Arrives(chain) == Last(chain) \in DOMAIN placed \cup roots
Asks(chain) == ~Arrives(chain) /\ Len(chain) < MaxPath

Found ==
  /\ search # <<>> /\ Arrives(Head(search))
  /\ Draw(PathTo(Head(search)))
  /\ Turn
  /\ UNCHANGED <<above, roots, scope, live, asked>>

\* The parents in scope that the search has not met yet, in order.
Above(n) ==
  SetToSortSeq({p \in scope \ seen : <<n, p>> \in above}, LAMBDA p, q : p < q)

Climb ==
  /\ search # <<>> /\ Asks(Head(search))
  /\ LET chain == Head(search)
         next == Above(Last(chain))
     IN  /\ Last(chain) \in asked \/ Cardinality(asked) < Queries
         /\ asked' = asked \cup {Last(chain)}
         /\ search' = Tail(search) \o [i \in DOMAIN next |-> Append(chain, next[i])]
         /\ seen' = seen \cup ToSet(next)
  /\ UNCHANGED <<above, roots, scope, live, turn, placed, detached>>

TooDeep ==
  /\ search # <<>> /\ ~Arrives(Head(search)) /\ Len(Head(search)) >= MaxPath
  /\ search' = Tail(search)
  /\ UNCHANGED <<above, roots, scope, live, turn, seen, asked, placed, detached>>

\* Nothing is left to look at, or no query is left to look with.
NotFound ==
  /\ turn <= Len(live)
  /\ \/ search = <<>>
     \/ /\ search # <<>> /\ Asks(Head(search))
        /\ Last(Head(search)) \notin asked /\ Cardinality(asked) >= Queries
  /\ detached' = detached \cup {live[turn]}
  /\ Turn
  /\ UNCHANGED <<above, roots, scope, live, asked, placed>>

ForestNext == Found \/ Climb \/ TooDeep \/ NotFound

-----------------------------------------------------------------------------
\* "A shared dependency appears once per request": what is drawn is a forest
\* whose trees grow from roots of the request along real edges.  Everything on a
\* path is drawn where the path goes through it, so that nothing has two places,
\* and no path is longer than the page allows.
ForestIsTrue ==
  \A n \in DOMAIN placed :
    LET path == placed[n]
    IN  /\ Len(path) \in 1..MaxPath
        /\ path[1] \in roots /\ Last(path) = n
        /\ \A i \in 2..Len(path) : <<path[i], path[i - 1]>> \in above /\ path[i - 1] \in scope \cup roots
        /\ \A i \in DOMAIN path : placed[path[i]] = SubSeq(path, 1, i)

\* "Unconnected activities remain visible": every live activity that has been
\* looked at is drawn or listed.
ActivitiesVisible ==
  \A i \in 1..(turn - 1) : live[i] \in DOMAIN placed \cup detached
=============================================================================
