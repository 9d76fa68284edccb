---------------------------- MODULE NeededSearch ----------------------------
(***************************************************************************)
(* BuildGraph.needed (experiment/scheduling.py), the worklist search that  *)
(* decides which derivations a build owns.  It is iterative so that deep   *)
(* and cyclic graphs are handled, and a derivation reached through several *)
(* branches has to union their output requirements.                        *)
(***************************************************************************)
EXTENDS BuildGraph, Naturals

CONSTANT EdgeChoices   \* the edges from which an input graph is drawn

ASSUME EdgeAssumption == EdgeChoices \subseteq Edge

VARIABLES
  edges, targets, available,   \* the inputs
  todo,                        \* pending (derivation, required outputs)
  needed                       \* the result so far

inputs == <<edges, targets, available>>
vars == <<edges, targets, available, todo, needed>>

Item == Drv \X SUBSET OutName

TypeOK ==
  /\ edges \subseteq EdgeChoices
  /\ targets \subseteq Drv
  /\ available \subseteq Path
  /\ todo \subseteq Item
  /\ needed \subseteq Drv

\* todo = [(d, list(self.outputs(d))) for d in targets]
Init ==
  /\ edges \in SUBSET EdgeChoices
  /\ targets \in SUBSET Drv
  /\ available \in SUBSET Path
  /\ todo = {<<t, DOMAIN Outputs[t]>> : t \in targets}
  /\ needed = {}

\* Pending work for the inputs of a derivation.
Inputs(d) == {<<e[2], e[3]>> : e \in {f \in edges : f[1] = d}}

\* Mutant: the derivation is reserved before its outputs are looked at.
VisitReservesFirst(item) ==
  /\ IF Satisfied(item[1], item[2], available) \/ item[1] \in needed
     THEN todo' = todo \ {item}
     ELSE todo' = (todo \ {item}) \cup Inputs(item[1])
  /\ needed' = needed \cup {item[1]}
  /\ UNCHANGED inputs

\* One turn of the loop.  The list is popped in some order, and an item pushed
\* twice is dropped the second time.
Visit(item) ==
  /\ IF Satisfied(item[1], item[2], available) \/ item[1] \in needed
     THEN /\ todo' = todo \ {item}
          /\ UNCHANGED needed
     ELSE /\ todo' = (todo \ {item}) \cup Inputs(item[1])
          /\ needed' = needed \cup {item[1]}
  /\ UNCHANGED inputs

Next == \E item \in todo : Visit(item)

Spec == Init /\ [][Next]_vars

-----------------------------------------------------------------------------
\* The search returns exactly the derivations that have to be built: nothing
\* with a missing required output is left out, and nothing whose required
\* outputs are all valid is reserved.
SearchIsExact ==
  todo = {} => needed = Needed(edges, targets, available)

\* The loop ends on every graph, cycles included.
Terminates == <>(todo = {})
=============================================================================
