--------------------------- MODULE AttemptContract ---------------------------
(***************************************************************************)
(* What the durable-intent protocol promises about one attempt, whatever   *)
(* the controller, systemd and the worker do in between: an attempt is     *)
(* opened once, settled at most once and never reopened, and its work is   *)
(* executed at most once and only after it was opened.                     *)
(***************************************************************************)
EXTENDS Naturals

CONSTANT Attempt

VARIABLES
  phase,   \* "none", "open" (intent committed), "settled" (terminal row)
  ran      \* number of times the attempt's work was executed

vars == <<phase, ran>>

Init ==
  /\ phase = [a \in Attempt |-> "none"]
  /\ ran = [a \in Attempt |-> 0]

Open(a) ==
  /\ phase[a] = "none"
  /\ phase' = [phase EXCEPT ![a] = "open"]
  /\ UNCHANGED ran

\* Execution is not tied to the open phase: a start request already handed to
\* systemd can still be honoured after the attempt was settled.
Run(a) ==
  /\ phase[a] # "none"
  /\ ran[a] = 0
  /\ ran' = [ran EXCEPT ![a] = 1]
  /\ UNCHANGED phase

Settle(a) ==
  /\ phase[a] = "open"
  /\ phase' = [phase EXCEPT ![a] = "settled"]
  /\ UNCHANGED ran

Next == \E a \in Attempt : Open(a) \/ Run(a) \/ Settle(a)

Spec == Init /\ [][Next]_vars
=============================================================================
