------------------------------ MODULE Archive ------------------------------
(***************************************************************************)
(* What the analytics export promises its readers: the data set they see   *)
(* is a snapshot the source once was, and it never goes back to an earlier *)
(* one.                                                                    *)
(***************************************************************************)
EXTENDS Naturals, Sequences

VARIABLES
  history,     \* the states of the source so far, the current one last
  at,          \* the one that is published, 0 before there is any
  published    \* what a reader sees

vars == <<history, at, published>>

Init ==
  /\ Len(history) = 1
  /\ at = 0 /\ published = <<>>

Change ==
  /\ Len(history') = Len(history) + 1
  /\ SubSeq(history', 1, Len(history)) = history
  /\ UNCHANGED <<at, published>>

Publish ==
  /\ at' \in (at + 1)..Len(history)
  /\ published' = history[at']
  /\ UNCHANGED history

Next == Change \/ Publish

Spec == Init /\ [][Next]_vars
=============================================================================
