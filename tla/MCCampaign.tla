----------------------------- MODULE MCCampaign -----------------------------
(***************************************************************************)
(* Small campaigns for TLC.                                                *)
(***************************************************************************)
EXTENDS Views, TLC

\* Two roots over a shared library.
TwoRoots == {"r1", "r2", "lib"}
OneOutput == [d \in TwoRoots |-> "out" :> d]
SharedLib == { <<"r1", "lib", {"out"}>>, <<"r2", "lib", {"out"}>> }

Single == [c \in Candidate |-> "k1"]

\* Candidates 1 and 3 are aliases of r1, 2 evaluates to r2.
AliasRecipe ==
  [c \in Candidate |-> [r \in {"base", "fix"} |-> IF c = 2 THEN "r2" ELSE "r1"]]

Batched(ahead, lanes, batch) ==
  [ahead |-> ahead, lanes |-> lanes, batch |-> batch, rolling |-> FALSE]
Rolling(ahead) == [ahead |-> ahead, lanes |-> 1, batch |-> 1, rolling |-> TRUE]

TwoLanes == {Batched(2, 2, 1)}
Serial == {Batched(0, 1, 2)}
RollingOnly == {Rolling(2)}
EitherPolicy == {Rolling(2), Batched(2, 2, 1)}

\* Candidate 1 is r1, candidate 2 is r2.
PlainRecipe ==
  [c \in Candidate |-> [r \in {"base", "fix"} |-> IF c = 1 THEN "r1" ELSE "r2"]]

\* Candidate 4 is r1 in a campaign of its own.
Cross == [c \in Candidate |-> IF c = 4 THEN "k2" ELSE "k1"]

\* Candidate 1 needs the library that candidate 2 is.  At the fixed revision the
\* library is replaced by f1 and candidate 1 does not evaluate.
FixDrvs == {"r1", "r2", "lib", "f1"}
FixOutput == [d \in FixDrvs |-> "out" :> d]
FixRecipe ==
  [c \in Candidate |->
    IF c = 1 THEN [base |-> "r1", fix |-> NoDrv]
    ELSE [base |-> "lib", fix |-> "f1"]]

\* Only r1 needs lib.
OwnLib == { <<"r1", "lib", {"out"}>> }
=============================================================================
