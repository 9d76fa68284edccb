---------------------------- MODULE MCDashboard ----------------------------
(***************************************************************************)
(* An application over a library of two outputs, of which it wants one,    *)
(* and over a tool, which is a package too.                                *)
(***************************************************************************)
EXTENDS Dashboard, TLC

AppDrvs == {"app", "lib", "tool"}
AppPaths == {"app", "lib", "lib-dev", "tool"}
AppOutputs ==
  [d \in AppDrvs |-> IF d = "lib" THEN [out |-> "lib", dev |-> "lib-dev"] ELSE "out" :> d]
AppEdges == { <<"app", "lib", {"out"}>>, <<"app", "tool", {"out"}>> }
AppRecipe == [c \in Candidate |-> [r \in {"base", "fix"} |-> IF c = 1 THEN "app" ELSE "tool"]]
AppCampaign == [c \in Candidate |-> "k1"]
Lookahead == {[ahead |-> 2, lanes |-> 2, batch |-> 1, rolling |-> FALSE]}
=============================================================================
