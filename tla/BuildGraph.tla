----------------------------- MODULE BuildGraph -----------------------------
(***************************************************************************)
(* The recorded derivation graph and the questions asked of it: the        *)
(* closure of a derivation (experiment/model.py) and the derivations that  *)
(* a set of targets still needs built (experiment/scheduling.py,           *)
(* BuildGraph).  An edge <<p, c, req>> says that p takes the outputs named *)
(* in req from its input derivation c.                                     *)
(***************************************************************************)

CONSTANTS
  Drv,       \* derivations
  OutName,   \* names of outputs
  Path,      \* store paths
  NoPath,    \* an output whose path is not recorded
  Outputs    \* the outputs of a derivation: name -> path or NoPath

ASSUME GraphAssumption ==
  /\ NoPath \notin Path
  /\ \A d \in Drv : /\ DOMAIN Outputs[d] \subseteq OutName
                    /\ \A o \in DOMAIN Outputs[d] :
                         Outputs[d][o] \in Path \cup {NoPath}

Edge == Drv \X Drv \X SUBSET OutName

\* outputs(drv).get(name)
OutputPath(d, o) == IF o \in DOMAIN Outputs[d] THEN Outputs[d][o] ELSE NoPath

\* paths(drvs): the recorded output paths.
Paths(ds) ==
  {p \in Path : \E d \in ds : \E o \in DOMAIN Outputs[d] : Outputs[d][o] = p}

\* All required outputs are known and valid.  An empty requirement is unknown,
\* never satisfied.
Satisfied(d, required, available) ==
  LET paths == {OutputPath(d, o) : o \in required}
  IN  paths # {} /\ NoPath \notin paths /\ paths \subseteq available

\* A derivation and everything it is built from.
Closure(edges, d) ==
  {c \in Drv : \A S \in SUBSET Drv :
     /\ d \in S
     /\ \A e \in edges : e[1] \in S => e[2] \in S
     => c \in S}

\* S holds whatever must be built for the targets: each target with an output
\* missing, and each input some member of S takes a missing output from.
ClosedUnderNeed(edges, targets, available, S) ==
  /\ \A t \in targets :
       ~Satisfied(t, DOMAIN Outputs[t], available) => t \in S
  /\ \A e \in edges :
       e[1] \in S /\ ~Satisfied(e[2], e[3], available) => e[2] \in S

\* The reference definition: the least such set.
Needed(edges, targets, available) ==
  {d \in Drv : \A S \in SUBSET Drv :
     d \notin S => ~ClosedUnderNeed(edges, targets, available, S)}
=============================================================================
