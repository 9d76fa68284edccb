--------------------------- MODULE BuildEvidence ---------------------------
(***************************************************************************)
(* What the messages of one build attempt come to: builders write records, *)
(* the controller turns them into activity rows one after the other        *)
(* (nix.observe), and the settlement decides from the rows, from the raw   *)
(* log (nix.failure_messages) and from the store which derivations were    *)
(* built, tested or failed, and where (finish_build).  Campaign takes this *)
(* verdict as given.                                                       *)
(*                                                                         *)
(* A derivation has one builder in an attempt, so records are told apart   *)
(* by derivation.                                                          *)
(***************************************************************************)
EXTENDS Naturals, Sequences, FiniteSets

CONSTANTS
  Step,          \* derivations, each needing the ones before it (a sequence)
  LogRecords     \* records that the policy's bytes allow

ASSUME EvidenceAssumption ==
  /\ Step \in Seq({Step[i] : i \in DOMAIN Step}) /\ Step # <<>>
  /\ \A i, j \in DOMAIN Step : Step[i] = Step[j] => i = j
  /\ \A i \in DOMAIN Step : Step[i] # "none"
  /\ LogRecords \in Nat

VARIABLES
  before,        \* derivations that were valid when the build began
  realized,      \* derivations that are valid now
  builder,       \* what each builder really does
  records,       \* stderr.log
  cut,           \* the log limit was hit
  activities,    \* rows of the table
  taken,         \* records observed so far
  reason,        \* how the worker ended, or "none"
  verdict        \* per derivation, or "none" before the settlement

evidenceVars == <<before, realized, builder, records, cut, activities, taken, reason, verdict>>

Steps == {Step[i] : i \in DOMAIN Step}
BuildPhases == <<"buildPhase", "checkPhase", "installPhase">>
Idle == [pc |-> "none", phase |-> 0]
NoRow == [drv |-> "none", phase |-> "none", checks |-> {}, stopped |-> FALSE]

EvidenceInit ==
  /\ \E n \in 0..(Len(Step) - 1) : before = {Step[i] : i \in 1..n}
  /\ realized = before
  /\ builder = [d \in Steps |-> Idle] /\ records = <<>> /\ cut = FALSE
  /\ activities = [d \in Steps |-> NoRow] /\ taken = 0
  /\ reason = "none" /\ verdict = [d \in Steps |-> "none"]

-----------------------------------------------------------------------------
(* Nix and the worker.                                                     *)

Smaller(m, n) == IF m < n THEN m ELSE n

\* The log keeps what the policy allows, and then the attempt is stopped.
Write(new) ==
  /\ reason = "none" /\ ~cut
  /\ records' = records \o SubSeq(new, 1, Smaller(Len(new), LogRecords - Len(records)))
  /\ cut' = (Len(records) + Len(new) > LogRecords)

Line(kind, d, phase) == [kind |-> kind, drv |-> d, phase |-> phase]

StartBuilder(i) ==
  /\ builder[Step[i]].pc = "none" /\ Step[i] \notin realized
  /\ \A j \in 1..(i - 1) : Step[j] \in realized
  /\ builder' = [builder EXCEPT ![Step[i]].pc = "running"]
  /\ Write(<<Line("start", Step[i], "none")>>)
  /\ UNCHANGED <<before, realized, activities, taken, reason, verdict>>

\* A build may leave phases out.
EnterPhase(d, n) ==
  /\ builder[d].pc = "running" /\ builder[d].phase < n
  /\ builder' = [builder EXCEPT ![d].phase = n]
  /\ Write(<<Line("phase", d, BuildPhases[n])>>)
  /\ UNCHANGED <<before, realized, activities, taken, reason, verdict>>

Succeed(d) ==
  /\ builder[d].pc = "running"
  /\ builder' = [builder EXCEPT ![d].pc = "built"]
  /\ realized' = realized \cup {d}
  /\ Write(<<Line("stop", d, "none")>>)
  /\ UNCHANGED <<before, activities, taken, reason, verdict>>

\* The failure is reported, and so is everything that depends on it.
Break(i) ==
  /\ builder[Step[i]].pc = "running"
  /\ builder' = [builder EXCEPT ![Step[i]].pc = "failed"]
  /\ Write(<<Line("stop", Step[i], "none"), Line("builder failed", Step[i], "none")>>
             \o [j \in 1..(Len(Step) - i) |-> Line("dependency failed", Step[i + j], "none")])
  /\ UNCHANGED <<before, realized, activities, taken, reason, verdict>>

\* The worker reports its result, or is killed with its builders.
EndAttempt(how) ==
  /\ reason = "none"
  /\ how = "completed" => Steps \subseteq realized /\ ~cut
  /\ how = "build-error" => ~cut /\ \E d \in Steps : builder[d].pc = "failed"
  /\ how = "log-limit" => cut
  /\ reason' = how
  /\ UNCHANGED <<before, realized, builder, records, cut, activities, taken, verdict>>

-----------------------------------------------------------------------------
(* The controller.                                                         *)

\* observe: a start makes a row, a phase is noted in it, and a stop is no more
\* than that.
observe(row, r) ==
  CASE r.kind = "start" /\ row = NoRow -> [NoRow EXCEPT !.drv = r.drv]
    [] r.kind = "phase" /\ row # NoRow ->
         [row EXCEPT !.phase = r.phase, !.checks = @ \cup ({r.phase} \cap {"checkPhase"})]
    [] r.kind = "stop" /\ row # NoRow -> [row EXCEPT !.stopped = TRUE]
    [] OTHER -> row

ObserveRecord ==
  /\ taken < Len(records) /\ verdict[Step[1]] = "none"
  /\ LET r == records[taken + 1] IN activities' = [activities EXCEPT ![r.drv] = observe(@, r)]
  /\ taken' = taken + 1
  /\ UNCHANGED <<before, realized, builder, records, cut, reason, verdict>>

\* Mutant: every line that says something failed.
failure_messages_all ==
  {r.drv : r \in {records[i] : i \in {j \in DOMAIN records :
     records[j].kind \in {"builder failed", "dependency failed"}}}}
\* "Only Nix's root builder-failed diagnostic, never its dependent-failed line."
failure_messages ==
  {r.drv : r \in {records[i] : i \in {j \in DOMAIN records : records[j].kind = "builder failed"}}}

Complete(d) == d \in realized

\* finish_build, of one derivation.
VerdictOn(d) ==
  IF Complete(d)
  THEN IF d \in before THEN "pre-existing"
       ELSE IF activities[d] = NoRow THEN "unknown"
       ELSE IF activities[d].checks # {} /\ reason # "log-limit" THEN "tested" ELSE "built"
  ELSE IF reason = "build-error" /\ d \in failure_messages
  THEN CASE activities[d].phase = "buildPhase" -> "failed to build"
         [] activities[d].phase = "checkPhase" -> "failed its checks"
         [] OTHER -> "failed"
  ELSE "open"

\* With a result, all of the log is observed first.
SettleVerdict ==
  /\ reason # "none" /\ verdict[Step[1]] = "none"
  /\ reason # "stopped" => taken = Len(records)
  /\ verdict' = [d \in Steps |-> VerdictOn(d)]
  /\ UNCHANGED <<before, realized, builder, records, cut, activities, taken, reason>>

EvidenceNext ==
  \/ \E i \in DOMAIN Step : StartBuilder(i)
  \/ \E d \in Steps, n \in DOMAIN BuildPhases : EnterPhase(d, n)
  \/ \E d \in Steps : Succeed(d)
  \/ \E i \in DOMAIN Step : Break(i)
  \/ \E how \in {"completed", "build-error", "log-limit", "stopped"} : EndAttempt(how)
  \/ ObserveRecord
  \/ SettleVerdict

EvidenceSpec == EvidenceInit /\ [][EvidenceNext]_evidenceVars

-----------------------------------------------------------------------------
\* "Stop is not a success signal": what is called built or tested is the work of
\* a builder of this attempt that succeeded, and a tested one ran its checks.
PassedIsBuilt ==
  \A d \in Steps :
    /\ verdict[d] \in {"built", "tested"} => builder[d].pc = "built"
    /\ verdict[d] = "tested" =>
         \E i \in DOMAIN records : records[i] = Line("phase", d, "checkPhase")

\* A derivation is called failed only if its own builder failed, and the phase it
\* failed in is the last one the builder entered: a dependent never is.
FailureIsOwn ==
  \A d \in Steps :
    /\ verdict[d] \in {"failed to build", "failed its checks", "failed"} => builder[d].pc = "failed"
    /\ verdict[d] = "failed to build" => builder[d].phase = 1
    /\ verdict[d] = "failed its checks" => builder[d].phase = 2

\* Nothing is lost when the worker reports: a builder that succeeded is called
\* built, or tested if it ran its checks, and one that failed is called failed.
ReportIsComplete ==
  \A d \in Steps : verdict[d] # "none" /\ reason \in {"completed", "build-error"} =>
    /\ builder[d].pc = "built" =>
         verdict[d] = (IF \E i \in DOMAIN records : records[i] = Line("phase", d, "checkPhase")
                       THEN "tested" ELSE "built")
    /\ builder[d].pc = "failed" => verdict[d] \in {"failed to build", "failed its checks", "failed"}

\* The verdicts on the derivations of a build are those of their own builders.
VerdictsTrue == PassedIsBuilt /\ FailureIsOwn /\ ReportIsComplete
=============================================================================
