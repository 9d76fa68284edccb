------------------------------- MODULE Bench -------------------------------
(***************************************************************************)
(* bench/php/bench.py: the variants of PHP are served one after the other  *)
(* on a fixed port, by the commands run, check, profile and service.  A    *)
(* server is a process of its own: it may take long to start, die under a  *)
(* request, and outlive a harness that is killed or gives up on it, so     *)
(* that the next harness finds the port taken.                             *)
(* An answer is "same" when it is the one of the first variant and comes   *)
(* without a line in the error log, and "bad" otherwise.                   *)
(***************************************************************************)
EXTENDS Naturals, Sequences, FiniteSets

CONSTANTS
  Harness,     \* processes of the harness, each of which runs one command
  Given,       \* the commands that each may be given
  Variant,     \* number of variants
  Urls         \* number of requests to each

ASSUME BenchAssumption == "none" \notin Harness /\ Variant \in Nat \ {0}

VARIABLES
  harness,     \* place, command, variants done, server, answers, verdict
  servers,     \* state and harness of every server that was started
  port,        \* the server that is bound to the port, 0 if none is
  flock,       \* the holder of the lock file, NoHarness if it is free
  recorded     \* results: the server, whether it gave all answers, and whether they were clean

benchVars == <<harness, servers, port, flock, recorded>>

NoHarness == "none"
Command == {"run", "check", "profile", "service"}
Ready == [pc |-> "off", mode |-> "run", done |-> 0, server |-> 0,
          got |-> <<>>, own |-> TRUE, ok |-> TRUE]
Alive == {"starting", "bound"}

BenchInit ==
  /\ harness = [h \in Harness |-> Ready]
  /\ servers = <<>> /\ port = 0 /\ flock = NoHarness /\ recorded = {}

In(h, pcs) == harness[h].pc \in pcs
Server(h) == servers[harness[h].server]

\* lock: waits for whoever holds it.
Lock(h, mode) ==
  /\ In(h, {"off"}) /\ flock = NoHarness
  /\ flock' = h
  /\ harness' = [harness EXCEPT ![h].pc = "quiet", ![h].mode = mode]
  /\ UNCHANGED <<servers, port, recorded>>

\* The process ends, and its lock with it.
Exit(h, pc) ==
  /\ harness' = [harness EXCEPT ![h] = [Ready EXCEPT !.pc = pc, !.mode = harness[h].mode]]
  /\ flock' = IF flock = h THEN NoHarness ELSE flock

\* wait_quiet: the machine stays busy.
GiveUp(h) ==
  /\ In(h, {"quiet"}) /\ harness[h].mode \in {"run", "service"}
  /\ Exit(h, "failed")
  /\ UNCHANGED <<servers, port, recorded>>

\* Popen.
Spawn(h) ==
  /\ In(h, {"quiet"})
  /\ servers' = Append(servers, [state |-> "starting", of |-> h])
  /\ harness' = [harness EXCEPT ![h].pc = "probe", ![h].server = Len(servers) + 1,
                                ![h].got = <<>>, ![h].own = TRUE]
  /\ UNCHANGED <<port, flock, recorded>>

\* A server comes as far as the port, and ends if it is taken.
Bind(s) ==
  /\ servers[s].state = "starting"
  /\ servers' = [servers EXCEPT ![s].state = IF port = 0 THEN "bound" ELSE "ended"]
  /\ port' = IF port = 0 THEN s ELSE port
  /\ UNCHANGED <<harness, flock, recorded>>

\* A server dies by itself.
Dies(s) ==
  /\ servers[s].state = "bound"
  /\ servers' = [servers EXCEPT ![s].state = "crashed"]
  /\ port' = 0
  /\ UNCHANGED <<harness, flock, recorded>>

\* stop: the server of the harness is gone afterwards.
Stopped(h) == IF Server(h).state \in Alive
              THEN [servers EXCEPT ![harness[h].server].state = "ended"] ELSE servers
PortWithout(h) == IF port = harness[h].server THEN 0 ELSE port

-----------------------------------------------------------------------------
\* The probe tells the pid of the server, or nginx the token of the session.
OwnServer(h) == port = harness[h].server

Probed(h) ==
  /\ In(h, {"probe"}) /\ OwnServer(h)
  /\ harness' = [harness EXCEPT ![h].pc = "measure"]
  /\ UNCHANGED <<servers, port, flock, recorded>>

\* Another server has the port; service goes on asking.
SomeoneElse(h) ==
  /\ In(h, {"probe"}) /\ port # 0 /\ ~OwnServer(h) /\ harness[h].mode # "service"
  /\ servers' = Stopped(h) /\ port' = PortWithout(h)
  /\ Exit(h, "failed")
  /\ UNCHANGED recorded

ServerExited(h) ==
  /\ In(h, {"probe"}) /\ Server(h).state \notin Alive
  /\ port = 0 \/ harness[h].mode = "service"
  /\ Exit(h, "failed")
  /\ UNCHANGED <<servers, port, recorded>>

\* It does not start in time.  Only service has a finally around the wait.
StartTimeout(h) ==
  /\ In(h, {"probe"}) /\ Server(h).state \in Alive
  /\ IF harness[h].mode = "service"
     THEN /\ servers' = Stopped(h) /\ port' = PortWithout(h)
          /\ Exit(h, "failed")
     ELSE /\ UNCHANGED <<servers, port>>
          /\ Exit(h, "timeout")
  /\ UNCHANGED recorded

\* A request is answered, by whichever server has the port.
Answered(h, answer) ==
  /\ In(h, {"measure"}) /\ port # 0 /\ Len(harness[h].got) < Urls
  /\ harness' = [harness EXCEPT ![h].got = Append(@, answer), ![h].own = @ /\ port = harness[h].server]
  /\ UNCHANGED <<servers, port, flock, recorded>>

\* The verdict of check on a variant, and that of service.
Clean(h) == \A i \in DOMAIN harness[h].got : harness[h].got[i] = "same"

FailedVariant(h) == [harness[h] EXCEPT !.done = @ + 1, !.ok = FALSE]

After(h, record) ==
  IF record.done < Variant
  THEN /\ harness' = [harness EXCEPT ![h] = [record EXCEPT !.pc = "quiet"]]
       /\ UNCHANGED flock
  ELSE Exit(h, IF record.ok THEN "passed" ELSE "failed")

\* A request fails or gets an error: check reports it and goes on, the others end.
RequestFails(h) ==
  /\ In(h, {"measure"}) /\ Len(harness[h].got) < Urls
  /\ servers' = Stopped(h) /\ port' = PortWithout(h)
  /\ IF harness[h].mode = "check" THEN After(h, FailedVariant(h))
     ELSE Exit(h, "failed")
  /\ UNCHANGED recorded

\* record_perf: perf does not attach, fails or has recorded nothing.
CaptureFails(h) ==
  /\ In(h, {"measure"}) /\ harness[h].mode \in {"profile", "service"}
  /\ servers' = Stopped(h) /\ port' = PortWithout(h)
  /\ Exit(h, "failed")
  /\ UNCHANGED recorded

\* All answers are there: the result is recorded and the server stopped.
Measured(h) ==
  LET judged == harness[h].mode \in {"check", "service"}
      next == [harness[h] EXCEPT !.done = @ + 1, !.ok = @ /\ (judged => Clean(h))]
  IN  /\ In(h, {"measure"}) /\ Len(harness[h].got) = Urls
      /\ servers' = Stopped(h) /\ port' = PortWithout(h)
      /\ recorded' = recorded \cup {[server |-> harness[h].server, own |-> harness[h].own, clean |-> Clean(h)]}
      /\ IF harness[h].mode = "service" /\ ~next.ok
         THEN Exit(h, "failed")
         ELSE After(h, next)

\* service: the graceful stop takes too long and its wait raises.
StopHangs(h) ==
  /\ In(h, {"measure"}) /\ harness[h].mode = "service" /\ Server(h).state \in Alive
  /\ Exit(h, "timeout")
  /\ UNCHANGED <<servers, port, recorded>>

Kill(h) ==
  /\ In(h, {"quiet", "probe", "measure"})
  /\ Exit(h, "killed")
  /\ UNCHANGED <<servers, port, recorded>>

BenchNext ==
  \/ \E h \in Harness : \E mode \in Given[h] \cap Command : Lock(h, mode)
  \/ \E h \in Harness : GiveUp(h)
  \/ \E h \in Harness : Spawn(h)
  \/ \E h \in Harness : Probed(h)
  \/ \E h \in Harness : SomeoneElse(h)
  \/ \E h \in Harness : ServerExited(h)
  \/ \E h \in Harness : StartTimeout(h)
  \/ \E h \in Harness, answer \in {"same", "bad"} : Answered(h, answer)
  \/ \E h \in Harness : RequestFails(h)
  \/ \E h \in Harness : CaptureFails(h)
  \/ \E h \in Harness : Measured(h)
  \/ \E h \in Harness : StopHangs(h)
  \/ \E h \in Harness : Kill(h)
  \/ \E s \in DOMAIN servers : Bind(s)
  \/ \E s \in DOMAIN servers : Dies(s)

BenchSpec == BenchInit /\ [][BenchNext]_benchVars

-----------------------------------------------------------------------------
\* "The ports are fixed; make sure this is our server, not someone else's": what
\* is recorded for a variant was answered by its own server, however many servers
\* of dead harnesses are about, unless that server died between two requests.
MeasuredIsOwn ==
  \A r \in recorded : r.own \/ servers[r.server].state = "crashed"

\* "One measurement at a time on this machine", and a harness that dies does not
\* keep the others out.
OneMeasurement ==
  LET busy == {h \in Harness : In(h, {"quiet", "probe", "measure"})}
  IN  Cardinality(busy) <= 1 /\ (flock = NoHarness <=> busy = {})

\* A check or a service test that passes has had every answer of every variant,
\* each as it should be.
PassedIsClean ==
  \A h \in Harness :
    In(h, {"passed"}) /\ harness[h].mode \in {"check", "service"} =>
      Cardinality({r \in recorded : servers[r.server].of = h /\ r.clean}) = Variant

\* A server outlives its harness only if that was killed or gave up waiting.
ServersStopped ==
  \A s \in DOMAIN servers :
    servers[s].state \in Alive =>
      \/ In(servers[s].of, {"killed", "timeout"})
      \/ In(servers[s].of, {"probe", "measure"}) /\ harness[servers[s].of].server = s
=============================================================================
