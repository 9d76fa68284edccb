----------------------------- MODULE Classifier -----------------------------
(***************************************************************************)
(* The failure classifier (experiment/classifications.py): batch runs that *)
(* pay a provider for an opinion on the evidence of a candidate, keep every *)
(* request in a file named by its digest, and import the answers through   *)
(* the controller's socket, which discards those whose source has moved on.*)
(*                                                                         *)
(* A hash is the value it is the hash of.  A step of a run ends at a file  *)
(* operation, at the request and at the exchange with the controller, so   *)
(* that a run can be killed, and another one can step, between any two.    *)
(***************************************************************************)
EXTENDS Naturals, Sequences, FiniteSets, SequencesExt, Functions

CONSTANTS
  Worker, Nobody,
  Order,        \* the tasks <<candidate, kind>> in the order a run meets them
  Limit,        \* requests one run may pay for
  MaxChanges, MaxKills, MaxClears   \* bounds on the environment

ASSUME ClassifierAssumption ==
  /\ IsInjective(Order)
  /\ \A i \in DOMAIN Order :
       Order[i][2] \in {"showcase", "package", "diagnostic", "patch"}
  /\ Limit \in 1..1000
  /\ IsFiniteSet(Worker) /\ Nobody \notin Worker
  /\ {MaxChanges, MaxKills, MaxClears} \subseteq Nat

VARIABLES
  row,          \* candidates joined with derivations, by candidate
  graph,        \* the neighbourhood recorded in edges and roles
  stored,       \* the table classifications: items by task
  file,         \* state/classifications: contents by digest
  run,          \* the runs in progress, by worker
  inbox,        \* connections the controller has not served yet, in order
  paid,         \* requests that reached the provider, by digest
  changes, kills, cleared   \* what the environment has done

vars == <<row, graph, stored, file, run, inbox, paid, changes, kills, cleared>>

Task == ToSet(Order)
Candidate == {t[1] : t \in Task}

\* One version of each column; the error is recorded or not.
Row == [selection : Nat, recipe : Nat, error : Nat, attempt : Nat]
FirstRow == [selection |-> 0, recipe |-> 0, error |-> 1, attempt |-> 0]

\* The columns an answer of the kind is about.
source_fields(r, kind) ==
  CASE kind = "showcase" -> <<r.selection>>
    [] kind = "package" -> <<r.selection, r.recipe>>
    [] kind = "diagnostic" -> <<r.error, r.attempt>>
    [] kind = "patch" -> <<r.recipe>>

\* What work hands to the provider.  The graph around a package is read when
\* the request is made, not when the rows were.
Evidence(t, r) ==
  <<t, CASE t[2] = "showcase" -> <<r.selection>>
         [] t[2] = "package" -> <<r.selection, r.recipe, graph>>
         [] t[2] = "diagnostic" -> <<r.error>>
         [] t[2] = "patch" -> <<r.recipe>>>>

Applies(t, r) == t[2] = "diagnostic" => r.error # 0

\* classification_index: a stored answer counts while its source is current.
Current(t) ==
  /\ t \in DOMAIN stored
  /\ stored[t].source = source_fields(row[t[1]], t[2])

Idle == [pc |-> "idle", rows |-> <<>>, todo |-> {}, count |-> 0, item |-> <<>>]

Item(t, r) == [task |-> t, source |-> source_fields(r, t[2]), evidence |-> Evidence(t, r)]
Update(f, x, y) == [z \in DOMAIN f \cup {x} |-> IF z = x THEN y ELSE f[z]]
Paid(d) == IF d \in DOMAIN paid THEN paid[d] ELSE 0

TypeOK ==
  /\ DOMAIN row = Candidate /\ \A c \in Candidate : row[c] \in Row
  /\ DOMAIN stored \subseteq Task
  /\ \A d \in DOMAIN file : file[d] \in {"empty", "reserved", "error", "answer"}
  /\ \A w \in Worker : /\ run[w].pc \in {"idle", "scan", "open", "write", "ask",
                                        "answered", "refused", "send", "wait"}
                       /\ run[w].count \in 0..Limit
  /\ \A m \in ToSet(inbox) : m.from \in Worker \cup {Nobody}

Init ==
  /\ row = [c \in Candidate |-> FirstRow] /\ graph = 0
  /\ stored = <<>> /\ file = <<>> /\ paid = <<>>
  /\ run = [w \in Worker |-> Idle]
  /\ inbox = <<>> /\ changes = 0 /\ kills = 0 /\ cleared = 0

-----------------------------------------------------------------------------
(* The environment: the campaign moves on, the operator clears a request.  *)

Change ==
  /\ changes < MaxChanges
  /\ changes' = changes + 1
  /\ \/ /\ \E c \in Candidate, k \in {"recipe", "attempt", "error"} :
             row' = [row EXCEPT ![c][k] = IF k = "error" THEN 1 - @ ELSE @ + 1]
        /\ UNCHANGED graph
     \/ /\ graph' = graph + 1
        /\ UNCHANGED row
  /\ UNCHANGED <<stored, file, run, inbox, paid, kills, cleared>>

InHand(w, d) == run[w].pc \notin {"idle", "scan"} /\ run[w].item.evidence = d

\* "Explicitly clear failed/unknown reservations to retry": the operator removes
\* one that no run is working on.
Clear(d) ==
  /\ cleared < MaxClears
  /\ d \in DOMAIN file /\ file[d] # "answer"
  /\ \A w \in Worker : ~InHand(w, d)
  /\ file' = Restrict(file, DOMAIN file \ {d})
  /\ cleared' = cleared + 1
  /\ UNCHANGED <<row, graph, stored, run, inbox, paid, changes, kills>>

-----------------------------------------------------------------------------
(* A run.                                                                  *)

Goto(w, pc) == run' = [run EXCEPT ![w].pc = pc]

\* The rows and the answers that count already are read once, at the start.
Start(w) ==
  /\ run[w].pc = "idle"
  /\ run' = [run EXCEPT ![w] = [Idle EXCEPT !.pc = "scan", !.rows = row,
               !.todo = {t \in Task : Applies(t, row[t[1]]) /\ ~Current(t)}]]
  /\ UNCHANGED <<row, graph, stored, file, inbox, paid, changes, kills, cleared>>

Finish(w) ==
  /\ run[w].pc = "scan" /\ run[w].todo = {}
  /\ run' = [run EXCEPT ![w] = Idle]
  /\ UNCHANGED <<row, graph, stored, file, inbox, paid, changes, kills, cleared>>

\* Mutant: a run stops at a request that failed before.
FoundStops(w, t, item) ==
  IF file[item.evidence] = "answer"
  THEN run' = [run EXCEPT ![w].pc = "send", ![w].item = item]
  ELSE run' = [run EXCEPT ![w] = Idle]

\* What a run does with the file of a request that is there already: an answer
\* is imported again, a reservation or an error is passed over, and a file
\* with nothing in it is not JSON, so that the run dies.
Found(w, t, item) ==
  CASE file[item.evidence] = "answer" ->
         run' = [run EXCEPT ![w].pc = "send", ![w].item = item]
    [] file[item.evidence] = "empty" -> run' = [run EXCEPT ![w] = Idle]
    [] OTHER -> run' = [run EXCEPT ![w].todo = @ \ {t}]

\* The next request of the run, until the budget is used up.
Scan(w) ==
  /\ run[w].pc = "scan"
  /\ \E i \in DOMAIN Order :
       LET item == Item(Order[i], run[w].rows[Order[i][1]])
       IN  /\ Order[i] \in run[w].todo
           /\ \A j \in 1..(i - 1) : Order[j] \notin run[w].todo
           /\ IF item.evidence \in DOMAIN file THEN Found(w, Order[i], item)
              ELSE IF run[w].count >= Limit THEN run' = [run EXCEPT ![w] = Idle]
              ELSE run' = [run EXCEPT ![w].pc = "open", ![w].item = item]
  /\ UNCHANGED <<row, graph, stored, file, inbox, paid, changes, kills, cleared>>

\* The task of the item in hand is done with.
Continue(w) == [run[w] EXCEPT !.pc = "scan", !.todo = @ \ {run[w].item.task}, !.item = <<>>]

\* Mutant: the file is opened for writing whether it is there or not.
OpenAnyway(w) ==
  LET d == run[w].item.evidence
  IN  /\ run[w].pc = "open"
      /\ file' = Update(file, d, "empty")
      /\ Goto(w, "write")
      /\ UNCHANGED <<row, graph, stored, inbox, paid, changes, kills, cleared>>

\* open("x"): the file is created, empty, by one run only.
Open(w) ==
  LET d == run[w].item.evidence
  IN  /\ run[w].pc = "open"
      /\ IF d \in DOMAIN file
         THEN /\ run' = [run EXCEPT ![w] = Continue(w)]
              /\ UNCHANGED file
         ELSE /\ file' = Update(file, d, "empty")
              /\ Goto(w, "write")
      /\ UNCHANGED <<row, graph, stored, inbox, paid, changes, kills, cleared>>

\* The reservation is written and synced before the request is made.
Reserve(w) ==
  /\ run[w].pc = "write"
  /\ file' = Update(file, run[w].item.evidence, "reserved")
  /\ run' = [run EXCEPT ![w].pc = "ask", ![w].count = @ + 1]
  /\ UNCHANGED <<row, graph, stored, inbox, paid, changes, kills, cleared>>

\* ask: the provider is paid; its answer is one the rubric accepts or not.
Ask(w, good) ==
  LET d == run[w].item.evidence
  IN  /\ run[w].pc = "ask"
      /\ paid' = Update(paid, d, Paid(d) + 1)
      /\ Goto(w, IF good THEN "answered" ELSE "refused")
      /\ UNCHANGED <<row, graph, stored, file, inbox, changes, kills, cleared>>

\* atomic_json: the answer, or the kind of error, takes the reservation's place.
Record(w) ==
  LET d == run[w].item.evidence
  IN  /\ run[w].pc \in {"answered", "refused"}
      /\ IF run[w].pc = "answered"
         THEN file' = Update(file, d, "answer") /\ Goto(w, "send")
         ELSE /\ file' = Update(file, d, "error")
              /\ run' = [run EXCEPT ![w] = Continue(w)]
      /\ UNCHANGED <<row, graph, stored, inbox, paid, changes, kills, cleared>>

\* submit: one connection, one line; then the run waits for the controller.
Send(w) ==
  /\ run[w].pc = "send"
  /\ inbox' = Append(inbox, [from |-> w, item |-> run[w].item])
  /\ Goto(w, "wait")
  /\ UNCHANGED <<row, graph, stored, file, paid, changes, kills, cleared>>

\* A run is killed, times out or meets an error it does not handle.  What it
\* has sent stays in the socket.
Kill(w) ==
  /\ kills < MaxKills /\ run[w].pc # "idle"
  /\ kills' = kills + 1
  /\ run' = [run EXCEPT ![w] = Idle]
  /\ inbox' = [i \in DOMAIN inbox |->
                IF inbox[i].from = w THEN [inbox[i] EXCEPT !.from = Nobody] ELSE inbox[i]]
  /\ UNCHANGED <<row, graph, stored, file, paid, changes, cleared>>

-----------------------------------------------------------------------------
(* The controller.                                                         *)

\* Mutant: the source is not compared with the row.
persistAny(item) == stored' = Update(stored, item.task, item)
\* The answer replaces the stored one, unless the row has changed since.
persist(item) ==
  stored' = IF item.source = source_fields(row[item.task[1]], item.task[2])
            THEN Update(stored, item.task, item) ELSE stored

\* One connection is served; the run at its other end, if there is one, goes on.
Serve ==
  LET m == Head(inbox)
  IN  /\ inbox # <<>>
      /\ persist(m.item)
      /\ inbox' = Tail(inbox)
      /\ run' = IF m.from = Nobody THEN run ELSE [run EXCEPT ![m.from] = Continue(m.from)]
      /\ UNCHANGED <<row, graph, file, paid, changes, kills, cleared>>

Step(w) ==
  \/ Start(w) \/ Finish(w)
  \/ Scan(w) \/ Open(w) \/ Reserve(w)
  \/ \E good \in BOOLEAN : Ask(w, good)
  \/ Record(w) \/ Send(w)

Next ==
  \/ \E w \in Worker : Step(w) \/ Kill(w)
  \/ Serve
  \/ Change
  \/ \E d \in DOMAIN file : Clear(d)

\* The service is started again by its timer, a request ends within its
\* timeout, and the controller goes on accepting connections.
Spec ==
  /\ Init /\ [][Next]_vars
  /\ \A w \in Worker : WF_vars(Step(w))
  /\ WF_vars(Serve)

-----------------------------------------------------------------------------
\* "do not repeat paid calls": evidence is paid for once, however many runs
\* race for it and wherever they are killed, unless the operator clears it.
PaidOnce == \A d \in DOMAIN paid : paid[d] <= 1 + cleared

\* What was imported is an answer the provider gave to the evidence it is
\* stored with, never a reservation or an error.
ImportedWasAnswered ==
  \A t \in DOMAIN stored :
    /\ stored[t].evidence \in DOMAIN file
    /\ file[stored[t].evidence] = "answer"
    /\ Paid(stored[t].evidence) > 0

\* An import that arrives late never takes the place of an answer that counts.
CurrentStays ==
  [][\A t \in Task : Current(t) /\ UNCHANGED row => Current(t)']_vars

\* Every task gets an answer that counts, or a file that says why not, once
\* the campaign stands still and unless a reservation was torn: no budget, no
\* other run and no error starves the tasks behind it.
Torn == \E d \in DOMAIN file :
          file[d] = "empty" /\ \A w \in Worker : ~(InHand(w, d) /\ run[w].pc = "write")
Settled(t) ==
  Applies(t, row[t[1]]) =>
    \/ Current(t)
    \/ LET d == Evidence(t, row[t[1]])
       IN  d \in DOMAIN file /\ file[d] \in {"reserved", "error"}
EveryTaskSettles == (<>Torn) \/ \A t \in Task : <>[]Settled(t)

\* Money is spent once per request, and what is imported was bought.
PaidAndAnswered == TypeOK /\ PaidOnce /\ ImportedWasAnswered
=============================================================================
