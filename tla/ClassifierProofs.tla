-------------------------- MODULE ClassifierProofs --------------------------
(***************************************************************************)
(* The failure classifier, for any tasks, runs, changes, kills and cleared *)
(* reservations: evidence is paid for once, and what the controller stores *)
(* was bought and counts.                                                  *)
(***************************************************************************)
EXTENDS Classifier, TLAPS

\* The record of a candidate as the campaign changes it: an error is there or not.
Rows == [Candidate -> [selection : Nat, recipe : Nat, error : {0, 1}, attempt : Nat]]
Digest == Task \X Seq(Nat)
Items == [task : Task, source : Seq(Nat), evidence : Digest]
Place == {"idle", "scan", "open", "write", "ask", "answered", "refused", "send", "wait"}
Run == [pc : Place, rows : Rows \cup {<<>>}, todo : SUBSET Task, count : 0..Limit,
        item : Items \cup {<<>>}]
Message == [from : Worker \cup {Nobody}, item : Items]

Types ==
  /\ row \in Rows /\ graph \in Nat
  /\ DOMAIN stored \subseteq Task
  /\ \A d \in DOMAIN file : file[d] \in {"empty", "reserved", "error", "answer"}
  /\ run \in [Worker -> Run]
  /\ inbox \in Seq(Message)
  /\ \A d \in DOMAIN paid : paid[d] \in Nat
  /\ cleared \in Nat

\* Where a run is decides what it has in hand and what it may still pay for.
RunsHold ==
  \A w \in Worker :
    /\ run[w].pc = "scan" => run[w].rows \in Rows
    /\ run[w].pc \notin {"idle", "scan"} => run[w].item \in Items /\ run[w].rows \in Rows
    /\ run[w].pc \in {"open", "write"} => run[w].count < Limit

\* The request in hand is in its file: empty until it is reserved, reserved until
\* the answer or the error takes its place.
InFile(d, content) == d \in DOMAIN file /\ file[d] = content
FilesFollow ==
  \A w \in Worker :
    /\ run[w].pc = "write" => InFile(run[w].item.evidence, "empty")
    /\ run[w].pc \in {"ask", "answered", "refused"} => InFile(run[w].item.evidence, "reserved")
    /\ run[w].pc \in {"send", "wait"} => InFile(run[w].item.evidence, "answer")

\* Only the run that created the file of a request goes on with it.
Exclusive == {"write", "ask", "answered", "refused"}
OneCreator ==
  \A v, w \in Worker :
    /\ run[v].pc \in Exclusive /\ run[w].pc \in Exclusive
    /\ run[v].item.evidence = run[w].item.evidence
    => v = w

\* Every payment beyond the first was made possible by a cleared file: one that
\* is not there, or that was created and not yet paid for, has one to spare.
Budget ==
  /\ \A d \in DOMAIN paid : paid[d] <= 1 + cleared
  /\ \A d \in DOMAIN paid \ DOMAIN file : paid[d] <= cleared
  /\ \A w \in Worker : run[w].pc \in {"write", "ask"} => Paid(run[w].item.evidence) <= cleared

\* An answer was paid for, and what is on its way to the controller or stored
\* there is one.
Bought ==
  /\ \A d \in DOMAIN file : file[d] = "answer" => Paid(d) > 0
  /\ \A w \in Worker : run[w].pc = "answered" => Paid(run[w].item.evidence) > 0
  /\ \A i \in DOMAIN inbox : InFile(inbox[i].item.evidence, "answer")
  /\ \A t \in DOMAIN stored : InFile(stored[t].evidence, "answer")

\* A run that waits has one message with the controller; a message without a
\* run at its other end is from nobody.
Waiters ==
  /\ \A i \in DOMAIN inbox : inbox[i].from # Nobody => run[inbox[i].from].pc = "wait"
  /\ \A i, j \in DOMAIN inbox :
       inbox[i].from = inbox[j].from /\ inbox[i].from # Nobody => i = j

IInv == Types /\ RunsHold /\ FilesFollow /\ OneCreator /\ Budget /\ Bought /\ Waiters

-----------------------------------------------------------------------------
\* Tasks are pairs of a candidate and one of the four kinds.
LEMMA TaskKind ==
  ASSUME NEW t \in Task
  PROVE  t[1] \in Candidate /\ t[2] \in {"showcase", "package", "diagnostic", "patch"}
BY ClassifierAssumption DEF Task, Candidate, ToSet

\* What is asked about a row, and what the answer is about, are tuples of versions.
LEMMA ItemTyped ==
  ASSUME NEW t \in Task, graph \in Nat,
         NEW r \in [selection : Nat, recipe : Nat, error : {0, 1}, attempt : Nat]
  PROVE  Item(t, r) \in Items
<1>1. source_fields(r, t[2]) \in Seq(Nat)
  BY TaskKind DEF source_fields
<1>2. Evidence(t, r) \in Digest
  <2>0. \A s \in Seq(Nat) : <<t, s>> \in Digest
    BY DEF Digest
  <2>1. CASE t[2] = "showcase"
    <3>1. Evidence(t, r) = <<t, <<r.selection>>>>
      BY <2>1, Zenon DEF Evidence
    <3>2. <<r.selection>> \in Seq(Nat)
      OBVIOUS
    <3> QED BY <2>0, <3>1, <3>2, Zenon
  <2>2. CASE t[2] = "package"
    <3>1. Evidence(t, r) = <<t, <<r.selection, r.recipe, graph>>>>
      BY <2>2, Zenon DEF Evidence
    <3>2. <<r.selection, r.recipe, graph>> \in Seq(Nat)
      OBVIOUS
    <3> QED BY <2>0, <3>1, <3>2, Zenon
  <2>3. CASE t[2] = "diagnostic"
    <3>1. Evidence(t, r) = <<t, <<r.error>>>>
      BY <2>3, Zenon DEF Evidence
    <3>2. <<r.error>> \in Seq(Nat)
      OBVIOUS
    <3> QED BY <2>0, <3>1, <3>2, Zenon
  <2>4. CASE t[2] = "patch"
    <3>1. Evidence(t, r) = <<t, <<r.recipe>>>>
      BY <2>4, Zenon DEF Evidence
    <3>2. <<r.recipe>> \in Seq(Nat)
      OBVIOUS
    <3> QED BY <2>0, <3>1, <3>2, Zenon
  <2> QED BY TaskKind, <2>1, <2>2, <2>3, <2>4
<1> QED BY <1>1, <1>2 DEF Item, Items

\* Nothing is asked, stored or under way at first.
LEMMA InitInv == Init => IInv
<1> SUFFICES ASSUME Init PROVE IInv
  OBVIOUS
<1>1. row \in Rows
  BY DEF Init, Rows, FirstRow
<1>2. run \in [Worker -> Run] /\ \A w \in Worker : run[w].pc = "idle"
  BY ClassifierAssumption DEF Init, Idle, Run, Place
<1>3. DOMAIN stored = {} /\ DOMAIN file = {} /\ DOMAIN paid = {} /\ DOMAIN inbox = {}
  BY DEF Init
<1>4. Types
  BY <1>1, <1>2, <1>3 DEF Init, Types
<1>5. \A d : Paid(d) = 0
  BY <1>3 DEF Paid
<1>6. cleared = 0
  BY DEF Init
<1>7. RunsHold /\ FilesFollow /\ OneCreator
  BY <1>2 DEF RunsHold, FilesFollow, OneCreator, Exclusive
<1>8. Budget /\ Bought /\ Waiters
  BY <1>2, <1>3, <1>5, <1>6 DEF Budget, Bought, Waiters
<1> QED BY <1>4, <1>7, <1>8 DEF IInv

\* What was not paid for is paid zero times.
LEMMA PaidNat ==
  ASSUME Types, Budget, NEW d
  PROVE  /\ Paid(d) \in Nat /\ Paid(d) <= 1 + cleared
         /\ d \notin DOMAIN file => Paid(d) <= cleared
BY DEF Types, Budget, Paid

\* Every message is an item from a run or from nobody.
LEMMA MessageTyped ==
  ASSUME Types, NEW i \in DOMAIN inbox
  PROVE  /\ inbox[i] \in Message /\ inbox[i].item \in Items
         /\ inbox[i].from \in Worker \cup {Nobody}
<1>1. inbox[i] \in Message
  BY DEF Types
<1> QED BY <1>1 DEF Message

\* The step of a run that only moves it: the files, the payments and what is
\* with the controller stay, and the run comes to a place without claims.
LEMMA MoveInv ==
  ASSUME IInv, NEW w \in Worker, NEW new \in Run, run' = [run EXCEPT ![w] = new],
         run[w].pc # "wait",
         new.pc \in {"idle", "scan", "open", "send"},
         new.pc = "scan" => new.rows \in Rows,
         new.pc \in {"open", "send"} => new.item \in Items /\ new.rows \in Rows,
         new.pc = "open" => new.count < Limit,
         new.pc = "send" => InFile(new.item.evidence, "answer"),
         UNCHANGED <<row, graph, stored, file, inbox, paid, cleared>>
  PROVE  IInv'
<1> USE DEF IInv
<1>1. Types'
  BY DEF Types
<1>2. \A v \in Worker : run'[v] = IF v = w THEN new ELSE run[v]
  BY DEF Types
<1>3. \A d : Paid(d)' = Paid(d)
  BY DEF Paid
<1>4. RunsHold'
  BY <1>2 DEF RunsHold
<1>5. FilesFollow'
  BY <1>2 DEF FilesFollow, InFile
<1>6. OneCreator'
  BY <1>2 DEF OneCreator, Exclusive
<1>7. Budget'
  BY <1>2, <1>3 DEF Budget
<1>8. Bought'
  BY <1>2, <1>3 DEF Bought, InFile
<1>9. Waiters'
  BY <1>2 DEF Waiters, Types, Message
<1> QED BY <1>1, <1>4, <1>5, <1>6, <1>7, <1>8, <1>9

\* A run that is done with its task looks for the next one.
LEMMA ContinueRun ==
  ASSUME Types, NEW w \in Worker, run[w].rows \in Rows
  PROVE  Continue(w) \in Run /\ Continue(w).pc = "scan" /\ Continue(w).rows \in Rows
BY DEF Types, Run, Place, Continue

\* The steps of a run that change neither files nor payments keep the invariant.
LEMMA ScanInv ==
  ASSUME IInv, NEW w \in Worker, Start(w) \/ Finish(w) \/ Scan(w)
  PROVE  IInv'
<1>1. run[w] \in Run /\ Idle \in Run /\ Idle.pc = "idle"
  BY ClassifierAssumption DEF IInv, Types, Idle, Run, Place
<1>2. CASE Start(w)
  <2> DEFINE left == {t \in Task : Applies(t, row[t[1]]) /\ ~Current(t)}
             new == [Idle EXCEPT !.pc = "scan", !.rows = row, !.todo = left]
  <2>1. left \in SUBSET Task
    OBVIOUS
  <2>2. run' = [run EXCEPT ![w] = new] /\ run[w].pc = "idle"
    BY <1>2 DEF Start
  <2>3. UNCHANGED <<row, graph, stored, file, inbox, paid, cleared>>
    BY <1>2 DEF Start
  <2> HIDE DEF left
  <2>4. new \in Run /\ new.pc = "scan" /\ new.rows \in Rows
    <3>1. row \in Rows
      BY DEF IInv, Types
    <3> QED BY <1>1, <2>1, <3>1 DEF Run, Place
  <2> HIDE DEF new
  <2> QED BY <2>2, <2>3, <2>4, MoveInv
<1>3. CASE Finish(w)
  <2>1. /\ run' = [run EXCEPT ![w] = Idle] /\ run[w].pc = "scan"
        /\ UNCHANGED <<row, graph, stored, file, inbox, paid, cleared>>
    BY <1>3 DEF Finish
  <2> QED BY <1>1, <2>1, MoveInv
<1>4. CASE Scan(w)
  <2>0. run[w].pc = "scan" /\ UNCHANGED <<row, graph, stored, file, inbox, paid, cleared>>
    BY <1>4 DEF Scan
  <2>1. PICK i \in DOMAIN Order :
          LET item == Item(Order[i], run[w].rows[Order[i][1]])
          IN  /\ Order[i] \in run[w].todo
              /\ IF item.evidence \in DOMAIN file THEN Found(w, Order[i], item)
                 ELSE IF run[w].count >= Limit THEN run' = [run EXCEPT ![w] = Idle]
                 ELSE run' = [run EXCEPT ![w].pc = "open", ![w].item = item]
    BY <1>4 DEF Scan
  <2> DEFINE t == Order[i]
             item == Item(t, run[w].rows[t[1]])
  <2>2. t \in Task /\ run[w].rows \in Rows
    BY <2>0, <2>1, <1>1 DEF IInv, RunsHold, Run
  <2>3. item \in Items
    <3>1. run[w].rows[t[1]] \in [selection : Nat, recipe : Nat, error : {0, 1}, attempt : Nat]
      BY <2>2, TaskKind DEF Rows
    <3> QED BY <2>2, <3>1, ItemTyped DEF IInv, Types
  <2> HIDE DEF item, t
  <2>4. CASE run' = [run EXCEPT ![w] = Idle]
    BY <2>0, <2>4, <1>1, MoveInv
  <2>5. CASE item.evidence \in DOMAIN file /\ file[item.evidence] = "answer"
             /\ run' = [run EXCEPT ![w].pc = "send", ![w].item = item]
    <3> DEFINE new == [run[w] EXCEPT !.pc = "send", !.item = item]
    <3>1. new \in Run /\ new.pc = "send" /\ new.item = item /\ new.rows \in Rows
      BY <1>1, <2>2, <2>3 DEF Run, Place
    <3>2. run' = [run EXCEPT ![w] = new]
      BY <2>5 DEF IInv, Types
    <3> HIDE DEF new
    <3> QED BY <2>0, <2>3, <2>5, <3>1, <3>2, MoveInv DEF InFile
  <2>6. CASE run' = [run EXCEPT ![w].todo = @ \ {t}]
    <3> DEFINE new == [run[w] EXCEPT !.todo = @ \ {t}]
    <3>1. new \in Run /\ new.pc = "scan" /\ new.rows \in Rows
      BY <1>1, <2>0, <2>2 DEF Run
    <3>2. run' = [run EXCEPT ![w] = new]
      BY <2>6 DEF IInv, Types
    <3> HIDE DEF new
    <3> QED BY <2>0, <3>1, <3>2, MoveInv
  <2>7. CASE run[w].count < Limit
             /\ run' = [run EXCEPT ![w].pc = "open", ![w].item = item]
    <3> DEFINE new == [run[w] EXCEPT !.pc = "open", !.item = item]
    <3>1. /\ new \in Run /\ new.pc = "open" /\ new.item = item /\ new.rows \in Rows
          /\ new.count < Limit
      BY <1>1, <2>2, <2>3, <2>7 DEF Run, Place
    <3>2. run' = [run EXCEPT ![w] = new]
      BY <2>7 DEF IInv, Types
    <3> HIDE DEF new
    <3> QED BY <2>0, <2>3, <3>1, <3>2, MoveInv
  <2>8. CASE item.evidence \in DOMAIN file
    <3>1. Found(w, t, item)
      BY <2>1, <2>8 DEF t, item
    <3> QED BY <2>4, <2>5, <2>6, <2>8, <3>1 DEF Found
  <2>9. CASE item.evidence \notin DOMAIN file
    <3>1. IF run[w].count >= Limit THEN run' = [run EXCEPT ![w] = Idle]
          ELSE run' = [run EXCEPT ![w].pc = "open", ![w].item = item]
      BY <2>1, <2>9 DEF t, item
    <3>2. run[w].count >= Limit \/ run[w].count < Limit
      BY <1>1, ClassifierAssumption DEF Run
    <3> QED BY <2>4, <2>7, <3>1, <3>2
  <2> QED BY <2>8, <2>9
<1> QED BY <1>2, <1>3, <1>4

\* What the run in hand owns, no other run goes on with.
LEMMA OwnAlone ==
  ASSUME IInv, NEW w \in Worker, run[w].pc \in Exclusive, NEW v \in Worker, v # w,
         run[v].pc \in Exclusive \cup {"send", "wait"}
  PROVE  run[v].item.evidence # run[w].item.evidence
BY DEF IInv, OneCreator, FilesFollow, InFile, Exclusive

\* A new file, a reservation, an answer or an error at the digest that a run owns
\* leaves what everybody else relies on as it was.
LEMMA FileInv ==
  ASSUME IInv, NEW w \in Worker, NEW new \in Run, run' = [run EXCEPT ![w] = new],
         NEW content \in {"empty", "reserved", "error", "answer"},
         run[w].pc \in {"open", "write", "answered", "refused"},
         run[w].pc = "open" => run[w].item.evidence \notin DOMAIN file,
         file' = Update(file, run[w].item.evidence, content),
         new.pc \in {"write", "ask", "send", "scan"}, new.rows \in Rows,
         new.pc # "scan" => new.item = run[w].item,
         new.pc = "write" => content = "empty" /\ run[w].pc = "open" /\ new.count < Limit,
         new.pc = "ask" => content = "reserved" /\ run[w].pc = "write",
         new.pc = "send" => content = "answer",
         content = "answer" => run[w].pc = "answered",
         UNCHANGED <<row, graph, stored, inbox, paid, cleared>>
  PROVE  IInv'
<1> DEFINE d == run[w].item.evidence
<1> USE DEF IInv
<1>1. /\ DOMAIN file' = DOMAIN file \cup {d} /\ file'[d] = content
      /\ \A z \in DOMAIN file : z # d => file'[z] = file[z]
  <2>1. file' = Update(file, d, content)
    OBVIOUS
  <2> HIDE DEF d
  <2> QED BY <2>1 DEF Update
<1>2. \A v \in Worker : run'[v] = IF v = w THEN new ELSE run[v]
  BY DEF Types
<1>3. \A z : Paid(z)' = Paid(z)
  BY DEF Paid
<1>4. run[w].item \in Items
  BY DEF RunsHold
<1>5. ~InFile(d, "answer")
  BY DEF FilesFollow, InFile
<1>6. \A z : InFile(z, "answer") => InFile(z, "answer")'
  BY <1>1, <1>5 DEF InFile
<1>7. ASSUME NEW v \in Worker, v # w, run[v].pc \in Exclusive \cup {"send", "wait"}
      PROVE  run[v].item.evidence # d
  <2>1. CASE run[w].pc = "open"
    BY <2>1, <1>7 DEF FilesFollow, InFile, Exclusive
  <2>2. CASE run[w].pc \in Exclusive
    BY <2>2, <1>7, OwnAlone
  <2> QED BY <2>1, <2>2 DEF Exclusive
<1>8. Types'
  <2>1. \A z \in DOMAIN file' : file'[z] \in {"empty", "reserved", "error", "answer"}
    BY <1>1 DEF Types
  <2>2. run' \in [Worker -> Run]
    BY DEF Types
  <2> QED BY <2>1, <2>2 DEF Types
<1>9. RunsHold'
  BY <1>2, <1>4 DEF RunsHold
<1>10. FilesFollow'
  <2> SUFFICES ASSUME NEW v \in Worker
               PROVE  /\ run'[v].pc = "write" => InFile(run[v].item.evidence, "empty")'
                      /\ run'[v].pc \in {"ask", "answered", "refused"}
                           => InFile(run[v].item.evidence, "reserved")'
                      /\ run'[v].pc \in {"send", "wait"}
                           => InFile(run[v].item.evidence, "answer")'
    BY DEF FilesFollow
  <2>1. CASE v = w
    BY <2>1, <1>1, <1>2 DEF InFile
  <2>2. CASE v # w
    BY <2>2, <1>1, <1>2, <1>7 DEF FilesFollow, InFile, Exclusive
  <2> QED BY <2>1, <2>2
<1>11. OneCreator'
  BY <1>2, <1>7 DEF OneCreator, Exclusive
<1>12. Budget'
  <2>1. \A z \in DOMAIN paid \ DOMAIN file' : paid[z] <= cleared
    BY <1>1 DEF Budget
  <2>2. run[w].pc \in {"open", "write"} => Paid(d) <= cleared
    BY PaidNat DEF Budget
  <2>3. new.pc \in {"write", "ask"} => Paid(new.item.evidence) <= cleared
    BY <2>2
  <2> QED BY <1>2, <1>3, <2>1, <2>3 DEF Budget
<1>13. Bought'
  <2>1. \A z \in DOMAIN file' : file'[z] = "answer" => Paid(z) > 0
    BY <1>1 DEF Bought
  <2>2. \A v \in Worker : run'[v].pc = "answered" => Paid(run'[v].item.evidence) > 0
    BY <1>2 DEF Bought
  <2>3. \A i \in DOMAIN inbox : InFile(inbox[i].item.evidence, "answer")'
    BY <1>6 DEF Bought
  <2>4. \A t \in DOMAIN stored : InFile(stored[t].evidence, "answer")'
    BY <1>6 DEF Bought
  <2> QED BY <1>3, <2>1, <2>2, <2>3, <2>4 DEF Bought
<1>14. Waiters'
  BY <1>2 DEF Waiters, Types, Message
<1> QED BY <1>8, <1>9, <1>10, <1>11, <1>12, <1>13, <1>14

\* Opening, reserving and recording are steps of the run that owns the file.
LEMMA OwnFileInv ==
  ASSUME IInv, NEW w \in Worker, Open(w) \/ Reserve(w) \/ Record(w)
  PROVE  IInv'
<1> USE DEF IInv
<1>1. run[w].pc \in {"open", "write", "answered", "refused"}
  BY DEF Open, Reserve, Record
<1>2. run[w] \in Run /\ run[w].rows \in Rows /\ run[w].item \in Items
  BY <1>1 DEF Types, RunsHold
<1>3. Continue(w) \in Run /\ Continue(w).pc = "scan" /\ Continue(w).rows \in Rows
  BY <1>2, ContinueRun
<1>4. UNCHANGED <<row, graph, stored, inbox, paid, cleared>>
  BY DEF Open, Reserve, Record
<1>5. CASE Open(w)
  <2>1. run[w].pc = "open" /\ run[w].count < Limit
    BY <1>5 DEF Open, RunsHold
  <2>2. CASE run[w].item.evidence \in DOMAIN file
    <3>1. run' = [run EXCEPT ![w] = Continue(w)] /\ UNCHANGED file
      BY <1>5, <2>2 DEF Open
    <3> QED BY <1>3, <1>4, <2>1, <3>1, MoveInv
  <2>3. CASE run[w].item.evidence \notin DOMAIN file
    <3> DEFINE new == [run[w] EXCEPT !.pc = "write"]
    <3>1. file' = Update(file, run[w].item.evidence, "empty")
      BY <1>5, <2>3 DEF Open
    <3>2. run' = [run EXCEPT ![w] = new]
      BY <1>5, <2>3 DEF Open, Goto, Types
    <3>3. /\ new \in Run /\ new.pc = "write" /\ new.rows \in Rows
          /\ new.item = run[w].item /\ new.count < Limit
      BY <1>2, <2>1 DEF Run, Place
    <3> HIDE DEF new
    <3> QED BY <1>4, <2>1, <2>3, <3>1, <3>2, <3>3, FileInv
  <2> QED BY <2>2, <2>3
<1>6. CASE Reserve(w)
  <2> DEFINE new == [run[w] EXCEPT !.pc = "ask", !.count = @ + 1]
  <2>1. /\ run[w].pc = "write"
        /\ file' = Update(file, run[w].item.evidence, "reserved")
    BY <1>6 DEF Reserve
  <2>2. run' = [run EXCEPT ![w] = new]
    BY <1>6 DEF Reserve, Types
  <2>3. run[w].count < Limit /\ run[w].count \in 0..Limit /\ Limit \in Nat
    <3>1. run[w].count < Limit
      BY <2>1 DEF RunsHold
    <3>2. run[w].count \in 0..Limit
      BY <1>2 DEF Run
    <3>3. Limit \in Nat
      BY ClassifierAssumption
    <3> QED BY <3>1, <3>2, <3>3
  <2>4. run[w].count + 1 \in 0..Limit
    BY <2>3
  <2>5. /\ new \in Run /\ new.pc = "ask" /\ new.rows \in Rows
        /\ new.item = run[w].item
    BY <1>2, <2>4 DEF Run, Place
  <2> HIDE DEF new
  <2> QED BY <1>4, <2>1, <2>2, <2>5, FileInv
<1>7. CASE Record(w)
  <2>1. CASE run[w].pc = "answered"
    <3> DEFINE new == [run[w] EXCEPT !.pc = "send"]
    <3>1. file' = Update(file, run[w].item.evidence, "answer")
      BY <1>7, <2>1 DEF Record
    <3>2. run' = [run EXCEPT ![w] = new]
      BY <1>7, <2>1 DEF Record, Goto, Types
    <3>3. /\ new \in Run /\ new.pc = "send" /\ new.rows \in Rows
          /\ new.item = run[w].item
      BY <1>2 DEF Run, Place
    <3> HIDE DEF new
    <3> QED BY <1>4, <2>1, <3>1, <3>2, <3>3, FileInv
  <2>2. CASE run[w].pc = "refused"
    <3>1. /\ file' = Update(file, run[w].item.evidence, "error")
          /\ run' = [run EXCEPT ![w] = Continue(w)]
      BY <1>7, <2>2 DEF Record
    <3> QED BY <1>3, <1>4, <2>2, <3>1, FileInv
  <2> QED BY <1>7, <2>1, <2>2 DEF Record
<1> QED BY <1>5, <1>6, <1>7

\* The provider is paid by the one run that created the file, which no payment
\* has used up yet.
LEMMA AskInv ==
  ASSUME IInv, NEW w \in Worker, NEW good \in BOOLEAN, Ask(w, good)
  PROVE  IInv'
<1> USE DEF IInv
<1> DEFINE d == run[w].item.evidence
           pc == IF good THEN "answered" ELSE "refused"
           new == [run[w] EXCEPT !.pc = pc]
<1>1. /\ run[w].pc = "ask" /\ paid' = Update(paid, d, Paid(d) + 1)
      /\ UNCHANGED <<row, graph, stored, file, inbox, cleared>>
  BY DEF Ask
<1>2. run' = [run EXCEPT ![w] = new]
  BY DEF Ask, Goto, Types
<1>3. run[w] \in Run /\ run[w].rows \in Rows /\ run[w].item \in Items
  BY <1>1 DEF Types, RunsHold
<1>4. pc \in {"answered", "refused"}
  OBVIOUS
<1> HIDE DEF pc
<1>5. /\ new \in Run /\ new.pc \in {"answered", "refused"} /\ new.rows \in Rows
      /\ new.item = run[w].item
  BY <1>3, <1>4 DEF Run, Place
<1> HIDE DEF new
<1>6. \A v \in Worker : run'[v] = IF v = w THEN new ELSE run[v]
  BY <1>2, <1>5 DEF Types
<1>7. ASSUME NEW v \in Worker, v # w, run[v].pc \in {"write", "ask"}
      PROVE  run[v].item.evidence # d
  BY <1>1, <1>7, OwnAlone DEF Exclusive
<1>8. Paid(d) \in Nat /\ Paid(d) <= cleared /\ cleared \in Nat
  BY <1>1, PaidNat DEF Budget, Types
<1>9. /\ DOMAIN paid' = DOMAIN paid \cup {d} /\ paid'[d] = Paid(d) + 1
      /\ \A z \in DOMAIN paid : z # d => paid'[z] = paid[z]
  <2> HIDE DEF d
  <2> QED BY <1>1 DEF Update
<1>10. \A z : Paid(z)' = IF z = d THEN Paid(d) + 1 ELSE Paid(z)
  BY <1>9 DEF Paid
<1>11. Types'
  <2>1. \A z \in DOMAIN paid' : paid'[z] \in Nat
    BY <1>8, <1>9 DEF Types
  <2>2. run' \in [Worker -> Run]
    BY <1>2, <1>5 DEF Types
  <2> QED BY <1>1, <2>1, <2>2 DEF Types
<1>12. RunsHold' /\ FilesFollow' /\ OneCreator'
  BY <1>1, <1>3, <1>5, <1>6 DEF RunsHold, FilesFollow, OneCreator, InFile, Exclusive
<1>13. Budget'
  <2>1. d \in DOMAIN file
    BY <1>1 DEF FilesFollow, InFile
  <2>2. \A z \in DOMAIN paid' : paid'[z] <= 1 + cleared
    BY <1>8, <1>9 DEF Budget
  <2>3. \A z \in DOMAIN paid' \ DOMAIN file : paid'[z] <= cleared
    BY <1>9, <2>1 DEF Budget
  <2>4. ASSUME NEW v \in Worker, run'[v].pc \in {"write", "ask"}
        PROVE  Paid(run[v].item.evidence)' <= cleared
    <3>1. v # w /\ run'[v] = run[v]
      BY <2>4, <1>5, <1>6
    <3>2. run[v].item.evidence # d /\ Paid(run[v].item.evidence) <= cleared
      BY <2>4, <3>1, <1>7 DEF Budget
    <3>3. run'[v].item.evidence = run[v].item.evidence
      BY <3>1
    <3>4. Paid(run[v].item.evidence)' = Paid(run[v].item.evidence)
      BY <3>2, <3>3, <1>9 DEF Paid
    <3> QED BY <3>2, <3>4
  <2> QED BY <1>1, <2>2, <2>3, <2>4 DEF Budget
<1>14. Bought'
  <2>1. \A z : Paid(z) > 0 => Paid(z)' > 0
    BY <1>8, <1>10
  <2>2. \A v \in Worker : run'[v].pc = "answered" => Paid(run[v].item.evidence)' > 0
    <3> SUFFICES ASSUME NEW v \in Worker, run'[v].pc = "answered"
                 PROVE  Paid(run[v].item.evidence)' > 0
      OBVIOUS
    <3>1. run'[v].item.evidence = run[v].item.evidence
      BY <1>5, <1>6
    <3>2. v # w => Paid(run[v].item.evidence) > 0
      BY <1>6 DEF Bought
    <3> QED BY <3>1, <3>2, <1>8, <1>9 DEF Paid
  <2> QED BY <1>1, <2>1, <2>2 DEF Bought, InFile
<1>15. Waiters'
  <2>1. \A v \in Worker : run[v].pc = "wait" => run'[v].pc = "wait"
    BY <1>1, <1>6
  <2>2. \A i \in DOMAIN inbox : inbox[i].from \in Worker \cup {Nobody}
    BY MessageTyped
  <2> QED BY <1>1, <2>1, <2>2 DEF Waiters
<1> QED BY <1>11, <1>12, <1>13, <1>14, <1>15

\* An answer is sent by a run that has bought it, and that waits then.
LEMMA SendInv ==
  ASSUME IInv, NEW w \in Worker, Send(w)
  PROVE  IInv'
<1> USE DEF IInv
<1> DEFINE new == [run[w] EXCEPT !.pc = "wait"]
           m == [from |-> w, item |-> run[w].item]
<1>1. /\ run[w].pc = "send" /\ inbox' = Append(inbox, m)
      /\ UNCHANGED <<row, graph, stored, file, paid, cleared>>
  BY DEF Send
<1>2. run' = [run EXCEPT ![w] = new]
  BY DEF Send, Goto, Types
<1>3. run[w] \in Run /\ run[w].rows \in Rows /\ run[w].item \in Items
  BY <1>1 DEF Types, RunsHold
<1>4. /\ new \in Run /\ new.pc = "wait" /\ new.rows \in Rows /\ new.item = run[w].item
  BY <1>3 DEF Run, Place
<1> HIDE DEF new
<1>5. \A v \in Worker : run'[v] = IF v = w THEN new ELSE run[v]
  BY <1>2, <1>4 DEF Types
<1>6. m \in Message /\ m.from = w /\ m.item = run[w].item
  BY <1>3 DEF Message
<1> HIDE DEF m
<1>7. inbox \in Seq(Message) /\ inbox' \in Seq(Message)
  BY <1>1, <1>6 DEF Types
<1>8. /\ DOMAIN inbox = 1..Len(inbox) /\ DOMAIN inbox' = 1..(Len(inbox) + 1) /\ Len(inbox) \in Nat
      /\ \A i \in DOMAIN inbox' : inbox'[i] = IF i = Len(inbox) + 1 THEN m ELSE inbox[i]
      /\ \A i \in DOMAIN inbox' : i # Len(inbox) + 1 => i \in DOMAIN inbox
  BY <1>1, <1>6, <1>7
<1>9. \A z : Paid(z)' = Paid(z)
  BY <1>1 DEF Paid
<1>10. Types'
  <2>1. run' \in [Worker -> Run]
    BY <1>2, <1>4 DEF Types
  <2> QED BY <1>1, <1>7, <2>1 DEF Types
<1>11. RunsHold' /\ FilesFollow' /\ OneCreator'
  BY <1>1, <1>3, <1>4, <1>5 DEF RunsHold, FilesFollow, OneCreator, InFile, Exclusive
<1>12. Budget'
  BY <1>1, <1>4, <1>5, <1>9 DEF Budget
<1>13. Bought'
  <2>1. InFile(run[w].item.evidence, "answer")
    BY <1>1 DEF FilesFollow
  <2>2. \A i \in DOMAIN inbox' : InFile(inbox'[i].item.evidence, "answer")
    BY <1>6, <1>8, <2>1 DEF Bought
  <2>3. \A v \in Worker : run'[v].pc = "answered" => Paid(run'[v].item.evidence) > 0
    BY <1>4, <1>5 DEF Bought
  <2> QED BY <1>1, <1>9, <2>2, <2>3 DEF Bought, InFile
<1>14. Waiters'
  <2>1. \A v \in Worker : run[v].pc = "wait" => run'[v].pc = "wait" /\ v # w
    BY <1>1, <1>5
  <2>2. run'[w].pc = "wait"
    BY <1>4, <1>5
  <2>3. \A i \in DOMAIN inbox : inbox[i].from \in Worker \cup {Nobody}
    BY MessageTyped
  <2>4. \A i \in DOMAIN inbox : inbox[i].from # w
    BY <1>1, <2>3, ClassifierAssumption DEF Waiters
  <2>5. \A i \in DOMAIN inbox' : inbox'[i].from # Nobody => run'[inbox'[i].from].pc = "wait"
    BY <1>6, <1>8, <2>1, <2>2, <2>3 DEF Waiters
  <2>6. \A i, j \in DOMAIN inbox' :
          inbox'[i].from = inbox'[j].from /\ inbox'[i].from # Nobody => i = j
    BY <1>6, <1>8, <2>4 DEF Waiters
  <2> QED BY <2>5, <2>6 DEF Waiters
<1> QED BY <1>10, <1>11, <1>12, <1>13, <1>14

\* A run that is killed leaves its message without anybody to answer to.
LEMMA KillInv ==
  ASSUME IInv, NEW w \in Worker, Kill(w)
  PROVE  IInv'
<1> USE DEF IInv
<1>1. /\ run' = [run EXCEPT ![w] = Idle]
      /\ inbox' = [i \in DOMAIN inbox |->
            IF inbox[i].from = w THEN [inbox[i] EXCEPT !.from = Nobody] ELSE inbox[i]]
      /\ UNCHANGED <<row, graph, stored, file, paid, cleared>>
  BY DEF Kill
<1>2. Idle \in Run /\ Idle.pc = "idle"
  BY ClassifierAssumption DEF Idle, Run, Place
<1>3. \A v \in Worker : run'[v] = IF v = w THEN Idle ELSE run[v]
  BY <1>1, <1>2 DEF Types
<1>4. inbox \in Seq(Message) /\ DOMAIN inbox = 1..Len(inbox) /\ Len(inbox) \in Nat
  BY DEF Types
<1>5. \A i \in DOMAIN inbox : inbox[i] \in Message
  BY MessageTyped
<1>6. /\ DOMAIN inbox' = DOMAIN inbox
      /\ \A i \in DOMAIN inbox :
           /\ inbox'[i] \in Message /\ inbox'[i].item = inbox[i].item
           /\ inbox'[i].from = IF inbox[i].from = w THEN Nobody ELSE inbox[i].from
  BY <1>1, <1>5 DEF Message
<1>7. inbox' \in Seq(Message)
  <2>1. inbox' = [i \in 1..Len(inbox) |-> inbox'[i]]
    BY <1>1, <1>4
  <2> QED BY <1>4, <1>6, <2>1
<1>8. \A z : Paid(z)' = Paid(z)
  BY <1>1 DEF Paid
<1>9. Types'
  <2>1. run' \in [Worker -> Run]
    BY <1>1, <1>2 DEF Types
  <2> QED BY <1>1, <1>7, <2>1 DEF Types
<1>10. RunsHold' /\ FilesFollow' /\ OneCreator'
  BY <1>1, <1>2, <1>3 DEF RunsHold, FilesFollow, OneCreator, InFile, Exclusive
<1>11. Budget'
  BY <1>1, <1>2, <1>3, <1>8 DEF Budget
<1>12. Bought'
  <2>1. \A i \in DOMAIN inbox' : InFile(inbox'[i].item.evidence, "answer")
    BY <1>6 DEF Bought
  <2>2. \A v \in Worker : run'[v].pc = "answered" => Paid(run'[v].item.evidence) > 0
    BY <1>2, <1>3 DEF Bought
  <2> QED BY <1>1, <1>8, <2>1, <2>2 DEF Bought, InFile
<1>13. Waiters'
  <2>1. \A i \in DOMAIN inbox : inbox[i].from \in Worker \cup {Nobody}
    BY MessageTyped
  <2> QED BY <1>3, <1>6, <2>1 DEF Waiters
<1> QED BY <1>9, <1>10, <1>11, <1>12, <1>13

\* The controller stores what it is sent, if that still counts, and lets the run
\* at the other end go on.
LEMMA ServeInv == ASSUME IInv, Serve PROVE IInv'
<1> USE DEF IInv
<1> DEFINE m == Head(inbox)
<1>1. /\ inbox # <<>> /\ inbox' = Tail(inbox) /\ persist(m.item)
      /\ run' = IF m.from = Nobody THEN run ELSE [run EXCEPT ![m.from] = Continue(m.from)]
      /\ UNCHANGED <<row, graph, file, paid, cleared>>
  BY DEF Serve
<1>2. /\ inbox \in Seq(Message) /\ Len(inbox) \in Nat /\ Len(inbox) > 0
      /\ DOMAIN inbox = 1..Len(inbox)
      /\ m = inbox[1] /\ inbox' \in Seq(Message)
      /\ DOMAIN inbox' = 1..(Len(inbox) - 1)
      /\ \A i \in DOMAIN inbox' : inbox'[i] = inbox[i + 1] /\ i + 1 \in DOMAIN inbox
  BY <1>1 DEF Types
<1> HIDE DEF m
<1>3. /\ 1 \in DOMAIN inbox /\ m.item \in Items /\ m.item.task \in Task
      /\ m.from \in Worker \cup {Nobody} /\ InFile(m.item.evidence, "answer")
      /\ m.from # Nobody => run[m.from].pc = "wait"
  <2>1. 1 \in DOMAIN inbox
    BY <1>2
  <2>2. m.item \in Items /\ m.from \in Worker \cup {Nobody}
    BY <1>2, <2>1, MessageTyped
  <2> QED BY <1>2, <2>1, <2>2 DEF Items, Bought, Waiters
<1>4. m.from # Nobody => /\ Continue(m.from) \in Run /\ Continue(m.from).pc = "scan"
                         /\ Continue(m.from).rows \in Rows
  <2> SUFFICES ASSUME m.from # Nobody
               PROVE  /\ Continue(m.from) \in Run /\ Continue(m.from).pc = "scan"
                      /\ Continue(m.from).rows \in Rows
    OBVIOUS
  <2>1. m.from \in Worker /\ run[m.from].rows \in Rows
    BY <1>3 DEF RunsHold
  <2> QED BY <2>1, ContinueRun
<1>5. /\ run' \in [Worker -> Run]
      /\ \A v \in Worker : run'[v] = IF v = m.from THEN Continue(v) ELSE run[v]
      /\ \A v \in Worker : v = m.from =>
           run'[v].pc = "scan" /\ run'[v].rows \in Rows
  <2>1. CASE m.from = Nobody
    BY <1>1, <2>1, ClassifierAssumption DEF Types
  <2>2. CASE m.from # Nobody
    BY <1>1, <1>3, <1>4, <2>2 DEF Types
  <2> QED BY <2>1, <2>2
<1>6. /\ DOMAIN stored' \subseteq Task
      /\ \A t \in DOMAIN stored' : InFile(stored'[t].evidence, "answer")
  <2>1. CASE stored' = stored
    BY <2>1 DEF Types, Bought
  <2>2. CASE stored' = Update(stored, m.item.task, m.item)
    <3>1. /\ DOMAIN stored' = DOMAIN stored \cup {m.item.task}
          /\ \A t \in DOMAIN stored' :
               stored'[t] = IF t = m.item.task THEN m.item ELSE stored[t]
      BY <2>2 DEF Update
    <3> QED BY <1>3, <3>1 DEF Types, Bought
  <2> QED BY <1>1, <2>1, <2>2 DEF persist
<1>7. \A z : Paid(z)' = Paid(z)
  BY <1>1 DEF Paid
<1>8. Types'
  BY <1>1, <1>2, <1>5, <1>6 DEF Types
<1>9. RunsHold' /\ FilesFollow' /\ OneCreator'
  BY <1>1, <1>5 DEF RunsHold, FilesFollow, OneCreator, InFile, Exclusive
<1>10. Budget'
  BY <1>1, <1>5, <1>7 DEF Budget
<1>11. Bought'
  <2>1. \A i \in DOMAIN inbox' : InFile(inbox'[i].item.evidence, "answer")
    BY <1>2 DEF Bought
  <2>2. \A v \in Worker : run'[v].pc = "answered" => Paid(run'[v].item.evidence) > 0
    BY <1>5 DEF Bought
  <2> QED BY <1>1, <1>6, <1>7, <2>1, <2>2 DEF Bought, InFile
<1>12. Waiters'
  <2>1. \A i \in DOMAIN inbox : inbox[i].from \in Worker \cup {Nobody}
    BY MessageTyped
  <2>2. \A i \in DOMAIN inbox' :
          /\ inbox'[i] = inbox[i + 1] /\ i + 1 \in DOMAIN inbox /\ i + 1 # 1
    BY <1>2
  <2>3. \A i \in DOMAIN inbox' : inbox'[i].from # Nobody => inbox'[i].from # m.from
    BY <1>2, <1>3, <2>2 DEF Waiters
  <2>4. \A i \in DOMAIN inbox' : inbox'[i].from # Nobody => run'[inbox'[i].from].pc = "wait"
    BY <1>5, <2>1, <2>2, <2>3 DEF Waiters
  <2>5. ASSUME NEW i \in DOMAIN inbox', NEW j \in DOMAIN inbox',
               inbox'[i].from = inbox'[j].from, inbox'[i].from # Nobody
        PROVE  i = j
    <3>1. i + 1 = j + 1
      BY <2>2, <2>5 DEF Waiters
    <3> QED BY <1>2, <3>1
  <2> QED BY <2>4, <2>5 DEF Waiters
<1> QED BY <1>8, <1>9, <1>10, <1>11, <1>12

\* The campaign moves on: nothing that was read, asked or stored changes.
LEMMA ChangeInv == ASSUME IInv, Change PROVE IInv'
<1> USE DEF IInv
<1>1. UNCHANGED <<stored, file, run, inbox, paid, cleared>>
  BY DEF Change
<1>2. row' \in Rows /\ graph' \in Nat
  <2>1. CASE graph' = graph + 1 /\ UNCHANGED row
    BY <2>1 DEF Types
  <2>2. ASSUME NEW c \in Candidate, UNCHANGED graph,
               \/ row' = [row EXCEPT ![c]["error"] = 1 - @]
               \/ row' = [row EXCEPT ![c]["recipe"] = @ + 1]
               \/ row' = [row EXCEPT ![c]["attempt"] = @ + 1]
        PROVE  row' \in Rows /\ graph' \in Nat
    <3> DEFINE R == [selection : Nat, recipe : Nat, error : {0, 1}, attempt : Nat]
    <3>1. row \in [Candidate -> R] /\ row[c] \in R /\ graph' \in Nat
      BY <2>2 DEF Types, Rows
    <3>2. /\ [row[c] EXCEPT !["error"] = 1 - @] \in R
          /\ [row[c] EXCEPT !["recipe"] = @ + 1] \in R
          /\ [row[c] EXCEPT !["attempt"] = @ + 1] \in R
      BY <3>1
    <3>3. \E new \in R : row' = [row EXCEPT ![c] = new]
      BY <2>2, <3>1, <3>2
    <3> HIDE DEF R
    <3>4. row' \in [Candidate -> R]
      BY <3>1, <3>3
    <3> QED BY <3>1, <3>4 DEF Rows, R
  <2>3. \/ graph' = graph + 1 /\ UNCHANGED row
        \/ /\ UNCHANGED graph
           /\ \E c \in Candidate, k \in {"recipe", "attempt", "error"} :
                row' = [row EXCEPT ![c][k] = IF k = "error" THEN 1 - @ ELSE @ + 1]
    BY DEF Change
  <2> QED BY <2>1, <2>2, <2>3
<1>3. \A z : Paid(z)' = Paid(z)
  BY <1>1 DEF Paid
<1>4. Types' /\ RunsHold' /\ FilesFollow' /\ OneCreator' /\ Waiters'
  BY <1>1, <1>2 DEF Types, RunsHold, FilesFollow, OneCreator, InFile, Waiters
<1>5. Budget' /\ Bought'
  BY <1>1, <1>3 DEF Budget, Bought, InFile
<1> QED BY <1>4, <1>5

\* A cleared file was nobody's, and allows for one more payment.
LEMMA ClearInv == ASSUME IInv, NEW d \in DOMAIN file, Clear(d) PROVE IInv'
<1> USE DEF IInv
<1>1. /\ file[d] # "answer" /\ cleared' = cleared + 1
      /\ \A w \in Worker : ~InHand(w, d)
      /\ UNCHANGED <<row, graph, stored, run, inbox, paid>>
  BY DEF Clear
<1>2. /\ DOMAIN file' = DOMAIN file \ {d}
      /\ \A z \in DOMAIN file' : file'[z] = file[z]
  BY DEF Clear, Restrict
<1>3. \A z, c : z # d => (InFile(z, c) => InFile(z, c)')
  BY <1>2 DEF InFile
<1>4. \A z : InFile(z, "answer") => InFile(z, "answer")'
  BY <1>1, <1>2 DEF InFile
<1>5. \A z : Paid(z)' = Paid(z)
  BY <1>1 DEF Paid
<1>6. cleared \in Nat
  BY DEF Types
<1>7. Types' /\ RunsHold' /\ OneCreator' /\ Waiters'
  BY <1>1, <1>2, <1>6 DEF Types, RunsHold, OneCreator, Waiters
<1>8. FilesFollow'
  BY <1>1, <1>2 DEF FilesFollow, InHand, InFile
<1>9. Budget'
  <2>1. \A z \in DOMAIN paid : paid[z] <= 1 + cleared /\ paid[z] \in Nat
    BY DEF Budget, Types
  <2>2. \A w \in Worker : run[w].pc \in {"write", "ask"} =>
          Paid(run[w].item.evidence) <= cleared /\ Paid(run[w].item.evidence) \in Nat
    BY PaidNat DEF Budget
  <2>3. \A w \in Worker : run[w].pc \in {"write", "ask"} =>
          Paid(run[w].item.evidence) <= cleared + 1
    BY <1>6, <2>2
  <2> QED BY <1>1, <1>5, <1>6, <2>1, <2>3 DEF Budget
<1>10. Bought'
  BY <1>1, <1>2, <1>4, <1>5 DEF Bought
<1> QED BY <1>7, <1>8, <1>9, <1>10

\* Every step keeps the invariant.
LEMMA StepInv == IInv /\ [Next]_vars => IInv'
<1> SUFFICES ASSUME IInv, [Next]_vars PROVE IInv'
  OBVIOUS
<1>1. ASSUME NEW w \in Worker, Step(w) PROVE IInv'
  BY <1>1, ScanInv, OwnFileInv, AskInv, SendInv DEF Step
<1>2. ASSUME NEW w \in Worker, Kill(w) PROVE IInv'
  BY <1>2, KillInv
<1>3. CASE Serve
  BY <1>3, ServeInv
<1>4. CASE Change
  BY <1>4, ChangeInv
<1>5. ASSUME NEW d \in DOMAIN file, Clear(d) PROVE IInv'
  BY <1>5, ClearInv
<1>6. CASE UNCHANGED vars
  <2>1. UNCHANGED <<row, graph, stored, file, run, inbox, paid, cleared>>
    BY <1>6 DEF vars
  <2>2. \A z : Paid(z)' = Paid(z)
    BY <2>1 DEF Paid
  <2>3. Types' /\ RunsHold' /\ FilesFollow' /\ OneCreator' /\ Waiters'
    BY <2>1 DEF IInv, Types, RunsHold, FilesFollow, OneCreator, InFile, Waiters
  <2>4. Budget' /\ Bought'
    BY <2>1, <2>2 DEF IInv, Budget, Bought, InFile
  <2> QED BY <2>3, <2>4 DEF IInv
<1> QED BY <1>1, <1>2, <1>3, <1>4, <1>5, <1>6 DEF Next

\* Every state of the classifier satisfies the inductive invariant.
THEOREM Invariance == Spec => []IInv
BY InitInv, StepInv, PTL DEF Spec

\* Evidence is paid for once, however many runs race for it and wherever they
\* are killed, unless the operator clears it, and what the controller has stored
\* is an answer that was bought.
THEOREM PaidOnceForAll == Spec => []PaidAndAnswered
<1>1. IInv => TypeOK
  <2> SUFFICES ASSUME IInv PROVE TypeOK
    OBVIOUS
  <2>1. DOMAIN row = Candidate /\ \A c \in Candidate : row[c] \in Row
    BY DEF IInv, Types, Rows, Row
  <2>2. \A w \in Worker : run[w].pc \in Place /\ run[w].count \in 0..Limit
    BY DEF IInv, Types, Run
  <2>3. \A m \in ToSet(inbox) : m.from \in Worker \cup {Nobody}
    BY MessageTyped DEF IInv, ToSet
  <2> QED BY <2>1, <2>2, <2>3 DEF IInv, Types, Place, TypeOK
<1>2. IInv => PaidOnce
  BY DEF IInv, Budget, PaidOnce
<1>3. IInv => ImportedWasAnswered
  BY DEF IInv, Bought, InFile, ImportedWasAnswered
<1> QED BY <1>1, <1>2, <1>3, Invariance, PTL DEF PaidAndAnswered

\* An import that arrives late never takes the place of an answer that counts:
\* what it is about is compared with the row in the transaction that stores it.
THEOREM CurrentStaysCurrent == Spec => CurrentStays
<1>1. [Next]_vars => [\A t \in Task : Current(t) /\ UNCHANGED row => Current(t)']_vars
  <2> SUFFICES ASSUME Next, NEW t \in Task, Current(t), UNCHANGED row
               PROVE  Current(t)'
    OBVIOUS
  <2>1. CASE UNCHANGED stored
    BY <2>1 DEF Current
  <2>2. CASE Serve
    <3> DEFINE item == Head(inbox).item
    <3>1. CASE stored' = Update(stored, item.task, item)
               /\ item.source = source_fields(row[item.task[1]], item.task[2])
      <4> HIDE DEF item
      <4>1. /\ t \in DOMAIN stored'
            /\ stored'[t] = IF t = item.task THEN item ELSE stored[t]
        BY <3>1 DEF Update, Current
      <4>2. stored'[t].source = source_fields(row[t[1]], t[2])
        BY <3>1, <4>1 DEF Current
      <4> QED BY <4>1, <4>2 DEF Current
    <3> QED BY <2>1, <2>2, <3>1 DEF Serve, persist
  <2> QED
    BY <2>1, <2>2 DEF Next, Step, Start, Finish, Scan, Open, Reserve, Ask, Record,
       Send, Kill, Change, Clear
<1> QED BY <1>1, PTL DEF Spec, CurrentStays
=============================================================================
