----------------------------- MODULE Inventory -----------------------------
(***************************************************************************)
(* scripts/package-inventory.py: every attribute of the package set is     *)
(* evaluated in batches that are halved when they fail, and the results    *)
(* are appended to a file from which a killed run is resumed.  The report  *)
(* selects the attributes that are worth building.                         *)
(* The file is a sequence of lines.  A line holds a record or is Broken,   *)
(* which is what becomes of a torn record with another one behind it.      *)
(***************************************************************************)
EXTENDS Naturals, Sequences, FiniteSets, SequencesExt

CONSTANTS
  Names,         \* the universe: the attributes, in order
  Traits,        \* what is known of an attribute: see Decision
  BatchSize,
  Pins,          \* revisions of nixpkgs that the checkout may be at
  MaxRuns        \* bound on the starts of the script

NoDirectory == 100
NoRunFile == 99

ASSUME InventoryAssumption ==
  /\ Names \in Seq({Names[i] : i \in DOMAIN Names})
  /\ \A i, j \in DOMAIN Names : Names[i] = Names[j] => i = j
  /\ \A i \in DOMAIN Names : Names[i] # "broken"
  /\ BatchSize \in Nat \ {0}
  /\ Pins \cap {NoDirectory, NoRunFile} = {}

VARIABLES
  pin,           \* the revision of the checkout
  runFile,       \* run.json: its pin, NoRunFile or NoDirectory
  lines,         \* complete lines of metadata.jsonl
  tail,          \* what follows the last newline: <<>>, Torn or a record
  pc,
  left,          \* names still to be evaluated
  batches,       \* the batch and the halves that its failure left
  buffer,        \* records of the batch
  manifest,      \* candidates.json: complete and selected, or NoManifest
  alone,         \* names whose evaluation failed when tried alone
  runs

inventoryVars == <<pin, runFile, lines, tail, pc, left, batches, buffer, manifest, alone, runs>>

Broken == [name |-> "broken", ok |-> FALSE, pin |-> 0]
Torn == <<Broken>>
NoManifest == [complete |-> FALSE, selected |-> {"none"}]
Place(n) == CHOOSE i \in DOMAIN Names : Names[i] = n

InventoryInit ==
  /\ pin \in Pins /\ runFile = NoDirectory
  /\ lines = <<>> /\ tail = <<>>
  /\ pc = "off" /\ left = <<>> /\ batches = <<>> /\ buffer = <<>>
  /\ manifest = NoManifest /\ alone = {} /\ runs = 0

Recorded == {r.name : r \in ToSet(lines \o tail)}

-----------------------------------------------------------------------------
\* A new output directory; run.json comes after it.
Create ==
  /\ pc = "off" /\ runs < MaxRuns /\ runFile = NoDirectory
  /\ runs' = runs + 1 /\ runFile' = NoRunFile /\ pc' = "created"
  /\ UNCHANGED <<pin, lines, tail, left, batches, buffer, manifest, alone>>

WriteRun ==
  /\ pc = "created"
  /\ runFile' = pin /\ pc' = "batch" /\ left' = Names
  /\ UNCHANGED <<pin, lines, tail, batches, buffer, manifest, alone, runs>>

\* "Resume requires the same pin, universe, and evaluator."
SameIdentity == runFile = pin

\* read_jsonl(recover_tail=True): a torn tail is cut off, a record without its
\* newline gets one.
Recovered ==
  [lines |-> IF tail \in {<<>>, Torn} THEN lines ELSE lines \o tail, tail |-> <<>>]

\* The names that are not recorded, in order.
Unrecorded(recorded) ==
  LET is == {i \in DOMAIN Names : Names[i] \notin recorded}
      nth(k) == CHOOSE i \in is : Cardinality({j \in is : j <= i}) = k
  IN  [k \in 1..Cardinality(is) |-> Names[nth(k)]]

\* A line that cannot be read anywhere else stops the resumed run.
ResumeRun ==
  /\ pc = "off" /\ runs < MaxRuns /\ SameIdentity
  /\ Broken \notin ToSet(lines)
  /\ runs' = runs + 1 /\ pc' = "batch"
  /\ lines' = Recovered.lines /\ tail' = Recovered.tail
  /\ left' = Unrecorded({Recovered.lines[i].name : i \in DOMAIN Recovered.lines})
  /\ UNCHANGED <<pin, runFile, batches, buffer, manifest, alone>>

StartBatch ==
  /\ pc = "batch" /\ left # <<>>
  /\ batches' = <<SubSeq(left, 1, IF Len(left) < BatchSize THEN Len(left) ELSE BatchSize)>>
  /\ left' = SubSeq(left, BatchSize + 1, Len(left))
  /\ buffer' = <<>> /\ pc' = "evaluate"
  /\ UNCHANGED <<pin, runFile, lines, tail, manifest, alone, runs>>

Record(n, ok) == [name |-> n, ok |-> ok, pin |-> pin]

\* The evaluator returns.
Evaluated ==
  /\ pc = "evaluate" /\ batches # <<>>
  /\ buffer' = buffer \o [i \in DOMAIN Head(batches) |-> Record(Head(batches)[i], TRUE)]
  /\ batches' = Tail(batches)
  /\ UNCHANGED <<pin, runFile, lines, tail, pc, left, manifest, alone, runs>>

Halves(batch) ==
  LET middle == Len(batch) \div 2
  IN  <<SubSeq(batch, 1, middle), SubSeq(batch, middle + 1, Len(batch))>>

\* batch: the failure of one name is recorded, that of several is isolated.
Split(batch) ==
  IF Len(batch) = 1
  THEN /\ buffer' = Append(buffer, Record(batch[1], FALSE))
       /\ batches' = Tail(batches)
  ELSE /\ batches' = Halves(batch) \o Tail(batches)
       /\ UNCHANGED buffer

\* It fails, takes too long or answers nonsense.
EvaluationFails ==
  /\ pc = "evaluate" /\ batches # <<>>
  /\ Split(Head(batches))
  /\ alone' = IF Len(Head(batches)) = 1 THEN alone \cup ToSet(Head(batches)) ELSE alone
  /\ UNCHANGED <<pin, runFile, lines, tail, pc, left, manifest, runs>>

\* The records are appended behind whatever the file ends with.
Flush ==
  /\ pc = "evaluate" /\ batches = <<>>
  /\ lines' = IF tail = <<>> THEN lines \o buffer ELSE lines \o <<Broken>> \o Tail(buffer)
  /\ tail' = <<>> /\ buffer' = <<>> /\ pc' = "batch"
  /\ UNCHANGED <<pin, runFile, left, batches, manifest, alone, runs>>

-----------------------------------------------------------------------------
(* classify: the first rule that applies decides.                          *)

\* What the packaging file says of an attribute; a file that is shared by many
\* attributes says nothing.
source_evidence(t) == IF "shared" \in t THEN {} ELSE t \cap {"assembly", "c-clue", "mixed"}

Excluding(t) == {"not-a-package", "elsewhere", "kernel", "unsupported", "binary"} \cap t # {}
Deferring(t) ==
  /\ {"sourceless", "compilerless", "nobuild"} \cap t # {}
  /\ "c-clue" \notin source_evidence(t) /\ "c-input" \notin t
Mixed(t) == "mixed" \in source_evidence(t) \/ "mixed-input" \in t

Decision(ok, t) ==
  IF ~ok THEN "unresolved"
  ELSE IF Excluding(t) THEN "excluded"
  ELSE IF Deferring(t) THEN "deferred"
  ELSE IF Mixed(t) THEN "uncertain"
  ELSE IF {"sourceless", "compilerless"} \cap t = {} THEN "candidate" ELSE "uncertain"

SelectedRows(rows) ==
  {r.name : r \in {s \in ToSet(rows) : Decision(s.ok, Traits[s.name]) \in {"candidate", "uncertain"}}}

\* render_report refuses records that are not one per attribute.
Report(rows) ==
  IF Broken \notin ToSet(rows) /\ \A i, j \in DOMAIN rows : rows[i].name = rows[j].name => i = j
  THEN [complete |-> Len(rows) = Len(Names), selected |-> SelectedRows(rows)]
  ELSE manifest

ReportAll ==
  /\ pc = "batch" /\ left = <<>>
  /\ manifest' = Report(lines) /\ pc' = "off"
  /\ UNCHANGED <<pin, runFile, lines, tail, left, batches, buffer, alone, runs>>

\* --report-only, at any time: a tail that cannot be read stops it.
ReportOnly ==
  /\ runFile \notin {NoDirectory, NoRunFile}
  /\ lines \o tail # <<>> /\ tail # Torn
  /\ manifest' = Report(lines \o tail)
  /\ UNCHANGED <<pin, runFile, lines, tail, pc, left, batches, buffer, alone, runs>>

\* The script is killed; of the records that were being written any prefix is on
\* disk, the last of them perhaps in part or without its newline.
Killed ==
  /\ pc # "off"
  /\ pc' = "off" /\ left' = <<>> /\ batches' = <<>> /\ buffer' = <<>>
  /\ IF pc = "evaluate" /\ batches = <<>> /\ tail = <<>>
     THEN \E n \in 0..Len(buffer) :
            /\ lines' = lines \o SubSeq(buffer, 1, n)
            /\ tail' \in {<<>>} \cup (IF n < Len(buffer) THEN {Torn, <<buffer[n + 1]>>} ELSE {})
     ELSE UNCHANGED <<lines, tail>>
  /\ UNCHANGED <<pin, runFile, manifest, alone, runs>>

\* The checkout moves on to another revision.
Repin ==
  /\ pc = "off"
  /\ pin' \in Pins \ {pin}
  /\ UNCHANGED <<runFile, lines, tail, pc, left, batches, buffer, manifest, alone, runs>>

InventoryNext ==
  \/ Create
  \/ WriteRun
  \/ ResumeRun
  \/ StartBatch
  \/ Evaluated
  \/ EvaluationFails
  \/ Flush
  \/ ReportAll
  \/ ReportOnly
  \/ Killed
  \/ Repin

InventorySpec == InventoryInit /\ [][InventoryNext]_inventoryVars

-----------------------------------------------------------------------------
\* However often the script is killed in the middle of a record and resumed, its
\* file has one record per attribute, in order, and nothing that cannot be read.
FileReadable ==
  /\ Broken \notin ToSet(lines)
  /\ \A i, j \in DOMAIN lines : i < j => Place(lines[i].name) < Place(lines[j].name)

\* A manifest that says it is complete has decided on every attribute, from
\* records of one revision.
CompleteMeansAll ==
  /\ manifest.complete => ToSet(Names) \subseteq Recorded
  /\ \A i \in DOMAIN lines : lines[i].pin = runFile

\* "Errors are isolated by splitting batches": an attribute is given up only if
\* its own evaluation failed.
ErrorsIsolated ==
  \A i \in DOMAIN lines : lines[i].ok \/ lines[i].name \in alone

\* "Assembly clues never exclude an entry": of two attributes that differ in
\* nothing else, both or none are selected.
AssemblyNeutral ==
  manifest.complete =>
    \A i, j \in DOMAIN lines :
      LET a == lines[i]
          b == lines[j]
      IN  a.ok = b.ok /\ Traits[a.name] \ {"assembly"} = Traits[b.name] \ {"assembly"} =>
            (a.name \in manifest.selected <=> b.name \in manifest.selected)
=============================================================================
