----------------------------- MODULE CacheCheck -----------------------------
(***************************************************************************)
(* scripts/ci-cache-check.py: for each attribute the references of its     *)
(* outputs are walked through narinfo lookups, one level and one cache at  *)
(* a time.  What the walk of one attribute learnt is kept for the next,    *)
(* and the campaign publishes paths all the while.                         *)
(***************************************************************************)
EXTENDS Naturals, Sequences, FiniteSets

CONSTANTS
  AttrOrders,    \* the lists of attributes that may be given
  RootsOf,       \* attribute -> its output paths
  SwaOnly,       \* attributes of swa-cache-outputs.txt
  RefChoices,    \* what the references may be: path -> set of paths
  Publishable    \* pairs of a cache and a path it may get to hold

ASSUME CheckAssumption ==
  /\ \A refs \in RefChoices, order \in AttrOrders :
       /\ \A p \in DOMAIN refs : refs[p] \subseteq DOMAIN refs
       /\ \A i \in DOMAIN order : RootsOf[order[i]] \subseteq DOMAIN refs
  /\ \A order \in AttrOrders : order \in Seq(DOMAIN RootsOf)

VARIABLES
  attrs, refs,   \* what is checked
  content,       \* pairs of a cache and a path it holds
  began,         \* the content when the check began
  learnt,        \* known: references of the paths looked up so far
  absent,        \* missing
  wave,          \* closure, with the narinfo requests under way
  verdicts,      \* rows: per attribute its paths and those not cached
  exit           \* the exit status, or "none"

checkVars == <<attrs, refs, content, began, learnt, absent, wave, verdicts, exit>>

CACHES == <<"filc", "nixos">>
NoLevel(pc) ==
  [pc |-> pc, caches |-> <<>>, frontier |-> {}, remaining |-> {}, asking |-> {}, hits |-> {}]

CheckInit ==
  /\ attrs \in AttrOrders /\ refs \in RefChoices
  /\ content \in SUBSET Publishable /\ began = content
  /\ learnt = <<>> /\ absent = {}
  /\ wave = NoLevel("outputs")
  /\ verdicts = <<>> /\ exit = "none"

Attr == attrs[Len(verdicts) + 1]

\* A level of the walk: every path of it is asked for in the first cache.
Level(caches, frontier) ==
  [pc |-> "lookup", caches |-> caches, frontier |-> frontier,
   remaining |-> frontier, asking |-> frontier, hits |-> {}]

\* The next attribute is evaluated; its outputs are where its walk begins.
Evaluate ==
  /\ exit = "none" /\ wave.pc = "outputs" /\ Len(verdicts) < Len(attrs)
  /\ wave' = Level(IF Attr \in SwaOnly THEN <<"swa">> ELSE CACHES, RootsOf[Attr] \ DOMAIN learnt)
  /\ UNCHANGED <<attrs, refs, content, began, learnt, absent, verdicts, exit>>

\* One of the concurrent requests is answered, by a narinfo or by a 404.
Narinfo(p) ==
  /\ exit = "none" /\ p \in wave.asking
  /\ wave' = [wave EXCEPT !.asking = @ \ {p},
                !.hits = IF <<Head(wave.caches), p>> \in content THEN @ \cup {p} ELSE @]
  /\ UNCHANGED <<attrs, refs, content, began, learnt, absent, verdicts, exit>>

\* known, with the references of those found and of those that no cache has.
Known(found, none) ==
  [p \in DOMAIN learnt \cup found \cup none |->
     IF p \in found THEN refs[p] ELSE IF p \in none THEN {} ELSE learnt[p]]

\* All requests to one cache are answered; the rest is asked of the next one.
NextCache ==
  LET rest == wave.remaining \ wave.hits
  IN  /\ exit = "none" /\ wave.pc = "lookup" /\ wave.asking = {} /\ wave.caches # <<>>
      /\ learnt' = Known(wave.hits, {})
      /\ wave' = [wave EXCEPT !.caches = Tail(@), !.remaining = rest, !.hits = {},
                    !.asking = IF Len(wave.caches) > 1 THEN rest ELSE {}]
      /\ UNCHANGED <<attrs, refs, content, began, absent, verdicts, exit>>

\* What no cache has is missing; the references of the others come next.
NextLevel ==
  LET all == Known({}, wave.remaining)
      next == (UNION {all[p] : p \in wave.frontier}) \ DOMAIN all
  IN  /\ exit = "none" /\ wave.pc = "lookup" /\ wave.caches = <<>>
      /\ absent' = absent \cup wave.remaining
      /\ learnt' = all
      /\ wave' = IF next = {} THEN NoLevel("verdict") ELSE Level(CACHES, next)
      /\ UNCHANGED <<attrs, refs, content, began, verdicts, exit>>

\* The paths that some references lead to: the least set of them with the roots
\* and all that its own references name.
Reached(roots, references) ==
  LET all == roots \cup UNION {references[p] : p \in DOMAIN references}
      closed(paths) == \A p \in paths \cap DOMAIN references : references[p] \subseteq paths
  IN  {p \in all : \A paths \in SUBSET all : roots \subseteq paths /\ closed(paths) => p \in paths}

\* descendants, and the row of the attribute.
Verdict ==
  LET paths == Reached(RootsOf[Attr], learnt)
  IN  /\ exit = "none" /\ wave.pc = "verdict"
      /\ verdicts' = Append(verdicts, [paths |-> paths, missing |-> paths \cap absent])
      /\ wave' = NoLevel("outputs")
      /\ UNCHANGED <<attrs, refs, content, began, learnt, absent, exit>>

Conclude ==
  /\ exit = "none" /\ Len(verdicts) = Len(attrs)
  /\ exit' = IF \E i \in DOMAIN verdicts : verdicts[i].missing # {} THEN "missing" ELSE "cached"
  /\ UNCHANGED <<attrs, refs, content, began, learnt, absent, wave, verdicts>>

\* An evaluation fails, or a request, with anything but a 404.
CheckFails ==
  /\ exit = "none"
  /\ (wave.pc = "outputs" /\ Len(verdicts) < Len(attrs)) \/ wave.asking # {}
  /\ exit' = "error"
  /\ UNCHANGED <<attrs, refs, content, began, learnt, absent, wave, verdicts>>

\* The campaign publishes a path meanwhile.
PublishMeanwhile(entry) ==
  /\ exit = "none" /\ entry \in Publishable \ content
  /\ content' = content \cup {entry}
  /\ UNCHANGED <<attrs, refs, began, learnt, absent, wave, verdicts, exit>>

CheckNext ==
  \/ Evaluate
  \/ \E p \in DOMAIN refs : Narinfo(p)
  \/ NextCache
  \/ NextLevel
  \/ Verdict
  \/ Conclude
  \/ CheckFails
  \/ \E entry \in Publishable : PublishMeanwhile(entry)

CheckSpec == CheckInit /\ [][CheckNext]_checkVars

-----------------------------------------------------------------------------
\* The groups of caches where a path of the listed attributes may be looked for:
\* as an artifact of its own attribute, or as an ordinary path.
Groups(p) ==
  LET listed == {attrs[i] : i \in DOMAIN attrs}
      below == UNION {refs[q] \ {q} : q \in Reached(UNION {RootsOf[a] : a \in listed}, refs)}
  IN  (IF \E a \in listed \cap SwaOnly : p \in RootsOf[a] THEN {{"swa"}} ELSE {})
        \cup (IF p \in below \/ \E a \in listed \ SwaOnly : p \in RootsOf[a]
              THEN {{"filc", "nixos"}} ELSE {})
HeldIn(caches, p, entries) == \E c \in caches : <<c, p>> \in entries

\* "Check that flake outputs and their whole closures are in the public caches":
\* an attribute that is reported as cached has its whole closure in the caches
\* where it belongs, although most of it was not looked up for this attribute.
CachedIsComplete ==
  \A i \in DOMAIN verdicts : verdicts[i].missing = {} =>
    \A p \in Reached(RootsOf[attrs[i]], refs) : \E g \in Groups(p) : HeldIn(g, p, content)

\* "Only missing paths count as incomplete": every path reported for an attribute
\* is of its closure and was not in the caches where it belongs when the check
\* began; a network or evaluation failure never looks like a pending cache.
MissingIsReal ==
  \A i \in DOMAIN verdicts : \A p \in verdicts[i].missing :
    /\ p \in Reached(RootsOf[attrs[i]], refs)
    /\ \E g \in Groups(p) : ~HeldIn(g, p, began)
=============================================================================
