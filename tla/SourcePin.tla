----------------------------- MODULE SourcePin -----------------------------
(***************************************************************************)
(* scripts/update-filc-source-hashes.py moves the pin of a toolchain       *)
(* variant to another revision: it checks every source out of one clone in *)
(* a worktree, hashes it, and writes two files, which lib/sources.nix only *)
(* takes together.  The script may fail or be killed anywhere, and two may *)
(* run at the same time.                                                   *)
(* The hash of a source is the pair of its name and its revision.          *)
(***************************************************************************)
EXTENDS Naturals, Sequences, FiniteSets

CONSTANTS
  Script,        \* runs of the script
  SourceNames,   \* the names of sourcePatterns, in order
  Revision, FirstRevision

VARIABLES
  upstream,      \* coreRev of filc-upstream.json and filc-staging.json
  hashes,        \* filc-hashes.json and filc-staging-hashes.json
  script,        \* the runs
  worktrees      \* worktrees of the clone: run and source

pinVars == <<upstream, hashes, script, worktrees>>

Variants == {"release", "staging"}
SourceSet == {SourceNames[i] : i \in DOMAIN SourceNames}
\* A file that was opened for writing when its writer was killed.
Truncated == "truncated"
HashesOf(rev) == [n \in SourceSet |-> <<n, rev>>]

ASSUME PinAssumption ==
  /\ IsFiniteSet(Script)
  /\ SourceNames \in Seq(SourceSet)
  /\ \A i, j \in DOMAIN SourceNames : SourceNames[i] = SourceNames[j] => i = j
  /\ Truncated \notin Revision \cup {FirstRevision}

PinInit ==
  /\ upstream = [v \in Variants |-> FirstRevision]
  /\ hashes = [v \in Variants |-> [coreRev |-> FirstRevision, hashes |-> HashesOf(FirstRevision)]]
  /\ script = [s \in Script |-> [pc |-> "off", variant |-> "release", rev |-> FirstRevision, hashes |-> <<>>]]
  /\ worktrees = {}

\* The arguments are read and the files that the variant needs are loaded.
Load(s, v, rev) ==
  /\ script[s].pc = "off"
  /\ upstream["release"] # Truncated /\ upstream[v] # Truncated
  /\ script' = [script EXCEPT ![s] = [pc |-> "next", variant |-> v, rev |-> rev, hashes |-> <<>>]]
  /\ UNCHANGED <<upstream, hashes, worktrees>>

Hashed(s) == Cardinality(DOMAIN script[s].hashes)

\* git worktree add and the sparse checkout of the next source.
AddWorktree(s) ==
  /\ script[s].pc = "next" /\ Hashed(s) < Len(SourceNames)
  /\ worktrees' = worktrees \cup {<<s, SourceNames[Hashed(s) + 1]>>}
  /\ script' = [script EXCEPT ![s].pc = "hash"]
  /\ UNCHANGED <<upstream, hashes>>

WithHash(hashed, n, rev) ==
  [m \in DOMAIN hashed \cup {n} |-> IF m = n THEN <<n, rev>> ELSE hashed[m]]
\* nix hash path, and the worktree is removed.
HashSource(s) ==
  LET n == SourceNames[Hashed(s) + 1]
  IN  /\ script[s].pc = "hash"
      /\ script' = [script EXCEPT ![s].pc = "next", ![s].hashes = WithHash(@, n, script[s].rev)]
      /\ worktrees' = worktrees \ {<<s, n>>}
      /\ UNCHANGED <<upstream, hashes>>

\* A command fails or the patterns match no file.
Fail(s) ==
  /\ script[s].pc \in {"next", "hash"}
  /\ script' = [script EXCEPT ![s].pc = "failed"]
  /\ worktrees' = {w \in worktrees : w[1] # s}
  /\ UNCHANGED <<upstream, hashes>>

WriteHashes(s) ==
  /\ script[s].pc = "next" /\ Hashed(s) = Len(SourceNames)
  /\ hashes' = [hashes EXCEPT ![script[s].variant] =
                   [coreRev |-> script[s].rev, hashes |-> script[s].hashes]]
  /\ script' = [script EXCEPT ![s].pc = "upstream"]
  /\ UNCHANGED <<upstream, worktrees>>

WriteUpstream(s) ==
  /\ script[s].pc = "upstream"
  /\ upstream' = [upstream EXCEPT ![script[s].variant] = script[s].rev]
  /\ script' = [script EXCEPT ![s].pc = "done"]
  /\ UNCHANGED <<hashes, worktrees>>

\* The script is killed: a worktree stays, and so does half of a file.
KillScript(s) ==
  /\ script[s].pc \in {"next", "hash", "upstream"}
  /\ script' = [script EXCEPT ![s].pc = "killed"]
  /\ \/ UNCHANGED <<upstream, hashes>>
     \/ /\ script[s].pc = "next" /\ Hashed(s) = Len(SourceNames)
        /\ hashes' = [hashes EXCEPT ![script[s].variant].coreRev = Truncated]
        /\ UNCHANGED upstream
     \/ /\ script[s].pc = "upstream"
        /\ upstream' = [upstream EXCEPT ![script[s].variant] = Truncated]
        /\ UNCHANGED hashes
  /\ UNCHANGED worktrees

PinNext ==
  \/ \E s \in Script, v \in Variants, rev \in Revision : Load(s, v, rev)
  \/ \E s \in Script : AddWorktree(s)
  \/ \E s \in Script : HashSource(s)
  \/ \E s \in Script : Fail(s)
  \/ \E s \in Script : WriteHashes(s)
  \/ \E s \in Script : WriteUpstream(s)
  \/ \E s \in Script : KillScript(s)

PinSpec == PinInit /\ [][PinNext]_pinVars

-----------------------------------------------------------------------------
\* Mutant: the revisions are not compared.
AcceptedReadable(v) ==
  /\ upstream["release"] # Truncated
  /\ upstream[v] # Truncated /\ hashes[v].coreRev # Truncated
\* sources.nix: the files can be read and are about the same revision.
Accepted(v) ==
  /\ upstream["release"] # Truncated
  /\ upstream[v] # Truncated /\ hashes[v].coreRev # Truncated
  /\ hashes[v].coreRev = upstream[v]

\* A pin that evaluates has the hashes of its own revision for every source,
\* whatever died or overlapped while it was moved.
AcceptedIsExact ==
  \A v \in Variants : Accepted(v) => hashes[v].hashes = HashesOf(upstream[v])

\* A variant that at most one run has touched, which was not killed and is not
\* between its two files, evaluates: failing leaves the old pin, and finishing
\* the new one.
PinUsable ==
  \A v \in Variants :
    LET touched == {s \in Script : script[s].pc # "off" /\ script[s].variant = v}
    IN  /\ upstream["release"] # Truncated
        /\ Cardinality(touched) <= 1
        /\ \A s \in touched : script[s].pc \in {"next", "hash", "failed", "done"}
        => Accepted(v)

\* What is left in the clone belongs to a run under way or to one that was killed.
WorktreesRemoved ==
  \A w \in worktrees : script[w[1]].pc \in {"hash", "killed"}
=============================================================================
