------------------------------- MODULE Prefix -------------------------------
(***************************************************************************)
(* packages/optfil/mkprefix.py: a Nix closure becomes a tree for a fixed   *)
(* prefix.  Merged paths are laid over each other, the others get a        *)
(* directory each; files with the same bytes share an inode, and at last   *)
(* the references in the bytes of each inode are rewritten.                *)
(*                                                                         *)
(* A store path has one entry "x" and, if that is a directory, one entry   *)
(* "x/y" in it.  The data of a file is the store path its bytes refer to,  *)
(* "text" or a path outside the closure; that of a link is its target.     *)
(* Names whose shortened hashes collide are refused before all this, and   *)
(* documentation is left out.                                              *)
(***************************************************************************)
EXTENDS Naturals, Sequences, FiniteSets

CONSTANTS
  Merge,          \* --merge paths, in order
  Separate,       \* the other paths of the closure, in order
  DirectoryOf,    \* the directory of each of them, with its hash shortened
  Alias,          \* --alias paths: not copied
  MergedTrees, SeparateTrees   \* what a path may contain

\* The entry in a directory is none itself.
ASSUME PrefixAssumption ==
  /\ Merge \in Seq({Merge[i] : i \in DOMAIN Merge})
  /\ Separate \in Seq({Separate[i] : i \in DOMAIN Separate})
  /\ \A t \in MergedTrees \cup SeparateTrees : t["x/y"].kind # "dir"

VARIABLES
  trees,          \* the contents of the store paths
  copying,        \* entries to copy, depth first
  out,            \* OUT: what is at each destination, with its owner
  inodes,         \* bytes and mode of the copied files, by their first name
  sharing,        \* copies: (mode, digest) -> first name
  conflicts,      \* who kept what from whom
  rewriting,      \* files not yet rewritten, while that is being done
  unknown         \* references to paths outside the closure

prefixVars == <<trees, copying, out, inodes, sharing, conflicts, rewriting, unknown>>

PrefixPaths == {Merge[i] : i \in DOMAIN Merge} \cup {Separate[i] : i \in DOMAIN Separate}
Flat == {Merge[i] : i \in DOMAIN Merge} \cup Alias
Entries(order, at) == [i \in DOMAIN order |-> <<order[i], at>>]

PrefixInit ==
  /\ trees \in [PrefixPaths -> MergedTrees \cup SeparateTrees]
  /\ \A i \in DOMAIN Merge : trees[Merge[i]] \in MergedTrees
  /\ \A i \in DOMAIN Separate : trees[Separate[i]] \in SeparateTrees
  /\ copying = Entries(Merge, "x") \o Entries(Separate, "x")
  /\ out = <<>> /\ inodes = <<>> /\ sharing = <<>>
  /\ conflicts = {} /\ rewriting = <<>> /\ unknown = {}

\* Where a path is installed: flat paths all at the prefix itself.
Home(p) == IF p \in Flat THEN "prefix" ELSE DirectoryOf[p]
\* What a reference becomes.
Installed(p) == IF p \in PrefixPaths \cup Alias THEN Home(p) ELSE p

Current == Head(copying)
Entering == trees[Current[1]][Current[2]]
Dest == <<Home(Current[1]), Current[2]>>

\* f with x, unless x is there.
Adding(f, x, v) == [y \in DOMAIN f \cup {x} |-> IF y \in DOMAIN f THEN f[y] ELSE v]

Pass == copying' = Tail(copying)

\* Nothing is there.
CopyNothing ==
  /\ copying # <<>> /\ Entering.kind = "none"
  /\ Pass
  /\ UNCHANGED <<trees, out, inodes, sharing, conflicts, rewriting, unknown>>

\* A directory is made, or was, and entered.
CopyDir ==
  /\ copying # <<>> /\ Entering.kind = "dir"
  /\ Dest \in DOMAIN out => out[Dest].kind = "dir"
  /\ copying' = <<<<Current[1], "x/y">>>> \o Tail(copying)
  /\ out' = Adding(out, Dest, [kind |-> "dir", data |-> "none", owner |-> Current[1]])
  /\ UNCHANGED <<trees, inodes, sharing, conflicts, rewriting, unknown>>

\* same: links by where they will lead, files by their bytes.
SameAs(entry, there) ==
  /\ entry.kind = there.kind
  /\ CASE entry.kind = "link" -> Installed(entry.data) = there.data
       [] entry.kind = "file" -> entry.data = inodes[there.data].data
       [] OTHER -> TRUE

\* Something else is there already: it stays.
Keep ==
  /\ copying # <<>> /\ Entering.kind # "none" /\ Dest \in DOMAIN out
  /\ Entering.kind = "dir" => out[Dest].kind # "dir"
  /\ conflicts' = IF SameAs(Entering, out[Dest]) THEN conflicts
                  ELSE conflicts \cup {<<out[Dest].owner, Current[1], Dest>>}
  /\ Pass
  /\ UNCHANGED <<trees, out, inodes, sharing, rewriting, unknown>>

CopyLink ==
  /\ copying # <<>> /\ Entering.kind = "link" /\ Dest \notin DOMAIN out
  /\ out' = Adding(out, Dest, [kind |-> "link", data |-> Installed(Entering.data), owner |-> Current[1]])
  /\ Pass
  /\ UNCHANGED <<trees, inodes, sharing, conflicts, rewriting, unknown>>

InodeKey(entry) == <<entry.mode, entry.data>>

\* A file becomes another name of one with the same bytes and mode, or is copied.
CopyFile ==
  LET key == InodeKey(Entering)
      shared == key \in DOMAIN sharing
      first == IF shared THEN sharing[key] ELSE Dest
  IN  /\ copying # <<>> /\ Entering.kind = "file" /\ Dest \notin DOMAIN out
      /\ out' = Adding(out, Dest, [kind |-> "file", data |-> first, owner |-> Current[1]])
      /\ IF shared THEN UNCHANGED <<inodes, sharing, rewriting>>
         ELSE /\ inodes' = Adding(inodes, Dest, [data |-> Entering.data, mode |-> Entering.mode])
              /\ sharing' = Adding(sharing, key, Dest)
              /\ rewriting' = Append(rewriting, Dest)
      /\ Pass
      /\ UNCHANGED <<trees, conflicts, unknown>>

\* "Files are rewritten only after everything is copied."
Rewrite ==
  LET at == Head(rewriting)
      data == inodes[at].data
  IN  /\ copying = <<>> /\ rewriting # <<>>
      /\ inodes' = [inodes EXCEPT ![at].data = Installed(data)]
      /\ unknown' = IF data \in PrefixPaths \cup Alias \cup {"text"} THEN unknown
                    ELSE unknown \cup {<<data, at>>}
      /\ rewriting' = Tail(rewriting)
      /\ UNCHANGED <<trees, copying, out, sharing, conflicts>>

PrefixNext ==
  CopyNothing \/ CopyDir \/ Keep \/ CopyLink \/ CopyFile \/ Rewrite

PrefixSpec == PrefixInit /\ [][PrefixNext]_prefixVars

-----------------------------------------------------------------------------
\* Who offers an entry at a destination, in order: the parent must have been
\* merged as a directory.
Offers(d, kept) ==
  LET order == Merge \o Separate
      offer(i) == /\ Home(order[i]) = d[1] /\ trees[order[i]][d[2]].kind # "none"
                  /\ d[2] = "x/y" => trees[order[i]]["x"].kind = "dir" /\ kept = "dir"
  IN  {i \in DOMAIN order : offer(i)}
FirstOffer(d, kept) == LET is == Offers(d, kept) IN CHOOSE i \in is : \A j \in is : i <= j
FirstProvided(d, kept) ==
  IF Offers(d, kept) = {} THEN [kind |-> "none"]
  ELSE trees[(Merge \o Separate)[FirstOffer(d, kept)]][d[2]]
Parent(d) == IF d[2] = "x" THEN "dir" ELSE FirstProvided(<<d[1], "x">>, "dir").kind
Destinations == {Home(p) : p \in PrefixPaths} \X {"x", "x/y"}
PrefixDone == copying = <<>> /\ rewriting = <<>>

\* "A file that an earlier path already provided is skipped": the finished tree
\* has at each place what the first path has there, with its own mode, every
\* reference into the closure rewritten, and nothing else; inodes are shared
\* only where that makes no difference.
PrefixExact ==
  PrefixDone => \A d \in Destinations :
    LET want == FirstProvided(d, Parent(d))
    IN  IF want.kind = "none" THEN d \notin DOMAIN out
        ELSE /\ d \in DOMAIN out /\ out[d].kind = want.kind
             /\ want.kind = "link" => out[d].data = Installed(want.data)
             /\ want.kind = "file" => inodes[out[d].data] =
                  [data |-> Installed(want.data), mode |-> want.mode]

\* "With a warning when the two differ": each difference that was passed over is
\* reported, with who kept it, and nothing else is.
LossesReported ==
  PrefixDone =>
    conflicts = UNION {
      LET order == Merge \o Separate
          is == Offers(d, Parent(d))
          first == order[FirstOffer(d, Parent(d))]
          kept == trees[first][d[2]]
          differ(e) == \/ e.kind # kept.kind
                       \/ e.kind = "file" /\ e.data # kept.data
                       \/ e.kind = "link" /\ Installed(e.data) # Installed(kept.data)
      IN  {<<first, order[i], d>> : i \in {j \in is : differ(trees[order[j]][d[2]])}}
      : d \in Destinations }
=============================================================================
