-------------------------- MODULE MCObjectStorage --------------------------
(* Instances of ObjectStorage for TLC.                                      *)
EXTENDS ObjectStorage, TLC

CONSTANTS p1, p2

By(f, n) == [ops |-> f, calls |-> n, exclusive |-> FALSE, rewrites |-> FALSE,
             fails |-> FALSE, dies |-> FALSE]

\* A writer beside lookups.
Shared == By((p1 :> {"get", "has", "pack"}) @@ (p2 :> {"get", "add", "pack"}),
             (p1 :> 1) @@ (p2 :> 2))

\* EncodedObjectSize beside a writer of loose objects, and beside one that may
\* build the index.
Sizing == By((p1 :> {"size", "pack"}) @@ (p2 :> {"add"}), (p1 :> 2) @@ (p2 :> 2))
SizeRace == By((p1 :> {"size"}) @@ (p2 :> {"get", "pack"}), (p1 :> 1) @@ (p2 :> 1))

\* A writer that prunes beside another one, in a process that may die.
Dying == [By((p1 :> {"add", "pack"}) @@ (p2 :> {"get", "pack", "prune"}),
             (p1 :> 1) @@ (p2 :> 2)) EXCEPT !.dies = TRUE]

\* One goroutine with ExclusiveAccess.
Cached == [By((p1 :> {"get", "size", "add", "pack", "prune"}) @@ (p2 :> {}),
              (p1 :> 3) @@ (p2 :> 0)) EXCEPT !.exclusive = TRUE]

\* One goroutine that does anything.
Sequential == By((p1 :> {"get", "add", "pack", "repack", "prune", "reindex"}) @@ (p2 :> {}),
                 (p1 :> 3) @@ (p2 :> 0))

\* A repack beside lookups and writers, with and without failures.
Repacking == By((p1 :> {"get", "pack"}) @@ (p2 :> {"repack"}), (p1 :> 1) @@ (p2 :> 1))
Failing == [Repacking EXCEPT !.fails = TRUE]

\* Packs that are written again.
Rewriting == [By((p1 :> {"get"}) @@ (p2 :> {"pack"}),
                 (p1 :> 1) @@ (p2 :> 2)) EXCEPT !.rewrites = TRUE]

\* A Reindex beside a lookup or a writer.
Reindexing == By((p1 :> {"get", "pack"}) @@ (p2 :> {"reindex"}), (p1 :> 1) @@ (p2 :> 1))

McUses == {Shared, Sizing, SizeRace, Dying, Cached, Sequential, Repacking, Failing,
           Rewriting, Reindexing}

\* A repack in a process that may die.
McRepackDies == {[By((p1 :> {"repack"}) @@ (p2 :> {}), (p1 :> 1) @@ (p2 :> 0)) EXCEPT !.dies = TRUE]}
=============================================================================
