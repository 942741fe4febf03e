---------------------------- MODULE MCDotGitRefs ----------------------------
(* The ways of using a repository that TLC checks.                          *)
EXTENDS DotGitRefs

CONSTANTS p1, p2, p3, a, b, h1, h2, s1

Writers == {"set", "cas", "remove", "pack"}
Readers == {"ref", "refs"}

\* The processes of f run n operations each, of those it gives them.
By(f, n) == [ops |-> [p \in Procs |-> IF p \in DOMAIN f THEN f[p] ELSE {}],
             calls |-> [p \in Procs |-> IF p \in DOMAIN f THEN n ELSE 0],
             names |-> {a}, values |-> {h1, h2}, rwfs |-> TRUE, rename |-> TRUE, dies |-> {}]

\* One process runs three operations; two of them without the capabilities.
Sequential == [By([p \in {p1} |-> Writers \ {"cas"}], 3) EXCEPT !.names = {a, b}]
SimpleFS == [By([p \in {p1} |-> Kinds], 2) EXCEPT !.names = {a, HEAD}, !.rwfs = FALSE, !.rename = FALSE]

\* Two processes compare and set, one of them twice.
Comparing == [By([p \in {p1, p2} |-> {"cas"}], 1) EXCEPT !.calls[p1] = 2]

\* One process runs anything beside another that writes.
Anything == [By([p \in {p1, p2} |-> IF p = p1 THEN Kinds ELSE Writers], 1) EXCEPT !.names = {a, HEAD}, !.values = {h1, s1}]

\* Two processes pack while another reads; one that may die packs, twice, while
\* another reads.
Packing == [By([p \in Procs |-> IF p = p3 THEN Readers ELSE {"pack"}], 1)
              EXCEPT !.names = {a, b}, !.values = {h1}]
Dying == [By([p \in {p1, p2} |-> IF p = p1 THEN {"pack"} ELSE Readers], 2)
            EXCEPT !.names = {a, b}, !.values = {h1}, !.calls[p2] = 1, !.dies = {p1}]

\* Two processes that may die pack.
DyingPair == [By([p \in {p1, p2} |-> {"pack"}], 1)
                EXCEPT !.names = {a, b}, !.values = {h1}, !.dies = {p1, p2}]

McUses == {Sequential, SimpleFS, Comparing, Anything, Packing, Dying, DyingPair}

\* One process packs and another removes.
McRemoving == {[By([p \in {p1, p2} |-> {"pack", "remove"}], 1) EXCEPT !.names = {a, b}, !.values = {h1}]}
=============================================================================
