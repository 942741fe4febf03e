---- MODULE MCWorktree ----
(***************************************************************************)
(* Instances of Worktree: a file at the top and one with the same name in  *)
(* a directory, two contents, and a short history.                         *)
(***************************************************************************)
EXTENDS Worktree, TLC

mcPaths == {"f", "d/f"}
mcInDir == {"d/f"}
T(f, g) == "f" :> f @@ "d/f" :> g

mcCommits == <<[tree |-> T("x", Nil), parent |-> 0], [tree |-> T("y", "x"), parent |-> 1]>>

\* Everything, in a repository with one branch; another can be created.
Everything ==
    [ignored |-> {}, tips |-> "main" :> 2 @@ "dev" :> NoBranch,
     ops |-> {"add", "addskip", "adddir", "addglob", "remove", "removedir", "removeglob", "move",
              "clean", "commit", "theirs", "ours", "reset", "ioerror", "restore", "checkout",
              "create", "pull", "merge"},
     modes |-> {"soft", "mixed", "merge", "hard"}, maxCommits |-> 2]

\* New commits with an ignored file; main is one commit behind dev.
Committing ==
    [ignored |-> {"d/f"}, tips |-> "main" :> 1 @@ "dev" :> 2,
     ops |-> {"add", "adddir", "clean", "commit", "theirs", "merge"},
     modes |-> {"merge"}, maxCommits |-> 3]

mcUses == {Everything, Committing}

\* Nothing but checkouts.
mcCheckout ==
    {[Everything EXCEPT !.tips = "main" :> 1 @@ "dev" :> 2, !.ops = {"checkout"}]}
====
