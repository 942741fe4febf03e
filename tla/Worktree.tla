---- MODULE Worktree ----
(***************************************************************************)
(* The worktree: HEAD and branches, the index and the files                *)
(* (worktree.go, worktree_status.go, worktree_commit.go, status.go).       *)
(*                                                                         *)
(* A tree, the index and the files are functions from Paths to contents,   *)
(* Nil where there is no file; a content stands for its blob and its mode. *)
(* One directory, of the paths InDir, can be empty.  Commits are numbered; *)
(* 0 is the tip of a branch without commits.  Each operation is an action, *)
(* and last is what it returned.  Between operations a user edits files.   *)
(***************************************************************************)
EXTENDS Integers, Sequences, FiniteSets

CONSTANTS
    Paths, Contents, Nil,
    InDir,          \* the paths below the directory
    Branches,
    InitCommits,    \* the commits at the start
    Uses            \* the ways of working, see UsesAssumption

NoBranch == -1

Tree == [Paths -> Contents \cup {Nil}]

ASSUME PathsAssumption ==
    Nil \notin Contents /\ InDir \subseteq Paths

ASSUME CommitsAssumption ==
    \A c \in 1..Len(InitCommits) : InitCommits[c].tree \in Tree /\ InitCommits[c].parent \in 0..(c - 1)

\* A way of working: the paths that .gitignore matches, branch -> commit at the
\* start (NoBranch if there is no such branch), the operations and the modes of
\* Reset that are used, and a bound on the number of commits.
ASSUME UsesAssumption ==
    \A u \in Uses :
        /\ u.ignored \subseteq Paths
        /\ u.tips \in [Branches -> NoBranch..Len(InitCommits)] /\ \E b \in Branches : u.tips[b] > 0
        /\ u.modes \subseteq {"soft", "mixed", "merge", "hard"}
        /\ u.maxCommits \in Nat /\ Len(InitCommits) <= u.maxCommits

VARIABLES use, commits, branches, head, index, wt, dir, last
vars == <<use, commits, branches, head, index, wt, dir, last>>

Ignored == use.ignored

EmptyTree == [p \in Paths |-> Nil]
TreeOf(c) == IF c = 0 THEN EmptyTree ELSE commits[c].tree

\* Repository.Head: HEAD names a branch, or is a commit itself.
HeadCommit ==
    IF head.branch = Nil THEN head.commit
    ELSE IF branches[head.branch] = NoBranch THEN 0 ELSE branches[head.branch]

\* A clean checkout of a branch, which has no commit yet in a new repository.
Init ==
    /\ use \in Uses
    /\ commits = InitCommits /\ branches = use.tips
    /\ \E b \in Branches :
         LET t == IF use.tips[b] = NoBranch THEN EmptyTree ELSE InitCommits[use.tips[b]].tree
         IN  /\ head = [branch |-> b, commit |-> 0]
             /\ index = t /\ wt = t
             /\ dir = IF \E p \in InDir : t[p] # Nil THEN 1 ELSE 0
    /\ last = [op |-> "none", arg |-> Nil, ok |-> 1]

Done(op, arg, ok) == last' = [op |-> op, arg |-> arg, ok |-> ok] /\ UNCHANGED use
Fail(op, arg) == Done(op, arg, 0) /\ UNCHANGED <<commits, branches, head, index, wt, dir>>
Does(op) == op \in use.ops

\* f with the values of g on S.
Override(f, S, g) == [p \in Paths |-> IF p \in S THEN g[p] ELSE f[p]]

\* Mutant of NewDir: the directory is removed without a look into it.
NewDirForced(w, rmEmpty) ==
    dir' = IF rmEmpty THEN 0 ELSE IF \E p \in InDir : w[p] # Nil THEN 1 ELSE dir

\* The directory once the files are w; rmEmpty if the operation removes it
\* when it leaves it empty.
NewDir(w, rmEmpty) ==
    dir' = IF \E p \in InDir : w[p] # Nil THEN 1 ELSE IF rmEmpty THEN 0 ELSE dir

----------------------------------------------------------------------------
(* Status. *)

\* diffTreeWithStaging and diffStagingWithWorktree.
Changed(a, b) == {p \in Paths : a[p] # b[p]}

excludeIgnoredChanges(S) == {p \in S : ~(p \in Ignored /\ index[p] = Nil)}
Right == excludeIgnoredChanges(Changed(index, wt))

Code(from, to) == IF from = Nil THEN "A" ELSE IF to = Nil THEN "D" ELSE "M"

\* Worktree.status for one path.
LeftEntry(p, e) ==
    IF TreeOf(HeadCommit)[p] = index[p] THEN e
    ELSE [staging |-> Code(TreeOf(HeadCommit)[p], index[p]), worktree |-> " "]

\* Mutant of RightEntry: the staging code is left as it is.
RightEntryStaging(p, e) ==
    CASE p \notin Right -> e
      [] p \in Right /\ index[p] = Nil -> [staging |-> "?", worktree |-> "?"]
      [] OTHER -> [staging |-> e.staging, worktree |-> Code(index[p], wt[p])]

RightEntry(p, e) ==
    CASE p \notin Right -> e
      [] p \in Right /\ index[p] = Nil -> [staging |-> "?", worktree |-> "?"]
      [] OTHER -> [staging |-> IF e.staging = "?" THEN " " ELSE e.staging,
                   worktree |-> Code(index[p], wt[p])]

Status(p) == RightEntry(p, LeftEntry(p, [staging |-> "?", worktree |-> "?"]))

InStatus(p) == p \in Right \/ TreeOf(HeadCommit)[p] # index[p]
IsClean == \A p \in Paths : InStatus(p) => Status(p) = [staging |-> " ", worktree |-> " "]
IsUntracked(p) == InStatus(p) /\ Status(p).worktree = "?"

----------------------------------------------------------------------------
(* Add, Remove, Move and Clean. *)

\* Mutant of Skipped: a file that is gone is left alone too.
SkippedDeleted(p) == Status(p).worktree \in {" ", "D"}

\* doAddFile: unless the status says that the file is unmodified the index gets
\* its content, or loses the entry if there is no file.
Skipped(p) == Status(p).worktree = " "
addToIndex(S) == Override(index, {p \in S : ~Skipped(p)}, wt)

Add(p) ==
    /\ Does("add")
    /\ IF ~Skipped(p) /\ wt[p] = Nil /\ index[p] = Nil THEN Fail("add", p)
       ELSE /\ index' = addToIndex({p})
            /\ Done("add", p, 1) /\ UNCHANGED <<commits, branches, head, wt, dir>>

AddWithSkipStatus(p) ==
    /\ Does("addskip") /\ wt[p] # Nil
    /\ index' = [index EXCEPT ![p] = wt[p]]
    /\ Done("add", p, 1) /\ UNCHANGED <<commits, branches, head, wt, dir>>

\* Add of a directory, or of "." for AddOptions.All: the paths of the status.
AddDirectory(S) ==
    /\ Does("adddir")
    /\ IF S = InDir /\ dir = 0 THEN Fail("adddir", Nil)
       ELSE /\ index' = addToIndex({p \in S : InStatus(p)})
            /\ Done("adddir", Nil, 1) /\ UNCHANGED <<commits, branches, head, wt, dir>>

\* AddGlob of "*": the files that are there, and the directory.
AddGlob ==
    /\ Does("addglob")
    /\ LET files == {p \in Paths \ InDir : wt[p] # Nil}
       IN  IF files = {} /\ dir = 0 THEN Fail("addglob", Nil)
           ELSE /\ index' = addToIndex(files \cup {p \in InDir : dir = 1 /\ InStatus(p)})
                /\ Done("addglob", Nil, 1) /\ UNCHANGED <<commits, branches, head, wt, dir>>

\* Remove of a file: from the index, then from the worktree.
Remove(p) ==
    /\ Does("remove")
    /\ IF index[p] = Nil THEN Fail("remove", p)
       ELSE /\ index' = [index EXCEPT ![p] = Nil] /\ wt' = [wt EXCEPT ![p] = Nil]
            /\ Done("remove", p, 1) /\ UNCHANGED <<commits, branches, head, dir>>

\* Remove of a directory: the tracked files that are in it, and then itself.
RemoveDirectory ==
    /\ Does("removedir")
    /\ IF dir = 0 THEN Fail("removedir", Nil)
       ELSE LET S == {p \in InDir : wt[p] # Nil /\ index[p] # Nil}
                w == Override(wt, S, EmptyTree)
            IN  /\ index' = Override(index, S, EmptyTree)
                /\ wt' = w /\ NewDir(w, TRUE)
                /\ Done("removedir", Nil, 1) /\ UNCHANGED <<commits, branches, head>>

\* RemoveGlob of all entries, one after the other in some order, each followed
\* by the removal of its directory if that is empty.  To find no directory is an
\* error, after which the index is not saved.
RemoveGlob ==
    /\ Does("removeglob")
    /\ LET S == {p \in Paths : index[p] # Nil}
           D == S \cap InDir
           kept == \E p \in InDir \ S : wt[p] # Nil
           some == \E p \in D : wt[p] # Nil
           all == \A p \in D : wt[p] # Nil
           w(R) == Override(wt, R, EmptyTree)
       IN  \/ /\ D = {} \/ (dir = 1 /\ (kept \/ some \/ Cardinality(D) = 1))
              /\ index' = EmptyTree
              /\ wt' = w(S) /\ NewDir(w(S), D # {})
              /\ Done("removeglob", Nil, 1) /\ UNCHANGED <<commits, branches, head>>
           \/ /\ D # {} /\ (dir = 0 \/ (~kept /\ ~all /\ Cardinality(D) > 1))
              /\ \E R \in SUBSET (S \ InDir) : wt' = w(R \cup D)
              /\ dir' = 0
              /\ Done("removeglob", Nil, 0) /\ UNCHANGED <<commits, branches, head, index>>

\* Move: the entry keeps its content and the file its own.
Move(p, q) ==
    /\ Does("move") /\ p # q
    /\ IF wt[p] = Nil \/ wt[q] # Nil \/ index[p] = Nil THEN Fail("move", p)
       ELSE LET w == [wt EXCEPT ![p] = Nil, ![q] = wt[p]]
            IN  /\ index' = [index EXCEPT ![p] = Nil, ![q] = index[p]]
                /\ wt' = w /\ NewDir(w, FALSE)
                /\ Done("move", p, 1) /\ UNCHANGED <<commits, branches, head>>

\* Clean removes what the status calls untracked; with Dir in the directory too.
Clean(withDir) ==
    /\ Does("clean")
    /\ LET w == Override(wt, {p \in Paths : IsUntracked(p) /\ (withDir \/ p \notin InDir)}, EmptyTree)
       IN  wt' = w /\ NewDir(w, withDir)
    /\ Done("clean", IF withDir THEN "dir" ELSE Nil, 1)
    /\ UNCHANGED <<commits, branches, head, index>>

----------------------------------------------------------------------------
(* Commit and CherryPick. *)

\* updateHEAD, for a commit that becomes the tip.
SetHead(c) ==
    IF head.branch = Nil THEN head' = [head EXCEPT !.commit = c] /\ UNCHANGED branches
    ELSE branches' = [branches EXCEPT ![head.branch] = c] /\ UNCHANGED head

\* The end of Commit: idx is committed on top of parent unless nothing changes.
CommitIndex(op, arg, idx, parent, allowEmpty) ==
    /\ index' = idx
    /\ IF idx = TreeOf(parent) /\ ~allowEmpty
       THEN Done(op, arg, 0) /\ UNCHANGED <<commits, branches, head>>
       ELSE /\ Len(commits) < use.maxCommits
            /\ commits' = Append(commits, [tree |-> idx, parent |-> parent])
            /\ SetHead(Len(commits) + 1)
            /\ Done(op, arg, 1)

\* Mutant of autoAddModifiedAndDeleted: deleted files stay.
autoAddModified == Override(index, {p \in Paths : Status(p).worktree = "M"}, wt)

autoAddModifiedAndDeleted == Override(index, {p \in Paths : Status(p).worktree \in {"M", "D"}}, wt)

Commit(kind, allowEmpty) ==
    /\ Does("commit")
    /\ IF kind = "amend" /\ HeadCommit = 0 THEN Fail("commit", kind)
       ELSE /\ CommitIndex("commit", kind,
                   IF kind = "all" THEN autoAddModifiedAndDeleted ELSE index,
                   IF kind = "amend" THEN commits[HeadCommit].parent ELSE HeadCommit, allowEmpty)
            /\ UNCHANGED <<wt, dir>>

\* CherryPick takes over what differs between HEAD and the commit, in some order:
\* a file is removed, which fails if it is not in the index, or written and added.
CherryPick(c, strategy, allowEmpty) ==
    /\ Does(strategy) /\ HeadCommit > 0
    /\ LET to == IF strategy = "theirs" THEN TreeOf(c) ELSE TreeOf(HeadCommit)
           S == Changed(TreeOf(HeadCommit), TreeOf(c))
           failing == {p \in S : to[p] = Nil /\ index[p] = Nil}
           arg == IF allowEmpty THEN "empty" ELSE Nil
           unseen == {p \in Ignored : index[p] = Nil /\ TreeOf(HeadCommit)[p] # Nil}
           Apply(R) == wt' = Override(wt, R, to) /\ NewDir(Override(wt, R, to), FALSE)
           Index(R) == Override(index, R \ unseen, to)
       IN  IF failing = {}
           THEN Apply(S) /\ CommitIndex(strategy, arg, Index(S), HeadCommit, allowEmpty)
           ELSE \E R \in SUBSET (S \ failing) :
                  /\ Apply(R) /\ index' = Index(R)
                  /\ Done(strategy, arg, 0) /\ UNCHANGED <<commits, branches, head>>

----------------------------------------------------------------------------
(* Reset, Restore, Checkout, Pull and Merge. *)

\* Mutant of containsUnstagedChanges: a deleted file does not count.
containsUnstagedModified == \E p \in Right : index[p] # Nil /\ wt[p] # Nil

containsUnstagedChanges == \E p \in Right : index[p] # Nil

\* resetIndex and resetWorktree, for the tree t; no files stands for all files.
Within(files) == IF files = {} THEN Paths ELSE files
removedFiles(t, files) == Changed(index, t) \cap Within(files)
resetIndex(t, files) == Override(index, removedFiles(t, files), t)
\* Mutant of resetWorktree: a merge writes what differs between HEAD and the commit.
resetWorktreeFromHead(mode, t, files) ==
    LET S == CASE mode = "hard" -> Within(files)
               [] mode = "merge" -> Changed(TreeOf(HeadCommit), t)
               [] OTHER -> {}
    IN  {p \in S : wt[p] # resetIndex(t, files)[p]}

\* The files that resetWorktree writes.
resetWorktree(mode, t, files) ==
    LET S == CASE mode = "hard" -> Within(files)
               [] mode = "merge" -> removedFiles(t, files)
               [] OTHER -> {}
    IN  {p \in S : wt[p] # resetIndex(t, files)[p]}

\* Reset after HEAD became h and the branches br.  It moves HEAD, saves the index
\* and then writes the files.
ResetTo(op, arg, h, br, mode, c, files) ==
    LET t == TreeOf(c)
        S == resetWorktree(mode, t, files)
        w == Override(wt, S, resetIndex(t, files))
    IN  IF \/ mode = "merge" /\ containsUnstagedChanges
           \/ h.branch # Nil /\ br[h.branch] = NoBranch
        THEN head' = h /\ branches' = br /\ Done(op, arg, 0) /\ UNCHANGED <<index, wt, dir>>
        ELSE /\ head' = IF h.branch = Nil THEN [h EXCEPT !.commit = c] ELSE h
             /\ branches' = IF h.branch = Nil THEN br ELSE [br EXCEPT ![h.branch] = c]
             /\ index' = IF mode = "soft" THEN index ELSE resetIndex(t, files)
             /\ wt' = w /\ NewDir(w, \E p \in S \cap InDir : w[p] = Nil)
             /\ Done(op, arg, 1)

Reset(mode, c) ==
    /\ Does("reset")
    /\ ResetTo("reset", mode, head, branches, mode, c, {}) /\ UNCHANGED commits

\* A Reset that cannot write the file p: HEAD and the index are there, some of
\* the files are, and p may be gone because it is removed before it is written.
ResetIOError(mode, c) ==
    /\ Does("ioerror") /\ HeadCommit > 0
    /\ ~(mode = "merge" /\ containsUnstagedChanges)
    /\ \E p \in resetWorktree(mode, TreeOf(c), {}) :
       \E R \in SUBSET (resetWorktree(mode, TreeOf(c), {}) \ {p}), gone \in {{}, {p}} :
         LET w == Override(Override(wt, R, TreeOf(c)), gone, EmptyTree)
         IN  wt' = w /\ NewDir(w, \E q \in R \cap InDir : w[q] = Nil)
    /\ SetHead(c) /\ index' = resetIndex(TreeOf(c), {})
    /\ Done("ioerror", mode, 0) /\ UNCHANGED commits

\* Restore of a file, of the index and with Worktree of the file too.
Restore(p, worktree) ==
    /\ Does("restore")
    /\ IF HeadCommit = 0 THEN Fail("restore", p)
       ELSE /\ ResetTo(IF worktree THEN "restore" ELSE "restorestaged", p, head, branches,
                       IF worktree THEN "hard" ELSE "mixed", HeadCommit, {p})
            /\ UNCHANGED commits

\* Mutant of CheckoutBranch: the reset comes first, and moves the old branch.
CheckoutBranchResetFirst(b, mode) ==
    /\ Does("checkout")
    /\ IF branches[b] = NoBranch THEN Fail("checkout", mode)
       ELSE /\ ResetTo("checkout", mode, [branch |-> b, commit |-> 0],
                       IF head.branch = Nil THEN branches ELSE [branches EXCEPT ![head.branch] = branches[b]],
                       mode, branches[b], {})
            /\ UNCHANGED commits

\* Checkout moves HEAD to the branch or the commit, and then resets.
CheckoutBranch(b, mode) ==
    /\ Does("checkout")
    /\ IF branches[b] = NoBranch THEN Fail("checkout", mode)
       ELSE /\ ResetTo("checkout", mode, [branch |-> b, commit |-> 0], branches, mode, branches[b], {})
            /\ UNCHANGED commits

CheckoutHash(c, mode) ==
    /\ Does("checkout")
    /\ ResetTo("checkout", mode, [branch |-> Nil, commit |-> c], branches, mode, c, {})
    /\ UNCHANGED commits

CheckoutCreate(b, c, mode) ==
    /\ Does("create")
    /\ IF branches[b] # NoBranch THEN Fail("create", mode)
       ELSE /\ ResetTo("create", mode, [branch |-> b, commit |-> 0], [branches EXCEPT ![b] = c], mode, c, {})
            /\ UNCHANGED commits

\* isFastForward(old, new): old is new or one of its ancestors.
Ancestors[c \in 0..Len(commits)] == IF c = 0 THEN {} ELSE {c} \cup Ancestors[commits[c].parent]
\* Mutant of isFastForward: the two are exchanged.
isFastForwardSwapped(old, new) == new \in Ancestors[old]

isFastForward(old, new) == old \in Ancestors[new]

\* PullContext once the remote branch c is fetched; updated if that brought news.
Pull(c, updated) ==
    /\ Does("pull") /\ UNCHANGED commits
    /\ LET h == HeadCommit
           moved == IF head.branch = Nil THEN [head EXCEPT !.commit = c] ELSE head
           tips == IF head.branch = Nil THEN branches ELSE [branches EXCEPT ![head.branch] = c]
       IN  IF h > 0 /\ ~updated /\ isFastForward(c, h)
           THEN Done("pull", "merge", 1) /\ UNCHANGED <<branches, head, index, wt, dir>>
           ELSE IF h > 0 /\ ~isFastForward(h, c) THEN Fail("pull", "merge")
           ELSE ResetTo("pull", "merge", moved, tips, "merge", c, {})

\* Repository.Merge moves the branch only.
Merge(c) ==
    /\ Does("merge")
    /\ IF HeadCommit = 0 THEN Fail("merge", Nil)
       ELSE IF ~isFastForward(HeadCommit, c) THEN Fail("merge", Nil)
       ELSE SetHead(c) /\ Done("merge", Nil, 1) /\ UNCHANGED <<commits, index, wt, dir>>

----------------------------------------------------------------------------
(* The user edits the files. *)

UserDone == Done("none", Nil, 1)
Write(p, c) ==
    /\ wt' = [wt EXCEPT ![p] = c] /\ NewDir(wt', FALSE)
    /\ UserDone /\ UNCHANGED <<commits, branches, head, index>>
Delete(p) ==
    /\ wt[p] # Nil /\ wt' = [wt EXCEPT ![p] = Nil]
    /\ UserDone /\ UNCHANGED <<commits, branches, head, index, dir>>
DeleteDir ==
    /\ dir = 1 /\ dir' = 0 /\ wt' = Override(wt, InDir, EmptyTree)
    /\ UserDone /\ UNCHANGED <<commits, branches, head, index>>

Edit == (\E p \in Paths, c \in Contents : Write(p, c)) \/ (\E p \in Paths : Delete(p)) \/ DeleteDir

CommitIds == 1..Len(commits)
Stage ==
    \/ \E p \in Paths : Add(p) \/ AddWithSkipStatus(p) \/ Remove(p)
    \/ AddDirectory(InDir) \/ AddDirectory(Paths) \/ AddGlob
    \/ RemoveDirectory \/ RemoveGlob
    \/ \E p, q \in Paths : Move(p, q)
    \/ \E withDir \in BOOLEAN : Clean(withDir)
Record ==
    \/ \E kind \in {"index", "all", "amend"}, e \in BOOLEAN : Commit(kind, e)
    \/ \E c \in CommitIds, s \in {"theirs", "ours"}, e \in BOOLEAN : CherryPick(c, s, e)
Switch ==
    \/ \E mode \in use.modes, c \in CommitIds :
         Reset(mode, c) \/ ResetIOError(mode, c)
    \/ \E mode \in use.modes \ {"mixed"}, c \in CommitIds : CheckoutHash(c, mode)
    \/ \E p \in Paths, w \in BOOLEAN : Restore(p, w)
    \/ \E b \in Branches, mode \in use.modes \ {"mixed"} : CheckoutBranch(b, mode)
    \/ \E b \in Branches, c \in CommitIds, mode \in use.modes \ {"mixed"} : CheckoutCreate(b, c, mode)
    \/ \E c \in CommitIds, u \in BOOLEAN : Pull(c, u)
    \/ \E c \in CommitIds : Merge(c)

Next == Edit \/ Stage \/ Record \/ Switch

Spec == Init /\ [][Next]_vars
\* The user keeps working.
FairSpec == Spec /\ WF_vars(Next)

----------------------------------------------------------------------------
(* Properties. *)

\* HEAD, the branches and the parents name commits that exist, and the directory
\* is there whenever a file is in it.
TypeOK ==
    /\ use \in Uses
    /\ index \in Tree /\ wt \in Tree /\ dir \in {0, 1}
    /\ \A c \in CommitIds : commits[c].tree \in Tree /\ commits[c].parent \in 0..(c - 1)
    /\ branches \in [Branches -> CommitIds \cup {NoBranch}]
    /\ head \in [branch : Branches \cup {Nil}, commit : 0..Len(commits)]
    /\ head.branch = Nil => head.commit > 0
    /\ (\E p \in InDir : wt[p] # Nil) => dir = 1

Tracked(p) == index[p] # Nil

\* Status and IsClean: a worktree is clean exactly when the commit, the index and
\* the files agree up to ignored files that are not tracked, and the code of a
\* tracked file is the one that its three contents call for.
StatusFaithful ==
    /\ IsClean <=> /\ index = TreeOf(HeadCommit)
                   /\ \A p \in Paths : wt[p] = index[p] \/ (p \in Ignored /\ ~Tracked(p))
    /\ \A p \in Paths :
         (Tracked(p) /\ InStatus(p)) =>
             Status(p) = [staging |-> IF index[p] = TreeOf(HeadCommit)[p] THEN " "
                                      ELSE IF TreeOf(HeadCommit)[p] = Nil THEN "A" ELSE "M",
                          worktree |-> IF wt[p] = index[p] THEN " " ELSE IF wt[p] = Nil THEN "D" ELSE "M"]

\* A Reset or Checkout that succeeds, hard or merge, also after one that broke off
\* or with changes in the way, leaves the index at the commit of HEAD and every
\* tracked file at the index; a hard one leaves nothing else.
ResetConverges ==
    (last.op \in {"reset", "checkout", "create"} /\ last.arg \in {"hard", "merge"} /\ last.ok = 1) =>
        /\ index = TreeOf(HeadCommit)
        /\ \A p \in Paths : (Tracked(p) \/ last.arg = "hard") => wt[p] = index[p]

Gentle ==
    \/ last'.op \in {"add", "adddir", "addglob", "commit", "clean", "pull", "merge", "restorestaged"}
    \/ last'.op \in {"reset", "checkout", "create", "ioerror"} /\ last'.arg # "hard"

\* Only a hard reset, a removal and a cherry-pick may touch a tracked file that has
\* changes which are not in the index: Add, Commit, Clean, Pull, Merge and the other
\* resets and checkouts leave it, whether they succeed or fail.
UnstagedKept ==
    [][Gentle => \A p \in Paths : (Tracked(p) /\ wt[p] # index[p]) => wt'[p] = wt[p]]_vars

\* An Add that succeeds leaves the file's content, or its absence, in the index
\* whatever was removed, staged and written before (doAddFile asks the status
\* whether there is anything to do), and nothing else changes there; an ignored
\* file that is not tracked may be left out.
AddStages ==
    [][(last'.op = "add" /\ last'.ok = 1) =>
         LET p == last'.arg
         IN  /\ index'[p] = wt[p] \/ (p \in Ignored /\ ~Tracked(p) /\ index'[p] = Nil)
             /\ \A q \in Paths \ {p} : index'[q] = index[q]]_vars

\* Commit: the new commit holds the index, on top of the commit of HEAD or in its
\* place; with All the index then has what the tracked files have; the files stay.
CommitExact ==
    [][(last'.op = "commit" /\ last'.ok = 1) =>
         /\ commits' = Append(commits,
               [tree |-> index', parent |-> IF last'.arg = "amend" THEN commits[HeadCommit].parent ELSE HeadCommit])
         /\ HeadCommit' = Len(commits') /\ wt' = wt
         /\ index' = IF last'.arg = "all" THEN [p \in Paths |-> IF Tracked(p) THEN wt[p] ELSE Nil] ELSE index]_vars

\* Reset, Checkout, Pull and Commit move no branch but the one that HEAD names
\* afterwards, and never change a commit.
OthersUntouched ==
    [][/\ \A b \in Branches : b # head'.branch => branches'[b] = branches[b]
       /\ SubSeq(commits', 1, Len(commits)) = commits]_vars

\* Pull and Merge only move the current branch forward: what was committed on it
\* stays reachable.
FastForwardOnly ==
    [][(last'.op \in {"pull", "merge"} /\ HeadCommit > 0) => HeadCommit \in (Ancestors[HeadCommit])']_vars

\* A Checkout without Force leaves every untracked file, one that exists and that
\* neither the index nor the commit of HEAD has, with its content
\* (worktree_test.go:796, "The untracked file should still be there").
CheckoutKeepsUntracked ==
    [][(last'.op = "checkout" /\ last'.arg = "merge") =>
         \A p \in Paths :
            (wt[p] # Nil /\ ~Tracked(p) /\ TreeOf(HeadCommit)[p] = Nil) => wt'[p] = wt[p]]_vars

====
