----------------------------- MODULE DotGitRefs -----------------------------
(***************************************************************************)
(* The references of a repository on disk: loose files under refs/ and the *)
(* packed-refs file (storage/filesystem/dotgit/dotgit.go, dotgit_setref.go *)
(* and dotgit_rewrite_packed_refs.go), as several processes work on them.  *)
(*                                                                         *)
(* Each system call that another process can see is a step.  A path names  *)
(* an inode; a lock belongs to an inode, not to a path, and is released    *)
(* when the descriptor is closed or its process dies.  A process runs one  *)
(* operation at a time.  How the repository is used, which processes call  *)
(* what on which kind of filesystem, is fixed by the variable use.         *)
(***************************************************************************)
EXTENDS Integers, FiniteSets

CONSTANTS
    Procs,      \* processes (or goroutines) using the repository
    Names,      \* reference names
    HEAD,       \* the name of HEAD, which is never packed
    Hashes,     \* values of hash references
    Syms,       \* values of symbolic references
    Inodes,     \* inodes of loose files
    PInodes,    \* inodes of packed-refs files
    None,       \* no value, no inode, no process, the zero hash
    Empty,      \* the content of a file of length 0
    Garbage,    \* content mixed from two writes
    Ok,         \* an operation succeeded
    Err,        \* an operation failed
    Uses        \* the ways the repository may be used

Values   == Hashes \cup Syms
Contents == Values \cup {Empty, Garbage}
Kinds    == {"set", "cas", "remove", "pack", "ref", "refs"}

\* ops: process -> the operations it calls, and calls: how many of them; names
\* and values: the references at work; rwfs: the filesystem has
\* billy.ReadAndWriteCapability; rename: it can rename; dies: the processes that
\* may die.
Use == [ops : [Procs -> SUBSET Kinds], calls : [Procs -> Nat], names : SUBSET Names,
        values : SUBSET Values, rwfs : BOOLEAN, rename : BOOLEAN, dies : SUBSET Procs]

ASSUME RefsAssumption ==
    /\ \A u \in Uses : u \in Use
    /\ {None, Empty, Garbage, Ok, Err} \cap Values = {} /\ Hashes \cap Syms = {}
    /\ None \notin {Empty, Garbage, Ok, Err} /\ Empty \notin {Garbage, Ok, Err}
    /\ Garbage \notin {Ok, Err} /\ Ok # Err
    /\ None \notin Inodes \cup PInodes \cup Procs /\ Inodes \cap PInodes = {}

VARIABLES
    use,     \* how the repository is used
    loose,   \* name -> inode of the loose file, or None
    data,    \* inode -> its content
    lock,    \* inode -> the process that holds its lock, or None
    packed,  \* inode of packed-refs, or None
    table,   \* packed-refs inode -> (name -> value or None)
    plock,   \* packed-refs inode -> the process that holds its lock, or None
    pc,      \* process -> where it is in its operation
    op,      \* process -> the operation
    fd,      \* process -> inode it has open (loose file or packed-refs)
    mtime,   \* process -> inode whose modification time it remembers
    todo,    \* process -> names it still has to visit
    got,     \* process -> name -> value, the references gathered so far
    ret,     \* process -> result of its last operation
    left,    \* process -> operations it may still start
    cur      \* history: name -> the value last stored, None after a removal

lvars == <<loose, data, lock>>
pvars == <<packed, table, plock>>
locals == <<op, fd, mtime, todo, got, ret, left>>
vars == <<use, lvars, pvars, pc, locals, cur>>

NoRefs == [n \in Names |-> None]

Operation ==
    [kind : {"set"}, name : Names, new : Values, old : {None}]
      \cup [kind : {"cas"}, name : Names, new : Values, old : Values]
      \cup [kind : {"remove", "ref"}, name : Names, new : {None}, old : {None}]
      \cup [kind : {"pack", "refs"}, name : {None}, new : {None}, old : {None}]

NoOperation == [kind |-> "none", name |-> None, new |-> None, old |-> None]

\* Reference.Hash: the zero hash for a symbolic reference.
HashOf(v) == IF v \in Syms THEN None ELSE v

\* A packed-refs line for a symbolic reference does not parse (processLine).
BadFormat(t) == \E n \in Names : t[n] \in Syms

\* packedRef: the scan stops at the name, or fails at a bad line before it;
\* the order of the lines is left open.
PackedRef(n) ==
    LET t == table[packed] IN
    IF packed = None THEN {None}
    ELSE IF ~BadFormat(t) THEN {t[n]}
    ELSE {Err} \cup ({t[n]} \cap Hashes)

\* File.Write at offset 0 of content that another writer left there: a
\* shorter content leaves the end of a longer one in place.
Overwrite(c, v) ==
    IF c = Empty \/ {c, v} \subseteq Hashes \/ c = v THEN {v} ELSE {v, Garbage}

\* What Ref answers for n when nobody is at work: the loose value, else the
\* packed one.
Stored(n) ==
    IF loose[n] # None /\ data[loose[n]] # Empty THEN data[loose[n]]
    ELSE IF packed = None THEN None
    ELSE IF BadFormat(table[packed]) THEN Err ELSE table[packed][n]

\* A new file gets an inode that no path and no descriptor refers to.
FreeInodes == {i \in Inodes : (\A n \in Names : i # loose[n]) /\ (\A p \in Procs : i # fd[p])}
FreeInode == CHOOSE i \in FreeInodes : TRUE
FreePInode == CHOOSE i \in PInodes :
    i # packed /\ \A p \in Procs : i # fd[p] /\ i # mtime[p]

\* OpenFile of the loose file of n by p, creating it; truncate tells whether
\* an existing file loses its content.
OpenLoose(p, n, truncate) ==
    /\ loose[n] = None => FreeInodes # {}
    /\ LET i == IF loose[n] = None THEN FreeInode ELSE loose[n]
       IN  /\ loose' = [loose EXCEPT ![n] = i]
           /\ data' = IF loose[n] = None \/ truncate
                      THEN [data EXCEPT ![i] = Empty] ELSE data
           /\ fd' = [fd EXCEPT ![p] = i]

Goto(p, l) == pc' = [pc EXCEPT ![p] = l]

\* The operation of p returns r.
Finish(p, r) ==
    /\ Goto(p, "idle")
    /\ ret'   = [ret EXCEPT ![p] = r]
    /\ fd'    = [fd EXCEPT ![p] = None]
    /\ mtime' = [mtime EXCEPT ![p] = None]
    /\ todo'  = [todo EXCEPT ![p] = {}]
    /\ got'   = [got EXCEPT ![p] = NoRefs]
    /\ UNCHANGED <<op, left>>

\* p goes to l, closing what it has open there, to return r.
Return(p, l, r) ==
    /\ Goto(p, l)
    /\ ret' = [ret EXCEPT ![p] = r]
    /\ UNCHANGED <<op, fd, mtime, todo, got, left>>

\* A repository at rest with the loose references l, in the inodes ino, and
\* the packed references t, of which the names in N are used.
InitWith(N, l, t, ino, pi) ==
    /\ \A n \in Names \ N : l[n] = None /\ t[n] = None
    /\ HEAD \in Names => t[HEAD] = None
    /\ \A m, n \in Names : ino[m] = ino[n] => m = n
    /\ loose = [n \in Names |-> IF l[n] = None THEN None ELSE ino[n]]
    /\ data = [i \in Inodes |-> IF \E n \in Names : ino[n] = i /\ l[n] # None
                                THEN l[CHOOSE n \in Names : ino[n] = i] ELSE Empty]
    /\ packed = IF t = NoRefs THEN None ELSE pi
    /\ table = [i \in PInodes |-> IF i = pi THEN t ELSE NoRefs]
    /\ cur = [n \in Names |-> IF l[n] # None THEN l[n] ELSE t[n]]
    /\ lock = [i \in Inodes |-> None]
    /\ plock = [i \in PInodes |-> None]
    /\ pc = [p \in Procs |-> "idle"]
    /\ op = [p \in Procs |-> NoOperation]
    /\ fd = [p \in Procs |-> None]
    /\ mtime = [p \in Procs |-> None]
    /\ todo = [p \in Procs |-> {}]
    /\ got = [p \in Procs |-> NoRefs]
    /\ ret = [p \in Procs |-> None]
    /\ left = use.calls

\* Any repository at rest: each reference loose, packed, both or absent.  One
\* choice of inodes stands for all.
AnyInodes == CHOOSE f \in [Names -> Inodes] : \A m, n \in Names : f[m] = f[n] => m = n
AnyPInode == CHOOSE i \in PInodes : TRUE

Init ==
    /\ use \in Uses
    /\ \E ino \in {f \in [Names -> Inodes] : f = AnyInodes}, pi \in {i \in PInodes : i = AnyPInode} :
       \E l \in [Names -> use.values \cup {None}], t \in [Names -> (use.values \cap Hashes) \cup {None}] :
          InitWith(use.names, l, t, ino, pi)

\* The first step of each kind of operation.
Entry(kind) ==
    CASE kind \in {"set", "cas"} -> IF use.rwfs THEN "open" ELSE "nstat"
      [] kind = "remove" -> "rmLoose"
      [] kind = "pack"   -> "pkOpen"
      [] kind = "ref"    -> "refOpen"
      [] kind = "refs"   -> "head"

\* A process calls SetReference, CheckAndSetReference, RemoveReference,
\* PackRefs, Reference or IterReferences.
Start(p) ==
    /\ pc[p] = "idle" /\ left[p] > 0
    /\ \E o \in Operation :
          /\ o.kind \in use.ops[p]
          /\ {o.name, o.new, o.old} \subseteq use.names \cup use.values \cup {None}
          /\ op' = [op EXCEPT ![p] = o]
          /\ Goto(p, Entry(o.kind))
    /\ left' = [left EXCEPT ![p] = @ - 1]
    /\ ret' = [ret EXCEPT ![p] = None]
    /\ UNCHANGED <<use, lvars, pvars, fd, mtime, todo, got, cur>>

-----------------------------------------------------------------------------
(* setRefRwfs.                                                             *)

\* OpenFile with O_CREATE, and with O_TRUNC when there is no old value: the
\* file is created or truncated before it is locked.
SetOpen(p) ==
    /\ pc[p] = "open"
    /\ OpenLoose(p, op[p].name, op[p].kind = "set")
    /\ Goto(p, "lock")
    /\ UNCHANGED <<use, lock, pvars, op, mtime, todo, got, ret, left, cur>>

\* Mutant of SetLock: the file is used without waiting for its lock.
SetLockTaken(p) ==
    /\ pc[p] = "lock"
    /\ lock' = [lock EXCEPT ![fd[p]] = p]
    /\ Goto(p, IF op[p].kind = "cas" THEN "check" ELSE "write")
    /\ UNCHANGED <<use, loose, data, pvars, locals, cur>>

SetLock(p) ==
    /\ pc[p] = "lock"
    /\ lock[fd[p]] = None
    /\ lock' = [lock EXCEPT ![fd[p]] = p]
    /\ Goto(p, IF op[p].kind = "cas" THEN "check" ELSE "write")
    /\ UNCHANGED <<use, loose, data, pvars, locals, cur>>

\* checkReferenceAndTruncate: the value found is compared by hash.
Compare(p, v) ==
    \/ /\ v \notin {None, Err}
       /\ HashOf(v) = HashOf(op[p].old)
       /\ Goto(p, "truncate")
       /\ UNCHANGED locals
    \/ /\ v \in {None, Err} \/ HashOf(v) # HashOf(op[p].old)
       /\ Return(p, "close", Err)

\* checkReferenceAndTruncate: read the file; an empty one is looked up in
\* packed-refs.
SetCheck(p) ==
    /\ pc[p] = "check"
    /\ \/ /\ data[fd[p]] = Empty
          /\ Goto(p, "checkPacked")
          /\ UNCHANGED locals
       \/ /\ data[fd[p]] # Empty
          /\ Compare(p, data[fd[p]])
    /\ UNCHANGED <<use, lvars, pvars, cur>>

\* Mutant of SetCheckPacked: a reference without loose value is not compared.
SetCheckPackedSkipped(p) ==
    /\ pc[p] = "checkPacked"
    /\ Goto(p, "write")
    /\ UNCHANGED <<use, lvars, pvars, locals, cur>>

SetCheckPacked(p) ==
    /\ pc[p] = "checkPacked"
    /\ \E v \in PackedRef(op[p].name) : Compare(p, v)
    /\ UNCHANGED <<use, lvars, pvars, cur>>

SetTruncate(p) ==
    /\ pc[p] = "truncate"
    /\ data' = [data EXCEPT ![fd[p]] = Empty]
    /\ Goto(p, "write")
    /\ UNCHANGED <<use, loose, lock, pvars, locals, cur>>

\* Mutant of SetWrite: the old value is written back.
SetWriteOld(p) ==
    /\ pc[p] = "write"
    /\ data' = [data EXCEPT ![fd[p]] = op[p].old]
    /\ cur' = [cur EXCEPT ![op[p].name] = op[p].new]
    /\ Return(p, "close", Ok)
    /\ UNCHANGED <<use, loose, lock, pvars>>

SetWrite(p) ==
    /\ pc[p] = "write"
    /\ \E c \in Overwrite(data[fd[p]], op[p].new) : data' = [data EXCEPT ![fd[p]] = c]
    /\ cur' = [cur EXCEPT ![op[p].name] = op[p].new]
    /\ Return(p, "close", Ok)
    /\ UNCHANGED <<use, loose, lock, pvars>>

\* Mutant of SetClose: the descriptor, and its lock, are leaked.
SetCloseLeaks(p) ==
    /\ pc[p] = "close"
    /\ Finish(p, ret[p])
    /\ UNCHANGED <<use, lvars, pvars, cur>>

\* The deferred Close releases the lock.
SetClose(p) ==
    /\ pc[p] = "close"
    /\ lock' = [lock EXCEPT ![fd[p]] = None]
    /\ Finish(p, ret[p])
    /\ UNCHANGED <<use, loose, data, pvars, cur>>

-----------------------------------------------------------------------------
(* setRefNorwfs, for filesystems that cannot open a file read-write.       *)

NStat(p) ==
    /\ pc[p] = "nstat"
    /\ LET n == op[p].name
           checked == loose[n] # None /\ op[p].kind = "cas"
           v == data[loose[n]]
       IN  \/ /\ checked => v # Empty /\ HashOf(v) = HashOf(op[p].old)
              /\ Goto(p, "ncreate")
              /\ UNCHANGED locals
           \/ /\ checked
              /\ v = Empty \/ HashOf(v) # HashOf(op[p].old)
              /\ Finish(p, Err)
    /\ UNCHANGED <<use, lvars, pvars, cur>>

NCreate(p) ==
    /\ pc[p] = "ncreate"
    /\ OpenLoose(p, op[p].name, TRUE)
    /\ Goto(p, "nwrite")
    /\ UNCHANGED <<use, lock, pvars, op, mtime, todo, got, ret, left, cur>>

NWrite(p) ==
    /\ pc[p] = "nwrite"
    /\ \E c \in Overwrite(data[fd[p]], op[p].new) : data' = [data EXCEPT ![fd[p]] = c]
    /\ cur' = [cur EXCEPT ![op[p].name] = op[p].new]
    /\ Finish(p, Ok)
    /\ UNCHANGED <<use, loose, lock, pvars>>

-----------------------------------------------------------------------------
(* Ref and Refs.                                                           *)

\* readReferenceFile: stat and open.
RefOpen(p) ==
    /\ pc[p] = "refOpen"
    /\ fd' = [fd EXCEPT ![p] = loose[op[p].name]]
    /\ Goto(p, IF loose[op[p].name] = None THEN "refPacked" ELSE "refRead")
    /\ UNCHANGED <<use, lvars, pvars, op, mtime, todo, got, ret, left, cur>>

\* readReferenceFrom; any error falls back on packed-refs.
RefRead(p) ==
    /\ pc[p] = "refRead"
    /\ \/ /\ data[fd[p]] = Empty
          /\ Goto(p, "refPacked")
          /\ UNCHANGED locals
       \/ /\ data[fd[p]] # Empty
          /\ Finish(p, data[fd[p]])
    /\ UNCHANGED <<use, lvars, pvars, cur>>

RefPacked(p) ==
    /\ pc[p] = "refPacked"
    /\ \E v \in PackedRef(op[p].name) : Finish(p, v)
    /\ UNCHANGED <<use, lvars, pvars, cur>>

\* addRefFromHEAD.
RefsHead(p) ==
    /\ pc[p] = "head"
    /\ \/ /\ HEAD \in Names => loose[HEAD] = None
          /\ Goto(p, "walk")
          /\ UNCHANGED locals
       \/ /\ HEAD \in Names /\ loose[HEAD] # None /\ data[loose[HEAD]] # Empty
          /\ got' = [got EXCEPT ![p][HEAD] = data[loose[HEAD]]]
          /\ Goto(p, "walk")
          /\ UNCHANGED <<op, fd, mtime, todo, ret, left>>
       \/ /\ HEAD \in Names /\ loose[HEAD] # None /\ data[loose[HEAD]] = Empty
          /\ Finish(p, Err)
    /\ UNCHANGED <<use, lvars, pvars, cur>>

\* walkReferencesTree: list the directory ...
Walk(p) ==
    /\ pc[p] = "walk"
    /\ todo' = [todo EXCEPT ![p] = {n \in Names \ {HEAD} : loose[n] # None}]
    /\ Goto(p, "visit")
    /\ UNCHANGED <<use, lvars, pvars, op, fd, mtime, got, ret, left, cur>>

\* Mutant of Visit: a file that is gone fails the walk.
VisitMissingFails(p, n) ==
    /\ pc[p] = "visit" /\ n \in todo[p]
    /\ \/ /\ loose[n] # None
          /\ todo' = [todo EXCEPT ![p] = @ \ {n}]
          /\ got' = [got EXCEPT ![p][n] = data[loose[n]]]
          /\ UNCHANGED <<pc, op, fd, mtime, ret, left>>
       \/ /\ loose[n] = None
          /\ Return(p, IF op[p].kind = "refs" THEN "refsClose" ELSE "pkClose", Err)
    /\ UNCHANGED <<use, lvars, pvars, cur>>

\* ... and read each file of the list: one that is gone is skipped, an empty
\* one fails the whole walk.
Visit(p, n) ==
    /\ pc[p] = "visit" /\ n \in todo[p]
    /\ \/ /\ loose[n] = None
          /\ todo' = [todo EXCEPT ![p] = @ \ {n}]
          /\ UNCHANGED <<pc, op, fd, mtime, got, ret, left>>
       \/ /\ loose[n] # None /\ data[loose[n]] # Empty
          /\ todo' = [todo EXCEPT ![p] = @ \ {n}]
          /\ got' = [got EXCEPT ![p][n] = data[loose[n]]]
          /\ UNCHANGED <<pc, op, fd, mtime, ret, left>>
       \/ /\ loose[n] # None /\ data[loose[n]] = Empty
          /\ Return(p, IF op[p].kind = "refs" THEN "refsClose" ELSE "pkClose", Err)
    /\ UNCHANGED <<use, lvars, pvars, cur>>

\* addRefsFromPackedRefs: the packed references not seen in a loose file.
Merge(g, t) == [n \in Names |-> IF g[n] # None THEN g[n] ELSE t[n]]

RefsPacked(p) ==
    /\ pc[p] = "visit" /\ todo[p] = {} /\ op[p].kind = "refs"
    /\ Return(p, "refsClose",
              IF packed = None THEN got[p]
              ELSE IF BadFormat(table[packed]) THEN Err
              ELSE Merge(got[p], table[packed]))
    /\ UNCHANGED <<use, lvars, pvars, cur>>

RefsClose(p) ==
    /\ pc[p] = "refsClose"
    /\ Finish(p, ret[p])
    /\ UNCHANGED <<use, lvars, pvars, cur>>

-----------------------------------------------------------------------------
(* RemoveRef, PackRefs, and openAndLockPackedRefs that they share.         *)

RmLoose(p) ==
    /\ pc[p] = "rmLoose"
    /\ loose' = [loose EXCEPT ![op[p].name] = None]
    /\ Goto(p, "pkOpen")
    /\ UNCHANGED <<use, data, lock, pvars, locals, cur>>

\* OpenFile; RemoveRef has nothing to do when there is no packed-refs.
PkOpen(p) ==
    /\ pc[p] = "pkOpen"
    /\ \/ /\ packed # None
          /\ fd' = [fd EXCEPT ![p] = packed]
          /\ Goto(p, "pkStat")
          /\ UNCHANGED <<packed, table, op, mtime, todo, got, ret, left, cur>>
       \/ /\ packed = None /\ op[p].kind = "pack"
          /\ packed' = FreePInode
          /\ table' = [table EXCEPT ![FreePInode] = NoRefs]
          /\ fd' = [fd EXCEPT ![p] = FreePInode]
          /\ Goto(p, "pkStat")
          /\ UNCHANGED <<op, mtime, todo, got, ret, left, cur>>
       \/ /\ packed = None /\ op[p].kind = "remove"
          /\ cur' = [cur EXCEPT ![op[p].name] = None]
          /\ Finish(p, Ok)
          /\ UNCHANGED <<packed, table>>
    /\ UNCHANGED <<use, lvars, plock>>

\* The first Stat of the path: its mtime stands for the inode it names.
PkStat(p) ==
    /\ pc[p] = "pkStat"
    /\ mtime' = [mtime EXCEPT ![p] = packed]
    /\ Goto(p, "pkLock")
    /\ UNCHANGED <<use, lvars, pvars, op, fd, todo, got, ret, left, cur>>

PkLock(p) ==
    /\ pc[p] = "pkLock"
    /\ plock[fd[p]] = None
    /\ plock' = [plock EXCEPT ![fd[p]] = p]
    /\ Goto(p, "pkStat2")
    /\ UNCHANGED <<use, lvars, packed, table, locals, cur>>

\* The second Stat: on with it, or close and try again until the timeout.
PkStat2(p) ==
    /\ pc[p] = "pkStat2"
    /\ \/ /\ packed = mtime[p]
          /\ Goto(p, IF op[p].kind = "pack" THEN "walk" ELSE "rewrite")
          /\ UNCHANGED <<plock, locals>>
       \/ /\ packed # mtime[p]
          /\ plock' = [plock EXCEPT ![fd[p]] = None]
          /\ \/ Goto(p, "pkOpen") /\ UNCHANGED locals
             \/ Finish(p, Err)
    /\ UNCHANGED <<use, lvars, packed, table, cur>>

\* Mutant of RmRewrite: every line is copied, the removed reference's too.
RmRewriteKeepsRef(p) ==
    /\ pc[p] = "rewrite"
    /\ got' = [got EXCEPT ![p] = table[fd[p]]]
    /\ Goto(p, "rename")
    /\ UNCHANGED <<use, lvars, pvars, op, fd, mtime, todo, ret, left, cur>>

\* rewritePackedRefsWithoutRef: copy the lines of the open file but one.
RmRewrite(p) ==
    /\ pc[p] = "rewrite"
    /\ LET t == table[fd[p]]
           n == op[p].name
       IN  \/ /\ BadFormat(t)
              /\ Return(p, "pkClose", Err)
           \/ /\ ~BadFormat(t) /\ t[n] = None
              /\ Return(p, "pkClose", Ok)
           \/ /\ ~BadFormat(t) /\ t[n] # None
              /\ got' = [got EXCEPT ![p] = [t EXCEPT ![n] = None]]
              /\ Goto(p, "rename")
              /\ UNCHANGED <<op, fd, mtime, todo, ret, left>>
    /\ UNCHANGED <<use, lvars, pvars, cur>>

\* Mutant of PkMerge: the references packed before are left out.
PkMergeLooseOnly(p) ==
    /\ pc[p] = "visit" /\ todo[p] = {} /\ op[p].kind = "pack"
    /\ todo' = [todo EXCEPT ![p] = {n \in Names : got[p][n] # None}]
    /\ Goto(p, "rename")
    /\ UNCHANGED <<use, lvars, pvars, op, fd, mtime, got, ret, left, cur>>

\* PackRefs: the loose references, then the packed ones of the open file.
PkMerge(p) ==
    /\ pc[p] = "visit" /\ todo[p] = {} /\ op[p].kind = "pack"
    /\ \/ /\ got[p] = NoRefs
          /\ Return(p, "pkClose", Ok)
       \/ /\ got[p] # NoRefs /\ BadFormat(table[fd[p]])
          /\ Return(p, "pkClose", Err)
       \/ /\ got[p] # NoRefs /\ ~BadFormat(table[fd[p]])
          /\ todo' = [todo EXCEPT ![p] = {n \in Names : got[p][n] # None}]
          /\ got' = [got EXCEPT ![p] = Merge(@, table[fd[p]])]
          /\ Goto(p, "rename")
          /\ UNCHANGED <<op, fd, mtime, ret, left>>
    /\ UNCHANGED <<use, lvars, pvars, cur>>

\* rewritePackedRefsWhileLocked: rename the temporary file over packed-refs,
\* or, where rename is not supported, truncate packed-refs ...
PkRename(p) ==
    /\ pc[p] = "rename"
    /\ \/ /\ use.rename
          /\ packed' = FreePInode
          /\ table' = [table EXCEPT ![FreePInode] = got[p]]
          /\ Goto(p, "delete")
       \/ /\ ~use.rename
          /\ table' = [table EXCEPT ![packed] = NoRefs]
          /\ Goto(p, "copy")
          /\ UNCHANGED packed
    /\ UNCHANGED <<use, lvars, plock, locals, cur>>

\* ... and copy the temporary file into it (copyNewFile).
PkCopy(p) ==
    /\ pc[p] = "copy"
    /\ table' = [table EXCEPT ![packed] = got[p]]
    /\ Goto(p, "delete")
    /\ UNCHANGED <<use, lvars, packed, plock, locals, cur>>

\* PackRefs removes the loose files it has packed; RemoveRef has none.
PkDelete(p, n) ==
    /\ pc[p] = "delete" /\ n \in todo[p]
    /\ loose' = [loose EXCEPT ![n] = None]
    /\ todo' = [todo EXCEPT ![p] = @ \ {n}]
    /\ UNCHANGED <<use, data, lock, pvars, pc, op, fd, mtime, got, ret, left, cur>>

PkDeleted(p) ==
    /\ pc[p] = "delete" /\ todo[p] = {}
    /\ Return(p, "pkClose", Ok)
    /\ UNCHANGED <<use, lvars, pvars, cur>>

PkClose(p) ==
    /\ pc[p] = "pkClose"
    /\ plock' = [plock EXCEPT ![fd[p]] = None]
    /\ cur' = IF op[p].kind = "remove" /\ ret[p] = Ok
              THEN [cur EXCEPT ![op[p].name] = None] ELSE cur
    /\ Finish(p, ret[p])
    /\ UNCHANGED <<use, lvars, packed, table>>

-----------------------------------------------------------------------------
\* The process dies, the kernel closes its descriptors, and another one takes
\* its place.
Crash(p) ==
    /\ p \in use.dies /\ pc[p] # "idle"
    /\ Goto(p, "idle")
    /\ lock' = [i \in Inodes |-> IF lock[i] = p THEN None ELSE lock[i]]
    /\ plock' = [i \in PInodes |-> IF plock[i] = p THEN None ELSE plock[i]]
    /\ op' = [op EXCEPT ![p] = NoOperation]
    /\ fd' = [fd EXCEPT ![p] = None]
    /\ mtime' = [mtime EXCEPT ![p] = None]
    /\ todo' = [todo EXCEPT ![p] = {}]
    /\ got' = [got EXCEPT ![p] = NoRefs]
    /\ UNCHANGED <<use, loose, data, packed, table, ret, left, cur>>

SetRef(p) ==
    \/ SetOpen(p) \/ SetLock(p) \/ SetCheck(p) \/ SetCheckPacked(p)
    \/ SetTruncate(p) \/ SetWrite(p) \/ SetClose(p)
    \/ NStat(p) \/ NCreate(p) \/ NWrite(p)

ReadRefs(p) ==
    \/ RefOpen(p) \/ RefRead(p) \/ RefPacked(p)
    \/ RefsHead(p) \/ Walk(p) \/ (\E n \in Names : Visit(p, n))
    \/ RefsPacked(p) \/ RefsClose(p)

RewritePackedRefs(p) ==
    \/ RmLoose(p) \/ PkOpen(p) \/ PkStat(p) \/ PkLock(p) \/ PkStat2(p)
    \/ RmRewrite(p) \/ PkMerge(p) \/ PkRename(p) \/ PkCopy(p)
    \/ (\E n \in Names : PkDelete(p, n)) \/ PkDeleted(p) \/ PkClose(p)

Step(p) == SetRef(p) \/ ReadRefs(p) \/ RewritePackedRefs(p)

\* Every process has run its operations.
Terminated ==
    /\ \A p \in Procs : pc[p] = "idle" /\ left[p] = 0
    /\ UNCHANGED vars

Next == (\E p \in Procs : Start(p) \/ Step(p) \/ Crash(p)) \/ Terminated

Spec == Init /\ [][Next]_vars
FairSpec == Spec /\ \A p \in Procs : WF_vars(Step(p))

-----------------------------------------------------------------------------
Idle == \A p \in Procs : pc[p] = "idle"

PCs == {"idle", "open", "lock", "check", "checkPacked", "truncate", "write",
        "close", "nstat", "ncreate", "nwrite", "refOpen", "refRead", "refPacked",
        "head", "walk", "visit", "refsClose", "rmLoose", "pkOpen", "pkStat", "pkLock",
        "pkStat2", "rewrite", "rename", "copy", "delete", "pkClose"}

\* Every variable has its type; no process has run more operations than its use
\* allows.
TypeOK ==
    /\ use \in Uses
    /\ loose \in [Names -> Inodes \cup {None}]
    /\ data \in [Inodes -> Contents]
    /\ lock \in [Inodes -> Procs \cup {None}]
    /\ packed \in PInodes \cup {None}
    /\ table \in [PInodes -> [Names -> Contents \cup {None}]]
    /\ plock \in [PInodes -> Procs \cup {None}]
    /\ pc \in [Procs -> PCs]
    /\ fd \in [Procs -> Inodes \cup PInodes \cup {None}]
    /\ mtime \in [Procs -> PInodes \cup {None}]
    /\ \A p \in Procs : left[p] \in 0 .. use.calls[p]
    /\ cur \in [Names -> Values \cup {None}]

\* The processes only run CheckAndSetReference, Reference and IterReferences,
\* on a filesystem with billy.ReadAndWriteCapability, and none dies.
CASOnly ==
    /\ \A p \in Procs : use.ops[p] \subseteq {"cas", "ref", "refs"}
    /\ use.rwfs = TRUE /\ use.dies = {}

\* Hash references are only packed and read, on a filesystem that can rename.
PackOnly ==
    /\ \A p \in Procs : use.ops[p] \subseteq {"pack", "ref", "refs"}
    /\ use.rename = TRUE /\ use.values \subseteq Hashes

\* One process works on hash references.
Alone ==
    /\ \A p, q \in Procs : use.calls[p] > 0 /\ use.calls[q] > 0 => p = q
    /\ use.dies = {} /\ use.values \subseteq Hashes

\* When a CheckAndSetReference overwrites a reference, the value last stored
\* is the one its caller expected: of two that expect the same value, one
\* fails (dotgit.go:677-700 under the lock of dotgit_setref.go:39).
CASMatches ==
    CASOnly => \A p \in Procs : pc[p] = "write" /\ op[p].kind = "cas"
                                    => HashOf(cur[op[p].name]) = HashOf(op[p].old)

(***************************************************************************)
(* The inductive invariant behind CASMatches, when processes only run      *)
(* CheckAndSetReference and read.  The lock of a file is held from the     *)
(* check to the close; no file is ever unlinked, so the lock of the file   *)
(* is the lock of the name; and the value last stored is in the file, or   *)
(* in packed-refs when the file is absent or empty, except between the     *)
(* truncation and the write of the process that holds the lock.            *)
(***************************************************************************)
Holding == {"check", "checkPacked", "truncate", "write", "close"}
Setting == {"open", "lock"} \cup Holding
Reading == {"refOpen", "refRead", "refPacked"}
Listing == {"head", "walk", "visit", "refsClose"}

PackedValue(n) == IF packed = None THEN None ELSE table[packed][n]

ProcessInv(p) ==
    /\ pc[p] \in {"idle"} \cup Setting \cup Reading \cup Listing
    /\ pc[p] \in Setting => /\ op[p].kind = "cas" /\ op[p].name \in Names
                            /\ op[p].new \in Values
    /\ pc[p] \in Listing => op[p].kind = "refs"
    /\ pc[p] \in {"lock"} \cup Holding => fd[p] = loose[op[p].name] /\ fd[p] \in Inodes
    /\ pc[p] \in Holding => lock[fd[p]] = p
    /\ pc[p] \in {"checkPacked", "write"} => data[fd[p]] = Empty
    /\ pc[p] \in {"truncate", "write"} => HashOf(cur[op[p].name]) = HashOf(op[p].old)

NameInv(n) ==
    \/ loose[n] # None /\ data[loose[n]] = cur[n]
    \/ (loose[n] = None \/ data[loose[n]] = Empty) /\ PackedValue(n) = cur[n]
    \/ loose[n] # None /\ \E p \in Procs : pc[p] = "write" /\ op[p].name = n

CASInv ==
    /\ loose \in [Names -> Inodes \cup {None}]
    /\ data \in [Inodes -> Contents]
    /\ lock \in [Inodes -> Procs \cup {None}]
    /\ pc \in [Procs -> PCs]
    /\ DOMAIN op = Procs /\ DOMAIN fd = Procs
    /\ cur \in [Names -> Values \cup {None}]
    /\ \A m, n \in Names : loose[m] = loose[n] /\ loose[m] # None => m = n
    /\ \A p \in Procs : ProcessInv(p)
    /\ \A n \in Names : NameInv(n)

\* CASInv holds at every step of such a use (the proof of CASMatches).
CASInductive == CASOnly => CASInv

\* When every operation of one process, or every CheckAndSetReference of
\* several, has returned, each reference reads as the value last stored: no
\* update, removal or packing was lost, with and without the capabilities of
\* the filesystem (dotgit.go:703-1133).
Settled ==
    (Alone \/ CASOnly) /\ Idle => \A n \in Names : Stored(n) = cur[n]

\* Whoever holds the lock of packed-refs, and has not yet replaced the file,
\* holds the lock of the file that is packed-refs now (dotgit.go:853).
LockedIsCurrent ==
    \A p \in Procs : pc[p] \in {"rewrite", "walk", "visit", "rename"} /\ fd[p] \in PInodes
                        => fd[p] = packed

\* A packer may die beside another one, which may then go on with the loose files
\* that are left and a packed-refs that was replaced.
DyingPackers ==
    \E p, q \in Procs : p # q /\ p \in use.dies /\ "pack" \in use.ops[p] \cap use.ops[q]

\* While references are only packed and read, no step changes what any of them
\* reads as, not even the death of a packer at that step: packed-refs is replaced
\* before the loose files go (dotgit.go:1116-1130).  Only a packer that holds the
\* lock of a replaced packed-refs, when another one has died, may do so.
PackKeepsRefs ==
    [][PackOnly /\ (DyingPackers => LockedIsCurrent) =>
          \A n \in Names : Stored(n)' = Stored(n)]_vars

\* While references are only packed and read, Ref and Refs return every one of
\* them with its value: they look at packed-refs last (dotgit.go:719-745).  A
\* packer that dies beside another one is left out (see PackKeepsRefs).
ReadersSeeRefs ==
    PackOnly /\ ~DyingPackers =>
        \A p \in Procs : pc[p] = "idle" =>
            /\ op[p].kind = "ref" => ret[p] = cur[op[p].name]
            /\ op[p].kind = "refs" => ret[p] = cur

\* Every operation returns, whoever holds the locks it needs.
OperationsReturn ==
    \A p \in Procs : pc[p] # "idle" ~> pc[p] = "idle"
=============================================================================
