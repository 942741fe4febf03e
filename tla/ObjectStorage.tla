---------------------------- MODULE ObjectStorage ---------------------------
(***************************************************************************)
(* The objects of a repository on disk: loose files and packs              *)
(* (storage/filesystem/object.go, dotgit/dotgit.go and dotgit/writers.go), *)
(* with Repository.RepackObjects and Prune (repository.go, prune.go).      *)
(*                                                                         *)
(* The goroutines Procs share one ObjectStorage of one process.  A step is *)
(* a critical section, a call of the file system, or an access to a field  *)
(* that is not under a lock.  A pack is named by its checksum, hence by    *)
(* what it contains: a pack is a set of objects.  Object contents, sizes   *)
(* and the caches of decoded objects are left out.                         *)
(***************************************************************************)
EXTENDS Integers, FiniteSets

CONSTANTS
    Procs,      \* goroutines
    Objects,    \* objects
    Reach,      \* the objects the references reach
    Nil,        \* a map or list that was not built yet
    Uses        \* the ways in which the storage may be used, see Use

Packs == (SUBSET Objects) \ {{}}
Lookups == {"get", "has", "size"}
Kinds == Lookups \cup {"add", "pack", "repack", "prune", "reindex"}

\* The operations each goroutine runs and how many, Options.ExclusiveAccess,
\* and whether a pack that is already there may be written again, saving a
\* pack may fail, and the process may die.
Use ==
    [ops : [Procs -> SUBSET Kinds], calls : [Procs -> Nat], exclusive : BOOLEAN,
     rewrites : BOOLEAN, fails : BOOLEAN, dies : BOOLEAN]

ASSUME StorageAssumption ==
    /\ Reach \subseteq Objects /\ Reach # {} /\ Nil \notin Objects \cup Procs
    /\ \A u \in Uses : u \in Use

VARIABLES
    use,       \* the use of the storage, which never changes
    loose,     \* disk: the objects that have a file
    packs,     \* disk: the packs with a .pack file
    idx,       \* disk: pack -> its .idx file, "none", "empty" or "full"
    index,     \* ObjectStorage.index: Nil or the packs whose index is loaded
    mu,        \* ObjectStorage.muI: Nil or the goroutine that holds it
    objList,   \* DotGit.objectList and objectMap: Nil or a set of objects
    packList,  \* DotGit.packList and packMap: Nil or a set of packs
    pc,        \* goroutine -> where it is in its operation
    op,        \* goroutine -> the operation
    next,      \* goroutine -> where a lookup goes on when it finds nothing
    todo,      \* goroutine -> packs or objects it still has to handle
    old,       \* goroutine -> the packs RepackObjects found
    ret,       \* goroutine -> result of its last operation
    left,      \* goroutine -> operations it may still start
    acked,     \* history: the objects whose writing was reported as done
    must       \* history: goroutine -> whether its lookup has to succeed

disk == <<loose, packs, idx>>
lists == <<objList, packList>>
locals == <<op, next, todo, old, ret, left, must>>
vars == <<use, disk, index, mu, lists, pc, locals, acked>>

Operation ==
    [kind : Lookups \cup {"add"}, obj : Objects, pack : {Nil}]
      \cup [kind : {"pack"}, obj : {Nil}, pack : Packs]
      \cup [kind : {"repack"}, obj : {Nil}, pack : {Reach}]
      \cup [kind : {"prune", "reindex"}, obj : {Nil}, pack : {Nil}]

NoOperation == [kind |-> "none", obj |-> Nil, pack |-> Nil]

\* The objects that are on disk, in a file or in a pack that has its index.
OnDisk == loose \cup UNION {k \in packs : idx[k] = "full"}

Goto(p, l) == pc' = [pc EXCEPT ![p] = l]

Finish(p, r) ==
    /\ Goto(p, "idle")
    /\ ret' = [ret EXCEPT ![p] = r]
    /\ todo' = [todo EXCEPT ![p] = {}]
    /\ old' = [old EXCEPT ![p] = {}]
    /\ next' = [next EXCEPT ![p] = "none"]
    /\ UNCHANGED <<op, left, must>>

\* A repository at rest that has every object the references reach.
Init ==
    /\ use \in Uses
    /\ loose \in SUBSET Objects
    /\ packs \in SUBSET {Reach, Objects}
    /\ Reach \subseteq loose \cup UNION packs
    /\ idx = [k \in Packs |-> IF k \in packs THEN "full" ELSE "none"]
    /\ index = Nil /\ mu = Nil /\ objList = Nil /\ packList = Nil
    /\ pc = [p \in Procs |-> "idle"]
    /\ op = [p \in Procs |-> NoOperation]
    /\ next = [p \in Procs |-> "none"]
    /\ todo = [p \in Procs |-> {}]
    /\ old = [p \in Procs |-> {}]
    /\ ret = [p \in Procs |-> "none"]
    /\ left = use.calls
    /\ acked = loose \cup UNION packs
    /\ must = [p \in Procs |-> FALSE]

Entry(kind) ==
    CASE kind = "get" -> "get"
      [] kind \in {"has", "size"} -> "unpacked"
      [] kind = "add" -> "newObject"
      [] kind = "pack" -> "rlock"
      [] kind = "repack" -> "listOld"
      [] kind = "prune" -> "listLoose"
      [] kind = "reindex" -> "reindex"

Start(p) ==
    /\ pc[p] = "idle" /\ left[p] > 0
    /\ \E o \in Operation :
          /\ o.kind \in use.ops[p]
          /\ o.kind = "pack" => use.rewrites \/ (idx[o.pack] = "none"
                                  /\ \A q \in Procs : op[q].pack # o.pack)
          /\ op' = [op EXCEPT ![p] = o]
          /\ must' = [must EXCEPT ![p] = o.kind \in Lookups /\ o.obj \in acked]
          /\ next' = [next EXCEPT ![p] = "rlock"]
          /\ Goto(p, Entry(o.kind))
    /\ left' = [left EXCEPT ![p] = @ - 1]
    /\ ret' = [ret EXCEPT ![p] = "none"]
    /\ UNCHANGED <<use, disk, index, mu, lists, todo, old, acked>>

-----------------------------------------------------------------------------
(* The cached listings of DotGit, used with ExclusiveAccess.               *)

\* genObjectList and genPackList: list the directory once.
ObjectListing == IF objList = Nil THEN loose ELSE objList
PackListing == IF packList = Nil THEN packs ELSE packList

\* hasObject and hasPack.
HasObject(o) == use.exclusive => o \in ObjectListing
HasPack(k) == use.exclusive => k \in PackListing
GenObjectList == objList' = IF use.exclusive THEN ObjectListing ELSE objList
GenPackList == packList' = IF use.exclusive THEN PackListing ELSE packList

-----------------------------------------------------------------------------
(* EncodedObject, HasEncodedObject, EncodedObjectSize and DeltaObject.     *)

\* EncodedObject: packs first when the index is there, loose files first
\* when it is not; s.index is read without its lock.
Get(p) ==
    /\ pc[p] = "get"
    /\ Goto(p, IF index = Nil THEN "unpacked" ELSE "rlock")
    /\ next' = [next EXCEPT ![p] = IF index = Nil THEN "rlock" ELSE "unpacked"]
    /\ UNCHANGED <<use, disk, index, mu, lists, op, todo, old, ret, left, must, acked>>

\* The object is not here: look in the other place, or give up.
NotHere(p) ==
    \/ /\ next[p] # "none"
       /\ Goto(p, next[p])
       /\ next' = [next EXCEPT ![p] = "none"]
       /\ UNCHANGED <<op, todo, old, ret, left, must>>
    \/ /\ next[p] = "none"
       /\ Finish(p, "notFound")

\* getFromUnpacked, encodedObjectSizeFromUnpacked: DotGit.Object.
\* HasEncodedObject only looks further when the file system reports that the
\* file does not exist, not when the cached listing does.
Unpacked(p) ==
    /\ pc[p] = "unpacked"
    /\ LET o == op[p].obj IN
       \/ HasObject(o) /\ o \in loose /\ Finish(p, "found")
       \/ ~HasObject(o) /\ op[p].kind = "has" /\ Finish(p, "notFound")
       \/ ~HasObject(o) /\ op[p].kind # "has" /\ NotHere(p)
       \/ HasObject(o) /\ o \notin loose /\ NotHere(p)
    /\ GenObjectList
    /\ UNCHANGED <<use, disk, index, mu, packList, acked>>

\* findObjectInPackfile: any loaded index that has the object.
Find(p) ==
    /\ pc[p] = "find" /\ mu = Nil
    /\ LET cands == IF index = Nil THEN {} ELSE {k \in index : op[p].obj \in k} IN
       \/ cands = {} /\ NotHere(p)
       \/ cands # {} /\ op[p].kind = "has" /\ Finish(p, "found")
       \/ /\ cands # {} /\ op[p].kind # "has"
          /\ \E k \in cands : todo' = [todo EXCEPT ![p] = {k}]
          /\ Goto(p, "reread")
          /\ UNCHANGED <<op, next, old, ret, left, must>>
    /\ UNCHANGED <<use, disk, index, mu, lists, acked>>

\* The index of the pack is read from the map once more: by EncodedObject under
\* the lock, and a pack without index cannot be read; by EncodedObjectSize without
\* it, and the call of FindHash on no index panics.
Reread(p) ==
    /\ pc[p] = "reread"
    /\ op[p].kind = "size" \/ mu = Nil
    /\ LET loaded == index # Nil /\ todo[p] \subseteq index IN
       \/ loaded /\ Goto(p, "open") /\ UNCHANGED <<locals, packList>>
       \/ ~loaded /\ op[p].kind = "size" /\ Goto(p, "panic") /\ UNCHANGED <<locals, packList>>
       \/ ~loaded /\ op[p].kind # "size" /\ Finish(p, "error") /\ GenPackList
    /\ UNCHANGED <<use, disk, index, mu, objList, acked>>

\* packfile: open the pack; a pack that is gone is an error that ends the
\* lookup.
Open(p) ==
    /\ pc[p] = "open"
    /\ \E k \in todo[p] :
          Finish(p, IF HasPack(k) /\ k \in packs THEN "found" ELSE "error")
    /\ GenPackList
    /\ UNCHANGED <<use, disk, index, mu, objList, acked>>

-----------------------------------------------------------------------------
(* requireIndex.                                                           *)

\* Where the callers of requireIndex go on.
Indexed(kind) == IF kind \in Lookups THEN "find" ELSE "newPack"

RLockIndex(p) ==
    /\ pc[p] = "rlock" /\ mu = Nil
    /\ Goto(p, IF index = Nil THEN "lock" ELSE Indexed(op[p].kind))
    /\ UNCHANGED <<use, disk, index, mu, lists, locals, acked>>

\* Mutant of LockIndex: the index is built without the lock.
LockIndexNot(p) ==
    /\ pc[p] = "lock" /\ mu = Nil
    /\ index' = {}
    /\ Goto(p, "listPacks")
    /\ UNCHANGED <<use, disk, mu, lists, locals, acked>>

\* The lock is taken, and the index made anew without looking again.
LockIndex(p) ==
    /\ pc[p] = "lock" /\ mu = Nil
    /\ mu' = p
    /\ index' = {}
    /\ Goto(p, "listPacks")
    /\ UNCHANGED <<use, disk, lists, locals, acked>>

ListPacks(p) ==
    /\ pc[p] = "listPacks"
    /\ todo' = [todo EXCEPT ![p] = IF use.exclusive THEN PackListing ELSE packs]
    /\ GenPackList
    /\ Goto(p, "load")
    /\ UNCHANGED <<use, disk, index, mu, objList, op, next, old, ret, left, must, acked>>

\* Mutant of LoadIdxFile: the error path keeps the lock.
LoadIdxFileKeepsLock(p, k) ==
    /\ pc[p] = "load" /\ k \in todo[p]
    /\ \/ /\ idx[k] = "full" /\ index # Nil
          /\ index' = index \cup {k}
          /\ todo' = [todo EXCEPT ![p] = @ \ {k}]
          /\ UNCHANGED <<pc, op, next, old, ret, left, must>>
       \/ /\ idx[k] # "full"
          /\ Finish(p, "error")
          /\ UNCHANGED index
    /\ UNCHANGED <<use, disk, mu, lists, acked>>

\* loadIdxFile: an index that is gone or does not decode ends the call, and
\* leaves the index with what was loaded so far.
LoadIdxFile(p, k) ==
    /\ pc[p] = "load" /\ k \in todo[p]
    /\ \/ /\ HasPack(k) /\ idx[k] = "full" /\ index # Nil
          /\ index' = index \cup {k}
          /\ todo' = [todo EXCEPT ![p] = @ \ {k}]
          /\ UNCHANGED <<mu, pc, op, next, old, ret, left, must>>
       \/ /\ HasPack(k) /\ idx[k] = "full" /\ index = Nil
          /\ Goto(p, "panic")
          /\ UNCHANGED <<index, mu, locals>>
       \/ /\ ~HasPack(k) \/ idx[k] # "full"
          /\ mu' = Nil
          /\ Finish(p, "error")
          /\ UNCHANGED index
    /\ GenPackList
    /\ UNCHANGED <<use, disk, objList, acked>>

UnlockIndex(p) ==
    /\ pc[p] = "load" /\ todo[p] = {}
    /\ mu' = Nil
    /\ Goto(p, Indexed(op[p].kind))
    /\ UNCHANGED <<use, disk, index, lists, locals, acked>>

\* Reindex: s.index is cleared without its lock.
Reindex(p) ==
    /\ pc[p] = "reindex"
    /\ index' = Nil
    /\ Finish(p, "ok")
    /\ UNCHANGED <<use, disk, mu, lists, acked>>

-----------------------------------------------------------------------------
(* SetEncodedObject, RawObjectWriter, LazyWriter.                          *)

\* Mutant of NewObject: the cached listing is kept.
NewObjectKeepsList(p) ==
    /\ pc[p] = "newObject"
    /\ Goto(p, "closeObject")
    /\ UNCHANGED <<use, disk, index, mu, lists, locals, acked>>

\* NewObject forgets the cached listing and creates a temporary file ...
NewObject(p) ==
    /\ pc[p] = "newObject"
    /\ objList' = Nil
    /\ Goto(p, "closeObject")
    /\ UNCHANGED <<use, disk, index, mu, packList, locals, acked>>

\* ... that ObjectWriter.Close renames.
CloseObject(p) ==
    /\ pc[p] = "closeObject"
    /\ loose' = loose \cup {op[p].obj}
    /\ acked' = acked \cup {op[p].obj}
    /\ Finish(p, "ok")
    /\ UNCHANGED <<use, packs, idx, index, mu, lists>>

-----------------------------------------------------------------------------
(* PackfileWriter, and PackWriter.Close with the goroutine that parses.    *)

\* NewObjectPack forgets the cached listing and creates a temporary file,
\* which the caller then writes.
NewObjectPack(p) ==
    /\ pc[p] = "newPack"
    /\ packList' = Nil
    /\ Goto(p, IF op[p].kind = "repack" THEN "listLoose" ELSE "createIdx")
    /\ UNCHANGED <<use, disk, index, mu, objList, locals, acked>>

\* What the caller writes does not parse, or it fails to write it: nothing is
\* saved.
PackFails(p) ==
    /\ pc[p] = "newPack"
    /\ packList' = Nil
    /\ Finish(p, "error")
    /\ UNCHANGED <<use, disk, index, mu, objList, acked>>

\* Mutant of CreateIdx: the pack gets its name before its index is written.
CreateIdxAfterRename(p) ==
    /\ pc[p] = "createIdx"
    /\ packs' = packs \cup {op[p].pack}
    /\ idx' = [idx EXCEPT ![op[p].pack] = "empty"]
    /\ Goto(p, "writeIdx")
    /\ UNCHANGED <<use, loose, index, mu, lists, locals, acked>>

\* PackWriter.save: fs.Create truncates ...
CreateIdx(p) ==
    /\ pc[p] = "createIdx"
    /\ idx' = [idx EXCEPT ![op[p].pack] = "empty"]
    /\ Goto(p, "writeIdx")
    /\ UNCHANGED <<use, loose, packs, index, mu, lists, locals, acked>>

WriteIdx(p) ==
    /\ pc[p] = "writeIdx"
    /\ idx' = [idx EXCEPT ![op[p].pack] = "full"]
    /\ Goto(p, "rename")
    /\ UNCHANGED <<use, loose, packs, index, mu, lists, locals, acked>>

\* ... and the pack appears under its name last.
RenamePack(p) ==
    /\ pc[p] = "rename"
    /\ packs' = packs \cup {op[p].pack}
    /\ ret' = [ret EXCEPT ![p] = IF @ = "error" THEN "error" ELSE "ok"]
    /\ Goto(p, "notify")
    /\ UNCHANGED <<use, loose, idx, index, mu, lists, op, next, todo, old, left, must, acked>>

\* A step of save fails; the deferred Notify runs all the same.
SaveFails(p) ==
    /\ use.fails /\ pc[p] \in {"createIdx", "writeIdx", "rename"}
    /\ ret' = [ret EXCEPT ![p] = "error"]
    /\ Goto(p, "notify")
    /\ UNCHANGED <<use, disk, index, mu, lists, op, next, todo, old, left, must, acked>>

\* Mutant of Notify: a pack that was not saved is registered under the zero hash.
NotifyZero(p) ==
    /\ pc[p] = "notify" /\ index # Nil
    /\ index' = index \cup {IF ret[p] = "error" THEN {} ELSE op[p].pack}
    /\ acked' = IF ret[p] = "ok" THEN acked \cup op[p].pack ELSE acked
    /\ Finish(p, ret[p])
    /\ UNCHANGED <<use, disk, mu, lists>>

\* Notify: s.index[h] = index, without the lock; a write to a nil map panics.
Notify(p) ==
    /\ pc[p] = "notify"
    /\ acked' = IF ret[p] = "ok" THEN acked \cup op[p].pack ELSE acked
    /\ \/ /\ index = Nil
          /\ Goto(p, "panic")
          /\ UNCHANGED <<index, locals>>
       \/ /\ index # Nil
          /\ index' = index \cup {op[p].pack}
          /\ \/ /\ op[p].kind = "repack" /\ ret[p] = "ok"
                /\ Goto(p, "deleteOld")
                /\ UNCHANGED locals
             \/ /\ ~(op[p].kind = "repack" /\ ret[p] = "ok")
                /\ Finish(p, ret[p])
    /\ UNCHANGED <<use, disk, mu, lists>>

-----------------------------------------------------------------------------
(* RepackObjects and Prune.                                                *)

\* The walk over the references fails on an object it cannot read.
WalkFails(p) ==
    /\ \/ pc[p] = "listOld"
       \/ pc[p] = "listLoose" /\ op[p].kind = "prune"
    /\ Finish(p, "error")
    /\ UNCHANGED <<use, disk, index, mu, lists, acked>>

\* Mutant of ListOld: a pack equal to the new one is deleted as well.
ListOldAll(p) ==
    /\ pc[p] = "listOld"
    /\ old' = [old EXCEPT ![p] = packs]
    /\ Goto(p, "rlock")
    /\ UNCHANGED <<use, disk, index, mu, lists, op, next, todo, ret, left, must, acked>>

\* ObjectPacks: the packs to delete at the end.
ListOld(p) ==
    /\ pc[p] = "listOld"
    /\ old' = [old EXCEPT ![p] = (IF use.exclusive THEN PackListing ELSE packs) \ {Reach}]
    /\ GenPackList
    /\ Goto(p, "rlock")
    /\ UNCHANGED <<use, disk, index, mu, objList, op, next, todo, ret, left, must, acked>>

\* Mutant of ListLoose: every loose object is deleted.
ListLooseAll(p) ==
    /\ pc[p] = "listLoose"
    /\ todo' = [todo EXCEPT ![p] = loose]
    /\ Goto(p, "deleteLoose")
    /\ UNCHANGED <<use, disk, index, mu, lists, op, next, old, ret, left, must, acked>>

\* ForEachObjectHash: createNewObjectPack deletes what it has packed, Prune
\* what no reference reaches and is older than its limit.
ListLoose(p) ==
    /\ pc[p] = "listLoose"
    /\ LET here == IF use.exclusive THEN ObjectListing ELSE loose
       IN  \/ op[p].kind = "repack" /\ todo' = [todo EXCEPT ![p] = here \cap Reach]
           \/ op[p].kind = "prune" /\ \E older \in SUBSET (here \ Reach) :
                                         todo' = [todo EXCEPT ![p] = older]
    /\ GenObjectList
    /\ Goto(p, "deleteLoose")
    /\ UNCHANGED <<use, disk, index, mu, packList, op, next, old, ret, left, must, acked>>

\* History: the objects in gone are deleted on purpose.
Delete(gone) ==
    /\ acked' = acked \ gone
    /\ must' = [q \in Procs |-> must[q] /\ op[q].obj \notin gone]

DeleteLooseObject(p, o) ==
    /\ pc[p] = "deleteLoose" /\ o \in todo[p]
    /\ objList' = Nil
    /\ loose' = loose \ {o}
    /\ Delete(IF op[p].kind = "prune" THEN {o} \ (Reach \cup UNION packs) ELSE {})
    /\ \/ /\ o \in loose
          /\ todo' = [todo EXCEPT ![p] = @ \ {o}]
          /\ UNCHANGED ret
       \/ /\ o \notin loose
          /\ todo' = [todo EXCEPT ![p] = {}]
          /\ ret' = [ret EXCEPT ![p] = "error"]
    /\ UNCHANGED <<use, packs, idx, index, mu, packList, pc, op, next, old, left>>

\* createNewObjectPack closes the new pack when the loose objects are gone.
LooseDeleted(p) ==
    /\ pc[p] = "deleteLoose" /\ todo[p] = {}
    /\ \/ /\ op[p].kind = "repack"
          /\ Goto(p, "createIdx")
          /\ UNCHANGED locals
       \/ /\ op[p].kind = "prune"
          /\ Finish(p, IF ret[p] = "error" THEN "error" ELSE "ok")
    /\ UNCHANGED <<use, disk, index, mu, lists, acked>>

\* DeleteOldObjectPackAndIndex removes the pack, unless it is too new ...
DeleteOldPack(p, k) ==
    /\ pc[p] = "deleteOld" /\ k \in old[p]
    /\ packList' = Nil
    /\ \/ /\ k \in packs
          /\ packs' = packs \ {k}
          /\ Delete(k \ (Reach \cup loose \cup UNION packs'))
          /\ old' = [old EXCEPT ![p] = @ \ {k}]
          /\ todo' = [todo EXCEPT ![p] = {k}]
          /\ Goto(p, "deleteIdx")
          /\ UNCHANGED <<op, next, ret, left>>
       \/ /\ k \in packs
          /\ old' = [old EXCEPT ![p] = @ \ {k}]
          /\ UNCHANGED <<packs, acked, pc, op, next, todo, ret, left, must>>
       \/ /\ k \notin packs
          /\ Finish(p, "error")
          /\ UNCHANGED <<packs, acked>>
    /\ UNCHANGED <<use, loose, idx, index, mu, objList>>

\* ... and then its index.
DeleteOldIdx(p) ==
    /\ pc[p] = "deleteIdx"
    /\ idx' = [k \in Packs |-> IF k \in todo[p] THEN "none" ELSE idx[k]]
    /\ \/ /\ \A k \in todo[p] : idx[k] # "none"
          /\ todo' = [todo EXCEPT ![p] = {}]
          /\ Goto(p, "deleteOld")
          /\ UNCHANGED <<op, next, old, ret, left, must>>
       \/ /\ \E k \in todo[p] : idx[k] = "none"
          /\ Finish(p, "error")
    /\ UNCHANGED <<use, loose, packs, index, mu, lists, acked>>

Repacked(p) ==
    /\ pc[p] = "deleteOld" /\ old[p] = {}
    /\ Finish(p, "ok")
    /\ UNCHANGED <<use, disk, index, mu, lists, acked>>

-----------------------------------------------------------------------------
\* The process dies and another opens the repository.
Crash ==
    /\ use.dies /\ \E p \in Procs : pc[p] # "idle"
    /\ index' = Nil /\ mu' = Nil /\ objList' = Nil /\ packList' = Nil
    /\ pc' = [p \in Procs |-> "idle"]
    /\ op' = [p \in Procs |-> NoOperation]
    /\ next' = [p \in Procs |-> "none"]
    /\ todo' = [p \in Procs |-> {}]
    /\ old' = [p \in Procs |-> {}]
    /\ ret' = [p \in Procs |-> "none"]
    /\ must' = [p \in Procs |-> FALSE]
    /\ UNCHANGED <<use, disk, left, acked>>

Lookup(p) ==
    \/ Get(p) \/ Unpacked(p) \/ Find(p) \/ Reread(p) \/ Open(p)
RequireIndex(p) ==
    \/ RLockIndex(p) \/ LockIndex(p) \/ ListPacks(p)
    \/ (\E k \in Packs : LoadIdxFile(p, k)) \/ UnlockIndex(p)
Write(p) ==
    \/ NewObject(p) \/ CloseObject(p) \/ NewObjectPack(p) \/ PackFails(p)
    \/ CreateIdx(p) \/ WriteIdx(p) \/ RenamePack(p) \/ SaveFails(p) \/ Notify(p)
Maintain(p) ==
    \/ Reindex(p) \/ WalkFails(p) \/ ListOld(p) \/ ListLoose(p) \/ (\E o \in Objects : DeleteLooseObject(p, o))
    \/ LooseDeleted(p) \/ (\E k \in Packs : DeleteOldPack(p, k)) \/ DeleteOldIdx(p) \/ Repacked(p)

Step(p) == Lookup(p) \/ RequireIndex(p) \/ Write(p) \/ Maintain(p)

Terminated ==
    /\ \/ \A p \in Procs : pc[p] = "idle" /\ left[p] = 0
       \/ \E p \in Procs : pc[p] = "panic"
    /\ UNCHANGED vars

Next == (\E p \in Procs : Start(p) \/ Step(p)) \/ Crash \/ Terminated

Spec == Init /\ [][Next]_vars
FairSpec == Spec /\ \A p \in Procs : WF_vars(Step(p))

-----------------------------------------------------------------------------
PCs == {"idle", "get", "unpacked", "rlock", "lock", "listPacks", "load", "find", "reread", "open",
        "newObject", "closeObject", "newPack", "createIdx", "writeIdx", "rename",
        "notify", "listOld", "listLoose", "deleteLoose", "deleteOld", "deleteIdx",
        "reindex", "panic"}

\* Every variable has its type, and so has what each goroutine holds.
TypeOK ==
    /\ use \in Uses
    /\ loose \in SUBSET Objects /\ packs \in SUBSET Packs
    /\ idx \in [Packs -> {"none", "empty", "full"}]
    /\ index \in {Nil} \cup SUBSET Packs
    /\ mu \in {Nil} \cup Procs
    /\ objList \in {Nil} \cup SUBSET Objects
    /\ packList \in {Nil} \cup SUBSET Packs
    /\ pc \in [Procs -> PCs]
    /\ \A p \in Procs : todo[p] \subseteq Objects \cup Packs /\ old[p] \subseteq Packs
    /\ acked \in SUBSET Objects

\* Which uses the properties below speak of.
Does(kind) == \E p \in Procs : kind \in use.ops[p]
Alone == \E p \in Procs : \A q \in Procs \ {p} : use.calls[q] = 0
Reliable == ~use.fails /\ ~use.dies
\* No goroutine calls EncodedObjectSize beside one that may build the index.
SizeUnshared ==
    \A p, q \in Procs : p # q /\ "size" \in use.ops[p] => use.ops[q] \subseteq {"add", "prune"}

\* What was reported as written stays on disk, in a file or in a pack with
\* its index, at every step and wherever the process dies, as long as nothing
\* is repacked and no pack is written over: an object appears by the rename
\* of its file or of its pack, after the index of the pack (writers.go:127-143,
\* 275-281).
Durable == ~Does("repack") /\ ~use.rewrites => acked \subseteq OnDisk

\* When nothing is running, every object that the references reach is on
\* disk (repository.go:1866 deletes "the packed, loose objects"), and so is
\* what was written and not deleted on purpose, unless a repack found the
\* pack of another goroutine.
NothingLost ==
    (\A p \in Procs : pc[p] = "idle") =>
        acked \cap (IF Alone THEN Objects ELSE Reach) \subseteq OnDisk

\* That holds of every use without failures, repacking and pruning beside
\* writers and lookups included.
DurableAtRest == Reliable => NothingLost

\* A pack that can be listed has a complete index, so that requireIndex does
\* not fail on it, wherever the process died (writers.go:127-143).
PackIsIndexed == ~use.rewrites /\ ~Does("repack") => \A k \in packs : idx[k] = "full"

\* A lookup of an object that was there when it began, and was not deleted
\* since, finds it, and does not panic, whatever the other goroutines load, write
\* and notify (object.go:186-208, 302-393).  This excludes stale indexes (a
\* repack, a failed save), deletions and cached listings beside a lookup,
\* HasEncodedObject with ExclusiveAccess, and EncodedObjectSize beside a goroutine
\* that may build the index anew between its two reads of it (object.go:64, 312).
LookupFinds ==
    /\ ~Does("repack") /\ ~use.fails /\ ~use.rewrites
    /\ Alone \/ (~use.exclusive /\ ~Does("prune") /\ ~Does("reindex") /\ SizeUnshared)
    /\ ~(use.exclusive /\ Does("has"))
    => \A p \in Procs : pc[p] \in {"idle", "panic"} /\ must[p] /\ op[p].obj \in acked
                            => ret[p] = "found"

\* The index that exists names every pack that was written through this
\* storage: a goroutine that rebuilds it never loses what Notify adds
\* (object.go:53-76, 130-135).  This excludes goroutines that share cached
\* listings, a Reindex beside them, and a repack that leaves a pack without its
\* index behind.
IndexComplete ==
    /\ \/ Alone /\ (Reliable \/ ~Does("repack"))
       \/ ~use.exclusive /\ ~Does("reindex") /\ ~Does("repack")
    /\ ~use.rewrites /\ mu = Nil /\ index # Nil
    => \A k \in packs : k \in index \/ \E p \in Procs : op[p].pack = k /\ pc[p] = "notify"

\* Every operation returns: the lock of the index is given back on every path
\* (object.go:61-77), and no goroutine panics on the map or on an index that is
\* not in it, unless another one calls Reindex (object.go:81, 133), or builds the
\* index beside an EncodedObjectSize (object.go:64, 312).
OperationsReturn ==
    (Alone \/ (~Does("reindex") /\ SizeUnshared)) =>
        \A p \in Procs : pc[p] # "idle" ~> pc[p] = "idle"
=============================================================================
