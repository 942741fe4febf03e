-------------------------- MODULE DotGitRefsProofs --------------------------
(***************************************************************************)
(* CheckAndSetReference is a compare-and-set, for any number of processes, *)
(* references and values, when references are otherwise only read: the     *)
(* lock taken on the reference file makes the check and the write one      *)
(* step.                                                                   *)
(***************************************************************************)
EXTENDS DotGitRefs, TLAPS

USE DEF Goto

\* What Start may choose when CASOnly holds.
LEMMA StartedOperation ==
  ASSUME CASOnly, NEW p \in Procs, NEW o \in Operation, o.kind \in use.ops[p]
  PROVE  /\ o.kind = "cas" => o.name \in Names /\ o.new \in Values
         /\ Entry(o.kind) \in {"open", "refOpen", "head"}
         /\ Entry(o.kind) = "open" => o.kind = "cas"
         /\ Entry(o.kind) = "head" => o.kind = "refs"
  <1>1. o.kind \in {"cas", "ref", "refs"}
    BY DEF CASOnly
  <1>2. o.kind = "cas" => o.name \in Names /\ o.new \in Values
    BY DEF Operation
  <1>3. Entry("cas") = "open" /\ Entry("ref") = "refOpen" /\ Entry("refs") = "head"
    BY DEF Entry, CASOnly
  <1> QED
    BY <1>1, <1>2, <1>3

\* A new inode is not in use.
LEMMA FreshInode ==
  ASSUME FreeInodes # {}
  PROVE  FreeInode \in Inodes /\ (\A n \in Names : FreeInode # loose[n])
                               /\ (\A q \in Procs : FreeInode # fd[q])
  BY DEF FreeInode, FreeInodes

\* A step that leaves the files, the locks and the history alone, by a process
\* that neither holds nor wants a lock, keeps the invariant.
LEMMA QuietStep ==
  ASSUME CASInv, NEW p \in Procs, NEW l \in {"idle"} \cup Reading \cup Listing,
         pc[p] \in {"idle"} \cup Reading \cup Listing,
         l \in Listing => op[p].kind = "refs",
         UNCHANGED <<lvars, pvars, op, cur>>,
         pc' = [pc EXCEPT ![p] = l],
         DOMAIN fd' = Procs,
         \A q \in Procs \ {p} : fd'[q] = fd[q]
  PROVE  CASInv'
  <1>1. pc' \in [Procs -> PCs]
    BY DEF CASInv, PCs, Reading, Listing
  <1>2. \A q \in Procs : ProcessInv(q)'
    <2> SUFFICES ASSUME NEW q \in Procs PROVE ProcessInv(q)'
      OBVIOUS
    <2>1. CASE q = p
      BY <2>1 DEF CASInv, ProcessInv, lvars, Setting, Holding, Reading, Listing
    <2>2. CASE q # p
      <3>1. pc'[q] = pc[q] /\ fd'[q] = fd[q] /\ ProcessInv(q)
        BY <2>2 DEF CASInv
      <3> QED
        BY <3>1 DEF ProcessInv, lvars
    <2> QED
      BY <2>1, <2>2
  <1>3. \A n \in Names : NameInv(n)'
    <2> SUFFICES ASSUME NEW n \in Names PROVE NameInv(n)'
      OBVIOUS
    <2>1. \A q \in Procs : pc[q] = "write" => pc'[q] = "write"
      BY DEF CASInv, Reading, Listing
    <2> QED
      BY <2>1 DEF CASInv, NameInv, PackedValue, lvars, pvars
  <1> QED
    BY <1>1, <1>2, <1>3 DEF CASInv, lvars

\* A process calls one of the operations.
LEMMA StartStep ==
  ASSUME CASOnly, CASInv, NEW p \in Procs, Start(p)
  PROVE  CASInv'
  <1>1. PICK o \in Operation : /\ o.kind \in use.ops[p]
                               /\ op' = [op EXCEPT ![p] = o]
                               /\ pc' = [pc EXCEPT ![p] = Entry(o.kind)]
    BY DEF Start
  <1>2. /\ o.kind = "cas" => o.name \in Names /\ o.new \in Values
        /\ Entry(o.kind) \in {"open", "refOpen", "head"}
        /\ Entry(o.kind) = "open" => o.kind = "cas"
        /\ Entry(o.kind) = "head" => o.kind = "refs"
    BY <1>1, StartedOperation
  <1>3. pc[p] = "idle" /\ UNCHANGED <<lvars, pvars, fd, cur>>
    BY DEF Start
  <1>4. pc' \in [Procs -> PCs] /\ DOMAIN op' = Procs
    BY <1>1, <1>2 DEF CASInv, PCs
  <1>5. \A q \in Procs : ProcessInv(q)'
    <2> SUFFICES ASSUME NEW q \in Procs PROVE ProcessInv(q)'
      OBVIOUS
    <2>1. CASE q = p
      <3>1. pc'[p] = Entry(o.kind) /\ op'[p] = o
        BY <1>1 DEF CASInv
      <3> QED
        BY <2>1, <3>1, <1>2 DEF ProcessInv, Setting, Holding, Reading, Listing
    <2>2. CASE q # p
      <3>1. pc'[q] = pc[q] /\ op'[q] = op[q] /\ ProcessInv(q)
        BY <2>2, <1>1 DEF CASInv
      <3> QED
        BY <3>1, <1>3 DEF ProcessInv, lvars
    <2> QED
      BY <2>1, <2>2
  <1>6. \A n \in Names : NameInv(n)'
    <2> SUFFICES ASSUME NEW n \in Names PROVE NameInv(n)'
      OBVIOUS
    <2>1. \A q \in Procs : pc[q] = "write" => pc'[q] = "write" /\ op'[q] = op[q]
      BY <1>1, <1>3 DEF CASInv
    <2> QED
      BY <2>1, <1>3 DEF CASInv, NameInv, PackedValue, lvars, pvars
  <1> QED
    BY <1>3, <1>4, <1>5, <1>6 DEF CASInv, lvars

\* setRefRwfs opens the file: an existing one is left as it is.
LEMMA SetOpenStep ==
  ASSUME CASInv, NEW p \in Procs, SetOpen(p)
  PROVE  CASInv'
  <1> DEFINE n == op[p].name
             i == IF loose[n] = None THEN FreeInode ELSE loose[n]
  <1>1. n \in Names /\ op[p].kind = "cas" /\ pc[p] = "open" /\ op[p].new \in Values
    BY DEF SetOpen, CASInv, ProcessInv, Setting
  <1>2. /\ loose' = [loose EXCEPT ![n] = i]
        /\ data' = IF loose[n] = None THEN [data EXCEPT ![i] = Empty] ELSE data
        /\ fd' = [fd EXCEPT ![p] = i]
        /\ pc' = [pc EXCEPT ![p] = "lock"]
        /\ UNCHANGED <<lock, pvars, op, cur>>
    BY <1>1 DEF SetOpen, OpenLoose
  <1>3. /\ i \in Inodes
        /\ loose[n] = None => /\ \A m \in Names : i # loose[m]
                              /\ \A q \in Procs : i # fd[q]
    BY <1>1, FreshInode DEF SetOpen, OpenLoose, CASInv
  <1>4. i # None
    BY <1>3, RefsAssumption DEF RefsAssumption
  <1>5. /\ loose' \in [Names -> Inodes \cup {None}]
        /\ data' \in [Inodes -> Contents]
        /\ pc' \in [Procs -> PCs]
        /\ DOMAIN fd' = Procs
    BY <1>1, <1>2, <1>3 DEF CASInv, Contents, PCs
  <1>6. \A k, m \in Names : loose'[k] = loose'[m] /\ loose'[k] # None => k = m
    BY <1>1, <1>2, <1>3 DEF CASInv
  <1>7. \A q \in Procs : ProcessInv(q)'
    <2> SUFFICES ASSUME NEW q \in Procs PROVE ProcessInv(q)'
      OBVIOUS
    <2>1. CASE q = p
      BY <2>1, <1>1, <1>2, <1>3 DEF CASInv, ProcessInv, Setting, Holding, Reading, Listing
    <2>2. CASE q # p
      <3>1. pc'[q] = pc[q] /\ fd'[q] = fd[q] /\ op'[q] = op[q] /\ ProcessInv(q)
        BY <2>2, <1>2 DEF CASInv
      <3>2. pc[q] \in {"lock"} \cup Holding =>
               /\ loose'[op[q].name] = loose[op[q].name] /\ data'[fd[q]] = data[fd[q]]
        <4> SUFFICES ASSUME pc[q] \in {"lock"} \cup Holding
                     PROVE  /\ loose'[op[q].name] = loose[op[q].name]
                            /\ data'[fd[q]] = data[fd[q]]
          OBVIOUS
        <4>1. op[q].name \in Names /\ fd[q] = loose[op[q].name] /\ fd[q] \in Inodes
          BY <3>1 DEF ProcessInv, Setting
        <4>2. loose[n] = None => op[q].name # n
          BY <4>1, RefsAssumption DEF RefsAssumption
        <4>3. loose'[op[q].name] = loose[op[q].name]
          BY <4>1, <4>2, <1>1, <1>2 DEF CASInv
        <4>4. data'[fd[q]] = data[fd[q]]
          BY <4>1, <1>2, <1>3 DEF CASInv
        <4> QED
          BY <4>3, <4>4
      <3> QED
        BY <3>1, <3>2, <1>2 DEF ProcessInv, Holding
    <2> QED
      BY <2>1, <2>2
  <1>8. \A m \in Names : NameInv(m)'
    <2> SUFFICES ASSUME NEW m \in Names PROVE NameInv(m)'
      OBVIOUS
    <2>0. \A q \in Procs : pc[q] = "write" => pc'[q] = "write"
      BY <1>1, <1>2 DEF CASInv
    <2>1. CASE m = n /\ loose[n] = None
      <3>1. loose'[m] = i /\ data'[loose'[m]] = Empty
        BY <2>1, <1>2, <1>3, <1>1 DEF CASInv
      <3>2. PackedValue(m) = cur[m]
        BY <2>1 DEF CASInv, NameInv
      <3> QED
        BY <3>1, <3>2, <1>2 DEF NameInv, PackedValue, pvars
    <2>2. CASE m # n \/ loose[n] # None
      <3>1. loose'[m] = loose[m]
        BY <2>2, <1>2, <1>1 DEF CASInv
      <3>2. loose[m] # None => data'[loose[m]] = data[loose[m]]
        BY <1>2, <1>3 DEF CASInv
      <3> QED
        BY <3>1, <3>2, <2>0, <1>2 DEF CASInv, NameInv, PackedValue, pvars
    <2> QED
      BY <2>1, <2>2
  <1> QED
    BY <1>2, <1>5, <1>6, <1>7, <1>8 DEF CASInv

\* A step of a process that holds its lock, and that only moves on, keeps the
\* invariant.
LEMMA MoveStep ==
  ASSUME CASInv, NEW p \in Procs, NEW l \in {"checkPacked", "truncate", "close"},
         pc[p] \in Holding \ {"write"},
         l = "checkPacked" => data[fd[p]] = Empty,
         l = "truncate" => HashOf(cur[op[p].name]) = HashOf(op[p].old),
         pc' = [pc EXCEPT ![p] = l],
         UNCHANGED <<lvars, pvars, op, fd, cur>>
  PROVE  CASInv'
  <1>1. pc' \in [Procs -> PCs]
    BY DEF CASInv, PCs
  <1>2. \A q \in Procs : ProcessInv(q)'
    <2> SUFFICES ASSUME NEW q \in Procs PROVE ProcessInv(q)'
      OBVIOUS
    <2>1. ProcessInv(q)
      BY DEF CASInv
    <2>2. CASE q = p
      BY <2>1, <2>2 DEF CASInv, ProcessInv, lvars, Setting, Holding, Reading, Listing
    <2>3. CASE q # p
      BY <2>1, <2>3 DEF CASInv, ProcessInv, lvars
    <2> QED
      BY <2>2, <2>3
  <1>3. \A n \in Names : NameInv(n)'
    <2>1. \A q \in Procs : pc[q] = "write" => pc'[q] = "write"
      BY DEF CASInv, Holding
    <2> QED
      BY <2>1 DEF CASInv, NameInv, PackedValue, lvars, pvars
  <1> QED
    BY <1>1, <1>2, <1>3 DEF CASInv, lvars

\* Two processes never hold the same lock.
LEMMA OneHolder ==
  ASSUME CASInv, NEW p \in Procs, NEW q \in Procs,
         pc[p] \in Holding, pc[q] \in Holding, fd[p] = fd[q]
  PROVE  p = q
  BY DEF CASInv, ProcessInv

\* While a process holds the lock of its file and is not about to write, the
\* file or packed-refs has the value last stored.
LEMMA HolderSeesCurrent ==
  ASSUME CASInv, NEW p \in Procs, pc[p] \in Holding \ {"write"}
  PROVE  LET n == op[p].name IN
         \/ data[fd[p]] = cur[n]
         \/ data[fd[p]] = Empty /\ PackedValue(n) = cur[n]
  <1> DEFINE n == op[p].name
  <1>1. /\ n \in Names /\ fd[p] = loose[n] /\ fd[p] \in Inodes /\ fd[p] # None
        /\ NameInv(n)
    BY RefsAssumption DEF CASInv, ProcessInv, Holding, Setting, RefsAssumption
  <1>2. ASSUME NEW q \in Procs, pc[q] = "write", op[q].name = n
        PROVE  FALSE
    <2>1. fd[q] = loose[n] /\ pc[q] \in Holding
      BY <1>2 DEF CASInv, ProcessInv, Holding
    <2>2. p = q
      BY <2>1, <1>1, OneHolder
    <2> QED
      BY <2>2, <1>2
  <1> QED
    BY <1>1, <1>2 DEF NameInv

\* setRefRwfs takes the lock when nobody has it.
LEMMA SetLockStep ==
  ASSUME CASInv, NEW p \in Procs, SetLock(p)
  PROVE  CASInv'
  <1>1. /\ op[p].kind = "cas" /\ fd[p] \in Inodes /\ lock[fd[p]] = None /\ pc[p] = "lock"
        /\ ProcessInv(p)
    BY DEF SetLock, CASInv, ProcessInv, Setting
  <1>2. /\ lock' = [lock EXCEPT ![fd[p]] = p]
        /\ pc' = [pc EXCEPT ![p] = "check"]
        /\ UNCHANGED <<loose, data, pvars, op, fd, cur>>
    BY <1>1 DEF SetLock, locals
  <1>3. lock' \in [Inodes -> Procs \cup {None}] /\ pc' \in [Procs -> PCs]
    BY <1>1, <1>2 DEF CASInv, PCs
  <1>4. \A q \in Procs : ProcessInv(q)'
    <2> SUFFICES ASSUME NEW q \in Procs PROVE ProcessInv(q)'
      OBVIOUS
    <2>1. CASE q = p
      BY <2>1, <1>1, <1>2 DEF CASInv, ProcessInv, Setting, Holding, Reading, Listing
    <2>2. CASE q # p
      <3>1. pc'[q] = pc[q] /\ ProcessInv(q)
        BY <2>2, <1>2 DEF CASInv
      <3>2. pc[q] \in Holding => fd[q] # fd[p]
        BY <3>1, <1>1, RefsAssumption DEF ProcessInv, RefsAssumption
      <3>3. pc[q] \in Holding => lock'[fd[q]] = lock[fd[q]]
        BY <3>1, <3>2, <1>1, <1>2 DEF CASInv, ProcessInv
      <3> QED
        BY <3>1, <3>3, <1>2 DEF ProcessInv
    <2> QED
      BY <2>1, <2>2
  <1>5. \A n \in Names : NameInv(n)'
    <2>1. \A q \in Procs : pc[q] = "write" => pc'[q] = "write"
      BY <1>1, <1>2 DEF CASInv
    <2> QED
      BY <2>1, <1>2 DEF CASInv, NameInv, PackedValue, pvars
  <1> QED
    BY <1>2, <1>3, <1>4, <1>5 DEF CASInv

\* The check passes only on the value last stored.
LEMMA SetCheckStep ==
  ASSUME CASInv, NEW p \in Procs, SetCheck(p)
  PROVE  CASInv'
  <1>1. pc[p] \in Holding \ {"write"} /\ UNCHANGED <<lvars, pvars, cur>>
    BY DEF SetCheck, Holding
  <1>2. CASE data[fd[p]] = Empty
    BY <1>1, <1>2, MoveStep DEF SetCheck, locals
  <1>3. CASE data[fd[p]] # Empty
    <2>1. data[fd[p]] = cur[op[p].name]
      BY <1>1, <1>3, HolderSeesCurrent
    <2>2. Compare(p, data[fd[p]])
      BY <1>3 DEF SetCheck
    <2>3. CASE pc' = [pc EXCEPT ![p] = "truncate"] /\ UNCHANGED locals
               /\ HashOf(data[fd[p]]) = HashOf(op[p].old)
      BY <1>1, <2>1, <2>3, MoveStep DEF locals
    <2>4. CASE Return(p, "close", Err)
      BY <1>1, <2>4, MoveStep DEF Return
    <2> QED
      BY <2>2, <2>3, <2>4 DEF Compare
  <1> QED
    BY <1>2, <1>3

\* An absent or empty file stands for the value in packed-refs.
LEMMA SetCheckPackedStep ==
  ASSUME CASInv, NEW p \in Procs, SetCheckPacked(p)
  PROVE  CASInv'
  <1> DEFINE n == op[p].name
  <1>1. /\ pc[p] = "checkPacked" /\ pc[p] \in Holding \ {"write"}
        /\ UNCHANGED <<lvars, pvars, cur>> /\ n \in Names
        /\ data[fd[p]] = Empty /\ cur[n] \in Values \cup {None}
    BY DEF SetCheckPacked, Holding, Setting, CASInv, ProcessInv
  <1>2. PICK v \in PackedRef(n) : Compare(p, v)
    BY DEF SetCheckPacked
  <1>3. CASE /\ pc' = [pc EXCEPT ![p] = "truncate"] /\ UNCHANGED locals
             /\ v \notin {None, Err} /\ HashOf(v) = HashOf(op[p].old)
    <2>1. v = PackedValue(n)
      BY <1>2, <1>3 DEF PackedRef, PackedValue
    <2>2. cur[n] # Empty
      BY <1>1, RefsAssumption DEF RefsAssumption
    <2>3. PackedValue(n) = cur[n]
      BY <1>1, <2>2, HolderSeesCurrent
    <2> QED
      BY <1>1, <1>3, <2>1, <2>3, MoveStep DEF locals
  <1>4. CASE Return(p, "close", Err)
    BY <1>1, <1>4, MoveStep DEF Return
  <1> QED
    BY <1>2, <1>3, <1>4 DEF Compare

\* Truncation keeps the lock and the expectation.
LEMMA SetTruncateStep ==
  ASSUME CASInv, NEW p \in Procs, SetTruncate(p)
  PROVE  CASInv'
  <1> DEFINE n == op[p].name
  <1>1. /\ pc[p] = "truncate" /\ ProcessInv(p) /\ n \in Names
        /\ fd[p] \in Inodes /\ fd[p] = loose[n] /\ fd[p] # None
        /\ data' = [data EXCEPT ![fd[p]] = Empty]
        /\ pc' = [pc EXCEPT ![p] = "write"]
        /\ UNCHANGED <<loose, lock, pvars, op, fd, cur>>
    BY RefsAssumption DEF RefsAssumption, SetTruncate, CASInv, ProcessInv, Setting, Holding, locals
  <1>2. data' \in [Inodes -> Contents] /\ pc' \in [Procs -> PCs]
    BY <1>1 DEF CASInv, Contents, PCs
  <1>3. \A q \in Procs : ProcessInv(q)'
    <2> SUFFICES ASSUME NEW q \in Procs PROVE ProcessInv(q)'
      OBVIOUS
    <2>1. CASE q = p
      BY <2>1, <1>1 DEF CASInv, ProcessInv, Setting, Holding, Reading, Listing
    <2>2. CASE q # p
      <3>1. pc'[q] = pc[q] /\ ProcessInv(q)
        BY <2>2, <1>1 DEF CASInv
      <3>2. pc[q] \in Holding => fd[q] # fd[p]
        BY <2>2, <1>1, OneHolder DEF Holding
      <3>3. pc[q] \in {"checkPacked", "write"} => data'[fd[q]] = data[fd[q]]
        BY <3>1, <3>2, <1>1 DEF CASInv, ProcessInv, Holding
      <3> QED
        BY <3>1, <3>3, <1>1 DEF ProcessInv
    <2> QED
      BY <2>1, <2>2
  <1>4. \A m \in Names : NameInv(m)'
    <2> SUFFICES ASSUME NEW m \in Names PROVE NameInv(m)'
      OBVIOUS
    <2>1. CASE m = n
      <3>1. pc'[p] = "write" /\ op'[p].name = m /\ loose'[m] # None
        BY <2>1, <1>1 DEF CASInv
      <3> QED
        BY <3>1 DEF NameInv
    <2>2. CASE m # n
      <3>1. loose[m] # fd[p]
        BY <2>2, <1>1 DEF CASInv
      <3>2. loose[m] # None => data'[loose[m]] = data[loose[m]]
        BY <3>1, <1>1 DEF CASInv
      <3>3. \A q \in Procs : pc[q] = "write" => pc'[q] = "write"
        BY <1>1 DEF CASInv
      <3> QED
        BY <3>2, <3>3, <1>1 DEF CASInv, NameInv, PackedValue, pvars
    <2> QED
      BY <2>1, <2>2
  <1> QED
    BY <1>1, <1>2, <1>3, <1>4 DEF CASInv

\* The write stores the new value.
LEMMA SetWriteStep ==
  ASSUME CASInv, NEW p \in Procs, SetWrite(p)
  PROVE  CASInv'
  <1> DEFINE n == op[p].name
  <1>1. /\ pc[p] = "write" /\ ProcessInv(p) /\ n \in Names /\ op[p].new \in Values
        /\ fd[p] \in Inodes /\ fd[p] = loose[n] /\ fd[p] # None /\ data[fd[p]] = Empty
        /\ cur' = [cur EXCEPT ![n] = op[p].new]
        /\ pc' = [pc EXCEPT ![p] = "close"]
        /\ UNCHANGED <<loose, lock, pvars, op, fd>>
    BY RefsAssumption DEF RefsAssumption, SetWrite, CASInv, ProcessInv, Setting, Holding, Return
  <1>2. data' = [data EXCEPT ![fd[p]] = op[p].new]
    BY <1>1 DEF SetWrite, Overwrite
  <1>3. /\ data' \in [Inodes -> Contents] /\ pc' \in [Procs -> PCs]
        /\ cur' \in [Names -> Values \cup {None}]
    BY <1>1, <1>2 DEF CASInv, Contents, PCs
  <1>4. \A q \in Procs : ProcessInv(q)'
    <2> SUFFICES ASSUME NEW q \in Procs PROVE ProcessInv(q)'
      OBVIOUS
    <2>1. CASE q = p
      BY <2>1, <1>1 DEF CASInv, ProcessInv, Setting, Holding, Reading, Listing
    <2>2. CASE q # p
      <3>1. pc'[q] = pc[q] /\ ProcessInv(q)
        BY <2>2, <1>1 DEF CASInv
      <3>2. pc[q] \in Holding => fd[q] # fd[p] /\ op[q].name # n /\ op[q].name \in Names
        BY <3>1, <2>2, <1>1, OneHolder DEF Holding, Setting, ProcessInv
      <3>3. pc[q] \in Holding => /\ data'[fd[q]] = data[fd[q]]
                                 /\ cur'[op[q].name] = cur[op[q].name]
        BY <3>1, <3>2, <1>1, <1>2 DEF CASInv, ProcessInv, Holding
      <3> QED
        BY <3>1, <3>3, <1>1 DEF ProcessInv, Holding
    <2> QED
      BY <2>1, <2>2
  <1>5. \A m \in Names : NameInv(m)'
    <2> SUFFICES ASSUME NEW m \in Names PROVE NameInv(m)'
      OBVIOUS
    <2>1. CASE m = n
      <3>1. loose'[m] # None /\ data'[loose'[m]] = cur'[m]
        BY <2>1, <1>1, <1>2 DEF CASInv
      <3> QED
        BY <3>1 DEF NameInv
    <2>2. CASE m # n
      <3>1. loose[m] # fd[p]
        BY <2>2, <1>1 DEF CASInv
      <3>2. loose[m] # None => data'[loose[m]] = data[loose[m]]
        BY <3>1, <1>2 DEF CASInv
      <3>3. \A q \in Procs : pc[q] = "write" /\ op[q].name = m => pc'[q] = "write"
        BY <2>2, <1>1 DEF CASInv
      <3>4. cur'[m] = cur[m]
        BY <2>2, <1>1 DEF CASInv
      <3> QED
        BY <3>2, <3>3, <3>4, <1>1 DEF CASInv, NameInv, PackedValue, pvars
    <2> QED
      BY <2>1, <2>2
  <1> QED
    BY <1>1, <1>3, <1>4, <1>5 DEF CASInv

\* Close releases the lock.
LEMMA SetCloseStep ==
  ASSUME CASInv, NEW p \in Procs, SetClose(p)
  PROVE  CASInv'
  <1>1. /\ pc[p] = "close" /\ fd[p] \in Inodes
        /\ lock' = [lock EXCEPT ![fd[p]] = None]
        /\ pc' = [pc EXCEPT ![p] = "idle"]
        /\ fd' = [fd EXCEPT ![p] = None]
        /\ UNCHANGED <<loose, data, pvars, op, cur>>
    BY DEF SetClose, Finish, CASInv, ProcessInv, Setting, Holding
  <1>2. lock' \in [Inodes -> Procs \cup {None}] /\ pc' \in [Procs -> PCs] /\ DOMAIN fd' = Procs
    BY <1>1 DEF CASInv, PCs
  <1>3. \A q \in Procs : ProcessInv(q)'
    <2> SUFFICES ASSUME NEW q \in Procs PROVE ProcessInv(q)'
      OBVIOUS
    <2>1. CASE q = p
      BY <2>1, <1>1 DEF CASInv, ProcessInv, Setting, Holding, Reading, Listing
    <2>2. CASE q # p
      <3>1. pc'[q] = pc[q] /\ fd'[q] = fd[q] /\ ProcessInv(q)
        BY <2>2, <1>1 DEF CASInv
      <3>2. pc[q] \in Holding => fd[q] # fd[p]
        BY <2>2, <1>1, OneHolder DEF Holding
      <3>3. pc[q] \in Holding => lock'[fd[q]] = lock[fd[q]]
        BY <3>1, <3>2, <1>1 DEF CASInv, ProcessInv
      <3> QED
        BY <3>1, <3>3, <1>1 DEF ProcessInv
    <2> QED
      BY <2>1, <2>2
  <1>4. \A n \in Names : NameInv(n)'
    <2>1. \A q \in Procs : pc[q] = "write" => pc'[q] = "write"
      BY <1>1 DEF CASInv
    <2> QED
      BY <2>1, <1>1 DEF CASInv, NameInv, PackedValue, pvars
  <1> QED
    BY <1>1, <1>2, <1>3, <1>4 DEF CASInv

\* Reference and IterReferences change nothing but their own state.
LEMMA ReadStep ==
  ASSUME CASInv, NEW p \in Procs, ReadRefs(p)
  PROVE  CASInv'
  <1>0. ProcessInv(p) /\ DOMAIN fd = Procs
    BY DEF CASInv
  <1>1. CASE RefOpen(p) \/ RefRead(p)
    <2>1. PICK l \in {"idle", "refPacked", "refRead"} : pc' = [pc EXCEPT ![p] = l]
      BY <1>1 DEF RefOpen, RefRead, Finish
    <2>2. /\ pc[p] \in Reading /\ UNCHANGED <<lvars, pvars, op, cur>>
          /\ DOMAIN fd' = Procs /\ \A q \in Procs \ {p} : fd'[q] = fd[q]
      BY <1>0, <1>1 DEF RefOpen, RefRead, Finish, locals, Reading
    <2> QED
      BY <2>1, <2>2, QuietStep DEF Reading, Listing
  <1>2. CASE RefPacked(p) \/ RefsClose(p)
    <2>1. /\ pc' = [pc EXCEPT ![p] = "idle"]
          /\ pc[p] \in Reading \cup Listing /\ UNCHANGED <<lvars, pvars, op, cur>>
          /\ DOMAIN fd' = Procs /\ \A q \in Procs \ {p} : fd'[q] = fd[q]
      BY <1>0, <1>2 DEF RefPacked, RefsClose, Finish, locals, Reading, Listing
    <2> QED
      BY <2>1, QuietStep DEF Reading, Listing
  <1>3. CASE RefsHead(p) \/ Walk(p)
    <2>1. PICK l \in {"idle", "walk", "visit"} : pc' = [pc EXCEPT ![p] = l]
      BY <1>3 DEF RefsHead, Walk, Finish
    <2>2. pc[p] \in Listing /\ op[p].kind = "refs"
      BY <1>0, <1>3 DEF RefsHead, Walk, ProcessInv, Listing
    <2>3. /\ UNCHANGED <<lvars, pvars, op, cur>>
          /\ DOMAIN fd' = Procs /\ \A q \in Procs \ {p} : fd'[q] = fd[q]
      BY <1>0, <1>3 DEF RefsHead, Walk, Finish, locals
    <2> QED
      BY <2>1, <2>2, <2>3, QuietStep DEF Reading, Listing
  <1>4. CASE (\E n \in Names : Visit(p, n)) \/ RefsPacked(p)
    <2>1. pc[p] = "visit" /\ op[p].kind = "refs"
      BY <1>0, <1>4 DEF Visit, RefsPacked, ProcessInv, Listing
    <2>2. pc' = [pc EXCEPT ![p] = "visit"] \/ pc' = [pc EXCEPT ![p] = "refsClose"]
      BY <1>4, <2>1 DEF Visit, RefsPacked, Return, CASInv
    <2>3. UNCHANGED <<lvars, pvars, op, cur, fd>>
      BY <1>4 DEF Visit, RefsPacked, Return
    <2> QED
      BY <1>0, <2>1, <2>2, <2>3, QuietStep DEF Reading, Listing
  <1> QED
    BY <1>1, <1>2, <1>3, <1>4 DEF ReadRefs

\* No other action is enabled.
LEMMA NoOtherStep ==
  ASSUME CASInv, CASOnly, NEW p \in Procs
  PROVE  ~NStat(p) /\ ~NCreate(p) /\ ~NWrite(p) /\ ~RewritePackedRefs(p) /\ ~Crash(p)
  <1>1. ProcessInv(p)
    BY DEF CASInv
  <1>2. pc[p] \notin {"nstat", "ncreate", "nwrite", "rmLoose", "pkOpen", "pkStat", "pkLock",
                     "pkStat2", "rewrite", "rename", "copy", "delete", "pkClose"}
    BY <1>1 DEF ProcessInv, Setting, Holding, Reading, Listing
  <1>3. pc[p] = "visit" => op[p].kind # "pack"
    BY <1>1 DEF ProcessInv, Listing
  <1>4. ~NStat(p) /\ ~NCreate(p) /\ ~NWrite(p) /\ ~Crash(p)
    BY <1>2 DEF NStat, NCreate, NWrite, Crash, CASOnly
  <1>5. ~RewritePackedRefs(p)
    BY <1>2, <1>3 DEF RewritePackedRefs, RmLoose, PkOpen, PkStat, PkLock, PkStat2,
       RmRewrite, PkMerge, PkRename, PkCopy, PkDelete, PkDeleted, PkClose
  <1> QED
    BY <1>4, <1>5

\* A repository at rest satisfies the invariant.
LEMMA InitCASInv == Init => CASInv
  <1> SUFFICES ASSUME Init PROVE CASInv
    OBVIOUS
  <1>a. /\ use.values \subseteq Values
        /\ \E ino \in [Names -> Inodes], pi \in PInodes :
           \E l \in [Names -> use.values \cup {None}], t \in [Names -> (use.values \cap Hashes) \cup {None}] :
              InitWith(use.names, l, t, ino, pi)
    BY RefsAssumption DEF RefsAssumption, Use, Init
  <1>0. PICK l \in [Names -> Values \cup {None}], t \in [Names -> Hashes \cup {None}],
             ino \in [Names -> Inodes], pi \in PInodes : InitWith(use.names, l, t, ino, pi)
    BY <1>a
  <1>1. /\ \A m, n \in Names : ino[m] = ino[n] => m = n
        /\ loose = [n \in Names |-> IF l[n] = None THEN None ELSE ino[n]]
        /\ data = [i \in Inodes |-> IF \E n \in Names : ino[n] = i /\ l[n] # None
                              THEN l[CHOOSE n \in Names : ino[n] = i] ELSE Empty]
        /\ packed = IF t = NoRefs THEN None ELSE pi
        /\ table = [i \in PInodes |-> IF i = pi THEN t ELSE NoRefs]
        /\ cur = [n \in Names |-> IF l[n] # None THEN l[n] ELSE t[n]]
    BY <1>0 DEF InitWith
  <1>2. /\ lock = [i \in Inodes |-> None]
        /\ pc = [p \in Procs |-> "idle"]
        /\ DOMAIN op = Procs /\ DOMAIN fd = Procs
    BY <1>0 DEF InitWith
  <1>3. \A n \in Names : (CHOOSE m \in Names : ino[m] = ino[n]) = n
    BY <1>1
  <1>4. \A n \in Names : l[n] # None => loose[n] = ino[n] /\ data[loose[n]] = l[n]
    BY <1>1, <1>3
  <1>5. \A i \in Inodes : data[i] \in Contents
    <2> SUFFICES ASSUME NEW i \in Inodes PROVE data[i] \in Contents
      OBVIOUS
    <2>1. CASE \E n \in Names : ino[n] = i /\ l[n] # None
      <3>1. PICK n \in Names : ino[n] = i /\ l[n] # None
        BY <2>1
      <3>2. data[i] = l[n]
        BY <1>1, <1>3, <3>1
      <3> QED
        BY <3>1, <3>2 DEF Contents
    <2>2. CASE ~\E n \in Names : ino[n] = i /\ l[n] # None
      BY <1>1, <2>2 DEF Contents
    <2> QED
      BY <2>1, <2>2
  <1>6. /\ loose \in [Names -> Inodes \cup {None}]
        /\ data \in [Inodes -> Contents]
        /\ cur \in [Names -> Values \cup {None}]
        /\ \A m, n \in Names : loose[m] = loose[n] /\ loose[m] # None => m = n
    BY <1>1, <1>5 DEF Values
  <1>7. /\ lock \in [Inodes -> Procs \cup {None}]
        /\ pc \in [Procs -> PCs]
        /\ \A p \in Procs : ProcessInv(p)
    BY <1>2 DEF PCs, ProcessInv, Setting, Holding, Reading, Listing
  <1>8. \A n \in Names : NameInv(n)
    <2> SUFFICES ASSUME NEW n \in Names PROVE NameInv(n)
      OBVIOUS
    <2>1. CASE l[n] # None
      BY <2>1, <1>1, <1>4, RefsAssumption DEF NameInv, RefsAssumption
    <2>2. CASE l[n] = None
      <3>1. loose[n] = None /\ cur[n] = t[n]
        BY <1>1, <2>2
      <3>2. PackedValue(n) = t[n]
        BY <1>1, RefsAssumption DEF PackedValue, NoRefs, RefsAssumption
      <3> QED
        BY <3>1, <3>2 DEF NameInv
    <2> QED
      BY <2>1, <2>2
  <1> QED
    BY <1>2, <1>6, <1>7, <1>8 DEF CASInv

\* Every step of Next keeps the invariant.
LEMMA NextCASInv ==
  ASSUME CASOnly, CASInv, [Next]_vars
  PROVE  CASInv'
  <1>1. CASE UNCHANGED vars
    BY <1>1 DEF vars, locals, lvars, pvars, CASInv, ProcessInv, NameInv, PackedValue
  <1>2. ASSUME NEW p \in Procs, Start(p) \/ Step(p) \/ Crash(p) PROVE CASInv'
    BY <1>2, StartStep, SetOpenStep, SetLockStep, SetCheckStep, SetCheckPackedStep,
       SetTruncateStep, SetWriteStep, SetCloseStep, ReadStep, NoOtherStep DEF Step, SetRef
  <1> QED
    BY <1>1, <1>2 DEF Next, Terminated

\* The use of the repository is fixed.
LEMMA SameUse == [Next]_vars => use' = use
  <1>1. ASSUME NEW p \in Procs, SetRef(p) PROVE use' = use
    BY <1>1 DEF SetRef, SetOpen, SetLock, SetCheck, SetCheckPacked, SetTruncate, SetWrite,
       SetClose, NStat, NCreate, NWrite
  <1>2. ASSUME NEW p \in Procs, ReadRefs(p) PROVE use' = use
    BY <1>2 DEF ReadRefs, RefOpen, RefRead, RefPacked, RefsHead, Walk, Visit, RefsPacked, RefsClose
  <1>3. ASSUME NEW p \in Procs, RewritePackedRefs(p) PROVE use' = use
    BY <1>3 DEF RewritePackedRefs, RmLoose, PkOpen, PkStat, PkLock, PkStat2, RmRewrite, PkMerge,
       PkRename, PkCopy, PkDelete, PkDeleted, PkClose
  <1>4. ASSUME NEW p \in Procs, Start(p) \/ Crash(p) PROVE use' = use
    BY <1>4 DEF Start, Crash
  <1> QED
    BY <1>1, <1>2, <1>3, <1>4 DEF Next, Step, Terminated, vars

\* CASInv is inductive in every use that only compares, sets and reads.
THEOREM CASInvariance == Spec => []CASInductive
  <1>1. Init => CASInductive
    BY InitCASInv DEF CASInductive
  <1>2. CASInductive /\ [Next]_vars => CASInductive'
    <2>1. [Next]_vars => (CASOnly' <=> CASOnly)
      BY SameUse DEF CASOnly
    <2> QED
      BY <2>1, NextCASInv DEF CASInductive
  <1> QED
    BY <1>1, <1>2, PTL DEF Spec

\* CheckAndSetReference writes only over the value its caller expects: among
\* any number of processes that update references with CheckAndSetReference,
\* no update is lost (dotgit_setref.go:21-52, dotgit.go:677-700).
THEOREM CompareAndSet == Spec => []CASMatches
  <1>1. CASInductive => CASMatches
    BY DEF CASInductive, CASInv, CASMatches, ProcessInv
  <1> QED
    BY <1>1, CASInvariance, PTL
=============================================================================
