# A TLA+ verification of go-git

This directory specifies the parts of go-git (`src/`, version 6) that are hard
to test: those where goroutines, processes, peers, crashes, failing steps or
long sequences of calls meet.  Each part has a module with its state and one
action per operation or step, a module `MC...` with configurations for TLC,
and, where stated, a module `...Proofs` with theorems that TLAPS checks for
every value of the constants.  `PROJECT.json` lists the components, the runs,
the source lines that every definition models, mutants of definitions that
break each property, the hazards of the code, the disagreements between code
and documentation, and the theorems.

## The system

go-git is a library.  A `Repository` joins a storage (`storage.Storer`) with a
worktree (`billy.Filesystem`), and talks to other repositories through
transports.

| Part | State | Operations | What is hard about it |
|---|---|---|---|
| References on disk (`storage/filesystem/dotgit`) | loose files, `packed-refs`, locks on open files | `SetRef`, `Ref`, `Refs`, `RemoveRef`, `PackRefs` | processes that share a directory, files replaced while they are opened, crashes |
| Objects on disk (`storage/filesystem/object.go`, `dotgit.go`, `writers.go`) | loose objects, packs with their indexes, the loaded indexes and cached listings | lookups, `SetEncodedObject`, `PackfileWriter`, `Reindex`, `RepackObjects`, `Prune` | goroutines that share lazily built maps, deletions beside lookups, crashes between renames |
| Pack writer (`dotgit/writers.go`) | a temporary file, two counters, a channel | `Write`, `Close`, the reader's `Read` and `Seek` | a hand-made wake-up protocol between two goroutines |
| Fetch (`plumbing/transport`, `packp`) | wants, haves, acknowledgements, shallow commits, the connection | `NegotiatePack`, `FetchPack`, `UploadPack` | two state machines that must agree on who speaks next, over pipes and over HTTP |
| Push (`remote.go`, `plumbing/transport`) | references of both sides, commands, packfile, report | `PushContext`, `SendPack`, `ReceivePack` | concurrent pushes, values checked early and used late, half-done requests |
| Worktree (`worktree*.go`, `status.go`) | HEAD, branches, index, files | `Add`, `Remove`, `Move`, `Commit`, `CherryPick`, `Reset`, `Restore`, `Checkout`, `Pull`, `Merge`, `Clean`, `Status` | sequences of calls in which commit, index and files drift apart; operations that stop in the middle |
| Other storages (`storage/transactional`, `storage/memory`), caches (`plumbing/cache`) | overlays, maps, size counters | reads, writes, `Commit`, eviction | overlay semantics, limits |
| Walks, revision lists, merge bases, tree comparison | queues, marks | iterators | order and termination on merges |
| Packfiles, indexes, commit graphs, packet lines, configuration | byte formats | encode, decode | delta chains, boundaries |

How they meet: fetch and push read and write references and objects; a push
ends in `SetReference` on the server; a fetch ends in a `PackfileWriter`;
`Pull` is a fetch followed by a reference update and a `MergeReset`;
`RepackObjects` writes a pack through the pack writer and deletes what lookups
may be about to open.

A module is checked for several ways of using the component at once: the
variable `use` holds a record (which operations, how often, which options,
which failures), is chosen by `Init` from the constant `Uses` and never
changes.  A property that only some uses have says in its first conjunct which
ones.  Where the documentation promises it for all of them, an unconditional
form of it is checked by a second run of the component and found violated.

Every module keeps the control of the code (each branch, early return and
error path, in their order) and abstracts data: an object or a commit is a
name, a packfile a set of names, a file content one of two values.

## References on disk: `DotGitRefs`

`DotGit` keeps a reference in a file of its own (a loose reference), in the
file `packed-refs`, or in both; the loose value wins.  Processes share the
directory with no other coordination than locks on open files.

State: `loose` maps a name to the inode its path refers to, `data` and `lock`
belong to inodes, `packed`, `table` and `plock` are the same for
`packed-refs`.  Per process: `pc` (which system call is next), the operation
`op`, the open descriptor `fd`, the remembered modification time `mtime`, the
names still to visit `todo`, the references gathered `got`.  `cur` is a history
variable: what was last stored under each name.

Every system call another process can observe is an action: `SetOpen`,
`SetLock`, `SetCheck`, `SetCheckPacked`, `SetTruncate`, `SetWrite`, `SetClose`
(setRefRwfs with checkReferenceAndTruncate), `NStat`, `NCreate`, `NWrite`
(setRefNorwfs), `RefOpen`, `RefRead`, `RefPacked` (Ref), `RefsHead`, `Walk`,
`Visit`, `RefsPacked`, `RefsClose` (Refs), `RmLoose`, `RmRewrite` (RemoveRef),
`PkOpen`, `PkStat`, `PkLock`, `PkStat2` (openAndLockPackedRefs), `PkMerge`,
`PkRename`, `PkCopy`, `PkDelete`, `PkDeleted`, `PkClose` (PackRefs and
rewritePackedRefsWhileLocked).  `Crash` ends a process, which releases its
locks, and lets another take its place.

A reference value is a hash or a symbolic target.  File contents are a value,
empty, or a mixture of two writes; a packed line of a symbolic reference is one
that does not parse.  The modification time stands for the inode: two files
never have the same one.

The seven uses of `MCDotGitRefs`: one process runs three of `SetReference`,
`RemoveReference` and `PackRefs` on two names; one runs two of any operation on
a filesystem that can neither open for reading and writing nor rename; two run
`CheckAndSetReference`; one runs anything beside a writer, with symbolic
references; two pack beside a reader; one that may die packs twice beside a
reader; two that may die pack.  `Init` takes any combination of loose and packed values.

Bounds: one to three processes, one or two names, one to three operations for
each.  Two names are needed for a pack that moves one reference while a reader
is between two; three processes for two packers beside a reader.  There are always as many inodes as the operations of a run
can create.  Fairness: each process in an operation takes its next system call,
as an operating system schedules it; crashes and new operations are not
assumed.

What the preconditions exclude, because the code does not provide it:

- `CASMatches` is about `CheckAndSetReference` and readers.  `SetReference`
  truncates the file in the open, before it takes the lock, so that beside one a
  comparison may find the file empty.
- `Settled` and `PackKeepsRefs` are about hash references.  `PackRefs` writes a
  line for a symbolic reference that it cannot read back.
- A packer whose open was overtaken by the rename of another one works on a
  replaced `packed-refs` (`refs_stale_lock`).  If the other one has died after it
  removed some loose files, those references are lost; `PackKeepsRefs` leaves out
  such a step when packers may die beside others, and `ReadersSeeRefs` such uses.
- A failed `CheckAndSetReference` leaves an empty file behind, which `Stored`
  skips as `Ref` does; `Refs` and `PackRefs` fail on it.

| Run | Checks | What it shows |
|---|---|---|
| `refs` | `TypeOK`, `CASMatches`, `CASInductive`, `Settled`, `PackKeepsRefs`, `ReadersSeeRefs`, `OperationsReturn` | Seven ways of using a repository in any starting state: one process with three operations, one on a filesystem without capabilities, concurrent CheckAndSetReference calls, any operation beside a writer, two packers beside a reader, a packer that dies at any step beside a reader, and two packers of which each may die. The last stored value is what Ref answers, no update replaces a value its caller did not expect, no reader misses a reference while it is packed, packing changes none unless a packer that died beside another left it the lock of a replaced packed-refs, and no lock is waited for for ever. |

Runs whose property is violated (it states what the documentation says;
`findings` in `PROJECT.json` quotes it):

| Run | Property | What it shows |
|---|---|---|
| `refs_stale_lock` | `LockedIsCurrent` | A rename between the open and the first Stat of openAndLockPackedRefs goes unnoticed, and the loop ends with the lock of a file that is no longer packed-refs. |

## The pipe of a pack writer: `SyncedReader`

`PackWriter` writes a received pack to a temporary file while a goroutine
parses it from the same file.  `syncedReader` puts the reader to sleep when it
has read everything and lets the writer wake it up.  Every atomic load or
store and every channel operation is an action; bytes are abstracted to
offsets (`file`, `pos`, `written`, `read`).

`DrainedBeforeEOF` says where bytes can be lost and where not.  If Close finds the
reader between the read that met the end of the file and the test of `isDone`,
they can (`pack_pipe_eof`); if it finds it asleep, between two reads or about to
read (`FoundInTime`), the reader gets to the last byte before `io.EOF`, even if it
missed a wake-up.

Bounds: three bytes and two seeks, which let the reader sleep, be woken, be
overtaken and go back.  Fairness: both goroutines run when they can, and a
caller closes its writer after finitely many writes (all callers defer
`Close`).

| Run | Checks | What it shows |
|---|---|---|
| `pack_pipe` | `SendMeetsReceive`, `IInv`, `CloseReturns`, `SleeperWakes`, `DrainedBeforeEOF` | Every interleaving of a writer of up to 3 bytes and a parser with up to 2 seeks: the writer never blocks on wake, a parser that Close does not find between the end of the file and the test of isDone reads every byte before io.EOF, and Close returns. |

Runs whose property is violated (it states what the documentation says;
`findings` in `PROJECT.json` quotes it):

| Run | Property | What it shows |
|---|---|---|
| `pack_pipe_eof` | `EOFIsFinal` | A Read that was woken spuriously can see the end of the file, lose the processor to the last Write and to Close, then find the writer done and return io.EOF before the last bytes were read. |

## Objects on disk: `ObjectStorage`

The goroutines of one process share one `ObjectStorage`.  State on disk:
`loose` objects, `packs`, and `idx`, the index file of each pack, which may
still be missing or empty.  State in memory: `index`, the lazily built map of
pack indexes behind `muI`, and with `ExclusiveAccess` the listings of objects
and packs that `DotGit` caches.  A pack is named by its checksum, hence a pack
is the set of its objects.

Lookups (`EncodedObject`, `HasEncodedObject`, `EncodedObjectSize`) take one
step per file system call, per critical section and per unlocked read of the map
(`Reread` is the second one of `EncodedObjectSize`), so that a pack or a loose
file can be deleted between the decision to read it and the open.  Writers
(`SetEncodedObject`, `PackfileWriter` with its close, `.idx` file, rename and
notification), `Reindex`, `RepackObjects` and `Prune` are sequences of steps as
well.  `Crash` discards the memory and keeps the disk.

The ten uses of `MCObjectStorage` are listed in the table.  Bounds: two
objects, one reachable and one not, three packs (each object and both), up to
three calls of a goroutine and two goroutines: one to decide what to read, one
to change it in between.  Fairness: goroutines that can take a step do.

What the preconditions exclude, because the code does not provide it:

- After `RepackObjects`, and after a `PackWriter.Close` whose save failed, the
  index in memory names packs that are not on disk, and lookups of their objects
  fail until `Reindex`.
- `HasEncodedObject` with `ExclusiveAccess` does not look at packs when the
  cached listing of loose objects lacks the object.
- `EncodedObjectSize` reads the map again without the lock.  If another goroutine
  has begun to build it anew in between, it calls `FindHash` on no index and
  panics; `LookupFinds` and `OperationsReturn` leave this pair of calls out
  (`SizeUnshared`), and the use `SizeRace` takes the step.
- An access to the map is atomic in the model; what the Go runtime does when
  unlocked accesses really coincide is not modelled.
- A listing cached while another goroutine is writing an object lacks it.
- `Reindex` sets the map to nil; a `Notify` that runs next writes to it.
- Writing a pack that exists truncates its index file first; a lookup that loads
  it then, or a crash, finds it empty.  The same happens when `RepackObjects`
  writes a pack with the objects of an old one.
- A repack sees a pack of another goroutine as one to delete, and drops the
  unreachable objects in it.

| Run | Checks | What it shows |
|---|---|---|
| `objects` | `TypeOK`, `Durable`, `DurableAtRest`, `PackIsIndexed`, `LookupFinds`, `IndexComplete`, `OperationsReturn` | Ten ways of using one storage: writers beside lookups, EncodedObjectSize beside a writer of loose objects and beside a goroutine that may build the index, writers and Prune in a process that may die, one goroutine with ExclusiveAccess, one that does anything, RepackObjects beside a writer with and without failing saves, packs that are written again, Reindex beside a writer. What was acknowledged is on disk, every visible pack has its index, lookups find what was there, the lazily built index misses no pack, and the lock of the index is given back on every path. |

Runs whose property is violated (it states what the documentation says;
`findings` in `PROJECT.json` quotes it):

| Run | Property | What it shows |
|---|---|---|
| `objects_repack_crash` | `NothingLost` | RepackObjects deletes the loose objects before the deferred Close gives the new pack its name; a crash in between loses them. |

## Fetching: `UploadPack`

The client (`NegotiatePack`, `FetchPack`) and the server (`UploadPack`) are two
processes with a program counter each and a channel in each direction.  Over a
pipe a write waits until the other side reads; over HTTP every round of the
client is a new request to a new `UploadPack`.  Objects are commits of a graph,
`Anc` is reachability; the result of `revlist.Objects` is a set.  `haves` and
`acks` follow `getHaves`, `MaxInVein` and the acknowledgement modes; a depth
yields a shallow update; unpacking may fail, and what the client wants may be
gone when it asks for it.  A server that fails closes the pipe, and the client
fails when it writes its haves; over HTTP the response is an error (`Broken`).

The uses of `MCUploadPack`: on a pipe with haves that fit one round, on a pipe
with several rounds and failures, over HTTP with requests that may exceed the
server's buffer, and from a repository that is already shallow.

Bounds: a graph of six commits with a merge, so that common commits, shallow
boundaries and commits that only one side has all occur; rounds of one or two
haves instead of 32, a limit of 2 to 4 instead of 256, a server buffer of 3 or
9 hashes instead of 4096 bytes.  Fairness: each side takes its next step when
it can, as its goroutine would; failures are not assumed to happen.  Deadlock
is not an error in `fetch`, since the second round on a pipe really stops
(`fetch_second_round`).

What the preconditions exclude, because the code does not provide it:

- Without `multi_ack` the server answers a last round of haves that it does not
  know with two NAKs, and the client takes the second one for the packfile.
- Over HTTP the server forgets the haves of earlier rounds, so the packfile may
  hold what the client has; a request that is larger than the buffer of the
  reader loses its haves when the body is closed.
- A client that is shallow sends its boundary only with a depth, so what it
  receives may lack commits below the boundary.
- With `multi_ack` the server acknowledges every have, known or not.

| Run | Checks | What it shows |
|---|---|---|
| `fetch` | `TypeOK`, `HistoryComplete`, `InStep`, `FetchSucceeds`, `FetchReturns` | Fetches over the file transport's synchronous pipes with one and with several rounds of haves, over HTTP where each round reaches a new UploadPack, and from a shallow repository; unpacking may fail, wants may be gone and requests may exceed the server's buffer. The history stays complete, the two sides stay in step, what can be fetched is fetched, and the call returns. |

Runs whose property is violated (it states what the documentation says;
`findings` in `PROJECT.json` quotes it):

| Run | Property | What it shows |
|---|---|---|
| `fetch_second_round` | `NegotiationEnds` | On a pipe the second round of a negotiation never ends: UploadPack waits for a goroutine that it starts in the first round only. |

## Pushing: `ReceivePack`

Any number of clients run `Remote.PushContext` against one repository, each
served by a `ReceivePack` of its own; the references and objects of the server
(`refs`, `sobjs`) are shared.  A client reads the advertisement (`Handshake`),
turns its refspecs into commands with the checks for fast-forwards and leases
(`addReferencesToUpdate`, `Refused`), adds reachable tags, chooses the objects
(`hashesToPush`), sends the commands and the packfile in pieces and reads the
report.  The source of a refspec is a reference or a hash (`Source`), a lease may
name a reference and a hash (`checkForceWithLease`), and `RequireRemoteRefs` may
end the push early.  The server reads the commands, unpacks, checks and sets one
reference after the other (`CheckRef`, `SetRef`), and reports.  The encoder, the
unpacking and the reference operations (`RefFails`) may fail, and a client may
disappear.

The uses of `MCReceivePack`: pushes in turn, with `Prune`, `ForceWithLease`,
deletions and forced refspecs; pushes in turn of references and hashes, with
leases on one reference or a hash and with `RequireRemoteRefs`; two at once; two at
once that follow tags and may disappear; and two at once with failures on both
sides.

Bounds: two pushers, two branches and a tag, four commits with divergent tips,
a packfile of up to two pieces.  Two clients are enough for each lost-update
pattern, since the server compares a command with nothing but the existence of
the reference.  Fairness: every client and server goroutine takes its next
step; failures and disconnections are not assumed.

What the preconditions exclude, because the code does not provide it:

- Pushes that overlap may replace each other (`push_lost_update`), and with them
  fast-forwards and leases hold only against the advertisement.
- A lease is checked against the advertisement only, so it does not protect from a
  push that overlaps; it does not concern a refspec whose source is a hash.
- `Prune` deletes the reference to which a hash was just pushed, since no local
  reference is the source; `PushConverges` leaves that pair out.
- A push from a shallow repository leaves out what is below the boundary.
- When unpacking stops before the end of the packfile, client and server wait
  for each other on an unbuffered pipe; in the use with failures only a client that
  disappears ends this.
- `FollowTags` creates one command per update that reaches a tag; the second one
  fails, since the tag exists by then.
- The `atomic` capability is not used by the server; the model leaves it out.

| Run | Checks | What it shows |
|---|---|---|
| `push` | `TypeOK`, `ServerComplete`, `OkMeansApplied`, `OnlyFastForwards`, `LeaseHolds`, `PushSucceeds`, `PushReturns`, `PushConverges` | Two clients push to one repository: one after the other with references and hashes, force, deletion, pruning, leases and RequireRemoteRefs; at once; at once with followed tags and clients that disappear; and with failures of encoding, unpacking and of the server's references. No reference ever points to an incomplete history, success means that every command was carried out, pushes in turn end with what the refspecs ask and keep their leases, and every push returns unless the server gives up on a packfile. |

Runs whose property is violated (it states what the documentation says;
`findings` in `PROJECT.json` quotes it):

| Run | Property | What it shows |
|---|---|---|
| `push_lost_update` | `NoLostUpdate` | Two clients push different descendants of one commit, each with a lease that holds, and the second one replaces what the first one pushed. |

## The worktree: `Worktree`

State: `commits` (tree and first parent), `branches`, `head`, `index`, the
files `wt`, whether the one directory exists (`dir`), and what the last
operation returned (`last`).  A tree, the index and the files are functions
from paths to contents, because `merkletrie.DiffTree` compares them path by
path.  `Status` is the map of `Worktree.status`, built from the two
differences in the order of the code (`LeftEntry`, then `RightEntry`).

Each exported operation is one action with all that it does: `Checkout...`
moves HEAD and then runs `ResetTo`, which is `Worktree.Reset`; `Pull` moves the
branch first as `PullContext` does; `CherryPick` and `RemoveGlob` work file by
file, and when one fails the others before it are done.  `ResetIOError` is a
reset in which a file cannot be written.  `Write`, `Delete` and `DeleteDir` are
the user's editor.

Bounds: a file at the top and one of the same name in a directory, two
contents, a history of two commits and at most one more, two branches of which
one may not exist.  With two contents every relation between commit, index and
file (equal, different, missing) occurs for a path.  Two paths are needed for
operations that touch one file and not the other.  The first use of
`MCWorktree` has every operation on a repository with one branch, the second
one commits, cherry-picks and merges with an ignored path.  `FairSpec`, used by
the run that looks for a violated action property, assumes only that the user
continues.

What the properties leave out, because the code does not provide it:

- A hard reset deletes untracked files, and a checkout writes over those that
  exist and that the target commit has as well (`checkout_untracked`).
- `Checkout` and `Pull` move HEAD before the merge reset finds unstaged changes
  and stops, so HEAD has moved although the call failed.
- A merge reset discards what is staged.
- `Restore` with `Staged` and `Worktree` takes both from HEAD, where its comment
  names the index as the source.
- `CherryPick` applies the difference between the two trees, so that its result
  is the tree of the commit, or for `OursMergeStrategy` that of HEAD, rather than
  HEAD with the changes of the commit.

| Run | Checks | What it shows |
|---|---|---|
| `worktree` | `TypeOK`, `StatusFaithful`, `ResetConverges`, `UnstagedKept`, `OthersUntouched`, `FastForwardOnly`, `CommitExact`, `AddStages` | Every worktree operation, with edits and failing file writes in between, and new commits with an ignored path: the status is right, a reset recovers from anything, Add stages what is in the worktree whatever came before, unstaged work and other branches are left alone, a commit is exactly the index, and ignored files count only once they are tracked. |

Runs whose property is violated (it states what the documentation says;
`findings` in `PROJECT.json` quotes it):

| Run | Property | What it shows |
|---|---|---|
| `checkout_untracked` | `CheckoutKeepsUntracked` | A checkout without Force replaces an untracked file that the target commit also has. |

## What is proved

`SyncedReaderProofs` (theorems `Invariance`, `WakeNeverBlocks`,
`NothingLostInTime`, `ReadCounterIsOffset`) holds for any number of bytes and
seeks.  The property that matters is `SendMeetsReceive`: the writer's send on
the unbuffered channel always has a receiver.  It is not inductive: the proof
needs `Handshake`, which says when `blocked` may be set (only while the reader
is at its receive, or after the channel was closed), that only the writer about
to send clears it, and where the writer is while `done` is set.  With the types
and `NoBytesInHand` that is `IInv`, which the run `pack_pipe` also checks.
`NothingLostInTime` is `DrainedBeforeEOF`: `FoundInTime` implies `Draining` (the
writer is done, and a reader at the test of `isDone` has met the end of the pack),
which every step preserves and which implies `EOFIsFinal`.

`DotGitRefsProofs` (theorems `CASInvariance`, `CompareAndSet`) holds for any
processes, names, values, inodes and uses; the property itself says which uses
it is about (`CASOnly`: the processes run `CheckAndSetReference`, `Ref` and
`Refs`, none dies, and the filesystem can open files for reading and writing).
It says that a write happens only while the stored reference is the one that
the caller expected.  The invariant `CASInv` says, for each process
(`ProcessInv`), that from the open on its descriptor is the inode the name
refers to, that from the lock to the close it holds its lock, and that from the
comparison on the stored value is the expected one; and for each name
(`NameInv`) where the current value is: in the loose file, in `packed-refs`
when the file is missing or empty, or in the hands of the process that has
truncated the file.  The proof has a lemma for each action that touches those
variables and one for all that do not.  The run `refs` checks `CASInductive`,
the same invariant, on its instance.  The constants need `RefsAssumption` only
(the uses are well-formed and the special values distinct from the others).

Liveness, and the invariants of the other modules, are checked by TLC only.
The proof system does not handle liveness under fairness, nor induction over
recursive definitions.

## Not modelled, and next

Modelled in part: submodules, sparse checkout and symbolic links of the
worktree, deltas and alternates of the object storage, sideband messages and
the `atomic` and `push-options` capabilities of the protocols are left out of
the modules above; the notes in `PROJECT.json` say so for each component.

To be added, in this order; the components of 4 to 7 are pure and share an MC
module, with one run for walks and comparisons and one for formats:

1. `ReferenceUpdate`: what `Remote.fetch` does with references (refspecs, tags,
   pruning, force) after the transfer, and its composition with `Pull`.
2. `Transactional`: the overlay storages shown to implement a plain storage
   once committed (a refinement), with `memory` as the abstract one.
3. `ObjectLRU` and the ring of open pack descriptors: size accounting and
   eviction at the limit.
4. `Walkers`: pre-order, post-order, breadth-first and date-ordered commit
   walks, merge bases and revision lists, against graph reachability.
5. `MerkleDiff`: the double iterator against the set of differences, which
   `Worktree` takes for granted.
6. `PackParser` and `Delta`: resolution of delta chains, the encoder's choice
   of deltas, patching against a reference definition.
7. `Sideband` and `PktLine`, `IdxFile`, `Index`, `RefSpec`, `CommitGraph`,
   `Rename`: pure algorithms checked over bounded inputs.
8. Proofs: `HistoryComplete` of `UploadPack`, `OkMeansApplied` and
   `ServerComplete` of `ReceivePack`, `Durable` of `ObjectStorage`,
   `UnstagedKept` and `ResetConverges` of `Worktree`, and the refinement of
   `Transactional`.

Outside the project: authentication, dialling and request formats of the
network transports, parsers of text formats, signatures, diffs for display and
blame, which have no state of their own or only read.
