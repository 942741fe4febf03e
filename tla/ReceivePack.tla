---- MODULE ReceivePack ----
(***************************************************************************)
(* Pushing: Remote.PushContext with SendPack (remote.go,                   *)
(* plumbing/transport/push.go) against ReceivePack (receive_pack.go), for  *)
(* several clients that push to one repository at the same time.           *)
(*                                                                         *)
(* A push reads the advertised references, turns refspecs into commands    *)
(* with the checks for fast-forwards and leases, sends the commands and a  *)
(* packfile of Chunks pieces, and reads the report.  A write returns once  *)
(* at most Buf messages are unread.  The source of a refspec is the        *)
(* reference of the same name, or the hash of a commit; objects are        *)
(* commits, as in UploadPack.                                              *)
(***************************************************************************)
EXTENDS Integers, Sequences, FiniteSets

CONSTANTS
    Pushers,      \* the clients; each pushes once
    Refs, Commits, Nil,
    Anc,          \* commit -> the commits reachable from it
    Uses          \* the settings in which clients push, see UsesAssumption

RefMaps == [Refs -> Commits \cup {Nil}]

ASSUME CommitsAssumption ==
    /\ Anc \in [Commits -> SUBSET Commits]
    /\ \A c \in Commits : c \in Anc[c]
    /\ \A c \in Commits : \A d \in Anc[c] : Anc[d] \subseteq Anc[c]
    /\ Nil \notin Commits

\* A lease has the RefName and the Hash of ForceWithLease, or Nil for them.
Leases == [ref : Refs \cup {Nil}, hash : Commits \cup {Nil}]

\* A setting: the references of the server, those of each client and the
\* remote-tracking ones, the shallow commits of the clients, the requests
\* (sequences of [ref, kind, src], where src is the hash or Nil), the references
\* that are annotated tags, the values of the options Prune, ForceWithLease,
\* FollowTags and RequireRemoteRefs, whether the client opens the server's
\* storage to see what it has, the pieces of a packfile, the buffer of a
\* connection, and whether one push runs at a time, storing and encoding may fail
\* and clients may disappear.
ASSUME UsesAssumption ==
    \A u \in Uses :
        /\ u.local \in [Pushers -> SUBSET RefMaps]
        /\ u.server \cup u.tracking \subseteq RefMaps /\ u.shallow \subseteq Commits
        /\ \A sp \in u.specs : \A i \in 1..Len(sp) :
              sp[i] \in [ref : Refs, kind : {"update", "force", "delete"}, src : Commits \cup {Nil}]
        /\ \A i \in 1..Len(u.tags) : u.tags[i] \in Refs
        /\ u.prunes \cup u.follows \subseteq {0, 1} /\ u.leases \subseteq Leases \cup {Nil}
        /\ u.requires \subseteq [ref : Refs, is : Commits \cup Refs] \cup {Nil}
        /\ u.chunks \in Nat \ {0} /\ u.buf \in Nat

VARIABLES
    use,                                           \* the setting, which never changes
    refs, sobjs,                                   \* the server's repository
    local, tracking,                               \* the clients' references
    opts, adv, cmds, pack, left, result, cpc,      \* the pushes
    c2s, closed, report,                           \* the connections
    spc, got, idx, status, unpack,                 \* ReceivePack
    applied                                        \* auxiliary: what commands overwrote

client == <<use, local, tracking, opts, adv, cmds, pack, left, result, cpc>>
server == <<refs, sobjs, spc, got, idx, status, unpack, applied>>
vars == <<client, c2s, closed, report, server>>

Shallow == use.shallow
Tags == use.tags
Chunks == use.chunks

AncOf(S) == UNION {Anc[c] : c \in S}
Values(f) == {f[r] : r \in Refs} \ {Nil}

Init ==
    /\ use \in Uses
    /\ refs \in use.server /\ sobjs = AncOf(Values(refs))
    /\ local \in [Pushers -> RefMaps] /\ \A p \in Pushers : local[p] \in use.local[p]
    /\ tracking \in [Pushers -> use.tracking]
    /\ opts = [p \in Pushers |-> Nil] /\ adv = [p \in Pushers |-> Nil]
    /\ cmds = [p \in Pushers |-> <<>>] /\ pack = [p \in Pushers |-> {}] /\ left = [p \in Pushers |-> 0]
    /\ result = [p \in Pushers |-> "none"] /\ cpc = [p \in Pushers |-> "start"]
    /\ c2s = [p \in Pushers |-> <<>>] /\ closed = [p \in Pushers |-> "no"]
    /\ report = [p \in Pushers |-> Nil]
    /\ spc = [p \in Pushers |-> "commands"] /\ got = [p \in Pushers |-> 0]
    /\ idx = [p \in Pushers |-> 1] /\ status = [p \in Pushers |-> <<>>]
    /\ unpack = [p \in Pushers |-> "ok"] /\ applied = [p \in Pushers |-> <<>>]

----------------------------------------------------------------------------
(* The client: from refspecs to commands. *)

Cmd(r, old, new) == [name |-> r, old |-> old, new |-> new]

Action(c) == CASE c.old = Nil -> "create" [] c.new = Nil -> "delete" [] OTHER -> "update"

\* The commits in the client's storage: none below its shallow commits.
ClientHas(p) ==
    AncOf(Values(local[p]) \cup Values(tracking[p])) \ (AncOf(Shallow) \ Shallow)

\* Mutant of isFastForward: the walk starts at every reference of the client.
isFastForwardAnywhere(p, old, new) == old = Nil \/ old \in ClientHas(p)

\* checkFastForwardUpdate: old is met on the way down from new.
isFastForward(p, old, new) == old = Nil \/ old \in Anc[new] \cap ClientHas(p)

\* deleteReferences: only what was advertised can be deleted.
DeleteCmd(a, r) == IF a[r] = Nil THEN <<>> ELSE <<Cmd(r, a[r], Nil)>>

\* What a refspec pushes: the local reference, or the object with the hash, if
\* the client has it.
Source(p, sp) ==
    CASE sp.src = Nil -> local[p][sp.ref]
      [] sp.src \in ClientHas(p) -> sp.src
      [] OTHER -> Nil

\* addReferenceIfRefSpecMatches and addObject; the old value is the advertised one.
UpdateCmd(p, a, sp) ==
    IF Source(p, sp) \in {Nil, a[sp.ref]} THEN <<>> ELSE <<Cmd(sp.ref, a[sp.ref], Source(p, sp))>>

\* Mutant of PruneCmd: it does not ask whether the reference exists locally.
PruneCmdAll(p, a, sp) == DeleteCmd(a, sp.ref)

\* With Prune an advertised reference is deleted unless the source of the refspec
\* is a local reference; a hash never is.
PruneCmd(p, a, sp) ==
    IF sp.src = Nil /\ local[p][sp.ref] # Nil THEN <<>> ELSE DeleteCmd(a, sp.ref)

SpecCmd(p, a, sp, prune) ==
    CASE sp.kind = "delete" -> DeleteCmd(a, sp.ref)
      [] prune = 1 -> UpdateCmd(p, a, sp) \o PruneCmd(p, a, sp)
      [] OTHER -> UpdateCmd(p, a, sp)

\* Mutant of checkForceWithLease: without a Hash nothing is compared.
checkForceWithLeaseHash(p, l, r, old) ==
    tracking[p][r] # Nil /\ (l.ref \in {Nil, r} /\ l.hash # Nil => old = l.hash)

\* There must be a remote-tracking reference; a lease on all references, or on
\* this one, is about the Hash or else about the value of that reference.
checkForceWithLease(p, l, r, old) ==
    /\ tracking[p][r] # Nil
    /\ l.ref \in {Nil, r} => old = IF l.hash = Nil THEN tracking[p][r] ELSE l.hash

\* A refspec is refused: the lease does not hold, or without a lease (which does
\* not concern a hash) and without force it is not a fast-forward.
Refused(p, a, sp, o) ==
    /\ sp.kind # "delete" /\ Source(p, sp) \notin {Nil, a[sp.ref]}
    /\ IF o.lease # Nil /\ sp.src = Nil
       THEN ~checkForceWithLease(p, o.lease, sp.ref, a[sp.ref])
       ELSE sp.kind = "update" /\ ~isFastForward(p, a[sp.ref], Source(p, sp))

\* RequireRemoteRefs: a reference must be there with the hash, or with the value
\* of another one.
checkRequireRemoteRefs(a, q) ==
    a[q.ref] # Nil /\ a[q.ref] = IF q.is \in Refs THEN a[q.is] ELSE q.is

Concat(ss) == LET f[i \in 0..Len(ss)] == IF i = 0 THEN <<>> ELSE f[i - 1] \o ss[i] IN f[Len(ss)]

addReferencesToUpdate(p, a, o) ==
    Concat([i \in 1..Len(o.specs) |-> SpecCmd(p, a, o.specs[i], o.prune)])

\* addReachableTags: a tag that differs from the remote's is created for each
\* command whose new commit reaches it; a command without a commit is an error.
TagsToPush(p, a) == {i \in 1..Len(Tags) : local[p][Tags[i]] \notin {Nil, a[Tags[i]]}}
IsTag(r) == \E i \in 1..Len(Tags) : Tags[i] = r

TagCmd(p, a, t, c) ==
    IF t \in TagsToPush(p, a) /\ ~IsTag(c.name) /\ c.new # Nil /\ local[p][Tags[t]] \in Anc[c.new]
    THEN <<Cmd(Tags[t], Nil, local[p][Tags[t]])>> ELSE <<>>

addReachableTags(p, a, cs) ==
    cs \o Concat([t \in 1..Len(Tags) |-> Concat([i \in 1..Len(cs) |-> TagCmd(p, a, t, cs[i])])])

TagsFail(p, a, cs) ==
    TagsToPush(p, a) # {} /\ \E i \in 1..Len(cs) : ~IsTag(cs[i].name) /\ cs[i].new = Nil

\* The commands of a push.
Commands(p, a, o) ==
    LET cs == addReferencesToUpdate(p, a, o)
    IN  IF o.follow = 1 THEN addReachableTags(p, a, cs) ELSE cs

NewHashes(cs) == {cs[i].new : i \in 1..Len(cs)} \ {Nil}

\* Mutant of hashesToPush: the remote-tracking references stand for the remote's.
hashesToPushStale(p, a, cs) == AncOf(NewHashes(cs)) \ AncOf(Values(tracking[p]))

\* revlist.Objects(r.s, objects, haves): the haves are what was advertised, and
\* the shallow commits of the client; one that is in neither storage is left out.
hashesToPush(p, a, cs) ==
    AncOf(NewHashes(cs))
      \ AncOf((Values(a) \cup Shallow) \cap (IF use.localEndpoint = 1 THEN sobjs ELSE ClientHas(p)))

\* Mutant of allDelete: the refspecs decide alone.
allDeleteBySpecs(p, a, o, cs) == \A i \in 1..Len(o.specs) : o.specs[i].kind = "delete"

\* allDelete of sendPack, as it is after the objects are listed (refspecs that
\* only delete list none).
allDelete(p, a, o, cs) ==
    hashesToPush(p, a, cs) = {} /\ \A i \in 1..Len(cs) : Action(cs[i]) = "delete"

NeedPackfile(cs) == \E i \in 1..Len(cs) : Action(cs[i]) # "delete"

Quiet == \A q \in Pushers : cpc[q] \in {"start", "done"} /\ spc[q] \in {"commands", "sent"}

\* Handshake: the server advertises its references, which the client turns
\* into commands on its own.
Handshake(p) ==
    /\ cpc[p] = "start"
    /\ use.serial = 1 => Quiet
    /\ \E specs \in use.specs, prune \in use.prunes, lease \in use.leases, follow \in use.follows,
         require \in use.requires :
         LET o == [specs |-> specs, prune |-> prune, lease |-> lease, follow |-> follow,
                   require |-> require]
         IN  /\ opts' = [opts EXCEPT ![p] = o]
             /\ cmds' = [cmds EXCEPT ![p] = Commands(p, refs, o)]
    /\ adv' = [adv EXCEPT ![p] = refs]
    /\ cpc' = [cpc EXCEPT ![p] = "build"]
    /\ UNCHANGED <<use, local, tracking, pack, left, result, c2s, closed, report, server>>

Return(p, res) ==
    /\ result' = [result EXCEPT ![p] = res]
    /\ cpc' = [cpc EXCEPT ![p] = "done"]

Refuses(p) ==
    \/ opts[p].require # Nil /\ ~checkRequireRemoteRefs(adv[p], opts[p].require)
    \/ \E i \in 1..Len(opts[p].specs) : Refused(p, adv[p], opts[p].specs[i], opts[p])

TagsRefuse(p) == opts[p].follow = 1 /\ TagsFail(p, adv[p], cmds[p])

\* The push ends before anything is sent: the remote is not as required, an
\* update is refused, a tag cannot be followed, or there is nothing to do.  The connection stays open.
Stop(p) ==
    /\ cpc[p] = "build"
    /\ \/ Refuses(p) /\ Return(p, "refused")
       \/ ~Refuses(p) /\ TagsRefuse(p) /\ Return(p, "error")
       \/ ~Refuses(p) /\ cmds[p] = <<>> /\ Return(p, "uptodate")
    /\ UNCHANGED <<use, local, tracking, opts, adv, cmds, pack, left, c2s, closed, report, server>>

\* pushHashes starts the goroutine that encodes the packfile unless allDelete,
\* and SendPack writes the commands.  It returns an error instead if there is a
\* packfile that is not needed, or none that is.
SendCommands(p) ==
    /\ cpc[p] = "build" /\ ~Refuses(p) /\ ~TagsRefuse(p)
    /\ cmds[p] # <<>>
    /\ LET noPack == allDelete(p, adv[p], opts[p], cmds[p])
       IN  IF NeedPackfile(cmds[p]) = noPack
           THEN Return(p, "error") /\ UNCHANGED <<pack, left, c2s>>
           ELSE /\ pack' = [pack EXCEPT ![p] = hashesToPush(p, adv[p], cmds[p])]
                /\ left' = [left EXCEPT ![p] = IF noPack THEN 0 ELSE Chunks]
                /\ c2s' = [c2s EXCEPT ![p] = <<"commands">>]
                /\ cpc' = [cpc EXCEPT ![p] = "pack"]
                /\ UNCHANGED result
    /\ UNCHANGED <<use, local, tracking, opts, adv, cmds, closed, report, server>>

Written(p) == Len(c2s[p]) <= use.buf

SendChunk(p) ==
    /\ cpc[p] = "pack" /\ left[p] > 0 /\ Written(p) /\ closed[p] = "no"
    /\ c2s' = [c2s EXCEPT ![p] = Append(@, "chunk")]
    /\ left' = [left EXCEPT ![p] = @ - 1]
    /\ UNCHANGED <<use, local, tracking, opts, adv, cmds, pack, result, cpc, closed, report, server>>

\* Mutant of EndRequest: the writer is not closed.
EndRequestOpen(p) ==
    /\ cpc[p] = "pack" /\ left[p] = 0 /\ Written(p)
    /\ cpc' = [cpc EXCEPT ![p] = "report"]
    /\ UNCHANGED <<use, local, tracking, opts, adv, cmds, pack, left, result, c2s, closed, report, server>>

\* writer.Close ends the request.
EndRequest(p) ==
    /\ cpc[p] = "pack" /\ left[p] = 0 /\ Written(p)
    /\ closed' = [closed EXCEPT ![p] = "eof"]
    /\ cpc' = [cpc EXCEPT ![p] = "report"]
    /\ UNCHANGED <<use, local, tracking, opts, adv, cmds, pack, left, result, c2s, report, server>>

\* The encoder fails: SendPack returns its error, and leaves the connection open.
\* pushHashes closes the pipe, so that the goroutine of the encoder ends.
EncodeFails(p) ==
    /\ use.fails = 1 /\ cpc[p] = "pack" /\ left[p] > 0
    /\ Return(p, "error")
    /\ UNCHANGED <<use, local, tracking, opts, adv, cmds, pack, left, c2s, closed, report, server>>

\* The process of the client ends, perhaps in the middle of the push.
Disconnect(p) ==
    /\ use.drops = 1 /\ cpc[p] # "start" /\ closed[p] = "no"
    /\ closed' = [closed EXCEPT ![p] = "eof"]
    /\ IF cpc[p] = "done" THEN UNCHANGED <<result, cpc>> ELSE Return(p, "error")
    /\ UNCHANGED <<use, local, tracking, opts, adv, cmds, pack, left, c2s, report, server>>

\* The last of the commands on r.
LastOn(p, r) == CHOOSE i \in 1..Len(cmds[p]) :
                    cmds[p][i].name = r /\ \A j \in (i + 1)..Len(cmds[p]) : cmds[p][j].name # r

\* updateRemoteReferenceStorage follows the commands; the configured refspec is
\* the one of the branches.
NewTracking(p) ==
    [r \in Refs |-> IF ~IsTag(r) /\ \E i \in 1..Len(cmds[p]) : cmds[p][i].name = r
                    THEN cmds[p][LastOn(p, r)].new
                    ELSE tracking[p][r]]

\* The report is read; ReportStatus.Error is nil when everything in it is ok.
ReadReport(p) ==
    /\ cpc[p] = "report" /\ report[p] # Nil
    /\ LET ok == /\ report[p].unpack = "ok"
                 /\ \A i \in 1..Len(report[p].status) : report[p].status[i] = "ok"
       IN  /\ Return(p, IF ok THEN "ok" ELSE "error")
           /\ tracking' = [tracking EXCEPT ![p] = IF ok THEN NewTracking(p) ELSE @]
    /\ UNCHANGED <<use, local, opts, adv, cmds, pack, left, c2s, closed, report, server>>

----------------------------------------------------------------------------
(* The server. *)

GoTo(p, where) == spc' = [spc EXCEPT ![p] = where]

ReadCommands(p) ==
    /\ spc[p] = "commands" /\ c2s[p] # <<>>
    /\ c2s' = [c2s EXCEPT ![p] = Tail(@)]
    /\ GoTo(p, IF NeedPackfile(cmds[p]) THEN "unpack" ELSE "check")
    /\ UNCHANGED <<client, closed, report, refs, sobjs, got, idx, status, unpack, applied>>

\* The client left without a request.
NoCommands(p) ==
    /\ spc[p] = "commands" /\ c2s[p] = <<>> /\ closed[p] = "eof"
    /\ GoTo(p, "sent")
    /\ UNCHANGED <<client, c2s, closed, report, refs, sobjs, got, idx, status, unpack, applied>>

UnpackChunk(p) ==
    /\ spc[p] = "unpack" /\ c2s[p] # <<>>
    /\ c2s' = [c2s EXCEPT ![p] = Tail(@)]
    /\ got' = [got EXCEPT ![p] = @ + 1]
    /\ UNCHANGED <<client, closed, report, refs, sobjs, spc, idx, status, unpack, applied>>

\* UpdateObjectStorage reads up to the end of the stream and stores a packfile
\* that is complete.
UnpackDone(p) ==
    /\ spc[p] = "unpack" /\ c2s[p] = <<>> /\ closed[p] = "eof"
    /\ IF got[p] = Chunks
       THEN /\ sobjs' = sobjs \cup pack[p]
            /\ GoTo(p, "check") /\ UNCHANGED unpack
       ELSE /\ unpack' = [unpack EXCEPT ![p] = "error"]
            /\ GoTo(p, "report") /\ UNCHANGED sobjs
    /\ UNCHANGED <<client, c2s, closed, report, refs, got, idx, status, applied>>

\* A failure to store the packfile; what the client still sends is not read.
UnpackFails(p) ==
    /\ use.fails = 1 /\ spc[p] = "unpack"
    /\ unpack' = [unpack EXCEPT ![p] = "error"]
    /\ GoTo(p, "report")
    /\ UNCHANGED <<client, c2s, closed, report, refs, sobjs, got, idx, status, applied>>

Current(p) == cmds[p][idx[p]]

\* referenceExists, and the condition of each kind of command.
Acceptable(p) == IF Action(Current(p)) = "create" THEN refs[Current(p).name] = Nil
                 ELSE refs[Current(p).name] # Nil

\* Mutant of Answered: only failures are recorded.
AnsweredFailures(p, st) ==
    /\ status' = [status EXCEPT ![p] = IF st = "ok" THEN @ ELSE Append(@, st)]
    /\ idx' = [idx EXCEPT ![p] = @ + 1]

Answered(p, st) ==
    /\ status' = [status EXCEPT ![p] = Append(@, st)]
    /\ idx' = [idx EXCEPT ![p] = @ + 1]

CheckRef(p) ==
    /\ spc[p] = "check" /\ idx[p] <= Len(cmds[p]) /\ Acceptable(p)
    /\ GoTo(p, "set")
    /\ UNCHANGED <<client, c2s, closed, report, refs, sobjs, got, idx, status, unpack, applied>>

RejectRef(p) ==
    /\ spc[p] = "check" /\ idx[p] <= Len(cmds[p]) /\ ~Acceptable(p)
    /\ Answered(p, "ng")
    /\ applied' = [applied EXCEPT ![p] = Append(@, "nothing")]
    /\ UNCHANGED <<client, c2s, closed, report, refs, sobjs, spc, got, unpack>>

\* SetReference or RemoveReference.
SetRef(p) ==
    /\ spc[p] = "set"
    /\ refs' = [refs EXCEPT ![Current(p).name] = Current(p).new]
    /\ applied' = [applied EXCEPT ![p] = Append(@, refs[Current(p).name])]
    /\ Answered(p, "ok")
    /\ GoTo(p, "check")
    /\ UNCHANGED <<client, c2s, closed, report, sobjs, got, unpack>>

\* Mutant of RefFails: the error of the storage is dropped.
RefFailsSilent(p) ==
    /\ use.fails = 1 /\ spc[p] \in {"check", "set"} /\ idx[p] <= Len(cmds[p])
    /\ refs' = refs
    /\ applied' = [applied EXCEPT ![p] = Append(@, "nothing")]
    /\ Answered(p, "ok")
    /\ GoTo(p, "check")
    /\ UNCHANGED <<client, c2s, closed, report, sobjs, got, unpack>>

\* referenceExists, SetReference or RemoveReference fails, the latter two
\* perhaps after they have changed the reference.
RefFails(p) ==
    /\ use.fails = 1 /\ spc[p] \in {"check", "set"} /\ idx[p] <= Len(cmds[p])
    /\ \/ refs' = refs /\ applied' = [applied EXCEPT ![p] = Append(@, "nothing")]
       \/ /\ spc[p] = "set"
          /\ refs' = [refs EXCEPT ![Current(p).name] = Current(p).new]
          /\ applied' = [applied EXCEPT ![p] = Append(@, refs[Current(p).name])]
    /\ Answered(p, "ng")
    /\ GoTo(p, "check")
    /\ UNCHANGED <<client, c2s, closed, report, sobjs, got, unpack>>

UpdatesDone(p) ==
    /\ spc[p] = "check" /\ idx[p] > Len(cmds[p])
    /\ GoTo(p, "report")
    /\ UNCHANGED <<client, c2s, closed, report, refs, sobjs, got, idx, status, unpack, applied>>

\* sendReportStatus: the first error of any command is also reported as the
\* status of the unpacking.
SendReport(p) ==
    /\ spc[p] = "report"
    /\ report' = [report EXCEPT ![p] =
         [unpack |-> IF \A i \in 1..Len(status[p]) : status[p][i] = "ok" THEN unpack[p] ELSE "error",
          status |-> status[p]]]
    /\ GoTo(p, "sent")
    /\ UNCHANGED <<client, c2s, closed, refs, sobjs, got, idx, status, unpack, applied>>

----------------------------------------------------------------------------

ClientStep(p) ==
    \/ Handshake(p) \/ Stop(p) \/ SendCommands(p) \/ SendChunk(p) \/ EndRequest(p) \/ ReadReport(p)

ServerStep(p) ==
    \/ ReadCommands(p) \/ NoCommands(p) \/ UnpackChunk(p) \/ UnpackDone(p)
    \/ CheckRef(p) \/ RejectRef(p) \/ SetRef(p) \/ UpdatesDone(p) \/ SendReport(p)

Failure(p) == EncodeFails(p) \/ Disconnect(p) \/ UnpackFails(p) \/ RefFails(p)

\* Every client is back.
Terminated == (\A p \in Pushers : cpc[p] = "done") /\ UNCHANGED vars

Next == (\E p \in Pushers : ClientStep(p) \/ ServerStep(p) \/ Failure(p)) \/ Terminated

Spec == Init /\ [][Next]_vars

\* Both ends run, and neither has to fail.
FairSpec == Spec /\ \A p \in Pushers : WF_vars(ClientStep(p)) /\ WF_vars(ServerStep(p))

----------------------------------------------------------------------------

\* Every variable has its type.
TypeOK ==
    /\ refs \in RefMaps /\ sobjs \subseteq Commits
    /\ use \in Uses /\ local \in [Pushers -> RefMaps]
    /\ tracking \in [Pushers -> RefMaps]
    /\ \A p \in Pushers : adv[p] = Nil \/ adv[p] \in RefMaps
    /\ pack \in [Pushers -> SUBSET Commits] /\ left \in [Pushers -> 0..Chunks] /\ got \in [Pushers -> 0..Chunks]
    /\ result \in [Pushers -> {"none", "ok", "error", "refused", "uptodate"}]
    /\ cpc \in [Pushers -> {"start", "build", "pack", "report", "done"}]
    /\ closed \in [Pushers -> {"no", "eof"}]
    /\ spc \in [Pushers -> {"commands", "unpack", "check", "set", "report", "sent"}]
    /\ \A p \in Pushers : idx[p] \in 1..(Len(cmds[p]) + 1) /\ Len(status[p]) = idx[p] - 1
    /\ unpack \in [Pushers -> {"ok", "error"}]

\* Every reference of the server points to a commit that the server has with
\* all that is reachable from it (packp/doc.go: the packfile "should contain all
\* the objects that the server will need to complete the new references"),
\* unless clients are shallow.
ServerComplete ==
    Shallow = {} => \A r \in Refs : refs[r] # Nil => Anc[refs[r]] \subseteq sobjs

\* When a push returns without an error each of its commands was carried out,
\* none of them failed in the server's storage, and the remote-tracking
\* references have the values that were sent last.
OkMeansApplied ==
    \A p \in Pushers : result[p] = "ok" =>
        /\ Len(applied[p]) = Len(cmds[p])
        /\ \A i \in 1..Len(cmds[p]) :
              /\ applied[p][i] # "nothing"
              /\ \/ IsTag(cmds[p][i].name)
                 \/ tracking[p][cmds[p][i].name] = cmds[p][LastOn(p, cmds[p][i].name)].new

\* A command only replaces the value that the client saw (packp/doc.go: the
\* server will "validate each reference that is being updated that it hasn't
\* changed while the request was being processed").
NoLostUpdate ==
    \A p \in Pushers : \A i \in 1..Len(applied[p]) :
        applied[p][i] \in {"nothing", cmds[p][i].old}

\* What a refspec asks for: the value of its source, nothing for a deletion and
\* for what is pruned, and no change if there is no such source.
Asked(p, sp) ==
    CASE sp.kind = "delete" -> Nil
      [] Source(p, sp) # Nil -> Source(p, sp)
      [] opts[p].prune = 1 -> Nil
      [] OTHER -> adv[p][sp.ref]

\* A push that is the only one and returns "ok" or "already up-to-date" leaves
\* every reference of its refspecs on the server as they ask, through commands,
\* packfile, checks and report.  With Prune this is not about hashes: PushContext
\* pushes them and then deletes the reference (remote.go:584-588, 650).
PushConverges ==
    [][use.serial = 1 => \A p \in Pushers :
         cpc[p] # "done" /\ result'[p] \in {"ok", "uptodate"} =>
             \A i \in 1..Len(opts[p].specs) :
                 LET sp == opts[p].specs[i]
                 IN  \/ opts[p].prune = 1 /\ sp.src # Nil
                     \/ refs'[sp.ref] = Asked(p, sp)]_vars

\* Among pushes that do not overlap, without force and without a lease, a
\* reference only moves to a descendant (remote.go:742-746, 694-698).
OnlyFastForwards ==
    use.serial = 1 => \A p \in Pushers : \A i \in 1..Len(applied[p]) :
        LET c == cmds[p][i]
            forced == \E j \in 1..Len(opts[p].specs) :
                        LET sp == opts[p].specs[j]
                        IN  /\ sp.ref = c.name
                            /\ sp.kind = "force" \/ (opts[p].lease # Nil /\ sp.src = Nil)
        IN  forced \/ c.new = Nil \/ applied[p][i] = "nothing" \/ applied[p][i] \in Anc[c.new] \cup {Nil}

\* The value that a lease lets p replace, if it is about r.
Leased(p, r) == IF opts[p].lease.hash = Nil THEN tracking[p][r] ELSE opts[p].lease.hash

\* And with ForceWithLease a reference that the lease is about is replaced by a
\* local one only if it has the Hash of the lease, or else the value of the
\* remote-tracking reference (remote.go:752-775).
LeaseHolds ==
    use.serial = 1 => \A p \in Pushers : \A i \in 1..Len(applied[p]) :
        LET c == cmds[p][i]
        IN  /\ opts[p].lease # Nil /\ result[p] = "none" /\ c.new # Nil
            /\ opts[p].lease.ref \in {Nil, c.name}
            /\ \E j \in 1..Len(opts[p].specs) :
                  opts[p].specs[j].ref = c.name /\ opts[p].specs[j].src = Nil
            => applied[p][i] \in {"nothing", Leased(p, c.name)}

\* A push that is the only one, that nothing disturbs and that follows no tags,
\* is refused by the client or carried out: what sendPack prepares is acceptable
\* to SendPack (a packfile if and only if a command needs one) and to
\* updateReferences.
PushSucceeds ==
    use.serial = 1 /\ use.fails = 0 /\ use.drops = 0 /\ Tags = <<>> =>
        \A p \in Pushers : result[p] # "error"

\* Every push returns, over connections without a buffer, as long as the
\* server reads the packfile to its end.
PushReturns == use.fails = 0 => \A p \in Pushers : <>(cpc[p] = "done")

====
