---- MODULE UploadPack ----
(***************************************************************************)
(* Fetching: the client's NegotiatePack and FetchPack                      *)
(* (plumbing/transport/negotiate.go, fetch.go) against the server's        *)
(* UploadPack (upload_pack.go), over a pipe or over HTTP.                  *)
(*                                                                         *)
(* Objects are commits: what revlist.Objects computes is a set of hashes   *)
(* closed under reachability, and Anc[c] is what is reachable from c.      *)
(* c2s and s2c are the two directions of the connection.  A write returns  *)
(* once at most Buf messages are unread: Buf = 0 is the io.Pipe of the     *)
(* file transport.  With Stateless = 1 each round of the client is an HTTP *)
(* request to a new UploadPack (http/common.go, requester).                *)
(***************************************************************************)
EXTENDS Integers, Sequences, FiniteSets

CONSTANTS
    Commits,      \* commit hashes
    Parents,      \* commit -> sequence of its parents
    Anc,          \* commit -> the commits reachable from it
    ServerSets,   \* the sets of commits the server may have
    Uses,         \* the kinds of fetches, see Use
    Nil

\* A kind of fetch: the <<commits, shallow commits>> the client may start
\* with, the haves it has at most (getHaves limits them to 100 for each ref),
\* those it sends in a round (32 in the code), maxInVein (256), the modes and
\* depths it may ask for, the hashes that fit the server's bufio.Reader (4096
\* bytes), the connection, and whether unpacking may fail and wants may be stale.
Use ==
    [clients : SUBSET ((SUBSET Commits) \X (SUBSET Commits)), maxHaves : Nat,
     batch : Nat \ {0}, maxInVein : Nat, modes : SUBSET {"single", "multi", "detailed"},
     depths : SUBSET Nat, rdBuf : Nat, buf : Nat, stateless : {0, 1},
     fails : {0, 1}, stale : {0, 1}]

ASSUME GraphAssumption ==
    /\ Parents \in [Commits -> Seq(Commits)]
    /\ Anc \in [Commits -> SUBSET Commits]
    /\ \A c \in Commits : c \in Anc[c]
    /\ \A c \in Commits : \A i \in 1..Len(Parents[c]) : Parents[c][i] \in Anc[c]
    /\ \A c \in Commits : \A d \in Anc[c] : Anc[d] \subseteq Anc[c]

ASSUME SetsAssumption ==
    /\ ServerSets \subseteq SUBSET Commits
    /\ \A S \in ServerSets : \A c \in S : Anc[c] \subseteq S
    /\ \A u \in Uses : u \in Use

VARIABLES
    use,                                        \* the kind of fetch, which never changes
    cobjs, cshallow,                            \* the client's storage
    wants, depth, mode, haves,                  \* the FetchRequest
    cpc, rd, round, batch, inVein, gotContinue, done, info, result,
    said,                                       \* the haves sent so far (auxiliary)
    c2s, s2c, closed,                           \* the connection
    sobjs, spc, writec, sround, req, shaves, sbatch, sdone

request == <<use, wants, depth, mode>>
store == <<cobjs, cshallow>>
client == <<haves, cpc, rd, round, batch, inVein, gotContinue, done, info, result, said>>
server == <<sobjs, spc, writec, sround, req, shaves, sbatch, sdone>>
vars == <<request, store, client, c2s, s2c, closed, server>>

Stateless == use.stateless
Buf == use.buf
Batch == use.batch

AncOf(S) == UNION {Anc[c] : c \in S}

ParentsOf(c) == {Parents[c][i] : i \in 1..Len(Parents[c])}

Range(s) == {s[i] : i \in 1..Len(s)}

\* Mutant of objectsToUpload: a client that has something gets the wants alone.
objectsToUploadTips(w, h) == IF h = {} THEN AncOf(w) ELSE w \ AncOf(h \cap sobjs)

\* What revlist.Objects(st, wants, haves) returns: haves that the server does
\* not have are skipped.
objectsToUpload(w, h) == AncOf(w) \ AncOf(h \cap sobjs)

----------------------------------------------------------------------------
(* getShallowCommits.  Its depths are keyed by pointers that are new for   *)
(* every parent, so a commit is walked once for every path to it, and the  *)
(* second parents.Next of the loop skips every other parent.               *)

WalkedParents(c) == {Parents[c][i] : i \in {j \in 1..Len(Parents[c]) : j % 2 = 1}}

Level(heads) ==
    LET f[d \in Nat \ {0}] ==
          IF d = 1 THEN heads ELSE UNION {WalkedParents(c) : c \in f[d - 1]}
    IN  f

getShallowCommits(heads, n) ==
    [shallows |-> Level(heads)[n],
     unshallows |-> UNION {Level(heads)[d] : d \in 1..(n - 1)}]

\* updateShallow of fetch.go.
updateShallow(old, upd) == (old \cup upd.shallows) \ upd.unshallows

----------------------------------------------------------------------------
(* The client.  getWants asks for the advertised commits that are missing, *)
(* and in a shallow repository for all of them unless the depth is 1;      *)
(* getHaves lists commits of the client in no particular order.            *)

Wanted(has, shal, srv, dep) ==
    {c \in Commits : /\ c \in srv \/ use.stale = 1
                     /\ c \notin has \/ (shal # {} /\ dep # 1)}

HavesLists(S) ==
    UNION {{h \in [1..n -> S] : \A i, j \in 1..n : i # j => h[i] # h[j]} : n \in 0..use.maxHaves}

InitWith(cs, srv, w, hs, dep, md) ==
    /\ cobjs = cs[1] /\ cshallow = cs[2]
    /\ sobjs = srv /\ wants = w /\ haves = hs /\ depth = dep /\ mode = md
    /\ cpc = "round" /\ rd = "none" /\ round = 1 /\ batch = {} /\ inVein = 0
    /\ gotContinue = 0 /\ done = 0 /\ info = Nil /\ result = "none" /\ said = {}
    /\ c2s = <<>> /\ s2c = <<>> /\ closed = "no"
    /\ spc = IF Stateless = 1 THEN "idle" ELSE "loop"
    /\ writec = "none" /\ sround = 1 /\ req = Nil /\ shaves = {} /\ sbatch = {} /\ sdone = 0

Init ==
    /\ use \in Uses
    /\ \E cs \in use.clients, srv \in ServerSets, dep \in use.depths, md \in use.modes :
         \E w \in (SUBSET Wanted(cs[1], cs[2], srv, dep)) \ {{}}, hs \in HavesLists(cs[1]) :
           InitWith(cs, srv, w, hs, dep, md)

Written(q) == Len(q) <= Buf
CWritten == Stateless = 1 \/ Written(c2s)

\* The pipe to the server is closed, and a write to it fails.
HungUpOn == Stateless = 0 /\ closed = "yes"

Taken == IF Len(haves) < Batch THEN Len(haves) ELSE Batch

\* upreq.Shallows, which is only filled in for a request with a depth.
SentShallows == IF depth > 0 THEN cshallow ELSE {}

LastHaves == {haves[i] : i \in (Len(haves) - Taken + 1)..Len(haves)}

\* The request is pointless: the client says that it has all it wants.
Pointless ==
    /\ SentShallows = {}
    /\ wants \subseteq (IF round = 1 THEN Range(haves) ELSE LastHaves)

NoChange ==
    /\ cpc = "round" /\ CWritten /\ Pointless
    /\ c2s' = (IF Stateless = 1 THEN <<>> ELSE c2s) \o <<[k |-> "flush"]>>
    /\ cpc' = "done" /\ result' = "nochange"
    /\ spc' = IF Stateless = 1 THEN "loop" ELSE spc
    /\ UNCHANGED <<request, store, haves, rd, round, batch, inVein, gotContinue, done, info, said,
                   s2c, closed, sobjs, writec, sround, req, shaves, sbatch, sdone>>

Upreq == [k |-> "upreq", wants |-> wants, depth |-> depth, mode |-> mode]

\* Mutant of SendRequest: an empty list of haves does not end the negotiation.
SendRequestNeverDone ==
    /\ cpc = "round" /\ CWritten /\ ~Pointless
    /\ batch' = LastHaves
    /\ haves' = SubSeq(haves, 1, Len(haves) - Taken)
    /\ inVein' = inVein + Taken
    /\ done' = IF gotContinue = 1 /\ inVein + Taken >= use.maxInVein THEN 1 ELSE 0
    /\ c2s' = IF round = 1 /\ Stateless = 0 THEN Append(c2s, Upreq) ELSE c2s
    /\ cpc' = "haves"
    /\ UNCHANGED <<request, store, rd, round, gotContinue, info, result, said, s2c, closed, server>>

\* Mutant of SendRequest: inVein counts a full round, whatever was taken.
SendRequestCountsBatch ==
    /\ cpc = "round" /\ CWritten /\ ~Pointless
    /\ batch' = LastHaves
    /\ haves' = SubSeq(haves, 1, Len(haves) - Taken)
    /\ inVein' = inVein + Batch
    /\ done' = IF Len(haves) = Taken \/ (gotContinue = 1 /\ inVein + Batch >= use.maxInVein)
               THEN 1 ELSE 0
    /\ c2s' = IF round = 1 /\ Stateless = 0 THEN Append(c2s, Upreq) ELSE c2s
    /\ cpc' = "haves"
    /\ UNCHANGED <<request, store, rd, round, gotContinue, info, result, said, s2c, closed, server>>

\* A new round: the last haves leave the list, and in the first one the
\* upload-request is sent.  Over HTTP it goes to the buffer of the requester in
\* every round, and is posted with the haves.
SendRequest ==
    /\ cpc = "round" /\ CWritten /\ ~Pointless
    /\ batch' = LastHaves
    /\ haves' = SubSeq(haves, 1, Len(haves) - Taken)
    /\ inVein' = inVein + Taken
    /\ done' = IF Len(haves) = Taken \/ (gotContinue = 1 /\ inVein + Taken >= use.maxInVein)
               THEN 1 ELSE 0
    /\ c2s' = IF round = 1 /\ Stateless = 0 THEN Append(c2s, Upreq) ELSE c2s
    /\ cpc' = "haves"
    /\ UNCHANGED <<request, store, rd, round, gotContinue, info, result, said, s2c, closed, server>>

\* The haves of the round.  The goroutine that reads the shallow update is
\* started before they are written; over HTTP the request is posted first, and
\* the answer replaces that of the round before.
SendHaves ==
    /\ cpc = "haves" /\ CWritten /\ ~HungUpOn
    /\ c2s' = (IF Stateless = 1 THEN <<Upreq>> ELSE c2s)
              \o <<[k |-> "haves", haves |-> batch, done |-> done]>>
    /\ said' = said \cup batch
    /\ rd' = "shallows" /\ cpc' = "answer"
    /\ IF Stateless = 1
       THEN /\ s2c' = <<>> /\ closed' = "no" /\ spc' = "loop" /\ writec' = "none"
            /\ sround' = 1 /\ shaves' = {}
            /\ UNCHANGED <<sobjs, req, sbatch, sdone>>
       ELSE UNCHANGED <<s2c, closed, server>>
    /\ UNCHANGED <<request, store, haves, round, batch, inVein, gotContinue, done, info, result>>

ExpectShallows == depth > 0 /\ (round = 1 \/ Stateless = 1)

\* readShallows.  It tests the address of the caller's variable, which is never
\* nil, so that the update is read and dropped.
ReadShallows ==
    /\ rd = "shallows"
    /\ ExpectShallows => s2c # <<>> /\ Head(s2c).k = "shupd"
    /\ s2c' = IF ExpectShallows THEN Tail(s2c) ELSE s2c
    /\ info' = info
    /\ rd' = "ok"
    /\ UNCHANGED <<request, store, haves, cpc, round, batch, inVein, gotContinue, done, result, said,
                   c2s, closed, server>>

\* Reading the server-response, line by line, up to a NAK or a plain ACK.
ReadAcks ==
    /\ cpc = "answer" /\ rd = "ok" /\ CWritten
    /\ s2c # <<>> /\ Head(s2c).k = "acks"
    /\ gotContinue' = 1
    /\ s2c' = Tail(s2c)
    /\ UNCHANGED <<request, store, haves, cpc, rd, round, batch, inVein, done, info, result, said,
                   c2s, closed, server>>

ReadAnswer ==
    /\ cpc = "answer" /\ rd = "ok" /\ CWritten
    /\ s2c # <<>> /\ Head(s2c).k \in {"ack", "nak"}
    /\ s2c' = Tail(s2c)
    /\ cpc' = IF done = 1 THEN "pack" ELSE "round"
    /\ round' = 2 /\ rd' = "none"
    /\ UNCHANGED <<request, store, haves, batch, inVein, gotContinue, done, info, result, said,
                   c2s, closed, server>>

\* FetchPack: the objects are stored, then the shallow commits.
FetchPack ==
    /\ cpc = "pack" /\ s2c # <<>> /\ Head(s2c).k = "pack"
    /\ s2c' = Tail(s2c)
    /\ cobjs' = cobjs \cup Head(s2c).objs
    /\ cshallow' = IF info = Nil THEN cshallow ELSE updateShallow(cshallow, info)
    /\ cpc' = "done" /\ result' = "ok"
    /\ UNCHANGED <<request, haves, rd, round, batch, inVein, gotContinue, done, info, said,
                   c2s, closed, server>>

\* What is in the stream is not what the client has to read next.
Unexpected ==
    /\ s2c # <<>>
    /\ \/ cpc = "pack" /\ Head(s2c).k # "pack"
       \/ cpc = "answer" /\ rd = "ok" /\ Head(s2c).k \notin {"acks", "ack", "nak"}
       \/ rd = "shallows" /\ ExpectShallows /\ Head(s2c).k # "shupd"

Broken ==
    \/ Unexpected
    \/ use.fails = 1 /\ cpc = "pack" /\ s2c # <<>>
    \/ HungUpOn /\ cpc = "haves"
    \/ Stateless = 1 /\ closed = "yes" /\ s2c = <<>> /\ cpc = "answer"

\* The fetch fails: on an unexpected line, on a failure to unpack, or because
\* the server has failed.  On a pipe it does so before it reads haves, and the
\* client fails to write them; over HTTP the answer has the status 500, or ends
\* with the text of it (backend/http).  An answer that just ended would not be
\* an error: the decoders take an EOF for the end of it.
FetchFails ==
    /\ Broken
    /\ cpc' = "done" /\ rd' = "none" /\ result' = "error"
    /\ UNCHANGED <<request, store, haves, round, batch, inVein, gotContinue, done, info, said,
                   c2s, s2c, closed, server>>

----------------------------------------------------------------------------
(* The server. *)

\* The server returns early: on an error the file transport closes the pipes,
\* and the HTTP handler ends the response.
ServerReturns ==
    /\ spc' = "done" /\ closed' = "yes"
    /\ UNCHANGED <<request, store, client, s2c, sobjs, writec, sround, req, shaves, sbatch, sdone>>

\* A flush instead of a request, or nothing left to read in a later turn of
\* the loop over HTTP.
NoRequest ==
    /\ spc = "loop" /\ (sround = 1 \/ Stateless = 1)
    /\ \/ c2s # <<>> /\ Head(c2s).k = "flush" /\ c2s' = Tail(c2s)
       \/ c2s = <<>> /\ Stateless = 1 /\ c2s' = c2s
    /\ ServerReturns

\* ObjectsWithRef fails on a want that the server does not have.
UnknownWant ==
    /\ spc = "loop" /\ (sround = 1 \/ Stateless = 1)
    /\ c2s # <<>> /\ Head(c2s).k = "upreq" /\ ~(Head(c2s).wants \subseteq sobjs)
    /\ c2s' = Tail(c2s)
    /\ ServerReturns

\* The request is decoded, r is closed, and a goroutine is started for the
\* shallow update.
ReadRequest ==
    /\ spc = "loop" /\ (sround = 1 \/ Stateless = 1)
    /\ c2s # <<>> /\ Head(c2s).k = "upreq" /\ Head(c2s).wants \subseteq sobjs
    /\ req' = Head(c2s)
    /\ c2s' = Tail(c2s)
    /\ spc' = "await" /\ writec' = "shallow"
    /\ UNCHANGED <<request, store, client, s2c, closed, sobjs, sround, shaves, sbatch, sdone>>

\* A later turn of the loop on a pipe: writec is a new channel that no
\* goroutine writes to.
NextTurn ==
    /\ spc = "loop" /\ sround # 1 /\ Stateless = 0
    /\ spc' = "await" /\ writec' = "none"
    /\ UNCHANGED <<request, store, client, c2s, s2c, closed, sobjs, sround, req, shaves, sbatch,
                   sdone>>

\* The goroutine of the shallow update.
WriteShallows ==
    /\ writec = "shallow"
    /\ s2c' = IF req.depth = 0 THEN s2c
              ELSE Append(s2c, [k |-> "shupd", upd |-> getShallowCommits(req.wants, req.depth)])
    /\ writec' = "sent"
    /\ UNCHANGED <<request, store, client, c2s, closed, sobjs, spc, sround, req, shaves, sbatch,
                   sdone>>

Await ==
    /\ spc = "await" /\ writec = "sent" /\ Written(s2c)
    /\ spc' = "haves" /\ writec' = "none"
    /\ UNCHANGED <<request, store, client, c2s, s2c, closed, sobjs, sround, req, shaves, sbatch,
                   sdone>>

\* Mutant of Buffered: one hash less fits.
BufferedLess(m) == Stateless = 1 => Cardinality(req.wants) + Cardinality(m.haves) < use.rdBuf

\* Over HTTP the body is closed by now, and only what the bufio.Reader holds
\* can still be read.
Buffered(m) == Stateless = 1 => Cardinality(req.wants) + Cardinality(m.haves) <= use.rdBuf

ReadHaves ==
    /\ spc = "haves" /\ c2s # <<>> /\ Buffered(Head(c2s))
    /\ sbatch' = Head(c2s).haves
    /\ shaves' = shaves \cup Head(c2s).haves
    /\ sdone' = Head(c2s).done
    /\ c2s' = Tail(c2s)
    /\ spc' = "acks"
    /\ UNCHANGED <<request, store, client, s2c, closed, sobjs, writec, sround, req>>

HavesLost ==
    /\ spc = "haves" /\ c2s # <<>> /\ ~Buffered(Head(c2s))
    /\ c2s' = Tail(c2s)
    /\ ServerReturns

Multi == req.mode \in {"multi", "detailed"}
Common == sbatch \cap AncOf(req.wants)
\* ack.Hash is not zero: some have was acknowledged in this round.
Acked == IF Multi THEN sbatch # {} ELSE Common # {}

\* With a multi_ack mode every have is acknowledged, as common or as ready.
Acks ==
    IF Multi /\ sbatch # {}
    THEN [k |-> "acks", common |-> IF req.mode = "detailed" THEN Common ELSE sbatch,
          ready |-> IF req.mode = "detailed" THEN sbatch \ Common ELSE {}]
    ELSE IF Acked THEN [k |-> "ack"] ELSE [k |-> "nak"]

\* Mutant of WriteAcks: a request without haves is answered too.
WriteAcksAlways ==
    /\ spc = "acks"
    /\ s2c' = Append(s2c, Acks)
    /\ spc' = "final"
    /\ UNCHANGED <<request, store, client, c2s, closed, sobjs, writec, sround, req, shaves, sbatch,
                   sdone>>

WriteAcks ==
    /\ spc = "acks"
    /\ s2c' = IF shaves = {} THEN s2c ELSE Append(s2c, Acks)
    /\ spc' = "final"
    /\ UNCHANGED <<request, store, client, c2s, closed, sobjs, writec, sround, req, shaves, sbatch,
                   sdone>>

\* What ends the answer of the round, if anything.
Final ==
    CASE sdone = 0 /\ Multi -> <<[k |-> "nak"]>>
      [] sdone = 0 /\ ~Multi -> <<>>
      [] sdone = 1 /\ Acked /\ Multi -> <<[k |-> "ack"]>>
      [] sdone = 1 /\ Acked /\ ~Multi -> <<>>
      [] sdone = 1 /\ ~Acked -> <<[k |-> "nak"]>>

WriteFinal ==
    /\ spc = "final" /\ Written(s2c)
    /\ s2c' = s2c \o Final
    /\ spc' = IF sdone = 1 THEN "send" ELSE "loop"
    /\ sround' = 2
    /\ UNCHANGED <<request, store, client, c2s, closed, sobjs, writec, req, shaves, sbatch, sdone>>

SendPack ==
    /\ spc = "send" /\ Written(s2c)
    /\ s2c' = Append(s2c, [k |-> "pack", objs |-> objectsToUpload(req.wants, shaves)])
    /\ spc' = "done" /\ closed' = "yes"
    /\ UNCHANGED <<request, store, client, c2s, sobjs, writec, sround, req, shaves, sbatch, sdone>>

----------------------------------------------------------------------------

\* The client is back; the server may be left behind.
Terminated == cpc = "done" /\ UNCHANGED vars

ClientNext ==
    \/ NoChange \/ SendRequest \/ SendHaves \/ ReadShallows \/ ReadAcks \/ ReadAnswer
    \/ FetchPack \/ FetchFails

ServerNext ==
    \/ NoRequest \/ UnknownWant \/ ReadRequest \/ NextTurn \/ WriteShallows \/ Await
    \/ ReadHaves \/ HavesLost \/ WriteAcks \/ WriteFinal \/ SendPack

Next == ClientNext \/ ServerNext \/ Terminated

Spec == Init /\ [][Next]_vars

\* Go schedules every runnable goroutine, and neither side stops by itself.
FairSpec == Spec /\ WF_vars(ClientNext) /\ WF_vars(ServerNext)

----------------------------------------------------------------------------

\* Every variable has its type, the messages are those of the protocol, and
\* inVein counts the haves that were sent.
TypeOK ==
    /\ use \in Uses
    /\ cobjs \subseteq Commits /\ cshallow \subseteq Commits /\ sobjs \subseteq Commits
    /\ wants \subseteq Commits /\ said \subseteq Commits /\ depth \in Nat /\ mode \in {"single", "multi", "detailed"}
    /\ haves \in Seq(Commits) /\ batch \subseteq Commits
    /\ cpc \in {"round", "haves", "answer", "pack", "done"}
    /\ rd \in {"none", "shallows", "ok"}
    /\ round \in {1, 2} /\ sround \in {1, 2}
    /\ inVein \in Nat /\ (cpc \in {"answer", "pack"} => inVein = Cardinality(said))
    /\ gotContinue \in {0, 1} /\ done \in {0, 1}
    /\ result \in {"none", "nochange", "ok", "error"}
    /\ closed \in {"no", "yes"}
    /\ spc \in {"idle", "loop", "await", "haves", "acks", "final", "send", "done"}
    /\ writec \in {"none", "shallow", "sent"}
    /\ shaves \subseteq Commits /\ sbatch \subseteq Commits /\ sdone \in {0, 1}
    /\ \A m \in Range(c2s) : m.k \in {"flush", "upreq", "haves"}
    /\ \A m \in Range(s2c) : m.k \in {"shupd", "acks", "ack", "nak", "pack"}

\* After a fetch the client has the commits it asked for, and the parents of
\* every commit it has that is not marked as shallow, provided that it did not
\* start from a shallow repository (FetchPack stores what the server computed
\* from the haves).
HistoryComplete ==
    (\A cs \in use.clients : cs[2] = {}) =>
        /\ result = "ok" => wants \subseteq cobjs
        /\ \A c \in cobjs \ cshallow : ParentsOf(c) \subseteq cobjs

\* Client and server agree on where they are: nothing but the packfile is in the
\* stream when NegotiatePack has returned, and no line comes when another one
\* is expected.  Without multi_ack UploadPack may answer with two NAKs.
InStep == mode # "single" => ~Unexpected

\* A want the server has is fetched: with nothing failing on either side, and
\* a request that fits the server's buffer, the fetch does not end in an error.
FetchSucceeds ==
    /\ use.fails = 0 /\ mode # "single" /\ wants \subseteq sobjs
    /\ Stateless = 1 => Cardinality(wants) + Batch <= use.rdBuf
    => result # "error"

\* The call returns: NegotiatePack sends at most 32 haves in a round and goes
\* on until it has sent them all (negotiate.go:113-223).
NegotiationEnds == <>(cpc = "done")

\* It does over HTTP, and on a pipe when the haves fit one round.
FetchReturns == (Stateless = 1 \/ use.maxHaves <= Batch) => NegotiationEnds

====
